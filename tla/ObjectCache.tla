---------------------------- MODULE ObjectCache ----------------------------
(***************************************************************************)
(* ObjectCache::get_result of src/src/cache.rs: a map of keys to shared,   *)
(* lazily completed cells, with a time to live, an optional size limit     *)
(* with least-recently-used eviction, and a periodic sweep.                *)
(*                                                                         *)
(* Every call of get_result is a process.  Its steps are the stretches of  *)
(* code that run without giving way to another call: the clock is read     *)
(* before the lock is taken, the lookup runs under the lock, whether the   *)
(* cell has a result is asked again after the unlock, the producer is      *)
(* awaited, and a failed result takes the lock a second time.              *)
(*                                                                         *)
(* A cell is named after the call that put it in the map: a call inserts   *)
(* at most one.  The LRU list `keys` is kept as lastUse: 0 for a key that  *)
(* is not in the list, else the number of the lookup that last moved the   *)
(* key to the back, so that a smaller number stands nearer to the front.   *)
(***************************************************************************)
EXTENDS Integers, FiniteSets

CONSTANTS Key,            (* the cache keys                                *)
          Request,        (* the calls of get_result                       *)
          Cancellable,    (* the calls whose future may be dropped, or     *)
                          (* whose producer may panic                      *)
          NoCell,         (* not a call: the map has no entry              *)
          Ttl,            (* ttl_seconds                                   *)
          Bounded,        (* whether `size` is Some                        *)
          Size,           (* the size when Bounded                         *)
          CleanupPeriod,  (* cleanup_period, in seconds                    *)
          MaxTime         (* bound of the model on the clock               *)

ASSUME CacheAssumption ==
    /\ NoCell \notin Request
    /\ Key # {}
    /\ Cancellable \subseteq Request
    /\ Ttl \in Nat \ {0}
    /\ Bounded \in BOOLEAN
    /\ Size \in Nat \ {0}
    /\ CleanupPeriod \in Nat
    /\ MaxTime \in Nat

VARIABLES now,            (* the wall clock                                *)
          pc,             (* where each call is                            *)
          key,            (* the key each call asks for                    *)
          at,             (* the clock each call has read                  *)
          cell,           (* the cell each call holds                      *)
          result,         (* per cell: "empty", "ok" or "err"              *)
          since,          (* per cell: when its producer last began        *)
          cache,          (* Inner::cache                                  *)
          lastUse,        (* Inner::keys                                   *)
          lastCleanup,    (* Inner::last_cleanup                           *)
          total,          (* Inner::total_count                            *)
          hits            (* Inner::total_hit_count                        *)

inner == <<cache, lastUse, lastCleanup, total, hits>>
vars == <<now, pc, key, at, cell, result, since, inner>>

\* "fail" holds a failed result whose entry is not yet removed, "gone" is a
\* call that was dropped.
Stage == {"idle", "lookup", "check", "wait", "run", "fail", "done", "gone"}

TypeOK ==
    /\ now \in Nat
    /\ pc \in [Request -> Stage]
    /\ key \in [Request -> Key]
    /\ at \in [Request -> Nat]
    /\ cell \in [Request -> Request \cup {NoCell}]
    /\ result \in [Request -> {"empty", "ok", "err"}]
    /\ since \in [Request -> Nat]
    /\ cache \in [Key -> Request \cup {NoCell}]
    /\ lastUse \in [Key -> Nat]
    /\ lastCleanup \in Nat
    /\ total \in Nat
    /\ hits \in Nat

\* last_cleanup starts at 0 and the clock counts from 1970: the first lookup
\* of a cache always sweeps.
StartTime == CleanupPeriod + 1

Init ==
    /\ now = StartTime
    /\ pc = [r \in Request |-> "idle"]
    /\ \E k \in Key : key = [r \in Request |-> k]
    /\ at = [r \in Request |-> StartTime]
    /\ cell = [r \in Request |-> NoCell]
    /\ result = [r \in Request |-> "empty"]
    /\ since = [r \in Request |-> StartTime]
    /\ cache = [k \in Key |-> NoCell]
    /\ lastUse = [k \in Key |-> 0]
    /\ lastCleanup = 0
    /\ total = 0
    /\ hits = 0
-----------------------------------------------------------------------------
Expires(c) == at[c] + Ttl

\* Mutant: only a complete entry is reused, one in flight is claimed again.
ValidIfComplete(c, t) == c # NoCell /\ t < Expires(c) /\ result[c] # "empty"

\* Mutant: an entry is still served in the second it expires.
ValidTooLong(c, t) == c # NoCell /\ t <= Expires(c)

\* c is an entry, complete or in flight, and still valid at time t.
Valid(c, t) == c # NoCell /\ t < Expires(c)

CleanupDue(t) == t > lastCleanup + CleanupPeriod

\* The keys a lookup at time t drops first, when the sweep is due.
SweptKeys(t) ==
    {k \in Key : CleanupDue(t) /\ cache[k] # NoCell /\ ~Valid(cache[k], t)}

\* Mutants: a removal forgets the list, or leaves no proper position.
ListUntouched(u, K) == u
ListUnderflow(u, K) == [k \in Key |-> IF k \in K THEN u[k] - total - 1 ELSE u[k]]

\* The map m without the keys K, and the list u without them.
MapWithout(m, K) == [k \in Key |-> IF k \in K THEN NoCell ELSE m[k]]
ListWithout(u, K) == [k \in Key |-> IF k \in K THEN 0 ELSE u[k]]

Cached(m) == {k \in Key : m[k] # NoCell}

\* Mutant: the back of the list goes.
Newest(u) ==
    {k \in Key : u[k] # 0 /\ \A j \in Key : u[j] # 0 => u[k] >= u[j]}

\* The front of the list u, as a set that is empty when the list is.
Oldest(u) ==
    {k \in Key : u[k] # 0 /\ \A j \in Key : u[j] # 0 => u[k] <= u[j]}

\* Mutant: the insertion that overfills the cache evicts nothing.
EvictedLate(m, u) ==
    IF Bounded /\ Cardinality(Cached(m)) > Size THEN Oldest(u) ELSE {}

\* At capacity the front of the list goes, from the list and the map.
Evicted(m, u) ==
    IF Bounded /\ Cardinality(Cached(m)) >= Size THEN Oldest(u) ELSE {}

SetCleanup(t) == lastCleanup' = IF CleanupDue(t) THEN t ELSE lastCleanup
-----------------------------------------------------------------------------
\* The wall clock moves on.
Tick ==
    /\ now < MaxTime
    /\ now' = now + 1
    /\ UNCHANGED <<pc, key, at, cell, result, since, inner>>

\* A handler calls get_result, which reads the clock before taking the lock.
Call(r, k) ==
    /\ pc[r] = "idle"
    /\ pc' = [pc EXCEPT ![r] = "lookup"]
    /\ key' = [key EXCEPT ![r] = k]
    /\ at' = [at EXCEPT ![r] = now]
    /\ UNCHANGED <<now, cell, result, since, inner>>

\* The lookup under the lock finds a valid entry, complete or in flight.
Reuse(r) ==
    LET t == at[r]
        k == key[r]
        c == cache[k]
        u == ListWithout(lastUse, SweptKeys(t))
    IN  /\ pc[r] = "lookup"
        /\ Valid(c, t)
        /\ cache' = MapWithout(cache, SweptKeys(t))
        /\ lastUse' = IF Bounded THEN [u EXCEPT ![k] = total + 1] ELSE u
        /\ SetCleanup(t)
        /\ total' = total + 1
        /\ hits' = IF result[c] = "empty" THEN hits ELSE hits + 1
        /\ cell' = [cell EXCEPT ![r] = c]
        /\ pc' = [pc EXCEPT ![r] = "check"]
        /\ UNCHANGED <<now, key, at, result, since>>

\* The lookup under the lock finds no valid entry and claims the key.
Claim(r) ==
    LET t == at[r]
        k == key[r]
        m == MapWithout(cache, SweptKeys(t))
        u == ListWithout(lastUse, SweptKeys(t))
        e == Evicted(m, u)
    IN  /\ pc[r] = "lookup"
        /\ ~Valid(cache[k], t)
        /\ cache' = [MapWithout(m, e) EXCEPT ![k] = r]
        /\ lastUse' = [ListWithout(u, e) EXCEPT ![k] = total + 1]
        /\ SetCleanup(t)
        /\ total' = total + 1
        /\ cell' = [cell EXCEPT ![r] = r]
        /\ pc' = [pc EXCEPT ![r] = "wait"]
        /\ UNCHANGED <<now, key, at, result, since, hits>>

\* Mutant: a reused entry is taken to be complete.
CheckNothing(r) ==
    /\ pc[r] = "check"
    /\ pc' = [pc EXCEPT ![r] = "done"]
    /\ UNCHANGED <<now, key, at, cell, result, since, inner>>

\* After the unlock a reusing call looks at the cell once more: a complete
\* one is returned as it is, success or failure.
Check(r) ==
    /\ pc[r] = "check"
    /\ pc' = [pc EXCEPT ![r] =
                 IF result[cell[r]] = "empty" THEN "wait" ELSE "done"]
    /\ UNCHANGED <<now, key, at, cell, result, since, inner>>

\* Mutant: only the call that claimed the key ever runs a producer.
MayDriveOwn(r) == result[cell[r]] = "empty" /\ cell[r] = r

\* Any call that waits on an empty cell without a running producer may run
\* its own: it passed its creator to get_or_init.
MayDrive(r) ==
    /\ result[cell[r]] = "empty"
    /\ \A s \in Request : pc[s] = "run" => cell[s] # cell[r]

\* OnceCell::get_or_init hands the one permit of an empty cell to a caller,
\* which runs its own producer.
Acquire(r) ==
    /\ pc[r] = "wait"
    /\ MayDrive(r)
    /\ pc' = [pc EXCEPT ![r] = "run"]
    /\ since' = [since EXCEPT ![cell[r]] = now]
    /\ UNCHANGED <<now, key, at, cell, result, inner>>

\* Mutant: a failure is returned and stays in the cache.
LeaveAlways(r, o) == pc' = [pc EXCEPT ![r] = "done"]

\* A call holding outcome o of get_or_init returns it, or has to remove it.
Leave(r, o) == pc' = [pc EXCEPT ![r] = IF o = "err" THEN "fail" ELSE "done"]

\* The producer ends and the cell is set.
Produce(r, o) ==
    /\ pc[r] = "run"
    /\ result' = [result EXCEPT ![cell[r]] = o]
    /\ Leave(r, o)
    /\ UNCHANGED <<now, key, at, cell, since, inner>>

\* A waiting call wakes up (or arrives) to a cell that is set.
Join(r) ==
    /\ pc[r] = "wait"
    /\ result[cell[r]] # "empty"
    /\ Leave(r, result[cell[r]])
    /\ UNCHANGED <<now, key, at, cell, result, since, inner>>

\* Mutant: the generation of the entry is not compared.
FailedKeyUnchecked(r) == {key[r]}

\* The key call r removes with its failure, if its entry is this very cell.
FailedKey(r) == IF cache[key[r]] = cell[r] THEN {key[r]} ELSE {}

\* A failure is not cached: the entry goes, unless it is a newer generation.
DropFailed(r) ==
    /\ pc[r] = "fail"
    /\ cache' = MapWithout(cache, FailedKey(r))
    /\ lastUse' = ListWithout(lastUse, FailedKey(r))
    /\ pc' = [pc EXCEPT ![r] = "done"]
    /\ UNCHANGED <<now, key, at, cell, result, since, lastCleanup, total, hits>>

\* The future is dropped at its await (try_join! gives up the histogram when
\* the grid query fails) or its producer panics: a held permit is released.
Cancel(r) ==
    /\ r \in Cancellable
    /\ pc[r] \in {"wait", "run"}
    /\ pc' = [pc EXCEPT ![r] = "gone"]
    /\ UNCHANGED <<now, key, at, cell, result, since, inner>>

\* The steps a call takes by itself once it is made.
Step(r) ==
    \/ Reuse(r)
    \/ Claim(r)
    \/ Check(r)
    \/ Acquire(r)
    \/ \E o \in {"ok", "err"} : Produce(r, o)
    \/ Join(r)
    \/ DropFailed(r)

Next ==
    \/ Tick
    \/ \E r \in Request :
          \/ \E k \in Key : Call(r, k)
          \/ Step(r)
          \/ Cancel(r)

Spec == Init /\ [][Next]_vars

\* The runtime polls every task that can run, and a producer returns: its
\* queries end or fail.  Calls, cancellations and the clock owe nothing.
Fairness == \A r \in Request : WF_vars(Step(r))

FairSpec == Spec /\ Fairness
-----------------------------------------------------------------------------
(* Properties *)

\* The LRU list and the map hold the same keys: an entry missing from the
\* list can never be evicted, a stale name in it makes an eviction remove
\* nothing (cache.rs keeps two containers in step in five places).
ListMatchesMap == \A k \in Key : lastUse[k] # 0 <=> cache[k] # NoCell

\* A capped cache never holds more than `size` entries, whatever fails,
\* expires or is claimed at the same time (the 100/400 local grid entries).
WithinSize == Bounded => Cardinality(Cached(cache)) <= Size

\* An answer comes from a producer for the key asked for, that began less
\* than the time to live before the call, however long it then waited.
AnswerFresh ==
    \A r \in Request : pc[r] = "done" =>
        /\ result[cell[r]] # "empty"
        /\ key[cell[r]] = key[r]
        /\ since[cell[r]] > at[r] - Ttl

\* "Failed computations are not retained": while the map holds a failed cell,
\* a call that has the failure in hand is still on its way to remove it.
FailureNotRetained ==
    \A k \in Key : cache[k] # NoCell /\ result[cache[k]] = "err" =>
        \E r \in Request : pc[r] = "fail" /\ cell[r] = cache[k]

\* Two producers for one key at a time are runs of different cells, of which
\* at least one has outlived its time to live (an uncapped cache).
DuplicateOnlyAfterExpiry ==
    ~Bounded => \A r, s \in Request :
        pc[r] = "run" /\ pc[s] = "run" /\ r # s /\ key[r] = key[s] =>
            /\ cell[r] # cell[s]
            /\ \E q \in {r, s} : now >= Expires(cell[q])

\* An uncapped cache gives up an entry only when it has expired or failed: the
\* late failure of one generation never takes a newer one with it.
UnexpiredKept ==
    [][~Bounded => \A k \in Key :
          cache[k] # NoCell /\ cache'[k] # cache[k] =>
              now >= Expires(cache[k]) \/ result[cache[k]] = "err"]_vars

\* An entry that has neither expired nor failed goes only from a full cache; it
\* is the one unused for longest, and no other entry, expired or not, goes with
\* it.
EvictsLeastRecentlyUsed ==
    [][\A k \in Key :
          /\ cache[k] # NoCell /\ cache'[k] = NoCell
          /\ now < Expires(cache[k]) /\ result[cache[k]] # "err"
          => /\ Bounded /\ Cardinality(Cached(cache)) = Size
             /\ \A j \in Key \ {k} :
                   /\ cache[j] # NoCell => cache'[j] # NoCell
                   /\ cache'[j] # NoCell => lastUse'[j] > lastUse[k]]_vars

\* Every call is answered, also when the call that drives the producer is
\* dropped half way: a waiting one takes over.
EveryCallAnswered ==
    \A r \in Request : pc[r] = "lookup" ~> pc[r] \in {"done", "gone"}
-----------------------------------------------------------------------------
(* The contract with the callers *)

\* The run that completed, or runs, in cell c.
RunOf(c) == [key |-> key[c], since |-> since[c], outcome |-> result[c]]

\* What the callers see of the stages, the cells and the results.
StatusSeen ==
    [r \in Request |-> CASE pc[r] = "idle" -> "idle"
                         [] pc[r] = "done" -> "answered"
                         [] pc[r] = "gone" -> "gone"
                         [] OTHER -> "pending"]
RunsSeen == {RunOf(c) : c \in {d \in Request : result[d] # "empty"}}
AnswersSeen == [r \in Request |-> IF pc[r] = "done" THEN {RunOf(cell[r])} ELSE {}]

Contract == INSTANCE CacheContract WITH
    status <- StatusSeen, wanted <- key, called <- at,
    runs <- RunsSeen, answer <- AnswersSeen

\* get_result keeps the contract of its callers.
ImplementsContract == Contract!Spec
=============================================================================
