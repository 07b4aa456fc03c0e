------------------------ MODULE ObjectCacheProofs --------------------------
(***************************************************************************)
(* Proofs about ObjectCache for every number of keys and calls, every time *)
(* to live, size and sweep period.                                         *)
(***************************************************************************)
EXTENDS ObjectCache, Lemmas

\* A call that has been through the lookup: it holds a cell.
Held(r) == pc[r] \notin {"idle", "lookup"}

\* The cell a call holds was inserted by a call for the same key, and was
\* still valid when the holder looked it up.
CellsHeld ==
    \A r \in Request : Held(r) =>
        /\ cell[r] \in Request
        /\ Held(cell[r])
        /\ key[cell[r]] = key[r]
        /\ at[r] < Expires(cell[r])

\* The map's entries are such cells too.
EntriesHeld ==
    \A k \in Key : cache[k] # NoCell => Held(cache[k]) /\ key[cache[k]] = k

\* A call has read its clock in the past.
ClocksPast == \A r \in Request : at[r] <= now

\* A cell with a result, or with a producer under way, is one that a call
\* inserted, and the producer began after that call read its clock.
ProducersLate ==
    /\ \A c \in Request : result[c] # "empty" => Held(c) /\ since[c] >= at[c]
    /\ \A r \in Request : pc[r] = "run" => since[cell[r]] >= at[cell[r]]

\* A producer runs on an empty cell and has it for itself.
OneDriver ==
    \A r \in Request : pc[r] = "run" =>
        /\ result[cell[r]] = "empty"
        /\ \A s \in Request : pc[s] = "run" /\ cell[s] = cell[r] => s = r

\* A call leaves get_or_init with the result of its cell.
LeavesWithResult ==
    \A r \in Request :
        /\ pc[r] = "done" => result[cell[r]] # "empty"
        /\ pc[r] = "fail" => result[cell[r]] = "err"

\* Without a size limit, a cell that calls wait for stays in the map until it
\* expires.
InFlightInMap ==
    ~Bounded => \A r \in Request :
        pc[r] \in {"check", "wait", "run"} /\ result[cell[r]] = "empty" =>
            cache[key[r]] = cell[r] \/ now >= Expires(cell[r])

IInv ==
    /\ TypeOK
    /\ CellsHeld
    /\ EntriesHeld
    /\ ClocksPast
    /\ ProducersLate
    /\ OneDriver
    /\ LeavesWithResult
    /\ InFlightInMap
    /\ ListMatchesMap
    /\ FailureNotRetained
-----------------------------------------------------------------------------
USE CacheAssumption

(* A removal keeps the type of the map and of the list, and changes no other  *)
(* key (Inner::remove_oldest_entry, clean_expired, the removal of a failure). *)
LEMMA WithoutFacts ==
    ASSUME NEW m \in [Key -> Request \cup {NoCell}],
           NEW u \in [Key -> Nat],
           NEW K
    PROVE  /\ MapWithout(m, K) \in [Key -> Request \cup {NoCell}]
           /\ ListWithout(u, K) \in [Key -> Nat]
           /\ \A k \in Key : MapWithout(m, K)[k] = IF k \in K THEN NoCell ELSE m[k]
           /\ \A k \in Key : ListWithout(u, K)[k] = IF k \in K THEN 0 ELSE u[k]
  BY DEF MapWithout, ListWithout

(* A claim drops some keys, swept or (when the cache is capped) evicted, from *)
(* the map and the list alike, and puts its own key in both.                  *)
LEMMA ClaimEffect ==
    ASSUME TypeOK, NEW r \in Request, Claim(r)
    PROVE  /\ cache' \in [Key -> Request \cup {NoCell}]
           /\ lastUse' \in [Key -> Nat]
           /\ \E D \in SUBSET Key :
                 /\ \A k \in D : k \in SweptKeys(at[r]) \/ Bounded
                 /\ \A k \in Key :
                       /\ cache'[k] = IF k = key[r] THEN r
                                      ELSE IF k \in D THEN NoCell ELSE cache[k]
                       /\ lastUse'[k] = IF k = key[r] THEN total + 1
                                        ELSE IF k \in D THEN 0 ELSE lastUse[k]
<1> DEFINE W == SweptKeys(at[r])
           m == MapWithout(cache, W)
           u == ListWithout(lastUse, W)
           e == Evicted(m, u)
           D == W \cup e
<1>1. /\ cache \in [Key -> Request \cup {NoCell}]
      /\ lastUse \in [Key -> Nat]
      /\ total \in Nat
      /\ key[r] \in Key
  BY DEF TypeOK
<1>2. /\ m \in [Key -> Request \cup {NoCell}]
      /\ u \in [Key -> Nat]
      /\ \A k \in Key : m[k] = IF k \in W THEN NoCell ELSE cache[k]
      /\ \A k \in Key : u[k] = IF k \in W THEN 0 ELSE lastUse[k]
  BY <1>1, WithoutFacts
<1>3. /\ MapWithout(m, e) \in [Key -> Request \cup {NoCell}]
      /\ ListWithout(u, e) \in [Key -> Nat]
      /\ \A k \in Key : MapWithout(m, e)[k] = IF k \in e THEN NoCell ELSE m[k]
      /\ \A k \in Key : ListWithout(u, e)[k] = IF k \in e THEN 0 ELSE u[k]
  <2> HIDE DEF m, u, e
  <2> QED
    BY <1>2, WithoutFacts
<1>4. /\ cache' = [MapWithout(m, e) EXCEPT ![key[r]] = r]
      /\ lastUse' = [ListWithout(u, e) EXCEPT ![key[r]] = total + 1]
  BY DEF Claim
<1>5. D \subseteq Key /\ \A k \in D : k \in W \/ Bounded
  BY DEF SweptKeys, Evicted, Oldest
<1>6. \A k \in Key :
         /\ cache'[k] = IF k = key[r] THEN r
                        ELSE IF k \in D THEN NoCell ELSE cache[k]
         /\ lastUse'[k] = IF k = key[r] THEN total + 1
                          ELSE IF k \in D THEN 0 ELSE lastUse[k]
  <2> HIDE DEF m, u, e, W
  <2> QED
    BY <1>1, <1>2, <1>3, <1>4
<1>7. cache' \in [Key -> Request \cup {NoCell}] /\ lastUse' \in [Key -> Nat]
  <2> HIDE DEF m, u, e, W
  <2> QED
    BY <1>1, <1>3, <1>4
<1> HIDE DEF D
<1> QED
  BY <1>5, <1>6, <1>7

(* A reuse drops the swept keys only, never its own.                          *)
LEMMA ReuseEffect ==
    ASSUME TypeOK, NEW r \in Request, Reuse(r)
    PROVE  /\ cache' \in [Key -> Request \cup {NoCell}]
           /\ lastUse' \in [Key -> Nat]
           /\ key[r] \notin SweptKeys(at[r])
           /\ \A k \in Key :
                 /\ cache'[k] = IF k \in SweptKeys(at[r]) THEN NoCell ELSE cache[k]
                 /\ lastUse'[k] = IF k \in SweptKeys(at[r]) THEN 0
                                  ELSE IF Bounded /\ k = key[r] THEN total + 1
                                  ELSE lastUse[k]
<1> DEFINE W == SweptKeys(at[r])
           u == ListWithout(lastUse, W)
<1>1. /\ cache \in [Key -> Request \cup {NoCell}]
      /\ lastUse \in [Key -> Nat]
      /\ total \in Nat
      /\ key[r] \in Key
  BY DEF TypeOK
<1>2. key[r] \notin W
  BY DEF Reuse, SweptKeys
<1>3. /\ cache' = MapWithout(cache, W)
      /\ lastUse' = IF Bounded THEN [u EXCEPT ![key[r]] = total + 1] ELSE u
  BY DEF Reuse
<1>4. /\ MapWithout(cache, W) \in [Key -> Request \cup {NoCell}]
      /\ u \in [Key -> Nat]
      /\ \A k \in Key : MapWithout(cache, W)[k] = IF k \in W THEN NoCell ELSE cache[k]
      /\ \A k \in Key : u[k] = IF k \in W THEN 0 ELSE lastUse[k]
  BY <1>1, WithoutFacts
<1> HIDE DEF u
<1> QED
  BY <1>1, <1>2, <1>3, <1>4

(* The state is of its type: every step writes values of the declared sets. *)
THEOREM TypeCorrect == Spec => []TypeOK
<1>1. Init => TypeOK
  BY DEF Init, TypeOK, StartTime, Stage
<1>2. TypeOK /\ [Next]_vars => TypeOK'
  <2> SUFFICES ASSUME TypeOK, [Next]_vars PROVE TypeOK'
    OBVIOUS
  <2>1. CASE UNCHANGED vars
    BY <2>1 DEF TypeOK, vars, inner
  <2>2. CASE Tick
    BY <2>2 DEF Tick, TypeOK, inner
  <2>3. ASSUME NEW r \in Request, NEW k \in Key, Call(r, k) PROVE TypeOK'
    BY <2>3 DEF Call, TypeOK, Stage, inner
  <2>4. ASSUME NEW r \in Request, Reuse(r) PROVE TypeOK'
    <3>1. cache' \in [Key -> Request \cup {NoCell}] /\ lastUse' \in [Key -> Nat]
      BY <2>4, ReuseEffect
    <3>2. lastCleanup' \in Nat /\ total' \in Nat /\ hits' \in Nat
      BY <2>4 DEF Reuse, TypeOK, SetCleanup
    <3>3. pc' \in [Request -> Stage] /\ cell' \in [Request -> Request \cup {NoCell}]
      BY <2>4 DEF Reuse, TypeOK, Stage, Valid
    <3> QED
      BY <3>1, <3>2, <3>3, <2>4 DEF Reuse, TypeOK
  <2>5. ASSUME NEW r \in Request, Claim(r) PROVE TypeOK'
    BY <2>5, ClaimEffect DEF Claim, TypeOK, Stage, SetCleanup
  <2>6. ASSUME NEW r \in Request, Check(r) PROVE TypeOK'
    BY <2>6 DEF Check, TypeOK, Stage, inner
  <2>7. ASSUME NEW r \in Request, Acquire(r) PROVE TypeOK'
    BY <2>7 DEF Acquire, TypeOK, Stage, inner
  <2>8. ASSUME NEW r \in Request, NEW o \in {"ok", "err"}, Produce(r, o)
        PROVE  TypeOK'
    BY <2>8 DEF Produce, Leave, TypeOK, Stage, inner
  <2>9. ASSUME NEW r \in Request, Join(r) PROVE TypeOK'
    BY <2>9 DEF Join, Leave, TypeOK, Stage, inner
  <2>10. ASSUME NEW r \in Request, DropFailed(r) PROVE TypeOK'
    BY <2>10 DEF DropFailed, TypeOK, Stage, MapWithout, ListWithout
  <2>11. ASSUME NEW r \in Request, Cancel(r) PROVE TypeOK'
    BY <2>11 DEF Cancel, TypeOK, Stage, inner
  <2> QED
    BY <2>1, <2>2, <2>3, <2>4, <2>5, <2>6, <2>7, <2>8, <2>9, <2>10, <2>11
    DEF Next, Step
<1> QED
  BY <1>1, <1>2, PTL DEF Spec

(* Every step keeps the inductive invariant.                                  *)
LEMMA StepKeepsIInv == IInv /\ TypeOK' /\ [Next]_vars => IInv'
<1> SUFFICES ASSUME IInv, TypeOK', [Next]_vars PROVE IInv'
  OBVIOUS
<1> USE DEF Held, Expires
<1>1. CASE UNCHANGED vars
  <2>1. CellsHeld'
    BY <1>1 DEF IInv, TypeOK, CellsHeld, EntriesHeld, vars, inner
  <2>2. EntriesHeld'
    BY <1>1 DEF IInv, TypeOK, EntriesHeld, vars, inner
  <2>3. ClocksPast'
    BY <1>1 DEF IInv, TypeOK, ClocksPast, vars, inner
  <2>4. ProducersLate'
    BY <1>1 DEF IInv, TypeOK, ProducersLate, CellsHeld, ClocksPast, vars, inner
  <2>5. OneDriver'
    BY <1>1 DEF IInv, TypeOK, OneDriver, CellsHeld, vars, inner
  <2>6. LeavesWithResult'
    BY <1>1 DEF IInv, TypeOK, LeavesWithResult, OneDriver, CellsHeld, vars, inner
  <2>7. InFlightInMap'
    BY <1>1 DEF IInv, TypeOK, InFlightInMap, EntriesHeld, CellsHeld, ClocksPast, vars, inner
  <2>8. ListMatchesMap'
    BY <1>1 DEF IInv, TypeOK, ListMatchesMap, vars, inner
  <2>9. FailureNotRetained'
    BY <1>1 DEF IInv, TypeOK, FailureNotRetained, CellsHeld, EntriesHeld, ProducersLate, LeavesWithResult, OneDriver, vars, inner
  <2> QED
    BY <2>1, <2>2, <2>3, <2>4, <2>5, <2>6, <2>7, <2>8, <2>9 DEF IInv
<1>2. CASE Tick
  <2>1. CellsHeld'
    BY <1>2 DEF IInv, TypeOK, CellsHeld, EntriesHeld, Tick, inner
  <2>2. EntriesHeld'
    BY <1>2 DEF IInv, TypeOK, EntriesHeld, Tick, inner
  <2>3. ClocksPast'
    BY <1>2 DEF IInv, TypeOK, ClocksPast, Tick, inner
  <2>4. ProducersLate'
    BY <1>2 DEF IInv, TypeOK, ProducersLate, CellsHeld, ClocksPast, Tick, inner
  <2>5. OneDriver'
    BY <1>2 DEF IInv, TypeOK, OneDriver, CellsHeld, Tick, inner
  <2>6. LeavesWithResult'
    BY <1>2 DEF IInv, TypeOK, LeavesWithResult, OneDriver, CellsHeld, Tick, inner
  <2>7. InFlightInMap'
    BY <1>2 DEF IInv, TypeOK, InFlightInMap, EntriesHeld, CellsHeld, ClocksPast, Tick, inner
  <2>8. ListMatchesMap'
    BY <1>2 DEF IInv, TypeOK, ListMatchesMap, Tick, inner
  <2>9. FailureNotRetained'
    BY <1>2 DEF IInv, TypeOK, FailureNotRetained, CellsHeld, EntriesHeld, ProducersLate, LeavesWithResult, OneDriver, Tick, inner
  <2> QED
    BY <2>1, <2>2, <2>3, <2>4, <2>5, <2>6, <2>7, <2>8, <2>9 DEF IInv
<1>3. ASSUME NEW r \in Request, NEW k \in Key, Call(r, k) PROVE IInv'
  <2>1. CellsHeld'
    BY <1>3 DEF IInv, TypeOK, CellsHeld, EntriesHeld, Call, inner
  <2>2. EntriesHeld'
    BY <1>3 DEF IInv, TypeOK, EntriesHeld, Call, inner
  <2>3. ClocksPast'
    BY <1>3 DEF IInv, TypeOK, ClocksPast, Call, inner
  <2>4. ProducersLate'
    BY <1>3 DEF IInv, TypeOK, ProducersLate, CellsHeld, ClocksPast, Call, inner
  <2>5. OneDriver'
    BY <1>3 DEF IInv, TypeOK, OneDriver, CellsHeld, Call, inner
  <2>6. LeavesWithResult'
    BY <1>3 DEF IInv, TypeOK, LeavesWithResult, OneDriver, CellsHeld, Call, inner
  <2>7. InFlightInMap'
    BY <1>3 DEF IInv, TypeOK, InFlightInMap, EntriesHeld, CellsHeld, ClocksPast, Call, inner
  <2>8. ListMatchesMap'
    BY <1>3 DEF IInv, TypeOK, ListMatchesMap, Call, inner
  <2>9. FailureNotRetained'
    BY <1>3 DEF IInv, TypeOK, FailureNotRetained, CellsHeld, EntriesHeld, ProducersLate, LeavesWithResult, OneDriver, Call, inner
  <2> QED
    BY <2>1, <2>2, <2>3, <2>4, <2>5, <2>6, <2>7, <2>8, <2>9 DEF IInv
<1>4. ASSUME NEW r \in Request, Reuse(r) PROVE IInv'
  <2>a. /\ pc[r] = "lookup" /\ pc' = [pc EXCEPT ![r] = "check"]
        /\ cell' = [cell EXCEPT ![r] = cache[key[r]]]
        /\ cache[key[r]] # NoCell /\ at[r] < Expires(cache[key[r]])
        /\ UNCHANGED <<now, key, at, result, since>>
        /\ total' = total + 1
    BY <1>4 DEF Reuse, Valid
  <2>b. \A k \in SweptKeys(at[r]) :
           k \in Key /\ cache[k] # NoCell /\ at[r] >= Expires(cache[k])
    BY DEF SweptKeys, Valid, IInv, TypeOK
  <2>c. /\ key[r] \notin SweptKeys(at[r])
        /\ \A k \in Key :
              /\ cache'[k] = IF k \in SweptKeys(at[r]) THEN NoCell ELSE cache[k]
              /\ lastUse'[k] = IF k \in SweptKeys(at[r]) THEN 0
                               ELSE IF Bounded /\ k = key[r] THEN total + 1
                               ELSE lastUse[k]
    BY <1>4, ReuseEffect DEF IInv
  <2>1. CellsHeld'
    BY <2>a, <2>b, <2>c DEF IInv, TypeOK, CellsHeld, EntriesHeld
  <2>2. EntriesHeld'
    BY <2>a, <2>b, <2>c DEF IInv, TypeOK, EntriesHeld
  <2>3. ClocksPast'
    BY <2>a, <2>b, <2>c DEF IInv, TypeOK, ClocksPast
  <2>4. ProducersLate'
    BY <2>a, <2>b, <2>c DEF IInv, TypeOK, ProducersLate, CellsHeld, ClocksPast
  <2>5. OneDriver'
    BY <2>a, <2>b, <2>c DEF IInv, TypeOK, OneDriver, CellsHeld
  <2>6. LeavesWithResult'
    BY <2>a, <2>b, <2>c DEF IInv, TypeOK, LeavesWithResult, OneDriver, CellsHeld
  <2>7. InFlightInMap'
    BY <2>a, <2>b, <2>c DEF IInv, TypeOK, InFlightInMap, EntriesHeld, CellsHeld, ClocksPast
  <2>8. ListMatchesMap'
    BY <2>a, <2>b, <2>c DEF IInv, TypeOK, ListMatchesMap
  <2>9. FailureNotRetained'
    BY <2>a, <2>b, <2>c DEF IInv, TypeOK, FailureNotRetained, CellsHeld, EntriesHeld, ProducersLate, LeavesWithResult, OneDriver
  <2> QED
    BY <2>1, <2>2, <2>3, <2>4, <2>5, <2>6, <2>7, <2>8, <2>9 DEF IInv
<1>5. ASSUME NEW r \in Request, Claim(r) PROVE IInv'
  <2>a. /\ pc[r] = "lookup" /\ pc' = [pc EXCEPT ![r] = "wait"]
        /\ cell' = [cell EXCEPT ![r] = r]
        /\ ~Valid(cache[key[r]], at[r])
        /\ UNCHANGED <<now, key, at, result, since>>
        /\ total' = total + 1
    BY <1>5 DEF Claim
  <2>b. \A k \in SweptKeys(at[r]) :
           k \in Key /\ cache[k] # NoCell /\ at[r] >= Expires(cache[k])
    BY DEF SweptKeys, Valid, IInv, TypeOK
  <2>c. PICK D \in SUBSET Key :
           /\ \A k \in D : k \in SweptKeys(at[r]) \/ Bounded
           /\ \A k \in Key :
                 /\ cache'[k] = IF k = key[r] THEN r
                                ELSE IF k \in D THEN NoCell ELSE cache[k]
                 /\ lastUse'[k] = IF k = key[r] THEN total + 1
                                  ELSE IF k \in D THEN 0 ELSE lastUse[k]
    BY <1>5, ClaimEffect DEF IInv
  <2>1. CellsHeld'
    BY <2>a, <2>b, <2>c DEF IInv, TypeOK, CellsHeld, EntriesHeld
  <2>2. EntriesHeld'
    BY <2>a, <2>b, <2>c DEF IInv, TypeOK, EntriesHeld
  <2>3. ClocksPast'
    BY <2>a, <2>b, <2>c DEF IInv, TypeOK, ClocksPast
  <2>4. ProducersLate'
    BY <2>a, <2>b, <2>c DEF IInv, TypeOK, ProducersLate, CellsHeld, ClocksPast
  <2>5. OneDriver'
    BY <2>a, <2>b, <2>c DEF IInv, TypeOK, OneDriver, CellsHeld
  <2>6. LeavesWithResult'
    BY <2>a, <2>b, <2>c DEF IInv, TypeOK, LeavesWithResult, OneDriver, CellsHeld
  <2>7. InFlightInMap'
    BY <2>a, <2>b, <2>c DEF IInv, TypeOK, InFlightInMap, EntriesHeld, CellsHeld, ClocksPast, Valid
  <2>8. ListMatchesMap'
    BY <2>a, <2>b, <2>c DEF IInv, TypeOK, ListMatchesMap
  <2>9. FailureNotRetained'
    BY <2>a, <2>b, <2>c DEF IInv, TypeOK, FailureNotRetained, CellsHeld, EntriesHeld, ProducersLate, LeavesWithResult, OneDriver
  <2> QED
    BY <2>1, <2>2, <2>3, <2>4, <2>5, <2>6, <2>7, <2>8, <2>9 DEF IInv
<1>6. ASSUME NEW r \in Request, Check(r) PROVE IInv'
  <2>1. CellsHeld'
    BY <1>6 DEF IInv, TypeOK, CellsHeld, EntriesHeld, Check, inner
  <2>2. EntriesHeld'
    BY <1>6 DEF IInv, TypeOK, EntriesHeld, Check, inner
  <2>3. ClocksPast'
    BY <1>6 DEF IInv, TypeOK, ClocksPast, Check, inner
  <2>4. ProducersLate'
    BY <1>6 DEF IInv, TypeOK, ProducersLate, CellsHeld, ClocksPast, Check, inner
  <2>5. OneDriver'
    BY <1>6 DEF IInv, TypeOK, OneDriver, CellsHeld, Check, inner
  <2>6. LeavesWithResult'
    BY <1>6 DEF IInv, TypeOK, LeavesWithResult, OneDriver, CellsHeld, Check, inner
  <2>7. InFlightInMap'
    BY <1>6 DEF IInv, TypeOK, InFlightInMap, EntriesHeld, CellsHeld, ClocksPast, Check, inner
  <2>8. ListMatchesMap'
    BY <1>6 DEF IInv, TypeOK, ListMatchesMap, Check, inner
  <2>9. FailureNotRetained'
    BY <1>6 DEF IInv, TypeOK, FailureNotRetained, CellsHeld, EntriesHeld, ProducersLate, LeavesWithResult, OneDriver, Check, inner
  <2> QED
    BY <2>1, <2>2, <2>3, <2>4, <2>5, <2>6, <2>7, <2>8, <2>9 DEF IInv
<1>7. ASSUME NEW r \in Request, Acquire(r) PROVE IInv'
  <2>1. CellsHeld'
    BY <1>7 DEF IInv, TypeOK, CellsHeld, EntriesHeld, Acquire, MayDrive, inner
  <2>2. EntriesHeld'
    BY <1>7 DEF IInv, TypeOK, EntriesHeld, Acquire, MayDrive, inner
  <2>3. ClocksPast'
    BY <1>7 DEF IInv, TypeOK, ClocksPast, Acquire, MayDrive, inner
  <2>4. ProducersLate'
    BY <1>7 DEF IInv, TypeOK, ProducersLate, CellsHeld, ClocksPast, Acquire, MayDrive, inner
  <2>5. OneDriver'
    BY <1>7 DEF IInv, TypeOK, OneDriver, CellsHeld, Acquire, MayDrive, inner
  <2>6. LeavesWithResult'
    BY <1>7 DEF IInv, TypeOK, LeavesWithResult, OneDriver, CellsHeld, Acquire, MayDrive, inner
  <2>7. InFlightInMap'
    BY <1>7 DEF IInv, TypeOK, InFlightInMap, EntriesHeld, CellsHeld, ClocksPast, Acquire, MayDrive, inner
  <2>8. ListMatchesMap'
    BY <1>7 DEF IInv, TypeOK, ListMatchesMap, Acquire, MayDrive, inner
  <2>9. FailureNotRetained'
    BY <1>7 DEF IInv, TypeOK, FailureNotRetained, CellsHeld, EntriesHeld, ProducersLate, LeavesWithResult, OneDriver, Acquire, MayDrive, inner
  <2> QED
    BY <2>1, <2>2, <2>3, <2>4, <2>5, <2>6, <2>7, <2>8, <2>9 DEF IInv
<1>8. ASSUME NEW r \in Request, NEW o \in {"ok", "err"}, Produce(r, o) PROVE IInv'
  <2>1. CellsHeld'
    BY <1>8 DEF IInv, TypeOK, CellsHeld, EntriesHeld, Produce, Leave, inner
  <2>2. EntriesHeld'
    BY <1>8 DEF IInv, TypeOK, EntriesHeld, Produce, Leave, inner
  <2>3. ClocksPast'
    BY <1>8 DEF IInv, TypeOK, ClocksPast, Produce, Leave, inner
  <2>4. ProducersLate'
    BY <1>8 DEF IInv, TypeOK, ProducersLate, CellsHeld, ClocksPast, Produce, Leave, inner
  <2>5. OneDriver'
    BY <1>8 DEF IInv, TypeOK, OneDriver, CellsHeld, Produce, Leave, inner
  <2>6. LeavesWithResult'
    BY <1>8 DEF IInv, TypeOK, LeavesWithResult, OneDriver, CellsHeld, Produce, Leave, inner
  <2>7. InFlightInMap'
    BY <1>8 DEF IInv, TypeOK, InFlightInMap, EntriesHeld, CellsHeld, ClocksPast, Produce, Leave, inner
  <2>8. ListMatchesMap'
    BY <1>8 DEF IInv, TypeOK, ListMatchesMap, Produce, Leave, inner
  <2>9. FailureNotRetained'
    BY <1>8 DEF IInv, TypeOK, FailureNotRetained, CellsHeld, EntriesHeld, ProducersLate, LeavesWithResult, OneDriver, Produce, Leave, inner
  <2> QED
    BY <2>1, <2>2, <2>3, <2>4, <2>5, <2>6, <2>7, <2>8, <2>9 DEF IInv
<1>9. ASSUME NEW r \in Request, Join(r) PROVE IInv'
  <2>1. CellsHeld'
    BY <1>9 DEF IInv, TypeOK, CellsHeld, EntriesHeld, Join, Leave, inner
  <2>2. EntriesHeld'
    BY <1>9 DEF IInv, TypeOK, EntriesHeld, Join, Leave, inner
  <2>3. ClocksPast'
    BY <1>9 DEF IInv, TypeOK, ClocksPast, Join, Leave, inner
  <2>4. ProducersLate'
    BY <1>9 DEF IInv, TypeOK, ProducersLate, CellsHeld, ClocksPast, Join, Leave, inner
  <2>5. OneDriver'
    BY <1>9 DEF IInv, TypeOK, OneDriver, CellsHeld, Join, Leave, inner
  <2>6. LeavesWithResult'
    BY <1>9 DEF IInv, TypeOK, LeavesWithResult, OneDriver, CellsHeld, Join, Leave, inner
  <2>7. InFlightInMap'
    BY <1>9 DEF IInv, TypeOK, InFlightInMap, EntriesHeld, CellsHeld, ClocksPast, Join, Leave, inner
  <2>8. ListMatchesMap'
    BY <1>9 DEF IInv, TypeOK, ListMatchesMap, Join, Leave, inner
  <2>9. FailureNotRetained'
    BY <1>9 DEF IInv, TypeOK, FailureNotRetained, CellsHeld, EntriesHeld, ProducersLate, LeavesWithResult, OneDriver, Join, Leave, inner
  <2> QED
    BY <2>1, <2>2, <2>3, <2>4, <2>5, <2>6, <2>7, <2>8, <2>9 DEF IInv
<1>10. ASSUME NEW r \in Request, DropFailed(r) PROVE IInv'
  <2>a. /\ pc[r] = "fail" /\ pc' = [pc EXCEPT ![r] = "done"]
        /\ UNCHANGED <<now, key, at, cell, result, since>>
    BY <1>10 DEF DropFailed
  <2>b. \A k \in Key :
           /\ cache'[k] = IF k = key[r] /\ cache[k] = cell[r] THEN NoCell ELSE cache[k]
           /\ lastUse'[k] = IF k = key[r] /\ cache[k] = cell[r] THEN 0 ELSE lastUse[k]
    BY <1>10 DEF DropFailed, FailedKey, MapWithout, ListWithout
  <2>1. CellsHeld'
    BY <2>a, <2>b DEF IInv, TypeOK, CellsHeld, EntriesHeld
  <2>2. EntriesHeld'
    BY <2>a, <2>b DEF IInv, TypeOK, EntriesHeld
  <2>3. ClocksPast'
    BY <2>a, <2>b DEF IInv, TypeOK, ClocksPast
  <2>4. ProducersLate'
    BY <2>a, <2>b DEF IInv, TypeOK, ProducersLate, CellsHeld, ClocksPast
  <2>5. OneDriver'
    BY <2>a, <2>b DEF IInv, TypeOK, OneDriver, CellsHeld
  <2>6. LeavesWithResult'
    BY <2>a, <2>b DEF IInv, TypeOK, LeavesWithResult, OneDriver, CellsHeld
  <2>7. InFlightInMap'
    BY <2>a, <2>b DEF IInv, TypeOK, InFlightInMap, EntriesHeld, CellsHeld, ClocksPast, LeavesWithResult
  <2>8. ListMatchesMap'
    BY <2>a, <2>b DEF IInv, TypeOK, ListMatchesMap
  <2>9. FailureNotRetained'
    BY <2>a, <2>b DEF IInv, TypeOK, FailureNotRetained, CellsHeld, EntriesHeld, ProducersLate, LeavesWithResult, OneDriver
  <2> QED
    BY <2>1, <2>2, <2>3, <2>4, <2>5, <2>6, <2>7, <2>8, <2>9 DEF IInv
<1>11. ASSUME NEW r \in Request, Cancel(r) PROVE IInv'
  <2>1. CellsHeld'
    BY <1>11 DEF IInv, TypeOK, CellsHeld, EntriesHeld, Cancel, inner
  <2>2. EntriesHeld'
    BY <1>11 DEF IInv, TypeOK, EntriesHeld, Cancel, inner
  <2>3. ClocksPast'
    BY <1>11 DEF IInv, TypeOK, ClocksPast, Cancel, inner
  <2>4. ProducersLate'
    BY <1>11 DEF IInv, TypeOK, ProducersLate, CellsHeld, ClocksPast, Cancel, inner
  <2>5. OneDriver'
    BY <1>11 DEF IInv, TypeOK, OneDriver, CellsHeld, Cancel, inner
  <2>6. LeavesWithResult'
    BY <1>11 DEF IInv, TypeOK, LeavesWithResult, OneDriver, CellsHeld, Cancel, inner
  <2>7. InFlightInMap'
    BY <1>11 DEF IInv, TypeOK, InFlightInMap, EntriesHeld, CellsHeld, ClocksPast, Cancel, inner
  <2>8. ListMatchesMap'
    BY <1>11 DEF IInv, TypeOK, ListMatchesMap, Cancel, inner
  <2>9. FailureNotRetained'
    BY <1>11 DEF IInv, TypeOK, FailureNotRetained, CellsHeld, EntriesHeld, ProducersLate, LeavesWithResult, OneDriver, Cancel, inner
  <2> QED
    BY <2>1, <2>2, <2>3, <2>4, <2>5, <2>6, <2>7, <2>8, <2>9 DEF IInv
<1> QED
  BY <1>1, <1>2, <1>3, <1>4, <1>5, <1>6, <1>7, <1>8, <1>9, <1>10, <1>11 DEF Next, Step

(* The inductive invariant holds in every reachable state of the cache.       *)
LEMMA InvariantHolds == Spec => []IInv
<1>1. Init => IInv
  <2> SUFFICES ASSUME Init PROVE IInv
    OBVIOUS
  <2>1. TypeOK
    BY DEF Init, TypeOK, StartTime, Stage
  <2>2. \A r \in Request : pc[r] = "idle" /\ ~Held(r) /\ result[r] = "empty" /\ at[r] = now
    BY DEF Init, Held
  <2>3. \A k \in Key : cache[k] = NoCell /\ lastUse[k] = 0
    BY DEF Init
  <2> QED
    BY <2>1, <2>2, <2>3
    DEF IInv, CellsHeld, EntriesHeld, ClocksPast, ProducersLate, OneDriver,
        LeavesWithResult, InFlightInMap, ListMatchesMap, FailureNotRetained, TypeOK
<1> QED
  BY <1>1, StepKeepsIInv, TypeCorrect, PTL DEF Spec

(* The LRU list and the map never get out of step.                            *)
THEOREM ListInStep == Spec => []ListMatchesMap
  BY InvariantHolds, PTL DEF IInv

(* A failed result is in the map only while a call is about to remove it.     *)
THEOREM FailuresLeave == Spec => []FailureNotRetained
  BY InvariantHolds, PTL DEF IInv

(* Every answer is of the key asked for and was produced within the time to   *)
(* live, whatever the number of calls, the sweeps and the evictions.          *)
THEOREM AnswersFresh == Spec => []AnswerFresh
<1>1. IInv => AnswerFresh
  BY DEF IInv, AnswerFresh, TypeOK, CellsHeld, ProducersLate, LeavesWithResult,
         Held, Expires
<1> QED
  BY <1>1, InvariantHolds, PTL

(* Without a size limit a second producer for a key starts only when the      *)
(* entry of the first has expired.                                            *)
THEOREM SingleFlight == Spec => []DuplicateOnlyAfterExpiry
<1>1. IInv => DuplicateOnlyAfterExpiry
  BY DEF IInv, DuplicateOnlyAfterExpiry, TypeOK, OneDriver, InFlightInMap, CellsHeld, Held
<1> QED
  BY <1>1, InvariantHolds, PTL

(* Without a size limit only expired and failed entries leave the map.        *)
THEOREM EntriesKept == Spec => UnexpiredKept
<1> DEFINE Kept == ~Bounded => \A k \in Key :
              cache[k] # NoCell /\ cache'[k] # cache[k] =>
                  now >= Expires(cache[k]) \/ result[cache[k]] = "err"
<1>1. IInv /\ [Next]_vars => [Kept]_vars
  <2> SUFFICES ASSUME IInv, Next, ~Bounded, NEW k \in Key,
                      cache[k] # NoCell, cache'[k] # cache[k]
               PROVE  now >= Expires(cache[k]) \/ result[cache[k]] = "err"
    OBVIOUS
  <2> USE DEF Expires
  <2>1. \A r \in Request : r \in Request /\ at[r] <= now /\ at[r] \in Nat /\ key[r] \in Key
    BY DEF IInv, ClocksPast, TypeOK
  <2>2. now \in Nat /\ cache[k] \in Request /\ at[cache[k]] \in Nat
    BY DEF IInv, TypeOK
  <2>3. ASSUME NEW r \in Request, k \in SweptKeys(at[r])
        PROVE  now >= Expires(cache[k])
    BY <2>1, <2>2, <2>3 DEF SweptKeys, Valid
  <2>4. CASE Tick
    BY <2>4 DEF Tick, inner
  <2>5. ASSUME NEW r \in Request, NEW j \in Key, Call(r, j) PROVE FALSE
    BY <2>5 DEF Call, inner
  <2>6. ASSUME NEW r \in Request, Reuse(r) PROVE now >= Expires(cache[k])
    BY <2>6, <2>3, ReuseEffect DEF IInv
  <2>7. ASSUME NEW r \in Request, Claim(r) PROVE now >= Expires(cache[k])
    <3>1. CASE k = key[r]
      BY <3>1, <2>7, <2>1, <2>2 DEF Claim, Valid
    <3>2. CASE k # key[r]
      BY <3>2, <2>7, <2>3, ClaimEffect DEF IInv
    <3> QED
      BY <3>1, <3>2
  <2>8. ASSUME NEW r \in Request,
               Check(r) \/ Acquire(r) \/ Join(r) \/ Cancel(r)
               \/ (\E o \in {"ok", "err"} : Produce(r, o))
        PROVE  FALSE
    BY <2>8 DEF Check, Acquire, Join, Cancel, Produce, inner
  <2>9. ASSUME NEW r \in Request, DropFailed(r) PROVE result[cache[k]] = "err"
    BY <2>9 DEF DropFailed, FailedKey, MapWithout, IInv, LeavesWithResult
  <2> QED
    BY <2>4, <2>5, <2>6, <2>7, <2>8, <2>9 DEF Next, Step
<1> QED
  BY <1>1, InvariantHolds, PTL DEF Spec, UnexpiredKept
-----------------------------------------------------------------------------
(* The size limit *)

\* The map is finite, and within the size limit.
Fits == IsFiniteSet(Cached(cache)) /\ WithinSize

(* The list of a cache that holds entries has a front, and it is an entry.    *)
LEMMA FrontIsEntry ==
    ASSUME NEW m \in [Key -> Request \cup {NoCell}],
           NEW u \in [Key -> Nat],
           \A k \in Key : u[k] # 0 <=> m[k] # NoCell,
           Cached(m) # {}
    PROVE  \E o \in Oldest(u) : o \in Cached(m)
<1> DEFINE T == {u[k] : k \in Cached(m)}
<1>1. T \in SUBSET Nat /\ T # {}
  BY DEF Cached
<1>2. PICK x \in T : \A y \in T : x <= y
  <2> HIDE DEF T
  <2> QED
    BY <1>1, LeastOfNaturals
<1>3. PICK o \in Cached(m) : x = u[o]
  BY <1>2
<1>4. \A j \in Key : u[j] # 0 => u[o] <= u[j]
  BY <1>2, <1>3 DEF Cached
<1> QED
  BY <1>3, <1>4 DEF Oldest, Cached

(* A claim keeps the size: a full cache gives up an entry before it grows.    *)
LEMMA ClaimFits ==
    ASSUME IInv, Fits, NEW r \in Request, Claim(r)
    PROVE  Fits'
<1> DEFINE W == SweptKeys(at[r])
           m == MapWithout(cache, W)
           u == ListWithout(lastUse, W)
           e == Evicted(m, u)
           F == Cached(m)
<1>1. /\ m \in [Key -> Request \cup {NoCell}]
      /\ u \in [Key -> Nat]
      /\ \A k \in Key : u[k] # 0 <=> m[k] # NoCell
      /\ F \in SUBSET Cached(cache)
  BY WithoutFacts DEF IInv, TypeOK, ListMatchesMap, Cached
<1>2. IsFiniteSet(F) /\ (Bounded => Cardinality(F) <= Size) /\ Cardinality(F) \in Nat
  <2>1. IsFiniteSet(F) /\ Cardinality(F) <= Cardinality(Cached(cache))
    <3> HIDE DEF F
    <3> QED
      BY <1>1, FS_Subset DEF Fits
  <2>2. Cardinality(F) \in Nat /\ Cardinality(Cached(cache)) \in Nat
    BY <2>1, FS_CardinalityType DEF Fits
  <2> QED
    BY <2>1, <2>2 DEF Fits, WithinSize
<1>3. Cached(cache') \subseteq (F \ e) \cup {key[r]}
  <2>1. cache' = [MapWithout(m, e) EXCEPT ![key[r]] = r]
    BY DEF Claim
  <2>2. \A k \in Key : MapWithout(m, e)[k] = IF k \in e THEN NoCell ELSE m[k]
    BY DEF MapWithout
  <2>3. MapWithout(m, e) \in [Key -> Request \cup {NoCell}]
    BY <1>1 DEF MapWithout
  <2> HIDE DEF m, e
  <2> QED
    BY <2>1, <2>2, <2>3 DEF Cached
<1>4. CASE ~Bounded
  <2> HIDE DEF F, e
  <2>1. IsFiniteSet(F \cup {key[r]})
    BY <1>2, FS_AddElement
  <2>2. IsFiniteSet(Cached(cache'))
    BY <1>3, <2>1, FS_Subset
  <2> QED
    BY <2>2, <1>4 DEF Fits, WithinSize, Cached
<1>5. CASE Bounded
  <2>1. PICK G \in SUBSET F : Cardinality(G) < Size /\ F \ e \subseteq G
    <3>1. CASE Cardinality(F) < Size
      BY <3>1
    <3>2. CASE ~(Cardinality(F) < Size)
      <4>1. e = Oldest(u) /\ F # {}
        <5>1. Cardinality(F) >= Size /\ Size \in Nat \ {0}
          BY <3>2, <1>2
        <5>2. e = Oldest(u)
          BY <5>1, <1>5 DEF Evicted
        <5>3. F # {}
          <6> HIDE DEF F
          <6> QED
            BY <5>1, <1>2, FS_EmptySet
        <5> QED
          BY <5>2, <5>3
      <4>2. PICK o \in Oldest(u) : o \in F
        <5> HIDE DEF m, u
        <5> QED
          BY <1>1, <4>1, FrontIsEntry
      <4> HIDE DEF F, e
      <4>3. Cardinality(F \ {o}) = Cardinality(F) - 1
        BY <1>2, <4>2, FS_RemoveElement
      <4>4. Cardinality(F \ {o}) < Size
        BY <4>3, <1>2, <1>5
      <4>5. F \ e \subseteq F \ {o}
        BY <4>1, <4>2
      <4> QED
        BY <4>4, <4>5
    <3> QED
      BY <3>1, <3>2
  <2> HIDE DEF F, e
  <2>2. IsFiniteSet(G) /\ Cardinality(G) \in Nat
    BY <1>2, <2>1, FS_Subset, FS_CardinalityType
  <2>3. /\ IsFiniteSet(G \cup {key[r]})
        /\ Cardinality(G \cup {key[r]}) <= Size
        /\ Cardinality(G \cup {key[r]}) \in Nat
    BY <2>1, <2>2, FS_AddElement, SMTT(20)
  <2>4. Cached(cache') \in SUBSET (G \cup {key[r]})
    BY <1>3, <2>1
  <2>5. /\ IsFiniteSet(Cached(cache'))
        /\ Cardinality(Cached(cache')) <= Cardinality(G \cup {key[r]})
    BY <2>3, <2>4, FS_Subset
  <2>6. Cardinality(Cached(cache')) \in Nat
    BY <2>5, FS_CardinalityType
  <2>7. Cardinality(Cached(cache')) <= Size
    BY <2>3, <2>5, <2>6
  <2> QED
    BY <2>5, <2>7 DEF Fits, WithinSize, Cached
<1> QED
  BY <1>4, <1>5

(* A step that only removes entries keeps the size.                           *)
LEMMA RemovalFits ==
    ASSUME Fits, Cached(cache') \in SUBSET Cached(cache)
    PROVE  Fits'
<1>1. /\ IsFiniteSet(Cached(cache'))
      /\ Cardinality(Cached(cache')) <= Cardinality(Cached(cache))
  BY FS_Subset DEF Fits
<1>2. Cardinality(Cached(cache')) \in Nat /\ Cardinality(Cached(cache)) \in Nat
  BY <1>1, FS_CardinalityType DEF Fits
<1>3. Bounded => Cardinality(Cached(cache')) <= Size
  BY <1>1, <1>2 DEF Fits, WithinSize
<1> QED
  BY <1>1, <1>3 DEF Fits, WithinSize, Cached

(* The map stays finite, and within the size limit.                           *)
LEMMA FitsHolds == Spec => []Fits
<1>1. Init => Fits
  <2> SUFFICES ASSUME Init PROVE Fits
    OBVIOUS
  <2>1. Cached(cache) = {}
    BY DEF Init, Cached
  <2> QED
    BY <2>1, FS_EmptySet DEF Fits, WithinSize
<1>2. IInv /\ Fits /\ [Next]_vars => Fits'
  <2> SUFFICES ASSUME IInv, Fits, [Next]_vars PROVE Fits'
    OBVIOUS
  <2>1. CASE UNCHANGED cache
    BY <2>1, RemovalFits
  <2>2. ASSUME NEW r \in Request, Reuse(r) PROVE Fits'
    <3>1. Cached(cache') \in SUBSET Cached(cache)
      BY <2>2, ReuseEffect DEF IInv, Cached
    <3> QED
      BY <3>1, RemovalFits
  <2>3. ASSUME NEW r \in Request, Claim(r) PROVE Fits'
    BY <2>3, ClaimFits
  <2>4. ASSUME NEW r \in Request, DropFailed(r) PROVE Fits'
    <3>1. Cached(cache') \in SUBSET Cached(cache)
      BY <2>4 DEF DropFailed, MapWithout, Cached
    <3> QED
      BY <3>1, RemovalFits
  <2> QED
    BY <2>1, <2>2, <2>3, <2>4
    DEF Next, Step, vars, inner, Tick, Call, Check, Acquire, Produce, Join, Cancel
<1> QED
  BY <1>1, <1>2, InvariantHolds, PTL DEF Spec

(* A capped cache never holds more than `size` entries.                       *)
THEOREM SizeRespected == Spec => []WithinSize
BY FitsHolds, PTL DEF Fits
-----------------------------------------------------------------------------
(* The contract with the callers: every step is one of CacheContract, or none *)

\* A call that runs a producer started it after it read its own clock.
DriversLate ==
    \A r \in Request : pc[r] = "run" =>
        at[r] <= since[cell[r]] /\ since[cell[r]] <= now

(* A producer is started by the call that runs it, at the time of its start:  *)
(* OnceCell::get_or_init hands out one permit per empty cell.                 *)
LEMMA DriversStartedLate == Spec => []DriversLate
<1>1. Init => DriversLate
  BY DEF Init, DriversLate
<1>2. IInv /\ DriversLate /\ [Next]_vars => DriversLate'
  <2> SUFFICES ASSUME IInv, DriversLate, [Next]_vars PROVE DriversLate'
    OBVIOUS
  <2> USE DEF DriversLate
  <2>1. CASE UNCHANGED vars
    BY <2>1 DEF vars, inner
  <2>2. CASE Tick
    BY <2>2 DEF Tick, IInv, TypeOK, CellsHeld, Held
  <2>3. ASSUME NEW r \in Request, NEW k \in Key, Call(r, k) PROVE DriversLate'
    BY <2>3 DEF Call, IInv, TypeOK
  <2>4. ASSUME NEW r \in Request, Reuse(r) PROVE DriversLate'
    <3>1. /\ pc' = [pc EXCEPT ![r] = "check"]
          /\ cell' = [cell EXCEPT ![r] = cache[key[r]]]
          /\ UNCHANGED <<now, at, since>>
      BY <2>4 DEF Reuse
    <3> QED
      BY <3>1 DEF IInv, TypeOK
  <2>5. ASSUME NEW r \in Request, Claim(r) PROVE DriversLate'
    <3>1. /\ pc' = [pc EXCEPT ![r] = "wait"]
          /\ cell' = [cell EXCEPT ![r] = r]
          /\ UNCHANGED <<now, at, since>>
      BY <2>5 DEF Claim
    <3> QED
      BY <3>1 DEF IInv, TypeOK
  <2>6. ASSUME NEW r \in Request, Acquire(r) PROVE DriversLate'
    BY <2>6 DEF Acquire, MayDrive, IInv, TypeOK, ClocksPast, CellsHeld, Held
  <2>7. ASSUME NEW r \in Request,
               Check(r) \/ Join(r) \/ Cancel(r) \/ DropFailed(r)
               \/ (\E o \in {"ok", "err"} : Produce(r, o))
        PROVE  DriversLate'
    <3>1. /\ UNCHANGED <<now, at, cell, since>>
          /\ \A s \in Request : pc'[s] = "run" => pc[s] = "run"
      BY <2>7 DEF Check, Join, Cancel, DropFailed, Produce, Leave, IInv, TypeOK
    <3> QED
      BY <3>1
  <2> QED
    BY <2>1, <2>2, <2>3, <2>4, <2>5, <2>6, <2>7 DEF Next, Step
<1> QED
  BY <1>1, <1>2, InvariantHolds, PTL DEF Spec

(* The completed runs and the answers change only with the results, the       *)
(* answered calls, and what is known of the cells that have a result.         *)
LEMMA SameView ==
    ASSUME IInv,
           UNCHANGED result,
           \A c \in Request : result[c] # "empty" => UNCHANGED <<key[c], since[c]>>,
           \A r \in Request : pc[r] = "done" <=> pc'[r] = "done",
           \A r \in Request : pc[r] = "done" => UNCHANGED cell[r]
    PROVE  RunsSeen' = RunsSeen /\ AnswersSeen' = AnswersSeen
<1>1. \A c \in Request : result[c] # "empty" => RunOf(c)' = RunOf(c)
  BY DEF RunOf
<1>2. RunsSeen' = RunsSeen
  BY <1>1 DEF RunsSeen
<1>3. \A r \in Request : pc[r] = "done" => cell[r] \in Request /\ result[cell[r]] # "empty"
  BY DEF IInv, CellsHeld, LeavesWithResult, Held
<1>4. \A r \in Request : pc[r] = "done" => {RunOf(cell[r])}' = {RunOf(cell[r])}
  BY <1>1, <1>3 DEF RunOf
<1>5. AnswersSeen' = AnswersSeen
  BY <1>4 DEF AnswersSeen
<1> QED
  BY <1>2, <1>5

(* A step that moves a call from one stage to another, none of them seen by   *)
(* the callers, or to an end, changes the status of this call alone.          *)
LEMMA StatusMoves ==
    ASSUME TypeOK, NEW r \in Request, NEW g \in Stage, pc' = [pc EXCEPT ![r] = g]
    PROVE  /\ StatusSeen' = [StatusSeen EXCEPT ![r] =
                  CASE g = "idle" -> "idle" [] g = "done" -> "answered"
                    [] g = "gone" -> "gone" [] OTHER -> "pending"]
           /\ pc[r] \in {"lookup", "check", "wait", "run", "fail"} =>
                  StatusSeen[r] = "pending"
           /\ pc[r] = "idle" => StatusSeen[r] = "idle"
<1>1. \A s \in Request : pc'[s] = IF s = r THEN g ELSE pc[s]
  BY DEF TypeOK
<1> QED
  BY <1>1 DEF StatusSeen

(* A call that holds a cell with a result and returns it is answered from a   *)
(* completed run that is fresh: the contract's Answer.                        *)
LEMMA ReturnAnswers ==
    ASSUME IInv, NEW r \in Request,
           pc[r] \in {"check", "wait", "fail"},
           pc' = [pc EXCEPT ![r] = "done"],
           result[cell[r]] # "empty",
           UNCHANGED <<now, key, at, cell, result, since>>
    PROVE  Contract!Answer(r)
<1> DEFINE v == RunOf(cell[r])
<1>1. /\ cell[r] \in Request
      /\ key[cell[r]] = key[r]
      /\ at[r] < at[cell[r]] + Ttl
      /\ since[cell[r]] >= at[cell[r]]
      /\ at[r] \in Nat /\ at[cell[r]] \in Nat /\ since[cell[r]] \in Nat
  BY DEF IInv, CellsHeld, ProducersLate, TypeOK, Held, Expires
<1>2. v.key = key[r] /\ v.since > at[r] - Ttl
  BY <1>1 DEF RunOf
<1>3. v \in RunsSeen
  BY <1>1 DEF RunsSeen
<1>4. RunsSeen' = RunsSeen
  BY DEF RunsSeen, RunOf
<1>5. AnswersSeen' = [AnswersSeen EXCEPT ![r] = {v}]
  <2>1. \A s \in Request : {RunOf(cell[s])}' = {RunOf(cell[s])}
    BY DEF RunOf
  <2>2. \A s \in Request : pc'[s] = IF s = r THEN "done" ELSE pc[s]
    BY DEF IInv, TypeOK
  <2> QED
    BY <2>1, <2>2 DEF AnswersSeen
<1>6. StatusSeen[r] = "pending" /\ StatusSeen' = [StatusSeen EXCEPT ![r] = "answered"]
  BY StatusMoves DEF IInv, Stage
<1> HIDE DEF v
<1>7. v \in RunsSeen' /\ RunsSeen' = RunsSeen \cup {v}
  BY <1>3, <1>4
<1> QED
  BY <1>2, <1>3, <1>5, <1>6, <1>7 DEF Contract!Answer

(* The producer a call runs completes with a run of the call's own: seen by   *)
(* the callers as its answer, or as a run that did not answer it yet.         *)
LEMMA ProducerKeepsContract ==
    ASSUME IInv, DriversLate, NEW r \in Request, NEW o \in {"ok", "err"},
           Produce(r, o)
    PROVE  Contract!Answer(r) \/ Contract!Produce(r)
<1>0. PICK c \in Request : c = cell[r]
  BY DEF IInv, CellsHeld, Produce, Held
<1> DEFINE v == [key |-> key[c], since |-> since[c], outcome |-> o]
<1>1. /\ c = cell[r] /\ pc[r] = "run" /\ result[c] = "empty"
      /\ result' = [result EXCEPT ![c] = o]
      /\ key[c] = key[r]
      /\ at[r] <= since[c] /\ since[c] <= now
      /\ at[r] \in Nat /\ since[c] \in Nat /\ now \in Nat
      /\ UNCHANGED <<now, key, at, cell, since>>
  BY <1>0 DEF IInv, CellsHeld, OneDriver, DriversLate, TypeOK, Held, Produce
<1>2. result \in [Request -> {"empty", "ok", "err"}]
  BY DEF IInv, TypeOK
<1>3. /\ v.key = key[r] /\ v.since > at[r] - Ttl
      /\ Contract!OwnRun(r, v)
  BY <1>1 DEF Contract!OwnRun
<1>4. /\ RunOf(c)' = v
      /\ \A d \in Request \ {c} : RunOf(d)' = RunOf(d) /\ result'[d] = result[d]
  BY <1>1, <1>2 DEF RunOf
<1>5. result'[c] = o /\ o # "empty"
  BY <1>1, <1>2
<1> HIDE DEF v
<1>6. RunsSeen' = RunsSeen \cup {v}
  BY <1>1, <1>4, <1>5 DEF RunsSeen
<1>7. v \in RunsSeen'
  BY <1>6
<1>8. \A s \in Request : pc[s] = "done" =>
         {RunOf(cell[s])}' = {RunOf(cell[s])}
  <2>1. \A s \in Request : pc[s] = "done" => cell[s] \in Request \ {c}
    BY <1>1 DEF IInv, CellsHeld, LeavesWithResult, Held
  <2>2. \A s \in Request : cell'[s] = cell[s]
    BY <1>1
  <2> QED
    BY <2>1, <2>2, <1>4 DEF RunOf
<1>9. CASE o = "ok"
  <2>1. pc' = [pc EXCEPT ![r] = "done"]
    BY <1>9 DEF Produce, Leave
  <2>2. \A s \in Request : pc'[s] = IF s = r THEN "done" ELSE pc[s]
    BY <2>1 DEF IInv, TypeOK
  <2>3. RunOf(cell[r])' = v
    BY <1>4, <1>1 DEF RunOf
  <2>4. AnswersSeen' = [AnswersSeen EXCEPT ![r] = {v}]
    BY <1>8, <2>2, <2>3 DEF AnswersSeen
  <2>5. StatusSeen[r] = "pending" /\ StatusSeen' = [StatusSeen EXCEPT ![r] = "answered"]
    BY <1>1, <2>1, StatusMoves DEF IInv, Stage
  <2> QED
    BY <1>1, <1>3, <1>6, <1>7, <2>4, <2>5 DEF Contract!Answer
<1>10. CASE o = "err"
  <2>1. pc' = [pc EXCEPT ![r] = "fail"]
    BY <1>10 DEF Produce, Leave
  <2>2. \A s \in Request : pc'[s] = IF s = r THEN "fail" ELSE pc[s]
    BY <2>1 DEF IInv, TypeOK
  <2>3. AnswersSeen' = AnswersSeen
    BY <1>1, <1>8, <2>2 DEF AnswersSeen
  <2>4. StatusSeen[r] = "pending" /\ StatusSeen' = [StatusSeen EXCEPT ![r] = "pending"]
    BY <1>1, <2>1, StatusMoves DEF IInv, Stage
  <2>5. StatusSeen' = StatusSeen
    BY <2>4 DEF StatusSeen
  <2> QED
    BY <1>1, <1>3, <1>6, <1>7, <2>3, <2>4, <2>5 DEF Contract!Produce
<1> QED
  BY <1>9, <1>10

(* Each step of the cache is a step of the contract, or hidden from it.       *)
LEMMA StepKeepsContract ==
    IInv /\ DriversLate /\ [Next]_vars => [Contract!Next]_(Contract!vars)
<1> SUFFICES ASSUME IInv, DriversLate, [Next]_vars
             PROVE  Contract!Next \/ UNCHANGED Contract!vars
  OBVIOUS
<1>a. TypeOK
  BY DEF IInv
<1>1. CASE UNCHANGED vars
  <2>1. RunsSeen' = RunsSeen /\ AnswersSeen' = AnswersSeen
    BY <1>1, SameView DEF vars
  <2>2. StatusSeen' = StatusSeen
    BY <1>1 DEF vars, StatusSeen
  <2> QED
    BY <1>1, <2>1, <2>2 DEF Contract!vars, vars
<1>2. CASE Tick
  <2>1. /\ now' = now + 1 /\ now \in Nat
        /\ UNCHANGED <<pc, key, at, cell, result, since>>
    BY <1>2 DEF Tick, IInv, TypeOK
  <2>2. RunsSeen' = RunsSeen /\ AnswersSeen' = AnswersSeen
    BY <2>1, SameView
  <2>3. StatusSeen' = StatusSeen
    BY <2>1 DEF StatusSeen
  <2> QED
    BY <2>1, <2>2, <2>3 DEF Contract!Next, Contract!Tick
<1>3. ASSUME NEW r \in Request, NEW k \in Key, Call(r, k)
      PROVE  Contract!Call(r)
  <2>1. /\ pc[r] = "idle" /\ pc' = [pc EXCEPT ![r] = "lookup"]
        /\ key' = [key EXCEPT ![r] = k]
        /\ at' = [at EXCEPT ![r] = now]
        /\ UNCHANGED <<now, cell, result, since>>
    BY <1>3 DEF Call
  <2>2. \A c \in Request : result[c] # "empty" => UNCHANGED <<key[c], since[c]>>
    BY <2>1 DEF IInv, TypeOK, ProducersLate, Held
  <2>3. \A s \in Request : pc'[s] = IF s = r THEN "lookup" ELSE pc[s]
    BY <2>1 DEF IInv, TypeOK
  <2>4. RunsSeen' = RunsSeen /\ AnswersSeen' = AnswersSeen
    BY <2>1, <2>2, <2>3, SameView
  <2>5. StatusSeen[r] = "idle" /\ StatusSeen' = [StatusSeen EXCEPT ![r] = "pending"]
    BY <1>a, <2>1, StatusMoves DEF Stage
  <2> QED
    BY <2>1, <2>4, <2>5 DEF Contract!Call
<1>4. ASSUME NEW r \in Request,
             \/ Reuse(r) \/ Claim(r) \/ Acquire(r)
             \/ (Check(r) /\ result[cell[r]] = "empty")
             \/ (Join(r) /\ result[cell[r]] = "err")
      PROVE  UNCHANGED Contract!vars
  <2>1. /\ pc[r] \in {"lookup", "check", "wait"}
        /\ \E g \in {"check", "wait", "run", "fail"} : pc' = [pc EXCEPT ![r] = g]
        /\ UNCHANGED <<now, key, at, result>>
        /\ \A s \in Request : s # r => cell'[s] = cell[s]
    BY <1>4 DEF Reuse, Claim, Acquire, Check, Join, Leave, IInv, TypeOK
  <2>2. PICK g \in {"check", "wait", "run", "fail"} : pc' = [pc EXCEPT ![r] = g]
    BY <2>1
  <2>3. \A s \in Request : pc'[s] = IF s = r THEN g ELSE pc[s]
    BY <2>2 DEF IInv, TypeOK
  <2>4. \A c \in Request : result[c] # "empty" => since'[c] = since[c]
    BY <1>4 DEF Reuse, Claim, Acquire, MayDrive, Check, Join, IInv, TypeOK
  <2>5. RunsSeen' = RunsSeen /\ AnswersSeen' = AnswersSeen
    BY <2>1, <2>3, <2>4, SameView
  <2>6. StatusSeen[r] = "pending" /\ StatusSeen' = [StatusSeen EXCEPT ![r] = "pending"]
    BY <1>a, <2>1, <2>2, StatusMoves DEF Stage
  <2>7. StatusSeen' = StatusSeen
    BY <2>6 DEF StatusSeen
  <2> QED
    BY <2>1, <2>5, <2>7 DEF Contract!vars
<1>5. ASSUME NEW r \in Request,
             \/ (Check(r) /\ result[cell[r]] # "empty")
             \/ (Join(r) /\ result[cell[r]] # "err")
             \/ DropFailed(r)
      PROVE  Contract!Answer(r)
  <2>1. /\ pc[r] \in {"check", "wait", "fail"}
        /\ pc' = [pc EXCEPT ![r] = "done"]
        /\ result[cell[r]] # "empty"
        /\ UNCHANGED <<now, key, at, cell, result, since>>
    BY <1>5 DEF Check, Join, Leave, DropFailed, IInv, LeavesWithResult
  <2> QED
    BY <2>1, ReturnAnswers
<1>6. ASSUME NEW r \in Request, NEW o \in {"ok", "err"}, Produce(r, o)
      PROVE  Contract!Answer(r) \/ Contract!Produce(r)
  BY <1>6, ProducerKeepsContract
<1>7. ASSUME NEW r \in Request, Cancel(r) PROVE Contract!Abandon(r)
  <2>1. /\ pc[r] \in {"wait", "run"} /\ pc' = [pc EXCEPT ![r] = "gone"]
        /\ UNCHANGED <<now, key, at, cell, result, since>>
    BY <1>7 DEF Cancel
  <2>2. \A s \in Request : pc'[s] = IF s = r THEN "gone" ELSE pc[s]
    BY <2>1 DEF IInv, TypeOK
  <2>3. RunsSeen' = RunsSeen /\ AnswersSeen' = AnswersSeen
    BY <2>1, <2>2, SameView
  <2>4. StatusSeen[r] = "pending" /\ StatusSeen' = [StatusSeen EXCEPT ![r] = "gone"]
    BY <1>a, <2>1, StatusMoves DEF Stage
  <2> QED
    BY <2>1, <2>3, <2>4 DEF Contract!Abandon
<1> QED
  BY <1>1, <1>2, <1>3, <1>4, <1>5, <1>6, <1>7 DEF Next, Step, Contract!Next

(* get_result keeps the contract of its callers: a call is answered with one  *)
(* completed producer run for its key, begun less than the time to live       *)
(* before the call or by the call itself, or it is abandoned; nothing else    *)
(* of the map, the list, the cells or the lock shows.                         *)
THEOREM KeepsContract == Spec => ImplementsContract
<1>1. Init => Contract!Init
  <2> SUFFICES ASSUME Init PROVE Contract!Init
    OBVIOUS
  <2>1. now \in Nat /\ key \in [Request -> Key] /\ at = [r \in Request |-> now]
    BY DEF Init, StartTime
  <2>2. RunsSeen = {}
    BY DEF Init, RunsSeen
  <2>3. /\ StatusSeen = [r \in Request |-> "idle"]
        /\ AnswersSeen = [r \in Request |-> {}]
    BY DEF Init, StatusSeen, AnswersSeen
  <2> QED
    BY <2>1, <2>2, <2>3 DEF Contract!Init
<1> QED
  BY <1>1, StepKeepsContract, InvariantHolds, DriversStartedLate, PTL
  DEF Spec, ImplementsContract, Contract!Spec
-----------------------------------------------------------------------------
(* The order of eviction *)

\* The list is an order: two keys have different places in it, all of them
\* given by earlier lookups.
ListOrdered ==
    /\ \A k \in Key : lastUse[k] <= total
    /\ \A j \in Key : \A k \in Key : lastUse[j] = lastUse[k] /\ lastUse[j] # 0 => j = k

(* A lookup moves one key to the back and removals leave the others in place. *)
LEMMA ListStaysOrdered == Spec => []ListOrdered
<1>1. Init => ListOrdered
  BY DEF Init, ListOrdered
<1>2. IInv /\ ListOrdered /\ [Next]_vars => ListOrdered'
  <2> SUFFICES ASSUME IInv, ListOrdered, [Next]_vars PROVE ListOrdered'
    OBVIOUS
  <2> USE DEF ListOrdered
  <2>1. CASE UNCHANGED <<lastUse, total>>
    BY <2>1
  <2>2. ASSUME NEW r \in Request, Reuse(r) PROVE ListOrdered'
    <3>1. /\ total' = total + 1 /\ total \in Nat /\ lastUse \in [Key -> Nat]
          /\ \A k \in Key : lastUse'[k] = IF k \in SweptKeys(at[r]) THEN 0
                                          ELSE IF Bounded /\ k = key[r] THEN total + 1
                                          ELSE lastUse[k]
      BY <2>2, ReuseEffect DEF IInv, TypeOK, Reuse
    <3> QED
      BY <3>1
  <2>3. ASSUME NEW r \in Request, Claim(r) PROVE ListOrdered'
    <3>1. total' = total + 1 /\ total \in Nat /\ lastUse \in [Key -> Nat]
      BY <2>3 DEF IInv, TypeOK, Claim
    <3>2. PICK D \in SUBSET Key :
             \A k \in Key : lastUse'[k] = IF k = key[r] THEN total + 1
                                          ELSE IF k \in D THEN 0 ELSE lastUse[k]
      BY <2>3, ClaimEffect DEF IInv
    <3> QED
      BY <3>1, <3>2
  <2>4. ASSUME NEW r \in Request, DropFailed(r) PROVE ListOrdered'
    <3>1. total' = total /\ total \in Nat /\ lastUse \in [Key -> Nat]
      BY <2>4 DEF IInv, TypeOK, DropFailed
    <3>2. \A k \in Key : lastUse'[k] = IF k \in FailedKey(r) THEN 0 ELSE lastUse[k]
      BY <2>4 DEF DropFailed, ListWithout
    <3> QED
      BY <3>1, <3>2
  <2> QED
    BY <2>1, <2>2, <2>3, <2>4
    DEF Next, Step, vars, inner, Tick, Call, Check, Acquire, Produce, Join, Cancel
<1> QED
  BY <1>1, <1>2, InvariantHolds, PTL DEF Spec

(* From a full cache the entry unused for longest goes, and nothing with it;  *)
(* from any other nothing goes that has neither expired nor failed.           *)
THEOREM OldestGoes == Spec => EvictsLeastRecentlyUsed
<1> DEFINE OldestOnly ==
              \A k \in Key :
                  /\ cache[k] # NoCell /\ cache'[k] = NoCell
                  /\ now < Expires(cache[k]) /\ result[cache[k]] # "err"
                  => /\ Bounded /\ Cardinality(Cached(cache)) = Size
                     /\ \A j \in Key \ {k} :
                           /\ cache[j] # NoCell => cache'[j] # NoCell
                           /\ cache'[j] # NoCell => lastUse'[j] > lastUse[k]
<1>1. IInv /\ Fits /\ ListOrdered /\ [Next]_vars => [OldestOnly]_vars
  <2> SUFFICES ASSUME IInv, Fits, ListOrdered, Next, NEW k \in Key,
                      cache[k] # NoCell, cache'[k] = NoCell,
                      now < Expires(cache[k]), result[cache[k]] # "err"
               PROVE  /\ Bounded /\ Cardinality(Cached(cache)) = Size
                      /\ \A j \in Key \ {k} :
                            /\ cache[j] # NoCell => cache'[j] # NoCell
                            /\ cache'[j] # NoCell => lastUse'[j] > lastUse[k]
    OBVIOUS
  <2>1. /\ now \in Nat /\ cache[k] \in Request /\ Expires(cache[k]) \in Nat
        /\ total \in Nat /\ lastUse \in [Key -> Nat]
    BY DEF IInv, TypeOK, Expires
  <2>2. ASSUME NEW r \in Request PROVE k \notin SweptKeys(at[r])
    <3>1. at[r] \in Nat /\ at[r] <= now
      BY DEF IInv, TypeOK, ClocksPast
    <3>2. Valid(cache[k], at[r])
      BY <3>1, <2>1 DEF Valid
    <3> QED
      BY <3>2 DEF SweptKeys
  <2>3. ASSUME UNCHANGED cache PROVE FALSE
    BY <2>3
  <2>4. ASSUME NEW r \in Request, Reuse(r) PROVE FALSE
    BY <2>4, <2>2, ReuseEffect DEF IInv
  <2>5. ASSUME NEW r \in Request, DropFailed(r) PROVE FALSE
    BY <2>5 DEF DropFailed, FailedKey, MapWithout, IInv, LeavesWithResult
  <2>6. ASSUME NEW r \in Request, Claim(r)
        PROVE  /\ Bounded /\ Cardinality(Cached(cache)) = Size
               /\ \A j \in Key \ {k} :
                     /\ cache[j] # NoCell => cache'[j] # NoCell
                     /\ cache'[j] # NoCell => lastUse'[j] > lastUse[k]
    <3> DEFINE W == SweptKeys(at[r])
               m == MapWithout(cache, W)
               u == ListWithout(lastUse, W)
               e == Evicted(m, u)
    <3>1. /\ m \in [Key -> Request \cup {NoCell}]
          /\ u \in [Key -> Nat]
          /\ \A i \in Key : m[i] = IF i \in W THEN NoCell ELSE cache[i]
          /\ \A i \in Key : u[i] = IF i \in W THEN 0 ELSE lastUse[i]
      BY WithoutFacts DEF IInv, TypeOK
    <3>2. /\ MapWithout(m, e) \in [Key -> Request \cup {NoCell}]
          /\ ListWithout(u, e) \in [Key -> Nat]
          /\ \A i \in Key : MapWithout(m, e)[i] = IF i \in e THEN NoCell ELSE m[i]
          /\ \A i \in Key : ListWithout(u, e)[i] = IF i \in e THEN 0 ELSE u[i]
      <4> HIDE DEF m, u, e
      <4> QED
        BY <3>1, WithoutFacts
    <3>3. /\ cache' = [MapWithout(m, e) EXCEPT ![key[r]] = r]
          /\ lastUse' = [ListWithout(u, e) EXCEPT ![key[r]] = total + 1]
          /\ r # NoCell /\ key[r] \in Key
      BY <2>6 DEF Claim, IInv, TypeOK
    <3>4. \A i \in e : \A n \in Key : u[i] # 0 /\ (u[n] # 0 => u[i] <= u[n])
      BY DEF Evicted, Oldest
    <3>5. u[k] = lastUse[k] /\ k \notin W
      BY <3>1, <2>2, <2>6
    <3>6. e # {} => Bounded /\ Cardinality(Cached(m)) >= Size
      BY DEF Evicted
    <3> HIDE DEF m, u, e, W
    <3>7. k \in e /\ k # key[r]
      BY <3>1, <3>2, <3>3, <3>5
    <3>8. Bounded /\ Cardinality(Cached(cache)) = Size /\ Cached(m) = Cached(cache)
      <4>1. Bounded /\ Cardinality(Cached(m)) >= Size
        BY <3>6, <3>7
      <4>2. Cached(m) \in SUBSET Cached(cache)
        BY <3>1 DEF Cached
      <4> PICK S : S = Cached(cache)
        OBVIOUS
      <4> PICK T : T = Cached(m)
        OBVIOUS
      <4>3. IsFiniteSet(S) /\ T \in SUBSET S /\ Cardinality(S) <= Size /\ Cardinality(T) >= Size
        BY <4>1, <4>2 DEF Fits, WithinSize
      <4>4. /\ Cardinality(T) <= Cardinality(S)
            /\ Cardinality(S) = Cardinality(T) => S = T
            /\ Cardinality(S) \in Nat /\ Cardinality(T) \in Nat /\ Size \in Nat
        BY <4>3, FS_Subset, FS_CardinalityType, CacheAssumption DEF CacheAssumption
      <4> QED
        BY <4>1, <4>3, <4>4
    <3>9. ASSUME NEW j \in Key \ {k}, j # key[r], cache[j] # NoCell
          PROVE  /\ u[j] = lastUse[j] /\ u[j] # 0 /\ u[k] < u[j]
                 /\ j \notin e /\ cache'[j] # NoCell
      <4>1. m[j] # NoCell
        BY <3>8, <3>9 DEF Cached
      <4>2. u[j] = lastUse[j] /\ u[j] # 0
        BY <3>1, <3>9, <4>1 DEF IInv, ListMatchesMap
      <4>3. u[k] <= u[j] /\ u[k] # u[j] /\ u[k] \in Nat /\ u[j] \in Nat
        BY <3>1, <3>4, <3>5, <3>7, <4>2 DEF ListOrdered
      <4>4. j \notin e
        <5>1. j \in e => u[j] <= u[k]
          BY <3>4, <3>7
        <5> QED
          BY <4>3, <5>1
      <4> QED
        BY <3>2, <3>3, <3>9, <4>1, <4>2, <4>3, <4>4
    <3>10. \A j \in Key \ {k} : cache[j] # NoCell => cache'[j] # NoCell
      BY <3>2, <3>3, <3>9
    <3>11. ASSUME NEW j \in Key \ {k}, cache'[j] # NoCell
           PROVE  lastUse'[j] > lastUse[k]
      <4>1. CASE j = key[r]
        <5>1. lastUse'[j] = total + 1
          BY <3>2, <3>3, <4>1
        <5> QED
          BY <5>1, <2>1 DEF ListOrdered
      <4>2. CASE j # key[r]
        <5>1. cache[j] # NoCell
          BY <3>1, <3>2, <3>3, <3>11, <4>2
        <5>2. lastUse'[j] = lastUse[j]
          BY <3>1, <3>2, <3>3, <3>9, <4>2, <5>1
        <5> QED
          BY <2>1, <3>5, <3>9, <4>2, <5>1, <5>2
      <4> QED
        BY <4>1, <4>2
    <3> QED
      BY <3>8, <3>10, <3>11
  <2> QED
    BY <2>3, <2>4, <2>5, <2>6
    DEF Next, Step, inner, Tick, Call, Check, Acquire, Produce, Join, Cancel
<1> QED
  BY <1>1, InvariantHolds, FitsHolds, ListStaysOrdered, PTL DEF Spec, EvictsLeastRecentlyUsed
=============================================================================
