--------------------------- MODULE CacheContract ---------------------------
(***************************************************************************)
(* What the callers of ObjectCache::get_result rely on, without the map,   *)
(* the LRU list, the shared cells or the lock.  A call for a key is        *)
(* answered with the outcome of one run of a producer for that key: a run  *)
(* that completed, and that began less than the time to live before the    *)
(* call (or that the call made itself).  A call may also be abandoned      *)
(* without an answer.                                                      *)
(***************************************************************************)
EXTENDS Integers

CONSTANTS Key,       (* the cache keys                                     *)
          Request,   (* the calls of get_result                            *)
          Ttl        (* the time to live of an entry, in seconds           *)

VARIABLES now,       (* the wall clock, in seconds                         *)
          status,    (* "idle", "pending", "answered" or "gone", per call  *)
          wanted,    (* the key a call asks for                            *)
          called,    (* the clock a call has read                          *)
          runs,      (* the completed producer runs                        *)
          answer     (* the runs (at most one) a call was answered from    *)

vars == <<now, status, wanted, called, runs, answer>>

\* A completed run of a producer is a record [key, since, outcome]: its key,
\* when it began, and "ok" or "err".

Init ==
    /\ now \in Nat
    /\ status = [r \in Request |-> "idle"]
    /\ wanted \in [Request -> Key]
    /\ called = [r \in Request |-> now]
    /\ runs = {}
    /\ answer = [r \in Request |-> {}]

Tick ==
    /\ now' > now
    /\ UNCHANGED <<status, wanted, called, runs, answer>>

Call(r) ==
    /\ status[r] = "idle"
    /\ status' = [status EXCEPT ![r] = "pending"]
    /\ \E k \in Key : wanted' = [wanted EXCEPT ![r] = k]
    /\ called' = [called EXCEPT ![r] = now]
    /\ UNCHANGED <<now, runs, answer>>

\* The producer call r runs completes with run v.
OwnRun(r, v) == v.key = wanted[r] /\ called[r] <= v.since /\ v.since <= now

\* The run call r made completes without answering it yet.
Produce(r) ==
    /\ status[r] = "pending"
    /\ \E v \in runs' : OwnRun(r, v) /\ runs' = runs \cup {v}
    /\ UNCHANGED <<now, status, wanted, called, answer>>

\* Call r is answered from a completed run for its key that is fresh enough,
\* or from its own run, which completes in the same step.
Answer(r) ==
    /\ status[r] = "pending"
    /\ \E v \in runs' :
          /\ v.key = wanted[r]
          /\ v.since > called[r] - Ttl
          /\ v \in runs \/ OwnRun(r, v)
          /\ runs' = runs \cup {v}
          /\ answer' = [answer EXCEPT ![r] = {v}]
    /\ status' = [status EXCEPT ![r] = "answered"]
    /\ UNCHANGED <<now, wanted, called>>

Abandon(r) ==
    /\ status[r] = "pending"
    /\ status' = [status EXCEPT ![r] = "gone"]
    /\ UNCHANGED <<now, wanted, called, runs, answer>>

Next ==
    \/ Tick
    \/ \E r \in Request :
          \/ Call(r)
          \/ Produce(r)
          \/ Answer(r)
          \/ Abandon(r)

Spec == Init /\ [][Next]_vars
=============================================================================
