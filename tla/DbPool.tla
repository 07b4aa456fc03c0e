------------------------------- MODULE DbPool -------------------------------
(***************************************************************************)
(* The database side of a request, src/src/postgres.rs: a query waits for  *)
(* a pooled connection (or opens one), is answered or fails, notes that in *)
(* the shared FailureLog, and gives the connection back.  The database     *)
(* may go away and come back; a connection it left behind stays in the     *)
(* pool until the client has noticed that it is closed.                    *)
(***************************************************************************)
EXTENDS Integers, Sequences, FiniteSets, SequencesExt

CONSTANTS Query,       (* the queries (tasks) in flight at a time          *)
          Count,       (* the values of db_connection_count                *)
          MaxOutage,   (* bound of the model on the outages                *)
          MaxLines     (* bound of the model: more lines count as so many  *)

ASSUME DbPoolAssumption ==
    /\ IsFiniteSet(Query)
    /\ IsFiniteSet(Count) /\ Count \subseteq Nat
    /\ MaxOutage \in Nat \ {0}
    /\ MaxLines \in Nat \ {0}

VARIABLES size,        (* max_size of the pool                             *)
          up,          (* the database can be reached                      *)
          outage,      (* the outages so far                               *)
          link,        (* per connection: "none", "open", "dead" (the      *)
                       (* client does not know yet), "closed"              *)
          idle,        (* the idle connections, next one first             *)
          waiting,     (* the queries waiting for a permit, in turn        *)
          pc,          (* where each query is                              *)
          held,        (* the connection it holds, 0 for none              *)
          logged,      (* FailureLog::logged                               *)
          lines,       (* FailureLog::log_count, per outage                *)
          lost         (* queries lost to a closed connection since the    *)
                       (* database was last up again                       *)

database == <<up, outage>>
pool == <<link, idle, waiting, held>>
failures == <<logged, lines, lost>>
vars == <<size, database, pool, pc, failures>>

\* Mutant: the configured count as it is.
Unclamped(count) == count

\* PostgresExecutor::build: at least one connection.
PoolSize(count) == IF count < 1 THEN 1 ELSE count

Link == 1..Max(Count \cup {1})

\* The queries that hold a permit.
Permitted == {q \in Query : pc[q] \notin {"idle", "waiting"}}

TypeOK ==
    /\ size \in Nat
    /\ up \in BOOLEAN
    /\ outage \in 0..MaxOutage
    /\ link \in [Link -> {"none", "open", "dead", "closed"}]
    /\ Cardinality({c \in Link : link[c] # "none"}) <= size
    /\ idle \in Seq(Link) /\ IsInjective(idle)
    /\ waiting \in Seq(Query)
    /\ pc \in [Query -> {"idle", "waiting", "connecting", "refused", "got",
                         "querying", "answered", "broken", "leaving"}]
    /\ held \in [Query -> Link \cup {0}]
    /\ logged \in BOOLEAN
    /\ lines \in [0..MaxOutage -> 0..MaxLines]
    /\ lost \in Nat

Init ==
    /\ \E n \in Count : size = PoolSize(n)
    /\ up \in BOOLEAN
    /\ outage = IF up THEN 0 ELSE 1
    /\ link = [c \in Link |-> "none"]
    /\ idle = <<>>
    /\ waiting = <<>>
    /\ pc = [q \in Query |-> "idle"]
    /\ held = [q \in Query |-> 0]
    /\ logged = FALSE
    /\ lines = [o \in 0..MaxOutage |-> 0]
    /\ lost = 0
-----------------------------------------------------------------------------
(* The database and its connections *)

\* The server goes away, and its end of every connection.
Fail ==
    /\ up
    /\ outage < MaxOutage
    /\ up' = FALSE
    /\ outage' = outage + 1
    /\ link' = [c \in Link |-> IF link[c] = "open" THEN "dead" ELSE link[c]]
    /\ UNCHANGED <<size, idle, waiting, held, pc, failures>>

Recover ==
    /\ ~up
    /\ up' = TRUE
    /\ lost' = 0
    /\ UNCHANGED <<size, outage, pool, pc, logged, lines>>

\* The client's end of a connection sees that the server's is gone.
Notice(c) ==
    /\ link[c] = "dead"
    /\ link' = [link EXCEPT ![c] = "closed"]
    /\ UNCHANGED <<size, database, idle, waiting, held, pc, failures>>
-----------------------------------------------------------------------------
(* A query *)

Go(q, place) == pc' = [pc EXCEPT ![q] = place]

\* acquire: the query asks the pool for a connection.
Ask(q) ==
    /\ pc[q] = "idle"
    /\ Go(q, "waiting")
    /\ waiting' = Append(waiting, q)
    /\ UNCHANGED <<size, database, link, idle, held, failures>>

\* Mutant: what comes back to the pool is handed out again, closed or not.
Whatever(c) == TRUE

\* RecyclingMethod::Fast: a connection not known to be closed may be used.
Usable(c) == link[c] # "closed"

\* The query gets a permit, and the first usable idle connection; the closed
\* ones before it are dropped.  Without one it has to connect.
Get(q) ==
    /\ pc[q] = "waiting"
    /\ Head(waiting) = q
    /\ Cardinality(Permitted) < size
    /\ waiting' = Tail(waiting)
    /\ LET i == SelectInSeq(idle, Usable)
           skipped == {idle[j] : j \in 1..(IF i = 0 THEN Len(idle) ELSE i - 1)}
       IN  /\ link' = [c \in Link |-> IF c \in skipped THEN "none" ELSE link[c]]
           /\ idle' = IF i = 0 THEN <<>> ELSE SubSeq(idle, i + 1, Len(idle))
           /\ held' = [held EXCEPT ![q] = IF i = 0 THEN 0 ELSE idle[i]]
           /\ Go(q, IF i = 0 THEN "connecting" ELSE "got")
    /\ UNCHANGED <<size, database, failures>>

Connect(q) ==
    /\ pc[q] = "connecting"
    /\ \/ /\ up
          /\ \E c \in Link :
                /\ link[c] = "none"
                /\ \A d \in 1..(c - 1) : link[d] # "none"
                /\ link' = [link EXCEPT ![c] = "open"]
                /\ held' = [held EXCEPT ![q] = c]
          /\ Go(q, "got")
       \/ /\ ~up
          /\ Go(q, "refused")
          /\ UNCHANGED <<link, held>>
    /\ UNCHANGED <<size, database, idle, waiting, failures>>

\* FailureLog::note_success.
NoteSuccess == logged' = FALSE /\ UNCHANGED <<lines, lost>>

\* FailureLog::note_failure, which logs if swap (should_log) has found FALSE.
NoteFailure ==
    /\ logged' = TRUE
    /\ lines' = IF logged THEN lines
                          ELSE [lines EXCEPT ![outage] = Min({@ + 1, MaxLines})]

\* acquire has its connection, fresh or stale, and notes a success.
Acquired(q) ==
    /\ pc[q] = "got"
    /\ NoteSuccess
    /\ Go(q, "querying")
    /\ UNCHANGED <<size, database, pool>>

\* acquire could not connect, notes a failure and returns the error.
Refused(q) ==
    /\ pc[q] = "refused"
    /\ NoteFailure
    /\ UNCHANGED lost
    /\ Go(q, "idle")
    /\ UNCHANGED <<size, database, pool>>

\* The prepared statement or its query has come to an end.
Answer(q) ==
    /\ pc[q] = "querying"
    /\ \/ link[held[q]] = "open" /\ pc' \in {[pc EXCEPT ![q] = p] : p \in {"answered", "broken"}}
       \/ link[held[q]] = "closed" /\ Go(q, "broken")
    /\ UNCHANGED <<size, database, pool, failures>>

\* Mutant: any error of a query counts as an outage.
AnyError(c) == TRUE

\* The connection of a failed query is found closed.
IsOutage(c) == link[c] = "closed"

\* query and execute note how the query went; an error of the statement on an
\* open connection is noted nowhere.
Note(q) ==
    /\ \/ pc[q] = "answered" /\ NoteSuccess
       \/ /\ pc[q] = "broken"
          /\ IF IsOutage(held[q]) THEN NoteFailure ELSE UNCHANGED <<logged, lines>>
          /\ lost' = IF link[held[q]] = "closed" /\ up THEN lost + 1 ELSE lost
    /\ Go(q, "leaving")
    /\ UNCHANGED <<size, database, pool>>

\* The connection goes back to the pool, whatever its state.
GiveBack(q) ==
    /\ idle' = Append(idle, held[q])
    /\ held' = [held EXCEPT ![q] = 0]
    /\ Go(q, "idle")
    /\ UNCHANGED <<size, database, link, failures>>

Leave(q) ==
    /\ pc[q] = "leaving"
    /\ GiveBack(q)
    /\ UNCHANGED waiting

\* try_join! drops the second of two queries where the first has failed.
Cancel(q) ==
    \/ /\ pc[q] = "waiting"
       /\ Go(q, "idle")
       /\ \E i \in DOMAIN waiting : waiting[i] = q /\ waiting' = RemoveAt(waiting, i)
       /\ UNCHANGED <<size, database, link, idle, held, failures>>
    \/ /\ pc[q] = "connecting"
       /\ Go(q, "idle")
       /\ UNCHANGED <<size, database, pool, failures>>
    \/ /\ pc[q] = "querying"
       /\ GiveBack(q)
       /\ UNCHANGED waiting

Step(q) ==
    Get(q) \/ Connect(q) \/ Acquired(q) \/ Refused(q) \/ Answer(q) \/ Note(q) \/ Leave(q)

Next ==
    \/ Fail
    \/ Recover
    \/ \E c \in Link : Notice(c)
    \/ \E q \in Query : Ask(q) \/ Step(q) \/ Cancel(q)

Spec == Init /\ [][Next]_vars

\* The runtime runs every task, the server answers or its end is noticed.
Fairness ==
    /\ \A q \in Query : WF_vars(Step(q))
    /\ \A c \in Link : WF_vars(Notice(c))

FairSpec == Spec /\ Fairness
-----------------------------------------------------------------------------
(* Properties *)

\* As long as the database has always been there nothing is logged, whatever
\* statements fail.
NothingLoggedWhenWell == lines[0] = 0

\* A database that stays away does not go on filling the log: however many
\* queries fail, from some time on none of them logs a line.
LogFallsSilent == <>[]~up => <>[][logged' => logged]_logged

\* After a recovery every connection left behind costs at most one query.
LostBounded == lost <= size

\* Every query comes to its end, with a pool of any configured size.
EveryQueryEnds == \A q \in Query : pc[q] = "waiting" ~> pc[q] = "idle"

\* FailureLog: exactly one line per outage.
OneLinePerOutage == \A o \in 0..MaxOutage : lines[o] <= 1
=============================================================================
