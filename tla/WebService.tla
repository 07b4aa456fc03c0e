---------------------------- MODULE WebService ----------------------------
(***************************************************************************)
(* The life of the bo-webservice process (src/src/bin/bo-webservice.rs):   *)
(* connection tasks (src/src/http.rs) each hold the service, the main      *)
(* thread waits for the listener or a signal, lets go of its own hold, and *)
(* joins the usage-log consumer before the runtime and the process end.    *)
(***************************************************************************)
EXTENDS UsageLog

CONSTANTS Connection,  (* the connections that clients open               *)
          Main         (* the main thread as a holder of the service       *)

ASSUME WebServiceAssumption ==
    /\ Main \notin Connection
    /\ Holder = Connection \cup {Main}

VARIABLES main,        (* "serving", "joining" or "exited"                 *)
          conn,        (* per connection: "new", "reading", "handling",    *)
                       (* "recording", "writing" or "closed"               *)
          request      (* the entry of the request a connection handles    *)

vars == <<logVars, main, conn, request>>

Phase == {"new", "reading", "handling", "recording", "writing", "closed"}

TypeOK ==
    /\ LogTypeOK
    /\ main \in {"serving", "joining", "exited"}
    /\ conn \in [Connection -> Phase]
    /\ request \in [Connection -> {{}} \cup {{e} : e \in Entry}]

Init ==
    /\ LogInit
    /\ holders = {Main}
    /\ main = "serving"
    /\ conn = [c \in Connection |-> "new"]
    /\ request = [c \in Connection |-> {}]
-----------------------------------------------------------------------------
Go(c, phase) == conn' = [conn EXCEPT ![c] = phase]

\* A connection task ends and drops its Arc<Service>.
Release(c) ==
    /\ Go(c, "closed")
    /\ holders' = holders \ {c}
    /\ UNCHANGED <<today, stamp, fate, queue, dropped, writer, consumer>>

\* serve: accept a connection and spawn its task with a clone of the service.
Accept(c) ==
    /\ main = "serving"
    /\ conn[c] = "new"
    /\ Go(c, "reading")
    /\ holders' = holders \cup {c}
    /\ UNCHANGED <<today, stamp, fate, queue, dropped, writer, consumer, main, request>>

\* The client sends a request; the task goes on until the entry is due.
Read(c) ==
    /\ conn[c] = "reading"
    /\ main # "exited"
    /\ \E e \in Entry :
          /\ fate[e] = "none"
          /\ \A b \in Connection : e \notin request[b]
          /\ request' = [request EXCEPT ![c] = {e}]
    /\ Go(c, "handling")
    /\ UNCHANGED <<logVars, main>>

\* The client closes (or sends what is not HTTP, or its read fails): the
\* task returns.  Nothing but the client ends a task that reads.
Hangup(c) ==
    /\ conn[c] = "reading"
    /\ main # "exited"
    /\ Release(c)
    /\ UNCHANGED <<main, request>>

\* The handler has its result and makes the usage entry.
Answered(c) ==
    /\ conn[c] = "handling"
    /\ main # "exited"
    /\ \E e \in request[c] : Make(e)
    /\ Go(c, "recording")
    /\ UNCHANGED <<main, request>>

\* Blocked, faulty and unlogged requests (and 405) come to an answer unrecorded.
Refused(c) ==
    /\ conn[c] = "handling"
    /\ main # "exited"
    /\ request' = [request EXCEPT ![c] = {}]
    /\ Go(c, "writing")
    /\ UNCHANGED <<logVars, main>>

RecordUsage(c) ==
    /\ conn[c] = "recording"
    /\ main # "exited"
    /\ \E e \in request[c] : Record(e)
    /\ request' = [request EXCEPT ![c] = {}]
    /\ Go(c, "writing")
    /\ UNCHANGED main

\* The response is written and the connection kept alive.
KeepAlive(c) ==
    /\ conn[c] = "writing"
    /\ main # "exited"
    /\ Go(c, "reading")
    /\ UNCHANGED <<logVars, main, request>>

\* The response is written, or cannot be, and the connection closed.
CloseAfter(c) ==
    /\ conn[c] = "writing"
    /\ main # "exited"
    /\ Release(c)
    /\ UNCHANGED <<main, request>>

\* Mutant: main keeps its own Arc<Service> while it joins.
KeptByMain == holders

\* The serve future owns main's Arc<Service>; select! drops it with its end.
LetGoByMain == holders \ {Main}

\* SIGINT or SIGTERM, or an error of accept: block_on returns, no connection
\* is accepted any more, and main joins the consumer.
StopServing ==
    /\ main = "serving"
    /\ main' = "joining"
    /\ holders' = LetGoByMain
    /\ UNCHANGED <<today, stamp, fate, queue, dropped, writer, consumer, conn, request>>

\* The join returns; main drops the runtime and the process ends.
Exit ==
    /\ main = "joining"
    /\ consumer = "done"
    /\ main' = "exited"
    /\ UNCHANGED <<logVars, conn, request>>

LogStep ==
    /\ Midnight \/ ConsumerStep
    /\ main # "exited"
    /\ UNCHANGED <<main, conn, request>>

Work(c) == Answered(c) \/ Refused(c) \/ RecordUsage(c) \/ KeepAlive(c) \/ CloseAfter(c)

Next ==
    \/ StopServing
    \/ Exit
    \/ LogStep
    \/ \E c \in Connection : Accept(c) \/ Read(c) \/ Hangup(c) \/ Work(c)

Spec == Init /\ [][Next]_vars

\* A task that works comes to its end, the consumer thread and the join go on.
\* What a client owes nobody (a request, closing, a signal) is not fair.
Fairness ==
    /\ \A c \in Connection : WF_vars(Work(c))
    /\ WF_vars(LogStep /\ ConsumerStep)
    /\ WF_vars(Exit)

FairSpec == Spec /\ Fairness
-----------------------------------------------------------------------------
(* Properties *)

\* README, "Shutdown and flush": entries queued at shutdown are not lost; when
\* the process ends, no handler is between making and recording one either.
NothingLostAtExit ==
    main = "exited" => \A e \in Entry : fate[e] \notin {"made", "queued"}

\* After the signal the process ends as soon as the clients have gone.
ExitsWithoutClients ==
    (main = "joining" /\ \A c \in Connection : conn[c] \in {"new", "closed"})
        ~> main = "exited"

\* README, "Shutdown and flush": on a signal the service stops accepting
\* requests, the sender is dropped, the queue drained, and the process exits.
SignalEndsProcess == main = "joining" ~> main = "exited"
=============================================================================
