----------------------------- MODULE UsageLog -----------------------------
(***************************************************************************)
(* The per-request usage log of src/src/service_log.rs: request handlers   *)
(* put entries into a bounded queue without ever waiting, and one consumer *)
(* thread takes them out and appends each to the file of its own UTC day.  *)
(* A day whose file cannot be opened or written is given up.  The consumer *)
(* ends when every holder of the sender is gone and the queue is empty.    *)
(*                                                                         *)
(* An entry is stamped with the day before it is sent, and two handlers    *)
(* may send in the other order: around midnight the queue can hold an      *)
(* entry of yesterday behind one of today.                                 *)
(***************************************************************************)
EXTENDS Integers, Sequences, FiniteSets

CONSTANTS Entry,       (* the usage-log entries                            *)
          Holder,      (* whoever may hold the service, and so the sender  *)
          Capacity,    (* QUEUE_CAPACITY                                   *)
          MaxDay,      (* bound of the model on the days                   *)
          Tear         (* bound of the model: where a write may be torn    *)

\* How much of a row of fifteen fields is in the file, in half fields: 2n - 1
\* ends in the n-th field, which is not closed; 2n ends with the tab after it.
\* The row of 29 lacks but its newline, which is a write of its own.
Whole == 30

ASSUME UsageLogAssumption ==
    /\ Capacity \in Nat \ {0}
    /\ MaxDay \in Nat \ {0}
    /\ Tear \subseteq 1 .. Whole - 1

VARIABLES today,       (* the UTC day of the clock                         *)
          holders,     (* who holds an Arc<Service>, and so a sender       *)
          stamp,       (* the day of each entry, 0 before it is made       *)
          fate,        (* what has become of each entry                    *)
          queue,       (* the channel                                      *)
          dropped,     (* UsageLogSender::dropped                          *)
          currentDay,  (* ServicelogWriter::current_day, 0 for None        *)
          disabledDay, (* disabled_day (and failure), 0 for None           *)
          droppedRows, (* ServicelogWriter::dropped_rows                   *)
          files,       (* what is on disk, per day: rows, whole or torn    *)
          warnings,    (* write-failure warnings logged, per day           *)
          consumer     (* "running" or "done"                              *)

writer == <<currentDay, disabledDay, droppedRows, files, warnings>>
logVars == <<today, holders, stamp, fate, queue, dropped, writer, consumer>>

Day == 1..MaxDay

\* "full" met a full queue; "failed" is the row whose write failed, "skipped"
\* a later one of a day that was given up.
Fate == {"none", "made", "queued", "full", "written", "failed", "skipped"}

\* What a write has left in a file; a failing one may tear the row anywhere.
Piece == [entry : Entry, cut : Tear \cup {Whole}]

LogTypeOK ==
    /\ today \in Day
    /\ holders \in SUBSET Holder
    /\ stamp \in [Entry -> 0..MaxDay]
    /\ fate \in [Entry -> Fate]
    /\ queue \in Seq(Entry) /\ Len(queue) <= Capacity
    /\ dropped \in Nat
    /\ currentDay \in 0..MaxDay
    /\ disabledDay \in 0..MaxDay
    /\ droppedRows \in Nat
    /\ files \in [Day -> Seq(Piece)]
    /\ warnings \in [Day -> Nat]
    /\ consumer \in {"running", "done"}

LogInit ==
    /\ today = 1
    /\ stamp = [e \in Entry |-> 0]
    /\ fate = [e \in Entry |-> "none"]
    /\ queue = <<>>
    /\ dropped = 0
    /\ currentDay = 0
    /\ disabledDay = 0
    /\ droppedRows = 0
    /\ files = [d \in Day |-> <<>>]
    /\ warnings = [d \in Day |-> 0]
    /\ consumer = "running"
-----------------------------------------------------------------------------
Midnight ==
    /\ today < MaxDay
    /\ today' = today + 1
    /\ UNCHANGED <<holders, stamp, fate, queue, dropped, writer, consumer>>

\* A handler builds the entry, with the time it then is.
Make(e) ==
    /\ fate[e] = "none"
    /\ stamp' = [stamp EXCEPT ![e] = today]
    /\ fate' = [fate EXCEPT ![e] = "made"]
    /\ UNCHANGED <<today, holders, queue, dropped, writer, consumer>>

\* Mutant: an unbounded channel.
AlwaysRoom == TRUE

HasRoom == Len(queue) < Capacity

\* UsageLogSender::record: try_send, which drops the entry at a full queue.
Record(e) ==
    /\ fate[e] = "made"
    /\ \/ /\ HasRoom
          /\ queue' = Append(queue, e)
          /\ fate' = [fate EXCEPT ![e] = "queued"]
          /\ UNCHANGED dropped
       \/ /\ ~HasRoom
          /\ dropped' = dropped + 1
          /\ fate' = [fate EXCEPT ![e] = "full"]
          /\ UNCHANGED queue
    /\ UNCHANGED <<today, holders, stamp, writer, consumer>>

\* Mutant: a day given up stays given up for the entries of other days.
DisabledEver(d) == disabledDay # 0

\* Writing is given up for day d; an entry of another day ends that first.
DisabledFor(d) == disabledDay = d

\* Mutant: the file is opened once and never changed.
NeedsOpenOnce(d) == currentDay = 0

\* The open file is not that of day d.
NeedsOpen(d) == currentDay # d

\* The file of a new day cannot be opened, and the old one stays current; or a
\* write fails that leaves nothing.
CannotOpen == -1
Nothing == 0

\* How much try_append writes.
Outcome == {CannotOpen, Nothing, Whole} \cup Tear

TryAppend(e, o) ==
    /\ o = CannotOpen => NeedsOpen(stamp[e])
    /\ currentDay' = IF NeedsOpen(stamp[e]) /\ o # CannotOpen
                     THEN stamp[e] ELSE currentDay
    /\ files' = IF o \in {CannotOpen, Nothing} THEN files
                ELSE [files EXCEPT ![currentDay'] = Append(@, [entry |-> e, cut |-> o])]

\* The consumer takes the next entry and appends it.
Consume(o) ==
    LET e == Head(queue)
        d == stamp[e]
    IN  /\ consumer = "running"
        /\ queue # <<>>
        /\ queue' = Tail(queue)
        /\ \/ /\ DisabledFor(d)
              /\ o = Whole
              /\ droppedRows' = droppedRows + 1
              /\ fate' = [fate EXCEPT ![e] = "skipped"]
              /\ UNCHANGED <<currentDay, disabledDay, files, warnings>>
           \/ /\ ~DisabledFor(d)
              /\ TryAppend(e, o)
              /\ disabledDay' = IF o = Whole THEN 0 ELSE d
              /\ warnings' = IF o = Whole THEN warnings
                                         ELSE [warnings EXCEPT ![d] = @ + 1]
              /\ fate' = [fate EXCEPT ![e] = IF o = Whole THEN "written" ELSE "failed"]
              /\ UNCHANGED droppedRows
        /\ UNCHANGED <<today, holders, stamp, dropped, consumer>>

\* Mutant: the consumer stops with the last sender, whatever is still queued.
ClosedAtOnce == holders = {}

\* The channel is closed for blocking_recv: no sender, and nothing queued.
Closed == holders = {} /\ queue = <<>>

\* The consumer flushes (an unbuffered file: nothing to do) and ends.
ConsumerEnds ==
    /\ consumer = "running"
    /\ Closed
    /\ consumer' = "done"
    /\ UNCHANGED <<today, holders, stamp, fate, queue, dropped, writer>>

ConsumerStep ==
    \/ \E o \in Outcome : Consume(o)
    \/ ConsumerEnds
-----------------------------------------------------------------------------
(* Properties *)

\* Every row stands in the file of its own entry's day, also when an entry of
\* yesterday comes after one of today.
RowsInOwnDay ==
    \A d \in Day : \A i \in DOMAIN files[d] : stamp[files[d][i].entry] = d

\* A row is skipped only on account of a failed write of its own day: giving
\* up one day costs no other day anything.
SkippedAfterOwnFailure ==
    \A e \in Entry : fate[e] = "skipped" =>
        \E f \in Entry : fate[f] = "failed" /\ stamp[f] = stamp[e]

\* README, "Usage log": the first failed write of a UTC day is logged once, and
\* writing stops for the rest of that day.
OneWarningPerDay == \A d \in Day : warnings[d] <= 1

\* Whatever was accepted into the queue is written, or its failure is.
AcceptedHandled ==
    \A e \in Entry :
        fate[e] = "queued" ~> fate[e] \in {"written", "failed", "skipped"}
=============================================================================
