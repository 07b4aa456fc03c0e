-------------------------- MODULE WebServiceProofs --------------------------
(***************************************************************************)
(* Proofs about WebService, and the usage log in it, for any number of     *)
(* connections, entries and days and any capacity of the queue; and about  *)
(* Settings, for any files, variables and arguments a start may find.      *)
(***************************************************************************)
EXTENDS WebService, Settings, Lemmas

\* An entry stands in the queue once, as long as it is queued.
QueueHasQueued ==
    /\ \A e \in Entry : fate[e] = "queued" <=> \E i \in DOMAIN queue : queue[i] = e
    /\ \A i, j \in DOMAIN queue : queue[i] = queue[j] => i = j

\* An entry that was made has its day.
MadeIsStamped == \A e \in Entry : fate[e] # "none" => stamp[e] \in Day

\* A row is that of an entry whose fate is sealed.
RowsAreHandled ==
    \A d \in Day : \A i \in DOMAIN files[d] :
        fate[files[d][i].entry] \in {"written", "failed"}

\* A day is given up for a row of its own that failed.
DisabledAfterOwnFailure ==
    disabledDay # 0 => \E f \in Entry : fate[f] = "failed" /\ stamp[f] = disabledDay

\* The service is held by main until it stops serving, and by the connections
\* between their first and their last step.
Alive(c) == conn[c] \notin {"new", "closed"}

HeldByTheLiving ==
    /\ main = "serving" <=> Main \in holders
    /\ \A c \in Connection : c \in holders <=> Alive(c)

\* An entry that was made is about to be recorded by a connection, which has
\* no other.
MadeIsCarried ==
    /\ \A e \in Entry : fate[e] = "made" =>
          \E c \in Connection : conn[c] = "recording" /\ e \in request[c]
    /\ \A c \in Connection : \A e, f \in request[c] : e = f

\* The consumer has ended only when nobody can send any more and all that was
\* sent has been taken.
ConsumerDoneLast == consumer = "done" => Closed

ExitAfterConsumer == main = "exited" => consumer = "done"

LogInv ==
    /\ QueueHasQueued
    /\ MadeIsStamped
    /\ RowsAreHandled
    /\ RowsInOwnDay
    /\ DisabledAfterOwnFailure
    /\ SkippedAfterOwnFailure

ServiceInv ==
    /\ HeldByTheLiving
    /\ MadeIsCarried
    /\ ConsumerDoneLast
    /\ ExitAfterConsumer

IInv == TypeOK /\ LogInv /\ ServiceInv
-----------------------------------------------------------------------------
(* Types *)

\* At the start the log, the connections and main are of their types.
LEMMA TypeInit == Init => TypeOK
BY UsageLogAssumption, WebServiceAssumption
   DEF UsageLogAssumption, WebServiceAssumption, Init, LogInit, TypeOK, LogTypeOK, Day, Fate, Phase, Piece

\* An entry that is made is stamped with a day.
LEMMA MakeType ==
    ASSUME LogTypeOK, NEW e \in Entry, Make(e)
    PROVE  LogTypeOK'
BY DEF LogTypeOK, Make, Day, Fate, writer

\* An entry that is sent is in the queue or dropped.
LEMMA RecordType ==
    ASSUME LogTypeOK, NEW e \in Entry, Record(e)
    PROVE  LogTypeOK'
<1> USE UsageLogAssumption DEF UsageLogAssumption
<1>1. CASE /\ HasRoom
           /\ queue' = Append(queue, e)
           /\ fate' = [fate EXCEPT ![e] = "queued"]
           /\ UNCHANGED dropped
  <2>1. queue' \in Seq(Entry) /\ Len(queue') = Len(queue) + 1
    BY <1>1, AppendProperties DEF LogTypeOK
  <2>2. Len(queue') <= Capacity
    BY <1>1, <2>1 DEF HasRoom, LogTypeOK
  <2>3. fate' \in [Entry -> Fate]
    BY <1>1 DEF LogTypeOK, Fate
  <2>4. QED
    BY <1>1, <2>1, <2>2, <2>3 DEF LogTypeOK, Record, writer
<1>2. CASE /\ ~HasRoom
           /\ dropped' = dropped + 1
           /\ fate' = [fate EXCEPT ![e] = "full"]
           /\ UNCHANGED queue
  <2>1. fate' \in [Entry -> Fate]
    BY <1>2 DEF LogTypeOK, Fate
  <2>2. QED
    BY <1>2, <2>1 DEF LogTypeOK, Record, writer
<1>3. QED
  BY <1>1, <1>2 DEF Record

\* What the consumer takes is an entry with a day, and it goes on with that day
\* or stays with its own.
LEMMA ConsumeType ==
    ASSUME LogTypeOK, LogInv, NEW o \in Outcome, Consume(o)
    PROVE  /\ LogTypeOK'
           /\ Head(queue) \in Entry
           /\ stamp[Head(queue)] \in Day
           /\ currentDay' = IF o = CannotOpen \/ fate'[Head(queue)] = "skipped" THEN currentDay
                            ELSE stamp[Head(queue)]
<1> USE UsageLogAssumption DEF UsageLogAssumption
<1> DEFINE e == Head(queue)
           d == stamp[e]
           row == [entry |-> e, cut |-> o]
<1>1. /\ e \in Entry /\ queue # << >> /\ queue' = Tail(queue)
      /\ queue' \in Seq(Entry) /\ Len(queue') <= Capacity
  BY DEF LogTypeOK, Consume
<1>2. d \in Day
  <2>1. 1 \in DOMAIN queue /\ queue[1] = e
    BY <1>1 DEF LogTypeOK
  <2>2. fate[e] = "queued"
    BY <1>1, <2>1 DEF LogInv, QueueHasQueued
  <2>3. QED
    BY <1>1, <2>2 DEF LogInv, MadeIsStamped
<1> HIDE DEF e
<1>3. CASE /\ DisabledFor(d) /\ o = Whole
           /\ droppedRows' = droppedRows + 1
           /\ fate' = [fate EXCEPT ![e] = "skipped"]
           /\ UNCHANGED <<currentDay, disabledDay, files, warnings>>
  <2>1. LogTypeOK'
    BY <1>1, <1>3 DEF LogTypeOK, Consume, Fate
  <2>2. QED
    BY <1>1, <1>2, <1>3, <2>1 DEF LogTypeOK, e
<1>4. CASE /\ ~DisabledFor(d) /\ TryAppend(e, o)
           /\ disabledDay' = IF o = Whole THEN 0 ELSE d
           /\ warnings' = IF o = Whole THEN warnings ELSE [warnings EXCEPT ![d] = @ + 1]
           /\ fate' = [fate EXCEPT ![e] = IF o = Whole THEN "written" ELSE "failed"]
           /\ UNCHANGED droppedRows
  <2>1. currentDay' = IF o = CannotOpen THEN currentDay ELSE d
    BY <1>4 DEF TryAppend, NeedsOpen
  <2>2. o \notin {CannotOpen, Nothing} => row \in Piece
    <3>1. o \notin {CannotOpen, Nothing} => o \in Tear \cup {Whole}
      BY DEF Outcome
    <3>2. QED
      BY <1>1, <3>1 DEF Piece
  <2>3. currentDay' \in 0..MaxDay /\ (o # CannotOpen => currentDay' \in Day)
    BY <1>2, <2>1 DEF LogTypeOK, Day
  <2>4. files' \in [Day -> Seq(Piece)]
    <3>1. CASE o \in {CannotOpen, Nothing}
      BY <1>4, <3>1 DEF TryAppend, LogTypeOK
    <3>2. CASE o \notin {CannotOpen, Nothing}
      <4>1. files' = [files EXCEPT ![currentDay'] = Append(@, row)] /\ currentDay' \in Day
        BY <1>4, <2>3, <3>2 DEF TryAppend
      <4>2. Append(files[currentDay'], row) \in Seq(Piece)
        BY <2>2, <3>2, <4>1 DEF LogTypeOK
      <4> HIDE DEF row
      <4>3. QED
        BY <4>1, <4>2 DEF LogTypeOK
    <3>3. QED
      BY <3>1, <3>2
  <2>5. /\ disabledDay' \in 0..MaxDay
        /\ warnings' \in [Day -> Nat]
        /\ fate' \in [Entry -> Fate]
    <3>1. disabledDay' \in 0..MaxDay
      BY <1>2, <1>4 DEF LogTypeOK, Day
    <3>2. [warnings EXCEPT ![d] = @ + 1] \in [Day -> Nat]
      BY <1>2 DEF LogTypeOK
    <3>3. warnings' \in [Day -> Nat]
      <4> HIDE DEF d
      <4> QED BY <1>4, <3>2 DEF LogTypeOK
    <3>4. fate' \in [Entry -> Fate]
      BY <1>1, <1>4 DEF LogTypeOK, Fate
    <3>5. QED
      BY <3>1, <3>3, <3>4
  <2>6. LogTypeOK'
    BY <1>1, <1>4, <2>3, <2>4, <2>5 DEF LogTypeOK, Consume
  <2>7. fate'[e] # "skipped"
    BY <1>1, <1>4 DEF LogTypeOK
  <2>8. QED
    BY <1>1, <1>2, <2>1, <2>6, <2>7 DEF e
<1>5. QED
  BY <1>3, <1>4 DEF Consume, e

\* The steps of the log on its own keep its types.
LEMMA LogStepType ==
    ASSUME LogTypeOK, LogInv, Midnight \/ ConsumerStep
    PROVE  LogTypeOK'
<1>1. CASE Midnight
  BY <1>1, UsageLogAssumption DEF UsageLogAssumption, Midnight, LogTypeOK, Day, writer
<1>2. CASE ConsumerEnds
  BY <1>2 DEF ConsumerEnds, LogTypeOK, writer
<1>3. ASSUME NEW o \in Outcome, Consume(o)
      PROVE  LogTypeOK'
  BY <1>3, ConsumeType
<1>4. QED
  BY <1>1, <1>2, <1>3 DEF ConsumerStep

\* No step of main, a connection, the listener or the log takes a variable out of
\* its type.
LEMMA TypeStep ==
    ASSUME TypeOK, LogInv, [Next]_vars
    PROVE  TypeOK'
<1> USE WebServiceAssumption DEF WebServiceAssumption, Phase
<1>1. CASE UNCHANGED vars
  BY <1>1 DEF vars, logVars, writer, TypeOK, LogTypeOK
<1>2. CASE StopServing
  BY <1>2 DEF StopServing, LetGoByMain, writer, TypeOK, LogTypeOK
<1>3. CASE Exit
  BY <1>3 DEF Exit, logVars, writer, TypeOK, LogTypeOK
<1>4. CASE LogStep
  BY <1>4, LogStepType DEF LogStep, TypeOK
<1>5. ASSUME NEW c \in Connection, Accept(c)
      PROVE  TypeOK'
  BY <1>5 DEF Accept, Go, writer, TypeOK, LogTypeOK
<1>6. ASSUME NEW c \in Connection, Read(c)
      PROVE  TypeOK'
  <2>1. request' \in [Connection -> {{}} \cup {{e} : e \in Entry}]
    BY <1>6 DEF Read, TypeOK
  <2>2. conn' \in [Connection -> Phase]
    BY <1>6 DEF Read, Go, TypeOK
  <2>3. QED
    BY <1>6, <2>1, <2>2 DEF Read, logVars, writer, TypeOK, LogTypeOK
<1>7. ASSUME NEW c \in Connection, Hangup(c) \/ CloseAfter(c)
      PROVE  TypeOK'
  BY <1>7 DEF Hangup, CloseAfter, Release, Go, writer, TypeOK, LogTypeOK
<1>8. ASSUME NEW c \in Connection, Answered(c)
      PROVE  TypeOK'
  <2>1. LogTypeOK'
    BY <1>8, MakeType DEF Answered, TypeOK
  <2>2. QED
    BY <1>8, <2>1 DEF Answered, Go, TypeOK
<1>9. ASSUME NEW c \in Connection, Refused(c) \/ KeepAlive(c)
      PROVE  TypeOK'
  BY <1>9 DEF Refused, KeepAlive, Go, logVars, writer, TypeOK, LogTypeOK
<1>10. ASSUME NEW c \in Connection, RecordUsage(c)
      PROVE  TypeOK'
  <2>1. LogTypeOK'
    BY <1>10, RecordType DEF RecordUsage, TypeOK
  <2>2. QED
    BY <1>10, <2>1 DEF RecordUsage, Go, TypeOK
<1>11. QED
  BY <1>1, <1>2, <1>3, <1>4, <1>5, <1>6, <1>7, <1>8, <1>9, <1>10 DEF Next, Work
-----------------------------------------------------------------------------
(* The usage log *)

\* At the start nothing has been logged.
LEMMA LogInitInv == Init => LogInv
BY DEF Init, LogInit, LogInv, QueueHasQueued, MadeIsStamped, RowsAreHandled, RowsInOwnDay,
       DisabledAfterOwnFailure, SkippedAfterOwnFailure

\* What is known of the log depends on its entries, the queue and the files alone.
LEMMA LogUntouched ==
    ASSUME LogInv, UNCHANGED <<stamp, fate, queue, files, disabledDay>>
    PROVE  LogInv'
BY DEF LogInv, QueueHasQueued, MadeIsStamped, RowsAreHandled, RowsInOwnDay,
       DisabledAfterOwnFailure, SkippedAfterOwnFailure

\* A row of a file is of an entry.
LEMMA RowEntries ==
    ASSUME LogTypeOK
    PROVE  \A d \in Day : \A i \in DOMAIN files[d] : files[d][i].entry \in Entry
<1> SUFFICES ASSUME NEW d \in Day, NEW i \in DOMAIN files[d]
             PROVE  files[d][i].entry \in Entry
  OBVIOUS
<1>1. files[d] \in Seq(Piece)
  BY DEF LogTypeOK
<1>2. files[d][i] \in Piece
  BY <1>1
<1>3. QED
  BY <1>2 DEF Piece

\* An entry that is made is not yet in the queue or in a file.
LEMMA MakeStep ==
    ASSUME LogTypeOK, LogInv, NEW e \in Entry, Make(e)
    PROVE  LogInv'
<1>1. /\ fate[e] = "none" /\ today \in Day
      /\ UNCHANGED <<queue, files, disabledDay>>
      /\ \A f \in Entry : /\ stamp'[f] = IF f = e THEN today ELSE stamp[f]
                          /\ fate'[f] = IF f = e THEN "made" ELSE fate[f]
  BY DEF Make, LogTypeOK, writer
<1>2. \A d \in Day : \A i \in DOMAIN files[d] : files[d][i].entry \in Entry
  BY RowEntries
<1>3. QueueHasQueued' /\ MadeIsStamped'
  BY <1>1 DEF LogInv, QueueHasQueued, MadeIsStamped
<1>4. RowsAreHandled' /\ RowsInOwnDay'
  BY <1>1, <1>2 DEF LogInv, RowsAreHandled, RowsInOwnDay
<1>5. DisabledAfterOwnFailure' /\ SkippedAfterOwnFailure'
  BY <1>1 DEF LogInv, DisabledAfterOwnFailure, SkippedAfterOwnFailure
<1>6. QED
  BY <1>3, <1>4, <1>5 DEF LogInv

\* An entry is sent once, by its handler.
LEMMA RecordStep ==
    ASSUME LogTypeOK, LogInv, NEW e \in Entry, Record(e)
    PROVE  LogInv'
<1>1. fate[e] = "made" /\ UNCHANGED <<stamp, files, disabledDay>>
  BY DEF Record, writer
<1>2. \/ /\ queue' = Append(queue, e)
         /\ \A f \in Entry : fate'[f] = IF f = e THEN "queued" ELSE fate[f]
      \/ /\ queue' = queue
         /\ \A f \in Entry : fate'[f] = IF f = e THEN "full" ELSE fate[f]
  BY DEF Record, LogTypeOK
<1>3. \A d \in Day : \A i \in DOMAIN files[d] : files[d][i].entry \in Entry
  BY RowEntries
<1>4. QueueHasQueued'
  <2>1. CASE queue' = queue
    BY <1>1, <1>2, <2>1 DEF LogInv, QueueHasQueued, LogTypeOK
  <2>2. CASE queue' = Append(queue, e)
    <3>1. /\ DOMAIN queue = 1..Len(queue) /\ DOMAIN queue' = 1..(Len(queue) + 1)
          /\ \A i \in 1..Len(queue) : queue'[i] = queue[i]
          /\ queue'[Len(queue) + 1] = e
          /\ Len(queue) \in Nat
      BY <2>2, AppendProperties DEF LogTypeOK
    <3>2. \A i \in DOMAIN queue : queue[i] # e
      BY <1>1 DEF LogInv, QueueHasQueued
    <3>3. queue' # queue
      BY <3>1
    <3>4. \A f \in Entry : fate'[f] = "queued" <=> \E i \in DOMAIN queue' : queue'[i] = f
      BY <1>2, <3>1, <3>3 DEF LogInv, QueueHasQueued
    <3>5. \A i, j \in DOMAIN queue' : queue'[i] = queue'[j] => i = j
      BY <3>1, <3>2 DEF LogInv, QueueHasQueued
    <3>6. QED
      BY <3>4, <3>5 DEF QueueHasQueued
  <2>3. QED
    BY <1>2, <2>1, <2>2
<1>5. MadeIsStamped'
  BY <1>1, <1>2 DEF LogInv, MadeIsStamped
<1>6. RowsAreHandled' /\ RowsInOwnDay'
  BY <1>1, <1>2, <1>3 DEF LogInv, RowsAreHandled, RowsInOwnDay
<1>7. DisabledAfterOwnFailure' /\ SkippedAfterOwnFailure'
  BY <1>1, <1>2 DEF LogInv, DisabledAfterOwnFailure, SkippedAfterOwnFailure
<1>8. QED
  BY <1>4, <1>5, <1>6, <1>7 DEF LogInv

\* The consumer writes an entry to the file of its own day, or skips it on a day
\* that already failed, and only one the queue held.
LEMMA ConsumeStep ==
    ASSUME LogTypeOK, LogInv, NEW o \in Outcome, Consume(o)
    PROVE  LogInv'
<1> DEFINE e == Head(queue)
           d == stamp[e]
           fell == IF DisabledFor(d) THEN "skipped" ELSE IF o = Whole THEN "written" ELSE "failed"
<1>1. /\ e \in Entry /\ d \in Day /\ stamp' = stamp
      /\ queue # << >> /\ queue' = Tail(queue)
      /\ fate' = [fate EXCEPT ![e] = fell]
  BY ConsumeType DEF Consume
<1>2. /\ fate[e] = "queued"
      /\ \A f \in Entry : fate'[f] = IF f = e THEN fell ELSE fate[f]
      /\ Len(queue) \in Nat \ {0} /\ DOMAIN queue = 1..Len(queue) /\ queue[1] = e
      /\ DOMAIN queue' = 1..(Len(queue) - 1)
      /\ \A i \in 1..(Len(queue) - 1) : queue'[i] = queue[i + 1]
  BY <1>1, HeadTailProperties DEF LogTypeOK, LogInv, QueueHasQueued
<1>3. \A b \in Day : \A i \in DOMAIN files[b] : files[b][i].entry \in Entry /\ files[b][i].entry # e
  <2> HIDE DEF e
  <2> QED BY <1>2, RowEntries DEF LogInv, RowsAreHandled
<1>4. QueueHasQueued'
  <2>0. fell # "queued"
    OBVIOUS
  <2> HIDE DEF e, d, fell
  <2>1. \A i, j \in DOMAIN queue' : queue'[i] = queue'[j] => i = j
    BY <1>2 DEF LogInv, QueueHasQueued
  <2>2. \A i \in DOMAIN queue' : queue'[i] # e
    BY <1>2 DEF LogInv, QueueHasQueued
  <2>3. \A f \in Entry \ {e} :
            (\E i \in DOMAIN queue : queue[i] = f) <=> \E i \in DOMAIN queue' : queue'[i] = f
    <3> SUFFICES ASSUME NEW f \in Entry \ {e}
                 PROVE (\E i \in DOMAIN queue : queue[i] = f) <=> \E i \in DOMAIN queue' : queue'[i] = f
      OBVIOUS
    <3>1. ASSUME NEW i \in DOMAIN queue, queue[i] = f
          PROVE  i - 1 \in DOMAIN queue' /\ queue'[i - 1] = f
      BY <1>2, <3>1
    <3>2. ASSUME NEW i \in DOMAIN queue', queue'[i] = f
          PROVE  i + 1 \in DOMAIN queue /\ queue[i + 1] = f
      BY <1>2, <3>2
    <3>3. QED
      BY <3>1, <3>2
  <2>4. QED
    BY <1>2, <2>0, <2>1, <2>2, <2>3 DEF LogInv, QueueHasQueued
<1>5. MadeIsStamped'
  BY <1>1, <1>2 DEF LogInv, MadeIsStamped
<1>6. \A b \in Day : \A i \in DOMAIN files'[b] :
          \/ i \in DOMAIN files[b] /\ files'[b][i] = files[b][i]
          \/ b = d /\ files'[b][i].entry = e /\ fell # "skipped"
  <2>1. CASE files' = files
    BY <2>1
  <2>2. CASE files' # files
    <3> DEFINE row == [entry |-> e, cut |-> o]
    <3>1. /\ ~DisabledFor(d) /\ o \notin {CannotOpen, Nothing} /\ TryAppend(e, o)
          /\ currentDay' = d
      BY <2>2 DEF Consume, TryAppend, NeedsOpen
    <3>2. files' = [files EXCEPT ![d] = Append(@, row)]
      BY <3>1 DEF TryAppend
    <3>3. files'[d] = Append(files[d], row) /\ \A b \in Day : b # d => files'[b] = files[b]
      BY <1>1, <3>2 DEF LogTypeOK
    <3>4. /\ DOMAIN files'[d] = 1..(Len(files[d]) + 1) /\ DOMAIN files[d] = 1..Len(files[d])
          /\ \A i \in 1..Len(files[d]) : files'[d][i] = files[d][i]
          /\ files'[d][Len(files[d]) + 1] = row
          /\ Len(files[d]) \in Nat
      <4>1. files[d] \in Seq(Piece)
        BY <1>1 DEF LogTypeOK
      <4> HIDE DEF row, d
      <4>2. QED
        BY <3>3, <4>1
    <3>5. row.entry = e /\ fell # "skipped"
      BY <3>1
    <3> HIDE DEF row, d, e, fell
    <3>6. QED
      BY <3>3, <3>4, <3>5
  <2>3. QED
    BY <2>1, <2>2
<1>7. RowsAreHandled' /\ RowsInOwnDay'
  <2>1. fell # "skipped" => fell \in {"written", "failed"}
    OBVIOUS
  <2>2. stamp[e] = d
    OBVIOUS
  <2> HIDE DEF fell, e, d
  <2> QED BY <1>1, <1>2, <1>3, <1>6, <2>1, <2>2 DEF LogInv, RowsAreHandled, RowsInOwnDay
<1>8. DisabledAfterOwnFailure' /\ SkippedAfterOwnFailure'
  <2>1. fell = "failed" => disabledDay' = d
    BY DEF Consume
  <2>2. fell = "written" => disabledDay' = 0
    BY DEF Consume
  <2>3. fell = "skipped" => disabledDay' = disabledDay /\ disabledDay = d
    BY DEF Consume, DisabledFor
  <2>4. fell \in {"written", "failed", "skipped"} /\ stamp[e] = d /\ d # 0
    BY <1>1 DEF Day
  <2> HIDE DEF fell, e, d
  <2>5. DisabledAfterOwnFailure'
    BY <1>1, <1>2, <2>1, <2>2, <2>3, <2>4 DEF LogInv, DisabledAfterOwnFailure
  <2>6. SkippedAfterOwnFailure'
    BY <1>1, <1>2, <2>3, <2>4 DEF LogInv, DisabledAfterOwnFailure, SkippedAfterOwnFailure
  <2>7. QED
    BY <2>5, <2>6
<1>9. QED
  BY <1>4, <1>5, <1>7, <1>8 DEF LogInv
-----------------------------------------------------------------------------
(* The service around it *)

\* At the start no handler holds an entry, and the consumer runs.
LEMMA ServiceInit == Init => ServiceInv
BY WebServiceAssumption
   DEF WebServiceAssumption, Init, LogInit, ServiceInv, HeldByTheLiving, Alive, MadeIsCarried,
       ConsumerDoneLast, ExitAfterConsumer

\* Only a step of the log itself, of a handler or of its end touches an entry.
LEMMA LogSteps ==
    ASSUME TypeOK, [Next]_vars
    PROVE  \/ UNCHANGED <<stamp, fate, queue, files, disabledDay>>
           \/ \E e \in Entry : Make(e) \/ Record(e)
           \/ \E o \in Outcome : Consume(o)
<1>1. CASE UNCHANGED vars
  BY <1>1 DEF vars, logVars, writer
<1>2. CASE StopServing \/ Exit
  BY <1>2 DEF StopServing, Exit, logVars, writer
<1>3. CASE LogStep
  BY <1>3 DEF LogStep, Midnight, ConsumerStep, ConsumerEnds, writer
<1>4. ASSUME NEW c \in Connection, Accept(c) \/ Read(c) \/ Hangup(c)
      PROVE  UNCHANGED <<stamp, fate, queue, files, disabledDay>>
  BY <1>4 DEF Accept, Read, Hangup, Release, logVars, writer
<1>5. ASSUME NEW c \in Connection, Refused(c) \/ KeepAlive(c) \/ CloseAfter(c)
      PROVE  UNCHANGED <<stamp, fate, queue, files, disabledDay>>
  BY <1>5 DEF Refused, KeepAlive, CloseAfter, Release, logVars, writer
<1>6. ASSUME NEW c \in Connection, Answered(c) \/ RecordUsage(c)
      PROVE  \E e \in Entry : Make(e) \/ Record(e)
  BY <1>6 DEF Answered, RecordUsage, TypeOK
<1>7. QED
  BY <1>1, <1>2, <1>3, <1>4, <1>5, <1>6 DEF Next, Work

\* Every step preserves what is known of the log.
LEMMA LogStepInv ==
    ASSUME TypeOK, LogInv, [Next]_vars
    PROVE  LogInv'
BY LogSteps, LogUntouched, MakeStep, RecordStep, ConsumeStep DEF TypeOK

\* As long as the consumer runs nothing is claimed of its end; afterwards
\* nobody is left who could send.
LEMMA ConnectionStep ==
    ASSUME TypeOK, ServiceInv, NEW c \in Connection,
           Accept(c) \/ Read(c) \/ Hangup(c) \/ Work(c)
    PROVE  ServiceInv'
<1> USE WebServiceAssumption DEF WebServiceAssumption
<1>1. main' = main /\ consumer' = consumer
  BY DEF Accept, Read, Hangup, Work, Answered, Refused, RecordUsage, KeepAlive, CloseAfter,
         Release, Make, Record, logVars, writer
<1>2. /\ \A b \in Connection \ {c} : conn'[b] = conn[b] /\ request'[b] = request[b]
      /\ conn' = [conn EXCEPT ![c] = conn'[c]]
  BY DEF Accept, Read, Hangup, Work, Answered, Refused, RecordUsage, KeepAlive, CloseAfter,
         Release, Go, TypeOK
<1>3. \/ conn[c] = "new" /\ main = "serving" /\ conn'[c] = "reading"
            /\ holders' = holders \cup {c}
      \/ Alive(c) /\ conn'[c] = "closed" /\ holders' = holders \ {c}
      \/ Alive(c) /\ conn'[c] \in {"reading", "handling", "recording", "writing"}
            /\ holders' = holders
  BY DEF Accept, Read, Hangup, Work, Answered, Refused, RecordUsage, KeepAlive, CloseAfter,
         Release, Go, Make, Record, Alive, TypeOK, logVars, writer
<1>4. HeldByTheLiving'
  BY <1>1, <1>2, <1>3 DEF ServiceInv, HeldByTheLiving, Alive
<1>5. ExitAfterConsumer'
  BY <1>1 DEF ServiceInv, ExitAfterConsumer
<1>6. ConsumerDoneLast'
  <2>1. consumer # "done"
    BY <1>3 DEF ServiceInv, ConsumerDoneLast, Closed, HeldByTheLiving
  <2>2. QED
    BY <1>1, <2>1 DEF ConsumerDoneLast
<1>7. MadeIsCarried'
  <2>1. CASE Accept(c) \/ Read(c) \/ Hangup(c) \/ Refused(c) \/ KeepAlive(c) \/ CloseAfter(c)
    <3>1. /\ fate' = fate /\ conn[c] # "recording"
          /\ request'[c] \in {request[c], {}} \cup {{e} : e \in Entry}
      BY <2>1 DEF Accept, Read, Hangup, Refused, KeepAlive, CloseAfter, Release, logVars, TypeOK
    <3>2. QED
      BY <1>2, <3>1 DEF ServiceInv, MadeIsCarried
  <2>2. CASE Answered(c)
    <3>1. PICK e \in request[c] : Make(e)
      BY <2>2 DEF Answered
    <3>2. /\ e \in Entry /\ request' = request /\ conn'[c] = "recording" /\ conn[c] # "recording"
          /\ \A f \in Entry : f # e => fate'[f] = fate[f]
      <4>1. e \in Entry
        BY <3>1 DEF TypeOK
      <4>2. request' = request /\ conn'[c] = "recording" /\ conn[c] # "recording"
        BY <2>2 DEF Answered, Go, TypeOK
      <4>3. QED
        BY <3>1, <4>1, <4>2 DEF Make, TypeOK, LogTypeOK
    <3>3. QED
      BY <1>2, <3>1, <3>2 DEF ServiceInv, MadeIsCarried
  <2>3. CASE RecordUsage(c)
    <3>1. PICK e \in request[c] : Record(e)
      BY <2>3 DEF RecordUsage
    <3>2. /\ e \in Entry /\ fate'[e] # "made" /\ request'[c] = {}
          /\ \A f \in Entry : f # e => fate'[f] = fate[f]
      <4>1. e \in Entry
        BY <3>1 DEF TypeOK
      <4>2. request'[c] = {}
        BY <2>3 DEF RecordUsage, TypeOK
      <4>3. QED
        BY <3>1, <4>1, <4>2 DEF Record, TypeOK, LogTypeOK
    <3>3. \A f \in request[c] : f = e
      BY <3>1 DEF ServiceInv, MadeIsCarried
    <3>4. QED
      BY <1>2, <3>2, <3>3 DEF ServiceInv, MadeIsCarried
  <2>4. QED
    BY <2>1, <2>2, <2>3 DEF Work
<1>8. QED
  BY <1>4, <1>5, <1>6, <1>7 DEF ServiceInv

\* Every step preserves what is known of who can still send to the log.
LEMMA ServiceStep ==
    ASSUME TypeOK, LogInv, ServiceInv, [Next]_vars
    PROVE  ServiceInv'
<1> USE WebServiceAssumption DEF WebServiceAssumption
<1>1. CASE UNCHANGED vars
  BY <1>1 DEF vars, logVars, ServiceInv, HeldByTheLiving, Alive, MadeIsCarried,
       ConsumerDoneLast, Closed, ExitAfterConsumer
<1>2. CASE StopServing
  <2>1. HeldByTheLiving' /\ MadeIsCarried'
    BY <1>2 DEF StopServing, LetGoByMain, ServiceInv, HeldByTheLiving, Alive, MadeIsCarried
  <2>2. ConsumerDoneLast' /\ ExitAfterConsumer'
    BY <1>2 DEF StopServing, LetGoByMain, ServiceInv, ConsumerDoneLast, Closed, ExitAfterConsumer
  <2>3. QED
    BY <2>1, <2>2 DEF ServiceInv
<1>3. CASE Exit
  BY <1>3 DEF Exit, logVars, ServiceInv, HeldByTheLiving, Alive, MadeIsCarried,
       ConsumerDoneLast, Closed, ExitAfterConsumer
<1>4. CASE LogStep
  <2>1. holders' = holders /\ UNCHANGED <<main, conn, request>>
    BY <1>4 DEF LogStep, Midnight, ConsumerStep, Consume, ConsumerEnds
  <2>2. \A e \in Entry : fate'[e] = "made" => fate[e] = "made"
    <3>1. ASSUME NEW o \in Outcome, Consume(o)
          PROVE  \A e \in Entry : fate'[e] = "made" => fate[e] = "made"
      BY <3>1 DEF Consume, TypeOK, LogTypeOK
    <3>2. QED
      BY <1>4, <3>1 DEF LogStep, Midnight, ConsumerStep, ConsumerEnds
  <2>3. consumer' = "done" => holders = {} /\ queue' = << >>
    BY <1>4 DEF LogStep, Midnight, ConsumerStep, Consume, ConsumerEnds, Closed, ServiceInv,
         ConsumerDoneLast
  <2>4. consumer = "done" => consumer' = "done"
    BY <1>4 DEF LogStep, Midnight, ConsumerStep, Consume, ConsumerEnds
  <2>5. QED
    BY <2>1, <2>2, <2>3, <2>4 DEF ServiceInv, HeldByTheLiving, Alive, MadeIsCarried,
       ConsumerDoneLast, Closed, ExitAfterConsumer
<1>5. QED
  BY <1>1, <1>2, <1>3, <1>4, ConnectionStep DEF Next
-----------------------------------------------------------------------------
(* The theorems *)

\* The inductive invariant holds in every state.
LEMMA Invariant == Spec => []IInv
<1>1. Init => IInv
  BY TypeInit, LogInitInv, ServiceInit DEF IInv
<1>2. IInv /\ [Next]_vars => IInv'
  BY TypeStep, LogStepInv, ServiceStep DEF IInv
<1>3. QED
  BY <1>1, <1>2, PTL DEF Spec

\* Every variable keeps its type; in particular the queue never holds more than
\* QUEUE_CAPACITY entries, however many handlers send.
THEOREM TypeCorrect == Spec => []TypeOK
<1>1. IInv => TypeOK
  BY DEF IInv
<1>2. QED
  BY <1>1, Invariant, PTL

\* ServicelogWriter::try_append: every row stands in the file of its own day, in
\* whatever order the entries of two days come and whatever writes fail.
THEOREM RowsAreInOwnDay == Spec => []RowsInOwnDay
<1>1. IInv => RowsInOwnDay
  BY DEF IInv, LogInv
<1>2. QED
  BY <1>1, Invariant, PTL

\* ServicelogWriter::append: a row is skipped only if another of its own day
\* could not be written.
THEOREM SkippedOnlyAfterOwnFailure == Spec => []SkippedAfterOwnFailure
<1>1. IInv => SkippedAfterOwnFailure
  BY DEF IInv, LogInv
<1>2. QED
  BY <1>1, Invariant, PTL

\* bo-webservice: when the process ends, every entry that was made has been
\* dropped at a full queue or handled by the consumer.
THEOREM NothingIsLostAtExit == Spec => []NothingLostAtExit
<1>1. IInv => NothingLostAtExit
  <2> SUFFICES ASSUME IInv, main = "exited", NEW e \in Entry
               PROVE  fate[e] \notin {"made", "queued"}
    BY DEF NothingLostAtExit
  <2>1. holders = {} /\ queue = << >>
    BY DEF IInv, ServiceInv, ExitAfterConsumer, ConsumerDoneLast, Closed
  <2>2. fate[e] # "queued"
    BY <2>1 DEF IInv, LogInv, QueueHasQueued
  <2>3. \A c \in Connection : conn[c] # "recording"
    BY <2>1 DEF IInv, ServiceInv, HeldByTheLiving, Alive
  <2>4. fate[e] # "made"
    BY <2>3 DEF IInv, ServiceInv, MadeIsCarried
  <2>5. QED
    BY <2>2, <2>4
<1>2. QED
  BY <1>1, Invariant, PTL

------------------------------------------------------------------------------
(* Settings: what is read of the file, the environment and the command line. *)

\* Before the first line of the file.
NoPairs == [section |-> "", pairs |-> << >>]

\* What is read of a file, line by line.
LEMMA IniSteps ==
    ASSUME NEW file, file \in Seq(ToSet(file))
    PROVE  \E F : /\ F[0] = NoPairs
                  /\ \A i \in 1..Len(file) : F[i] = ReadLine(F[i - 1], file[i])
                  /\ ReadIni(file) = F[Len(file)].pairs
<1> PICK N \in Nat : N = Len(file) /\ DOMAIN file = 1..N
  OBVIOUS
<1> DEFINE SectionNames == {""} \cup {file[i].name : i \in 1..N}
           Places == SectionNames \X {file[i].key : i \in 1..N}
           Texts == {Trim(file[i].text) : i \in 1..N}
           State == [section : SectionNames, pairs : UNION {[D -> Texts] : D \in SUBSET Places}]
<1>1. NoPairs \in State
  <2>1. << >> \in [{} -> Texts] /\ {} \in SUBSET Places
    OBVIOUS
  <2> HIDE DEF Texts, Places
  <2> QED
    BY <2>1, Zenon DEF NoPairs
<1>2. ASSUME NEW ini \in State, NEW i \in 1..N
      PROVE  ReadLine(ini, file[i]) \in State
  <2>1. CASE file[i].is = "section"
    <3>1. ReadLine(ini, file[i]) = [ini EXCEPT !.section = file[i].name]
      BY <2>1 DEF ReadLine
    <3> QED
      BY <3>1
  <2>2. CASE file[i].is = "pair" /\ ini.section # ""
    <3> PICK D \in SUBSET Places : ini.pairs \in [D -> Texts]
      OBVIOUS
    <3> DEFINE place == <<ini.section, file[i].key>>
               text == Trim(file[i].text)
               pairs == Insert(ini.pairs, place, text)
    <3>1. ReadLine(ini, file[i]) = [ini EXCEPT !.pairs = pairs]
      BY <2>2 DEF ReadLine
    <3>2. place \in Places /\ text \in Texts
      OBVIOUS
    <3>3. pairs \in [D \cup {place} -> Texts]
      <4> HIDE DEF place, text, Texts, Places, State
      <4>1. pairs = [x \in DOMAIN ini.pairs \cup {place} |->
                        IF x = place THEN text ELSE ini.pairs[x]]
        BY DEF Insert
      <4> HIDE DEF pairs
      <4> QED
        BY <3>2, <4>1
    <3>4. D \cup {place} \in SUBSET Places
      BY <3>2
    <3>5. pairs \in UNION {[E -> Texts] : E \in SUBSET Places}
      <4> HIDE DEF pairs, Texts, Places, place
      <4> QED
        BY <3>3, <3>4, Zenon
    <3> HIDE DEF pairs
    <3> QED
      BY <3>1, <3>5
  <2>3. CASE file[i].is # "section" /\ ~(file[i].is = "pair" /\ ini.section # "")
    BY <2>3 DEF ReadLine
  <2> QED
    BY <2>1, <2>2, <2>3
<1> DEFINE op == [i \in 1..N |-> [ini \in State |-> ReadLine(ini, file[i])]]
<1> HIDE DEF State
<1>3. op \in [1..N -> [State -> State]]
  BY <1>2
<1>0. PICK G : IsFold(G, State, NoPairs, N, op)
  <2> HIDE DEF op
  <2> QED
    BY <1>1, <1>3, FoldExists
<1>4. /\ G \in [SUBSET (1..N) -> State]
      /\ G = [s \in SUBSET (1..N) |-> IF s = {} THEN NoPairs ELSE op[Max(s)][G[s \ {Max(s)}]]]
  <2> HIDE DEF op
  <2> QED
    BY <1>0 DEF IsFold
<1> DEFINE Body(f) == [s \in SUBSET (1..N) |->
                          IF s = {} THEN NoPairs ELSE ReadLine(f[s \ {Max(s)}], file[Max(s)])]
<1>5. \A s \in SUBSET (1..N) : s # {} => Max(s) \in 1..N
  <2> TAKE s \in SUBSET (1..N)
  <2> HAVE s # {}
  <2>1. s \in SUBSET Int /\ N \in Int /\ \A x \in s : x <= N
    OBVIOUS
  <2> QED
    BY <2>1, MaxOfBounded
<1>6. G = Body(G)
  <2>1. \A s \in SUBSET (1..N) : s # {} =>
           op[Max(s)][G[s \ {Max(s)}]] = ReadLine(G[s \ {Max(s)}], file[Max(s)])
    <3> TAKE s \in SUBSET (1..N)
    <3> HAVE s # {}
    <3>1. Max(s) \in 1..N /\ G[s \ {Max(s)}] \in State
      BY <1>4, <1>5
    <3> QED
      BY <3>1
  <2> HIDE DEF op
  <2> QED
    BY <1>4, <2>1
<1> DEFINE iter == CHOOSE f : f = Body(f)
<1>7. iter = Body(iter)
  BY <1>6
<1>8. ReadIni(file) = iter[1..N].pairs
  BY DEF ReadIni, FoldLeft, MapThenFoldSet, NoPairs
<1> HIDE DEF iter
<1> DEFINE F == [i \in 0..N |-> iter[1..i]]
<1>9. F[0] = NoPairs
  <2>1. 1..0 = {} /\ 0 \in 0..N
    OBVIOUS
  <2> QED
    BY <1>7, <2>1
<1>10. ASSUME NEW i \in 1..N
       PROVE  F[i] = ReadLine(F[i - 1], file[i])
  <2>1. i \in 1..i /\ 1..i \in SUBSET (1..N) /\ i \in 0..N /\ i - 1 \in 0..N
    OBVIOUS
  <2>2. Max(1..i) = i
    <3>1. 1..i \in SUBSET Int /\ 1..i # {} /\ i \in Int /\ \A x \in 1..i : x <= i
      BY <2>1
    <3>2. Max(1..i) \in 1..i /\ \A y \in 1..i : y <= Max(1..i)
      BY <3>1, MaxOfBounded
    <3>3. Max(1..i) \in 1..i /\ i <= Max(1..i)
      BY <2>1, <3>2
    <3> QED
      BY <3>3
  <2>3. (1..i) \ {i} = 1..i - 1
    OBVIOUS
  <2>4. iter[1..i] = ReadLine(iter[1..i - 1], file[i])
    BY <1>7, <2>1, <2>2, <2>3
  <2> QED
    BY <2>1, <2>4
<1>11. ReadIni(file) = F[N].pairs
  <2>1. N \in 0..N
    OBVIOUS
  <2> QED
    BY <1>8, <2>1
<1> HIDE DEF F
<1> QED
  BY <1>9, <1>10, <1>11

\* A name that is not empty.
Named(name) == name # ""
NoName == ""

IsIni(ini) == ini = [section |-> ini.section, pairs |-> ini.pairs]

\* A line of the file changes the section or adds a pair, or nothing.
LEMMA LineFacts ==
    ASSUME NEW ini, IsIni(ini), NEW line, NEW next, next = ReadLine(ini, line)
    PROVE  /\ IsIni(next)
           /\ next.section = IF line.is = "section" THEN line.name ELSE ini.section
           /\ next.pairs = IF line.is = "pair" /\ Named(ini.section)
                           THEN Insert(ini.pairs, <<ini.section, line.key>>, Trim(line.text)) ELSE ini.pairs
<1>1. "section" # "pair"
  OBVIOUS
<1>2. CASE line.is = "section"
  <2>1. next = [ini EXCEPT !.section = line.name]
    BY <1>1, <1>2, Zenon DEF ReadLine, Named
  <2> QED
    BY <1>1, <1>2, <2>1 DEF IsIni
<1>3. CASE line.is = "pair" /\ Named(ini.section)
  <2>1. next = [ini EXCEPT !.pairs = Insert(@, <<ini.section, line.key>>, Trim(line.text))]
    BY <1>1, <1>3, Zenon DEF ReadLine, Named
  <2> QED
    BY <1>1, <1>3, <2>1 DEF IsIni
<1>4. CASE line.is # "section" /\ ~(line.is = "pair" /\ Named(ini.section))
  <2>1. next = ini
    BY <1>4, Zenon DEF ReadLine, Named
  <2> QED
    BY <1>4, <2>1
<1> QED
  BY <1>2, <1>3, <1>4

\* A name is one unless it is empty.
LEMMA NameFacts == \A name : Named(name) <=> name # NoName
BY Zenon DEF Named, NoName

\* At first there is no section, and no pairs.
LEMMA StartFacts == IsIni(NoPairs) /\ NoPairs.section = NoName /\ NoPairs.pairs = << >>
<1>1. NoPairs = [section |-> NoName, pairs |-> << >>]
  BY Zenon DEF NoPairs, NoName
<1> QED
  BY <1>1 DEF IsIni

\* The section that a line of the file is under, or none.
IsSection(i, name) ==
    /\ Under(i) = {} => name = NoName
    /\ \A j \in Under(i) : given.lines[j].name = name

\* The last line of a set of them.
LastOf(S, m) == m \in S /\ \A k \in S : k <= m

\* Of a section and a key the pairs hold the last text, if there is any.
HoldsLast(pairs, place, S) ==
    IF S = {} THEN place \notin DOMAIN pairs
    ELSE place \in DOMAIN pairs
         /\ \E m : LastOf(S, m) /\ pairs[place] = Trim(given.lines[m].text)

\* A pair of the file is found by its section and key, the last of several.
LEMMA IniHoldsLast ==
    ASSUME given.lines \in Seq(ToSet(given.lines)), NEW s, NEW key, Named(s.section)
    PROVE  HoldsLast(ReadIni(given.lines), <<s.section, key>>, PairsOf(s, key))
<1> PICK N \in Nat : N = Len(given.lines) /\ DOMAIN given.lines = 1..N
  OBVIOUS
<1> PICK lines : lines = given.lines
  OBVIOUS
<1>1. PICK F : /\ F[0] = NoPairs
               /\ \A i \in 1..N : F[i] = ReadLine(F[i - 1], lines[i])
               /\ ReadIni(lines) = F[N].pairs
  BY IniSteps
<1> DEFINE place == <<s.section, key>>
           P(n) == PairsOf(s, key) \cap (1..n)
           Right(n) == IsIni(F[n]) /\ IsSection(n, F[n].section) /\ HoldsLast(F[n].pairs, place, P(n))
           Wrong == {n \in 0..N : ~Right(n)}
<1>2. 0 \notin Wrong
  <2>1. 1..0 = {}
    OBVIOUS
  <2>2. IsIni(F[0]) /\ F[0].section = NoName /\ F[0].pairs = << >> /\ DOMAIN << >> = {}
    BY <1>1, StartFacts
  <2>3. Under(0) = {} /\ P(0) = {}
    BY <2>1 DEF Under
  <2>4. IsSection(0, F[0].section)
    BY <2>2, <2>3 DEF IsSection
  <2>5. HoldsLast(F[0].pairs, place, P(0))
    BY <2>2, <2>3 DEF HoldsLast
  <2> QED
    BY <2>2, <2>4, <2>5
<1>3. ASSUME NEW n \in 1..N, n - 1 \in 0..N, n - 1 \notin Wrong
      PROVE  n \notin Wrong
  <2> PICK line : line = lines[n]
    OBVIOUS
  <2> PICK before, after : before = F[n - 1] /\ after = F[n]
    OBVIOUS
  <2>1. after = ReadLine(before, line)
    BY <1>1
  <2>2. IsIni(before) /\ IsSection(n - 1, before.section) /\ HoldsLast(before.pairs, place, P(n - 1))
    BY <1>3
  <2>3. n \in PairsOf(s, key) <=>
           line.is = "pair" /\ line.key = key /\ \E j \in Under(n) : given.lines[j].name = s.section
    BY DEF PairsOf
  <2>4. /\ IsIni(after)
        /\ after.section = IF line.is = "section" THEN line.name ELSE before.section
        /\ after.pairs = IF line.is = "pair" /\ Named(before.section)
                         THEN Insert(before.pairs, <<before.section, line.key>>, Trim(line.text))
                         ELSE before.pairs
    BY <2>1, <2>2, LineFacts
  <2>5. line.is = "section" => Under(n) = {n}
    <3>1. \A j \in 1..n : j # n => n \in (j + 1)..n
      OBVIOUS
    <3>2. (n + 1)..n = {} /\ n \in 1..n
      OBVIOUS
    <3> QED
      BY <3>1, <3>2 DEF Under
  <2>6. line.is # "section" => Under(n) = Under(n - 1)
    <3>1. \A j \in 1..n : j = n \/ j \in 1..n - 1
      OBVIOUS
    <3>2. \A j \in 1..n - 1 : j \in 1..n /\ \A k \in (j + 1)..n : k = n \/ k \in (j + 1)..n - 1
      OBVIOUS
    <3>3. \A j \in 1..n - 1 : \A k \in (j + 1)..n - 1 : k \in (j + 1)..n
      OBVIOUS
    <3> QED
      BY <3>1, <3>2, <3>3 DEF Under
  <2>7. IsSection(n, after.section)
    <3>1. CASE line.is = "section"
      BY <2>4, <2>5, <3>1 DEF IsSection
    <3>2. CASE line.is # "section"
      BY <2>2, <2>4, <2>6, <3>2 DEF IsSection
    <3> QED
      BY <3>1, <3>2
  <2>8. P(n) = P(n - 1) \cup ({n} \cap PairsOf(s, key))
    <3>1. 1..n = (1..n - 1) \cup {n}
      OBVIOUS
    <3> QED
      BY <3>1
  <2>9. HoldsLast(after.pairs, place, P(n))
    <3> DEFINE own == <<before.section, line.key>>
    <3>0. P(n - 1) \subseteq 1..n - 1
      OBVIOUS
    <3>1. CASE n \in PairsOf(s, key)
      <4>1. PICK j \in Under(n) : given.lines[j].name = s.section
        BY <2>3, <3>1
      <4>2. line.is = "pair" /\ line.key = key /\ line.is # "section"
        BY <2>3, <3>1
      <4>3. before.section = s.section
        BY <2>2, <2>6, <4>1, <4>2 DEF IsSection
      <4>4. after.pairs = Insert(before.pairs, place, Trim(line.text))
        BY <2>4, <4>2, <4>3
      <4>5. P(n) # {} /\ LastOf(P(n), n)
        <5>1. \A k \in 1..n - 1 : k <= n
          OBVIOUS
        <5>2. n <= n
          OBVIOUS
        <5> HIDE DEF P
        <5> QED
          BY <2>8, <3>0, <3>1, <5>1, <5>2 DEF LastOf
      <4>6. place \in DOMAIN after.pairs /\ after.pairs[place] = Trim(given.lines[n].text)
        BY <4>4 DEF Insert
      <4> HIDE DEF P, place
      <4> QED
        BY <4>5, <4>6 DEF HoldsLast
    <3>2. CASE n \notin PairsOf(s, key)
      <4>1. P(n) = P(n - 1)
        BY <2>8, <3>2
      <4>2. CASE line.is = "pair" /\ Named(before.section)
        <5>1. Under(n - 1) # {}
          BY <2>2, <4>2, NameFacts DEF IsSection
        <5>2. PICK j \in Under(n) : given.lines[j].name = before.section
          BY <2>2, <2>6, <4>2, <5>1 DEF IsSection
        <5>3. own # place
          BY <2>3, <3>2, <4>2, <5>2
        <5>4. after.pairs = Insert(before.pairs, own, Trim(line.text))
          BY <2>4, <4>2
        <5>5. /\ place \in DOMAIN after.pairs <=> place \in DOMAIN before.pairs
              /\ place \in DOMAIN before.pairs => after.pairs[place] = before.pairs[place]
          <6> HIDE DEF place, own
          <6> QED
            BY <5>3, <5>4 DEF Insert
        <5> HIDE DEF P, place, own
        <5> QED
          BY <2>2, <4>1, <5>5 DEF HoldsLast
      <4>3. CASE ~(line.is = "pair" /\ Named(before.section))
        <5>1. after.pairs = before.pairs
          BY <2>4, <4>3
        <5> HIDE DEF P, place
        <5> QED
          BY <2>2, <4>1, <5>1
      <4> QED
        BY <4>2, <4>3
    <3> QED
      BY <3>1, <3>2
  <2> HIDE DEF P, place
  <2> QED
    BY <2>4, <2>7, <2>9
<1>4. Wrong = {}
  <2>1. Wrong \in SUBSET (0..N)
    OBVIOUS
  <2> HIDE DEF Wrong
  <2> QED
    BY <1>2, <1>3, <2>1, FirstFailure
<1>5. Right(N)
  <2>1. N \in 0..N
    OBVIOUS
  <2> HIDE DEF Right
  <2> QED
    BY <1>4, <2>1
<1>6. P(N) = PairsOf(s, key)
  BY DEF PairsOf
<1> QED
  BY <1>1, <1>5, <1>6

\* Several names, with a first.
IsList(names) == DOMAIN names \subseteq Nat

\* One name or two are a list.
LEMMA ListFacts == \A a, b : IsList(<< a >>) /\ IsList(<<a, b>>)
BY DEF IsList

\* A setting as the sources of its value need it.
IsSetting(s) ==
    /\ Named(s.section)
    /\ IsList(s.keys) /\ IsList(s.env)
    /\ Usable(s.kind, s.default) /\ Meant(s.kind, s.default) = s.default

\* A setting can take a text and means what it says.
TakesAsIs(kind, text) == Usable(kind, text) /\ Meant(kind, text) = text

\* Texts and paths are taken as they are, and so are the defaults of the other kinds.
LEMMA KindFacts ==
    /\ \A kind \in {"text", "path"} : \A text : TakesAsIs(kind, text)
    /\ TakesAsIs("port", Text("8080")) /\ TakesAsIs("port", Text("8125"))
    /\ TakesAsIs("count", Text("3"))
    /\ TakesAsIs("protocol", Text("http")) /\ TakesAsIs("protocol", Text("lsp"))
<1>1. \A kind \in {"text", "path"} : \A text : TakesAsIs(kind, text)
  BY DEF TakesAsIs, Usable, Meant
<1>2. \A word : Text(word).word = word /\ ~Text(word).padded
  BY DEF Text
<1>3. \A word \in Ports : TakesAsIs("port", Text(word))
  BY <1>2 DEF TakesAsIs, Usable, Meant
<1>4. \A word \in Counts : TakesAsIs("count", Text(word))
  BY <1>2 DEF TakesAsIs, Usable, Meant
<1>5. "8080" \in Ports /\ "8125" \in Ports /\ "3" \in Counts
  BY DEF Ports, Counts
<1>6. /\ Protocol("http") = "http" /\ Protocol("lsp") = "lsp"
      /\ "http" # "" /\ "lsp" # ""
  BY DEF Protocol
<1>7. \A word : Protocol(word) = word /\ word # "" => TakesAsIs("protocol", Text(word))
  BY <1>2 DEF TakesAsIs, Usable, Meant
<1> QED
  BY <1>1, <1>3, <1>4, <1>5, <1>6, <1>7

\* A setting is one of its parts.
LEMMA MadeSetting ==
    ASSUME NEW kind, NEW section, Named(section), NEW keys, IsList(keys), NEW env, IsList(env),
           NEW word, TakesAsIs(kind, Text(word))
    PROVE  IsSetting(Setting(kind, section, keys, env, word))
BY DEF IsSetting, Setting, TakesAsIs

\* Every setting has a section, keys and variables, and can take its default.
LEMMA SettingFacts == \A name \in Names : IsSetting(Settings[name])
<1>0. Named("webservice") /\ Named("db") /\ Named("auth") /\ Named("statsd")
  BY DEF Named
<1>1. IsSetting(Settings["port"])
  <2>1. Settings["port"]
           = Setting("port", "webservice", <<"port">>, <<"BO_SERVICE_PORT">>, "8080")
    BY Zenon DEF Settings
  <2>2. IsList(<<"port">>) /\ IsList(<<"BO_SERVICE_PORT">>)
    BY ListFacts
  <2>3. TakesAsIs("port", Text("8080"))
    BY KindFacts
  <2> QED
    BY <1>0, <2>1, <2>2, <2>3, MadeSetting, Zenon
<1>2. IsSetting(Settings["protocol"])
  <2>1. Settings["protocol"]
           = Setting("protocol", "webservice", <<"protocol">>, <<"BO_SERVICE_PROTOCOL">>, "http")
    BY Zenon DEF Settings
  <2>2. IsList(<<"protocol">>) /\ IsList(<<"BO_SERVICE_PROTOCOL">>)
    BY ListFacts
  <2>3. TakesAsIs("protocol", Text("http"))
    BY KindFacts
  <2> QED
    BY <1>0, <2>1, <2>2, <2>3, MadeSetting, Zenon
<1>3. IsSetting(Settings["service_log_dir"])
  <2>1. Settings["service_log_dir"]
           = Setting("path", "webservice", <<"servicelog", "log_directory">>, <<"BO_SERVICE_SERVICELOG", "BO_SERVICE_LOG_DIR">>, "")
    BY Zenon DEF Settings
  <2>2. IsList(<<"servicelog", "log_directory">>) /\ IsList(<<"BO_SERVICE_SERVICELOG", "BO_SERVICE_LOG_DIR">>)
    BY ListFacts
  <2>3. TakesAsIs("path", Text(""))
    BY KindFacts
  <2> QED
    BY <1>0, <2>1, <2>2, <2>3, MadeSetting, Zenon
<1>4. IsSetting(Settings["service_geoip_db"])
  <2>1. Settings["service_geoip_db"]
           = Setting("path", "webservice", <<"geoip_db">>, <<"BO_GEOIP_DB", "BO_SERVICE_GEOIP_DB">>, "")
    BY Zenon DEF Settings
  <2>2. IsList(<<"geoip_db">>) /\ IsList(<<"BO_GEOIP_DB", "BO_SERVICE_GEOIP_DB">>)
    BY ListFacts
  <2>3. TakesAsIs("path", Text(""))
    BY KindFacts
  <2> QED
    BY <1>0, <2>1, <2>2, <2>3, MadeSetting, Zenon
<1>5. IsSetting(Settings["db_host"])
  <2>1. Settings["db_host"]
           = Setting("text", "db", <<"host">>, <<"BO_DB_HOST">>, "localhost")
    BY Zenon DEF Settings
  <2>2. IsList(<<"host">>) /\ IsList(<<"BO_DB_HOST">>)
    BY ListFacts
  <2>3. TakesAsIs("text", Text("localhost"))
    BY KindFacts
  <2> QED
    BY <1>0, <2>1, <2>2, <2>3, MadeSetting, Zenon
<1>6. IsSetting(Settings["db_port"])
  <2>1. Settings["db_port"]
           = Setting("text", "db", <<"port">>, <<"BO_DB_PORT">>, "5432")
    BY Zenon DEF Settings
  <2>2. IsList(<<"port">>) /\ IsList(<<"BO_DB_PORT">>)
    BY ListFacts
  <2>3. TakesAsIs("text", Text("5432"))
    BY KindFacts
  <2> QED
    BY <1>0, <2>1, <2>2, <2>3, MadeSetting, Zenon
<1>7. IsSetting(Settings["db_name"])
  <2>1. Settings["db_name"]
           = Setting("text", "db", <<"dbname">>, <<"BO_DB_NAME">>, "blitzortung")
    BY Zenon DEF Settings
  <2>2. IsList(<<"dbname">>) /\ IsList(<<"BO_DB_NAME">>)
    BY ListFacts
  <2>3. TakesAsIs("text", Text("blitzortung"))
    BY KindFacts
  <2> QED
    BY <1>0, <2>1, <2>2, <2>3, MadeSetting, Zenon
<1>8. IsSetting(Settings["db_user"])
  <2>1. Settings["db_user"]
           = Setting("text", "db", <<"username">>, <<"BO_DB_USER">>, "blitzortung")
    BY Zenon DEF Settings
  <2>2. IsList(<<"username">>) /\ IsList(<<"BO_DB_USER">>)
    BY ListFacts
  <2>3. TakesAsIs("text", Text("blitzortung"))
    BY KindFacts
  <2> QED
    BY <1>0, <2>1, <2>2, <2>3, MadeSetting, Zenon
<1>9. IsSetting(Settings["db_password"])
  <2>1. Settings["db_password"]
           = Setting("text", "db", <<"password">>, <<"BO_DB_PASSWORD">>, "")
    BY Zenon DEF Settings
  <2>2. IsList(<<"password">>) /\ IsList(<<"BO_DB_PASSWORD">>)
    BY ListFacts
  <2>3. TakesAsIs("text", Text(""))
    BY KindFacts
  <2> QED
    BY <1>0, <2>1, <2>2, <2>3, MadeSetting, Zenon
<1>10. IsSetting(Settings["db_connection_count"])
  <2>1. Settings["db_connection_count"]
           = Setting("count", "db", <<"connection_count">>, <<"BO_DB_CONNECTION_COUNT">>, "3")
    BY Zenon DEF Settings
  <2>2. IsList(<<"connection_count">>) /\ IsList(<<"BO_DB_CONNECTION_COUNT">>)
    BY ListFacts
  <2>3. TakesAsIs("count", Text("3"))
    BY KindFacts
  <2> QED
    BY <1>0, <2>1, <2>2, <2>3, MadeSetting, Zenon
<1>11. IsSetting(Settings["auth_username"])
  <2>1. Settings["auth_username"]
           = Setting("text", "auth", <<"username">>, <<"BO_BLITZORTUNG_USERNAME">>, "")
    BY Zenon DEF Settings
  <2>2. IsList(<<"username">>) /\ IsList(<<"BO_BLITZORTUNG_USERNAME">>)
    BY ListFacts
  <2>3. TakesAsIs("text", Text(""))
    BY KindFacts
  <2> QED
    BY <1>0, <2>1, <2>2, <2>3, MadeSetting, Zenon
<1>12. IsSetting(Settings["auth_password"])
  <2>1. Settings["auth_password"]
           = Setting("text", "auth", <<"password">>, <<"BO_BLITZORTUNG_PASSWORD">>, "")
    BY Zenon DEF Settings
  <2>2. IsList(<<"password">>) /\ IsList(<<"BO_BLITZORTUNG_PASSWORD">>)
    BY ListFacts
  <2>3. TakesAsIs("text", Text(""))
    BY KindFacts
  <2> QED
    BY <1>0, <2>1, <2>2, <2>3, MadeSetting, Zenon
<1>13. IsSetting(Settings["statsd_host"])
  <2>1. Settings["statsd_host"]
           = Setting("text", "statsd", <<"host">>, <<"BO_STATSD_HOST">>, "localhost")
    BY Zenon DEF Settings
  <2>2. IsList(<<"host">>) /\ IsList(<<"BO_STATSD_HOST">>)
    BY ListFacts
  <2>3. TakesAsIs("text", Text("localhost"))
    BY KindFacts
  <2> QED
    BY <1>0, <2>1, <2>2, <2>3, MadeSetting, Zenon
<1>14. IsSetting(Settings["statsd_port"])
  <2>1. Settings["statsd_port"]
           = Setting("port", "statsd", <<"port">>, <<"BO_STATSD_PORT">>, "8125")
    BY Zenon DEF Settings
  <2>2. IsList(<<"port">>) /\ IsList(<<"BO_STATSD_PORT">>)
    BY ListFacts
  <2>3. TakesAsIs("port", Text("8125"))
    BY KindFacts
  <2> QED
    BY <1>0, <2>1, <2>2, <2>3, MadeSetting, Zenon
<1>15. IsSetting(Settings["statsd_prefix"])
  <2>1. Settings["statsd_prefix"]
           = Setting("text", "statsd", <<"prefix">>, <<"BO_STATSD_PREFIX">>, "org.blitzortung.service")
    BY Zenon DEF Settings
  <2>2. IsList(<<"prefix">>) /\ IsList(<<"BO_STATSD_PREFIX">>)
    BY ListFacts
  <2>3. TakesAsIs("text", Text("org.blitzortung.service"))
    BY KindFacts
  <2> QED
    BY <1>0, <2>1, <2>2, <2>3, MadeSetting, Zenon
<1> Names = {"port", "protocol", "service_log_dir", "service_geoip_db", "db_host", "db_port", "db_name", "db_user", "db_password", "db_connection_count", "auth_username", "auth_password", "statsd_host", "statsd_port", "statsd_prefix"}
  BY Zenon DEF Names, Settings
<1> QED
  BY <1>1, <1>2, <1>3, <1>4, <1>5, <1>6, <1>7, <1>8, <1>9, <1>10, <1>11, <1>12, <1>13, <1>14, <1>15

\* A source has a text for a setting, or none.
Tells(option, set) ==
    \/ option = << >> /\ set = {}
    \/ \E text : option = << text >> /\ set = {text}

\* The first of several names, as FirstOf finds it.
LEMMA FirstOfFacts ==
    ASSUME NEW names, IsList(names), NEW texts,
           NEW there, there = {i \in DOMAIN names : names[i] \in DOMAIN texts}
    PROVE  IF there = {} THEN FirstOf(names, texts) = << >>
           ELSE Min(there) \in there /\ FirstOf(names, texts) = << texts[names[Min(there)]] >>
<1>1. CASE there = {}
  BY <1>1 DEF FirstOf
<1>2. CASE there # {}
  <2>1. there \in SUBSET Int /\ 0 \in Int /\ \A i \in there : 0 <= i
    BY DEF IsList
  <2>2. Min(there) \in there
    BY <1>2, <2>1, MinOfBounded
  <2> QED
    BY <1>2, <2>2 DEF FirstOf
<1> QED
  BY <1>1, <1>2

\* The environment has for a setting what the first of its variables says.
LEMMA EnvTells ==
    ASSUME NEW name \in Names
    PROVE  Tells(FromEnv(name), InEnv(Settings[name]))
<1> PICK names : names = Settings[name].env
  OBVIOUS
<1> DEFINE there == {i \in DOMAIN names : names[i] \in DOMAIN given.env}
<1>1. IsList(names)
  BY SettingFacts DEF IsSetting
<1>2. FromEnv(name) = FirstOf(names, given.env)
  BY DEF FromEnv
<1>3. InEnv(Settings[name]) = IF there = {} THEN {} ELSE {given.env[names[Min(there)]]}
  BY DEF InEnv
<1> HIDE DEF there
<1>4. IF there = {} THEN FirstOf(names, given.env) = << >>
      ELSE FirstOf(names, given.env) = << given.env[names[Min(there)]] >>
  BY <1>1, FirstOfFacts DEF there
<1> QED
  BY <1>2, <1>3, <1>4 DEF Tells

\* The file has for a setting the last text under its section and first key.
LEMMA FileTells ==
    ASSUME given.lines \in Seq(ToSet(given.lines)), NEW name \in Names
    PROVE  Tells(FromFile(name), InFile(Settings[name]))
<1> PICK s : s = Settings[name]
  OBVIOUS
<1> DEFINE names == [i \in DOMAIN s.keys |-> <<s.section, s.keys[i]>>]
           there == {i \in DOMAIN names : names[i] \in DOMAIN Ini}
           keys == {k \in DOMAIN s.keys : PairsOf(s, s.keys[k]) # {}}
<1>1. Named(s.section) /\ IsList(s.keys)
  BY SettingFacts DEF IsSetting
<1>2. FromFile(name) = FirstOf(names, Ini)
  BY DEF FromFile
<1>3. IsList(names)
  BY <1>1 DEF IsList
<1>4. IF there = {} THEN FirstOf(names, Ini) = << >>
      ELSE Min(there) \in there /\ FirstOf(names, Ini) = << Ini[names[Min(there)]] >>
  <2> HIDE DEF names
  <2> QED
    BY <1>3, FirstOfFacts
<1>5. CASE IniPath # "file"
  <2>1. Ini = << >> /\ InFile(s) = {}
    BY <1>5 DEF Ini, InFile
  <2>2. DOMAIN Ini = {}
    BY <2>1
  <2>3. there = {}
    BY <2>2
  <2> HIDE DEF there, names
  <2> QED
    BY <1>2, <1>4, <2>1, <2>3 DEF Tells
<1>6. CASE IniPath = "file"
  <2>1. Ini = ReadIni(given.lines)
    BY <1>6 DEF Ini
  <2>2. InFile(s) = IF keys = {} THEN {}
                    ELSE {Trim(given.lines[Max(PairsOf(s, s.keys[Min(keys)]))].text)}
    BY <1>6 DEF InFile
  <2>3. ASSUME NEW k \in DOMAIN s.keys
        PROVE  HoldsLast(Ini, <<s.section, s.keys[k]>>, PairsOf(s, s.keys[k]))
    BY <1>1, <2>1, IniHoldsLast
  <2>4. there = keys
    BY <2>3 DEF HoldsLast
  <2>5. CASE keys = {}
    <3> HIDE DEF there, names, keys
    <3> QED
      BY <1>2, <1>4, <2>2, <2>4, <2>5 DEF Tells
  <2>6. CASE keys # {}
    <3>1. PICK k : k = Min(keys)
      OBVIOUS
    <3>2. k \in keys
      <4> HIDE DEF there, names, keys
      <4> QED
        BY <1>4, <2>4, <2>6, <3>1
    <3>3. HoldsLast(Ini, <<s.section, s.keys[k]>>, PairsOf(s, s.keys[k])) /\ PairsOf(s, s.keys[k]) # {}
      BY <2>3, <3>2
    <3>4. PICK m : /\ LastOf(PairsOf(s, s.keys[k]), m)
                   /\ Ini[<<s.section, s.keys[k]>>] = Trim(given.lines[m].text)
      BY <3>3 DEF HoldsLast
    <3>5. m = Max(PairsOf(s, s.keys[k]))
      <4> PICK S : S = PairsOf(s, s.keys[k])
        OBVIOUS
      <4>1. S \in SUBSET Int
        BY DEF PairsOf
      <4>2. m \in S /\ m \in Int /\ \A x \in S : x <= m
        BY <3>4, <4>1 DEF LastOf
      <4>3. Max(S) \in S /\ \A y \in S : y <= Max(S)
        BY <4>1, <4>2, MaxOfBounded
      <4>4. Max(S) \in Int /\ Max(S) <= m /\ m <= Max(S)
        BY <4>1, <4>2, <4>3
      <4> QED
        BY <4>2, <4>4
    <3>6. names[k] = <<s.section, s.keys[k]>>
      BY <3>2
    <3> HIDE DEF there, names, keys
    <3> QED
      BY <1>2, <1>4, <2>2, <2>4, <2>6, <3>1, <3>4, <3>5, <3>6 DEF Tells
  <2> QED
    BY <2>5, <2>6
<1> QED
  BY <1>5, <1>6

\* The sources of a setting from the command line to the default, and those
\* that were read when the program has come so far.
SourcesOf(name) == <<Argument(name), InEnv(Settings[name]), InFile(Settings[name]), {Settings[name].default}>>
ReadOf(name, n) == [i \in 1..4 |-> IF i < n THEN {} ELSE SourcesOf(name)[i]]

\* A value is what the first source with a usable text says.
DecidedBy(value, kind, sources) ==
    \E i \in 1..4 : /\ \E text \in sources[i] : Usable(kind, text)
                    /\ \A text \in sources[i] : value = Meant(kind, text)
                    /\ \A j \in 1..4 : j < i => \A text \in sources[j] : ~Usable(kind, text)

\* Every setting is what those sources say that have been read.
DecidedUpTo(n) ==
    /\ DOMAIN config = Names
    /\ \A name \in Names : DecidedBy(config[name], Settings[name].kind, ReadOf(name, n))

\* How far the sources have been read.
ConfigInv ==
    /\ stage = "start" => DecidedUpTo(4)
    /\ stage = "file" => DecidedUpTo(3)
    /\ stage = "environment" => DecidedUpTo(2)
    /\ stage = "running" => DecidedUpTo(1)

\* One source more decides over those before.
LEMMA SourceDecides ==
    ASSUME NEW name \in Names, NEW n \in 1..3, NEW option, Tells(option, SourcesOf(name)[n]),
           NEW kind, kind = Settings[name].kind,
           NEW value, DecidedBy(value, kind, ReadOf(name, n + 1)),
           NEW next, next = IF option = << >> THEN value ELSE Taken(kind, option[1], value)
    PROVE  DecidedBy(next, kind, ReadOf(name, n))
<1> DEFINE old == ReadOf(name, n + 1)
           new == ReadOf(name, n)
<1>1. /\ n \in 1..4 /\ new[n] = SourcesOf(name)[n]
      /\ \A i \in 1..4 : i < n + 1 => old[i] = {}
      /\ \A i \in 1..4 : i < n => new[i] = {}
      /\ \A i \in 1..4 : i # n => new[i] = old[i]
  BY DEF ReadOf
<1>2. PICK i \in 1..4 : /\ \E text \in old[i] : Usable(kind, text)
                        /\ \A text \in old[i] : value = Meant(kind, text)
                        /\ \A j \in 1..4 : j < i => \A text \in old[j] : ~Usable(kind, text)
  BY DEF DecidedBy
<1> HIDE DEF old, new
<1>3. i # n /\ n < i
  BY <1>1, <1>2
<1>4. CASE \E text : option = << text >> /\ new[n] = {text} /\ Usable(kind, text)
  <2>1. PICK text : option = << text >> /\ new[n] = {text} /\ Usable(kind, text)
    BY <1>4
  <2>2. next = Meant(kind, text)
    BY <2>1 DEF Taken
  <2>3. \A j \in 1..4 : j < n => \A t \in new[j] : ~Usable(kind, t)
    BY <1>1
  <2>4. DecidedBy(next, kind, new)
    BY <1>1, <2>1, <2>2, <2>3 DEF DecidedBy
  <2> QED
    BY <2>4 DEF new
<1>5. CASE \A text \in new[n] : ~Usable(kind, text)
  <2>1. next = value
    <3>1. CASE option = << >>
      BY <3>1
    <3>2. CASE option # << >>
      <4>1. PICK text : option = << text >> /\ new[n] = {text}
        BY <1>1, <3>2 DEF Tells
      <4> QED
        BY <1>5, <3>2, <4>1 DEF Taken
    <3> QED
      BY <3>1, <3>2
  <2>2. new[i] = old[i]
    BY <1>1, <1>3
  <2>3. \A j \in 1..4 : j < i => \A text \in new[j] : ~Usable(kind, text)
    BY <1>1, <1>2, <1>5
  <2>4. DecidedBy(next, kind, new)
    BY <1>2, <2>1, <2>2, <2>3 DEF DecidedBy
  <2> QED
    BY <2>4 DEF new
<1> QED
  BY <1>1, <1>4, <1>5 DEF Tells

\* What is given stays what it is, and so do the sources of a setting.
LEMMA SameSources ==
    ASSUME UNCHANGED given, NEW n
    PROVE  \A name : ReadOf(name, n)' = ReadOf(name, n)
<1>1. \A name : Argument(name)' = Argument(name)
  BY DEF Argument
<1>2. \A s : InEnv(s)' = InEnv(s)
  BY DEF InEnv
<1>3. \A s, key : PairsOf(s, key)' = PairsOf(s, key)
  <2>1. \A i : Under(i)' = Under(i)
    BY DEF Under
  <2> QED
    BY <2>1 DEF PairsOf
<1>4. IniPath' = IniPath
  BY DEF IniPath
<1>5. \A s : InFile(s)' = InFile(s)
  BY <1>3, <1>4 DEF InFile
<1> QED
  BY <1>1, <1>2, <1>5 DEF ReadOf, SourcesOf

\* The texts of one source over the settings.
LEMMA SourceRead ==
    ASSUME NEW n \in 1..3, DecidedUpTo(n + 1), NEW texts,
           \A name \in Names : Tells(texts[name], SourcesOf(name)[n]),
           config' = Overridden(texts), UNCHANGED given
    PROVE  DecidedUpTo(n)'
<1>1. DOMAIN config' = Names
  BY DEF Overridden
<1>2. ASSUME NEW name \in Names
      PROVE  DecidedBy(config'[name], Settings[name].kind, ReadOf(name, n))
  <2>1. config'[name] = IF texts[name] = << >> THEN config[name]
                        ELSE Taken(Settings[name].kind, texts[name][1], config[name])
    BY DEF Overridden
  <2>2. DecidedBy(config[name], Settings[name].kind, ReadOf(name, n + 1))
    BY DEF DecidedUpTo
  <2> QED
    BY <2>1, <2>2, SourceDecides
<1>3. \A name : ReadOf(name, n)' = ReadOf(name, n)
  BY SameSources
<1> QED
  BY <1>1, <1>2, <1>3 DEF DecidedUpTo

IsOfKind(s, kind) == s.kind = kind

\* A setting is of the kind it is made of.
LEMMA KindOfSetting ==
    ASSUME NEW kind, NEW section, NEW keys, NEW env, NEW word
    PROVE  IsOfKind(Setting(kind, section, keys, env, word), kind)
BY DEF Setting, IsOfKind

\* The settings of the command line, and of the usage log, by their kinds.
LEMMA KindsOfArguments ==
    /\ Settings["port"].kind = "port" /\ Settings["protocol"].kind = "protocol"
    /\ Settings["service_geoip_db"].kind = "path" /\ Settings["service_log_dir"].kind = "path"
    /\ {"port", "protocol", "service_geoip_db", "service_log_dir"} \subseteq Names
<1>1. IsOfKind(Settings["port"], "port")
  <2>1. Settings["port"]
           = Setting("port", "webservice", <<"port">>, <<"BO_SERVICE_PORT">>, "8080")
    BY Zenon DEF Settings
  <2> QED
    BY <2>1, KindOfSetting, Zenon
<1>2. IsOfKind(Settings["protocol"], "protocol")
  <2>1. Settings["protocol"]
           = Setting("protocol", "webservice", <<"protocol">>, <<"BO_SERVICE_PROTOCOL">>, "http")
    BY Zenon DEF Settings
  <2> QED
    BY <2>1, KindOfSetting, Zenon
<1>3. IsOfKind(Settings["service_geoip_db"], "path")
  <2>1. Settings["service_geoip_db"]
           = Setting("path", "webservice", <<"geoip_db">>,
                     <<"BO_GEOIP_DB", "BO_SERVICE_GEOIP_DB">>, "")
    BY Zenon DEF Settings
  <2> QED
    BY <2>1, KindOfSetting, Zenon
<1>4. IsOfKind(Settings["service_log_dir"], "path")
  <2>1. Settings["service_log_dir"]
           = Setting("path", "webservice", <<"servicelog", "log_directory">>,
                     <<"BO_SERVICE_SERVICELOG", "BO_SERVICE_LOG_DIR">>, "")
    BY Zenon DEF Settings
  <2> QED
    BY <2>1, KindOfSetting, Zenon
<1>5. {"port", "protocol", "service_geoip_db", "service_log_dir"} \subseteq Names
  BY Zenon DEF Names, Settings
<1> QED
  BY <1>1, <1>2, <1>3, <1>4, <1>5 DEF IsOfKind

\* What the command line says of a setting, as a text that may be there.
Option(name) ==
    IF name \in DOMAIN ArgumentOf /\ ArgumentOf[name] \in DOMAIN given.cli
    THEN << given.cli[ArgumentOf[name]] >> ELSE << >>

\* With the command line all four sources are read, and the first decides.
LEMMA ArgumentsRead ==
    ASSUME given \in Given, DecidedUpTo(2), ReadArguments
    PROVE  DecidedUpTo(1)'
<1> DEFINE cli == given.cli
<1>0. /\ DOMAIN ArgumentOf = {"port", "protocol", "service_geoip_db"}
      /\ ArgumentOf["port"] = "port" /\ ArgumentOf["protocol"] = "protocol"
      /\ ArgumentOf["service_geoip_db"] = "geoip_db"
  BY DEF ArgumentOf
<1>1. DOMAIN config = Names /\ DOMAIN config' = Names /\ UNCHANGED given
  BY DEF DecidedUpTo, ReadArguments
<1>2. ASSUME NEW name \in Names, Option(name) = << >>
      PROVE  config'[name] = config[name]
  <2>1. config' = [config EXCEPT
            !.port = IF "port" \in DOMAIN cli THEN cli.port ELSE @,
            !.protocol = IF "protocol" \in DOMAIN cli THEN Text(Protocol(cli.protocol.word)) ELSE @,
            !.service_geoip_db = IF "geoip_db" \in DOMAIN cli THEN cli.geoip_db ELSE @]
    BY DEF ReadArguments
  <2>2. /\ name = "port" => "port" \notin DOMAIN cli
        /\ name = "protocol" => "protocol" \notin DOMAIN cli
        /\ name = "service_geoip_db" => "geoip_db" \notin DOMAIN cli
    BY <1>0, <1>2 DEF Option
  <2> HIDE DEF cli
  <2> QED
    BY <1>1, <2>1, <2>2
<1>3. ASSUME NEW name \in Names, Option(name) # << >>
      PROVE  config'[name] = Taken(Settings[name].kind, Option(name)[1], config[name])
  <2>0. ArgumentOf[name] \in DOMAIN cli /\ Option(name)[1] = cli[ArgumentOf[name]]
    BY <1>3 DEF Option
  <2>1. CASE name = "port"
    <3>1. "port" \in DOMAIN cli /\ Option(name)[1] = cli.port
      BY <1>0, <2>0, <2>1
    <3>2. Usable("port", cli.port)
      BY <3>1, GivenAssumption DEF GivenAssumption
    <3>3. config'["port"] = cli.port
      BY <1>1, <2>1, <3>1 DEF ReadArguments
    <3>4. Meant("port", cli.port) = cli.port
      BY DEF Meant
    <3> QED
      BY <2>1, <3>1, <3>2, <3>3, <3>4, KindsOfArguments DEF Taken
  <2>2. CASE name = "protocol"
    <3>1. "protocol" \in DOMAIN cli /\ Option(name)[1] = cli.protocol
      BY <1>0, <2>0, <2>2
    <3>2. Protocol(cli.protocol.word) # ""
      BY <3>1, Zenon DEF ReadArguments
    <3>3. Usable("protocol", cli.protocol)
      BY <3>2 DEF Usable
    <3>4. config'["protocol"] = Text(Protocol(cli.protocol.word))
      BY <1>1, <2>2, <3>1 DEF ReadArguments
    <3>5. Meant("protocol", cli.protocol) = Text(Protocol(cli.protocol.word))
      BY DEF Meant
    <3> QED
      BY <2>2, <3>1, <3>3, <3>4, <3>5, KindsOfArguments DEF Taken
  <2>3. CASE name = "service_geoip_db"
    <3>1. "geoip_db" \in DOMAIN cli /\ Option(name)[1] = cli.geoip_db
      BY <1>0, <2>0, <2>3
    <3>2. config'["service_geoip_db"] = cli.geoip_db
      BY <1>1, <2>3, <3>1 DEF ReadArguments
    <3>3. TakesAsIs("path", cli.geoip_db)
      BY KindFacts
    <3> QED
      BY <2>3, <3>1, <3>2, <3>3, KindsOfArguments DEF Taken, TakesAsIs
  <2> QED
    BY <1>0, <1>3, <2>1, <2>2, <2>3 DEF Option
<1>4. ASSUME NEW name \in Names
      PROVE  DecidedBy(config'[name], Settings[name].kind, ReadOf(name, 1))
  <2>1. Tells(Option(name), SourcesOf(name)[1])
    <3>1. SourcesOf(name)[1] = Argument(name)
      BY DEF SourcesOf
    <3> QED
      BY <3>1 DEF Option, Argument, Tells
  <2>2. DecidedBy(config[name], Settings[name].kind, ReadOf(name, 1 + 1))
    BY DEF DecidedUpTo
  <2>3. config'[name] = IF Option(name) = << >> THEN config[name]
                        ELSE Taken(Settings[name].kind, Option(name)[1], config[name])
    BY <1>2, <1>3
  <2> PICK option : option = Option(name)
    OBVIOUS
  <2> PICK value : value = config[name]
    OBVIOUS
  <2> PICK next : next = config'[name]
    OBVIOUS
  <2>4. /\ Tells(option, SourcesOf(name)[1])
        /\ DecidedBy(value, Settings[name].kind, ReadOf(name, 1 + 1))
        /\ next = IF option = << >> THEN value ELSE Taken(Settings[name].kind, option[1], value)
    BY ONLY <2>1, <2>2, <2>3, option = Option(name), value = config[name], next = config'[name], Zenon
  <2>5. 1 \in 1..3
    OBVIOUS
  <2>6. DecidedBy(next, Settings[name].kind, ReadOf(name, 1))
    BY ONLY <2>4, <2>5, SourceDecides, Zenon
  <2> QED
    BY ONLY <2>6, next = config'[name], Zenon
<1>5. \A name : ReadOf(name, 1)' = ReadOf(name, 1)
  BY <1>1, SameSources
<1> QED
  BY <1>1, <1>4, <1>5 DEF DecidedUpTo

\* The usage log is where the settings say it is.
UsageInv == stage = "running" => usage = ResolveServicelog

\* The inductive invariant.
SettingsInv == given \in Given /\ ConfigInv /\ UsageInv

\* At the start the defaults decide.
LEMMA StartDecided == SettingsInit => SettingsInv
<1> SUFFICES ASSUME SettingsInit PROVE SettingsInv
  OBVIOUS
<1>1. given \in Given /\ stage = "start" /\ config = [name \in Names |-> Settings[name].default]
  BY DEF SettingsInit
<1>2. ASSUME NEW name \in Names
      PROVE  DecidedBy(config[name], Settings[name].kind, ReadOf(name, 4))
  <2> PICK s : s = Settings[name]
    OBVIOUS
  <2> DEFINE sources == ReadOf(name, 4)
  <2>1. sources[4] = {s.default} /\ \A j \in 1..4 : j < 4 => sources[j] = {}
    BY DEF ReadOf, SourcesOf
  <2>2. Usable(s.kind, s.default) /\ Meant(s.kind, s.default) = s.default
    BY SettingFacts DEF IsSetting
  <2>3. config[name] = s.default
    BY <1>1
  <2>4. 4 \in 1..4
    OBVIOUS
  <2> HIDE DEF sources
  <2>5. DecidedBy(config[name], s.kind, sources)
    BY <2>1, <2>2, <2>3, <2>4 DEF DecidedBy
  <2> QED
    BY <2>5 DEF sources
<1>3. DecidedUpTo(4)
  BY <1>1, <1>2 DEF DecidedUpTo
<1>4. ConfigInv
  BY <1>1, <1>3 DEF ConfigInv
<1>5. UsageInv
  BY <1>1 DEF UsageInv
<1> QED
  BY <1>1, <1>4, <1>5 DEF SettingsInv

\* Each step reads the next source, and what it says decides.
LEMMA StepDecided ==
    ASSUME SettingsInv, [SettingsStep]_settingVars
    PROVE  SettingsInv'
<1>0. given \in Given /\ given.lines \in Seq(ToSet(given.lines)) /\ ConfigInv /\ UsageInv
  BY GivenAssumption DEF SettingsInv, GivenAssumption
<1>1. CASE ReadFile
  <2>1. stage = "start" /\ stage' = "file" /\ UNCHANGED given
        /\ config' = Overridden([name \in Names |-> FromFile(name)])
    BY <1>1 DEF ReadFile
  <2>2. DecidedUpTo(3 + 1)
    BY <1>0, <2>1 DEF ConfigInv
  <2> DEFINE texts == [name \in Names |-> FromFile(name)]
  <2>3. \A name \in Names : Tells(texts[name], SourcesOf(name)[3])
    <3> TAKE name \in Names
    <3>1. SourcesOf(name)[3] = InFile(Settings[name])
      BY DEF SourcesOf
    <3>2. Tells(FromFile(name), InFile(Settings[name]))
      BY <1>0, FileTells
    <3> QED
      BY <3>1, <3>2
  <2> HIDE DEF texts
  <2>4. DecidedUpTo(3)'
    BY <2>1, <2>2, <2>3, SourceRead DEF texts
  <2> QED
    BY <1>0, <2>1, <2>4 DEF SettingsInv, ConfigInv, UsageInv
<1>2. CASE ReadEnv
  <2>1. stage = "file" /\ stage' = "environment" /\ UNCHANGED given
        /\ config' = Overridden([name \in Names |-> FromEnv(name)])
    BY <1>2 DEF ReadEnv
  <2>2. DecidedUpTo(2 + 1)
    BY <1>0, <2>1 DEF ConfigInv
  <2> DEFINE texts == [name \in Names |-> FromEnv(name)]
  <2>3. \A name \in Names : Tells(texts[name], SourcesOf(name)[2])
    <3> TAKE name \in Names
    <3>1. SourcesOf(name)[2] = InEnv(Settings[name])
      BY DEF SourcesOf
    <3> QED
      BY <3>1, EnvTells
  <2> HIDE DEF texts
  <2>4. DecidedUpTo(2)'
    BY <2>1, <2>2, <2>3, SourceRead DEF texts
  <2> QED
    BY <1>0, <2>1, <2>4 DEF SettingsInv, ConfigInv, UsageInv
<1>3. CASE BadProtocol
  BY <1>0, <1>3 DEF BadProtocol, SettingsInv, ConfigInv, UsageInv
<1>4. CASE ReadArguments
  <2>1. stage = "environment" /\ stage' = "running" /\ UNCHANGED given /\ usage' = ResolveServicelog
    BY <1>4 DEF ReadArguments
  <2>2. DecidedUpTo(2)
    BY <1>0, <2>1 DEF ConfigInv
  <2>3. DecidedUpTo(1)'
    BY <1>0, <1>4, <2>2, ArgumentsRead
  <2>4. config'["service_log_dir"] = config["service_log_dir"]
    <3>1. DOMAIN config = Names
      BY <2>2 DEF DecidedUpTo
    <3> QED
      BY <1>4, <3>1, KindsOfArguments DEF ReadArguments
  <2>5. ResolveServicelog' = ResolveServicelog
    BY <2>1, <2>4 DEF ResolveServicelog
  <2> QED
    BY <1>0, <2>1, <2>3, <2>5 DEF SettingsInv, ConfigInv, UsageInv
<1>5. CASE UNCHANGED settingVars
  <2>1. UNCHANGED <<given, stage, config, usage>>
    BY <1>5 DEF settingVars
  <2>2. \A n : DecidedUpTo(n)' <=> DecidedUpTo(n)
    <3> TAKE n
    <3>1. \A name : ReadOf(name, n)' = ReadOf(name, n)
      BY <2>1, SameSources
    <3> QED
      BY <2>1, <3>1 DEF DecidedUpTo
  <2>3. ResolveServicelog' = ResolveServicelog
    BY <2>1 DEF ResolveServicelog
  <2> QED
    BY <1>0, <2>1, <2>2, <2>3 DEF SettingsInv, ConfigInv, UsageInv
<1> QED
  BY <1>1, <1>2, <1>3, <1>4, <1>5 DEF SettingsStep

\* What the first source that is usable says is what a setting is.
LEMMA DecidedIsRespected ==
    ASSUME DecidedUpTo(1), NEW name \in Names
    PROVE  /\ \A text \in Decides(name) : config[name] = Meant(Settings[name].kind, text)
           /\ \E text \in Decides(name) : config[name] = Meant(Settings[name].kind, text)
<1> PICK kind : kind = Settings[name].kind
  OBVIOUS
<1> PICK sources : sources = SourcesOf(name)
  OBVIOUS
<1>1. DOMAIN sources = 1..4
  BY DEF SourcesOf
<1> DEFINE able == {i \in DOMAIN sources : \E text \in sources[i] : Usable(kind, text)}
<1>2. Decides(name) = sources[Min(able)]
  BY DEF Decides, SourcesOf
<1>3. \A i \in 1..4 : ReadOf(name, 1)[i] = sources[i]
  BY DEF ReadOf
<1>4. PICK i \in 1..4 : /\ \E text \in sources[i] : Usable(kind, text)
                        /\ \A text \in sources[i] : config[name] = Meant(kind, text)
                        /\ \A j \in 1..4 : j < i => \A text \in sources[j] : ~Usable(kind, text)
  BY <1>3 DEF DecidedUpTo, DecidedBy
<1>5. i \in able /\ able \in SUBSET Int /\ \A j \in able : i <= j
  BY <1>1, <1>4
<1> HIDE DEF able
<1>6. Min(able) \in able /\ \A j \in able : Min(able) <= j
  BY <1>5, MinOfBounded
<1>7. Min(able) = i
  <2>1. Min(able) \in Int /\ i \in Int /\ Min(able) <= i /\ i <= Min(able)
    BY <1>5, <1>6
  <2> QED
    BY <2>1
<1> QED
  BY <1>2, <1>4, <1>7

\* The usage log is kept where the path that decides says, and nowhere else.
LEMMA UsageRespected ==
    ASSUME stage = "running", SettingsInv
    PROVE  UsageLogKept
<1> DEFINE given_cli == "servicelog" \in DOMAIN given.cli
           own == config["service_log_dir"]
           path == IF given_cli THEN ServicelogDirectory(given.cli.servicelog) ELSE own
           off == ~given_cli /\ own = Text("")
<1>1. DecidedUpTo(1) /\ usage = ResolveServicelog
  BY DEF SettingsInv, ConfigInv, UsageInv
<1>2. /\ off => usage.is = "disabled"
      /\ ~off => usage.is = (IF IsWritable(path) THEN "enabled" ELSE "unusable") /\ usage.path = path
  BY <1>1, Zenon DEF ResolveServicelog
<1>3. CASE given_cli
  <2> PICK text : text = given.cli.servicelog
    OBVIOUS
  <2>1. path = ServicelogDirectory(text) /\ ~off
    BY <1>3
  <2>2. LogPaths = {IF IsDir(text) \/ ~HasExtension(text) THEN text ELSE Parent(text)}
    BY <1>3 DEF LogPaths
  <2>3. LogPaths = {path}
    <3> HIDE DEF path
    <3> QED
      BY <2>1, <2>2 DEF ServicelogDirectory
  <2> HIDE DEF path, off
  <2> QED
    BY <1>2, <1>3, <2>1, <2>3 DEF UsageLogKept
<1>4. CASE ~given_cli
  <2>1. path = own /\ LogPaths = Decides("service_log_dir")
    BY <1>4 DEF LogPaths
  <2>2. LogPaths = {own}
    <3>1. /\ \A text \in LogPaths : own = Meant("path", text)
          /\ \E text \in LogPaths : own = Meant("path", text)
      BY <1>1, <2>1, DecidedIsRespected, KindsOfArguments
    <3>2. \A text : Meant("path", text) = text
      BY DEF Meant
    <3> QED
      BY <3>1, <3>2
  <2>3. ~IsWritable(Text(""))
    BY DEF IsWritable, Text
  <2> HIDE DEF path
  <2>4. LogPaths = {Text("")} <=> off
    BY <1>4, <2>2
  <2>5. off => ~IsWritable(path)
    BY <2>1, <2>3
  <2> HIDE DEF off, own
  <2> QED
    BY <1>2, <1>4, <2>1, <2>2, <2>4, <2>5 DEF UsageLogKept
<1> QED
  BY <1>3, <1>4

------------------------------------------------------------------------------
(* Settings: what the client library reads of the connection string. *)

\* The characters that mean something, and the states of a reader.
Blank == " "
Quote == "'"
Backslash == "\\"
Equals == "="
NoKey == ""
InKey == "key"
AtStart == "start"
InPlain == "plain"
InQuotes == "quoted"
Usual == "value"
Escaped == "backslash"

\* A reader by its parts.
Reader(pairs, in, key, value, after) ==
    [pairs |-> pairs, in |-> in, key |-> key, value |-> value, after |-> after]

\* A reader otherwise in place, with another key, or after another character.
In(r, new) == [r EXCEPT !.in = new]
Keyed(r, new) == [r EXCEPT !.key = new]
After(r, new) == [r EXCEPT !.after = new]
More(value, char) == Append(value, char)

\* The parts of a reader.
LEMMA ReaderFields ==
    ASSUME NEW pairs, NEW in, NEW key, NEW value, NEW after, NEW r, r = Reader(pairs, in, key, value, after)
    PROVE  r.pairs = pairs /\ r.in = in /\ r.key = key /\ r.value = value /\ r.after = after
BY DEF Reader

\* A reader with one part changed.
LEMMA ReaderChanged ==
    ASSUME NEW pairs, NEW in, NEW key, NEW value, NEW after, NEW new,
           NEW r, r = Reader(pairs, in, key, value, after)
    PROVE  /\ In(r, new) = Reader(pairs, new, key, value, after)
           /\ Keyed(r, new) = Reader(pairs, in, new, value, after)
           /\ After(r, new) = Reader(pairs, in, key, value, new)
<1>1. In(r, new) = Reader(pairs, new, key, value, after)
  BY DEF Reader, In, Keyed, After
<1>2. Keyed(r, new) = Reader(pairs, in, new, value, after)
  BY DEF Reader, In, Keyed, After
<1>5. After(r, new) = Reader(pairs, in, key, value, new)
  BY DEF Reader, In, Keyed, After
<1> QED
  BY <1>1, <1>2, <1>5

\* A character that is added is the last of the value.
LEMMA CharAdded ==
    ASSUME NEW pairs, NEW in, NEW key, NEW value, NEW after, NEW r, r = Reader(pairs, in, key, value, after),
           NEW char, NEW more, more = More(value, char)
    PROVE  AddChar(r, char) = Reader(pairs, in, key, more, Usual)
<1>1. r.value = value
  BY ReaderFields
<1>2. AddChar(r, char) = [r EXCEPT !.value = more, !.after = "value"]
  BY <1>1 DEF AddChar, More
<1>3. AddChar(r, char) = Reader(pairs, in, key, more, "value")
  BY <1>2 DEF Reader
<1> QED
  BY <1>3, Zenon DEF Usual

\* A value that has ended makes a pair with its key.
LEMMA PairPut ==
    ASSUME NEW pairs, NEW in, NEW key, NEW value, NEW after, NEW r, r = Reader(pairs, in, key, value, after),
           NEW more, more = More(pairs, <<key, value>>)
    PROVE  PutPair(r) = Reader(more, InKey, NoKey, << >>, Usual)
<1>1. r.value = value /\ r.key = key /\ r.pairs = pairs
  BY ReaderFields
<1>2. PutPair(r) = [r EXCEPT !.pairs = more, !.value = << >>, !.in = "key", !.after = "value", !.key = ""]
  BY <1>1 DEF PutPair, More
<1>3. PutPair(r) = Reader(more, "key", "", << >>, "value")
  BY <1>2 DEF Reader
<1> QED
  BY <1>3, Zenon DEF InKey, NoKey, Usual

\* The characters that mean something differ, and so do the states.
LEMMA Marks ==
    /\ Blank # Equals /\ Blank # Quote /\ Blank # Backslash /\ Quote # Backslash
    /\ Equals # Quote /\ Equals # Backslash
    /\ InKey # AtStart /\ InKey # InQuotes /\ InKey # InPlain /\ AtStart # InQuotes
    /\ AtStart # InPlain /\ InQuotes # InPlain /\ Usual # Escaped
BY DEF Blank, Quote, Backslash, Equals, InKey, AtStart, InPlain, InQuotes, Usual, Escaped

\* What a reader does with a character, in the terms above.
LEMMA CharRead ==
    ASSUME NEW r, NEW char
    PROVE  /\ r.in = InKey => ReadChar(r, char) = ReadKey(r, char)
           /\ r.in = AtStart => ReadChar(r, char) = ReadStart(r, char)
           /\ r.in # InKey /\ r.in # AtStart => ReadChar(r, char) = ReadValue(r, char)
BY Marks, Zenon DEF ReadChar, InKey, AtStart

\* What a character does before a value.
LEMMA KeyCharRead ==
    ASSUME NEW r, NEW char
    PROVE  /\ char = Blank => ReadKey(r, char) = r
           /\ char = Equals => ReadKey(r, char) = In(r, AtStart)
           /\ char # Blank /\ char # Equals => ReadKey(r, char) = Keyed(r, char)
<1>1. char = Blank => ReadKey(r, char) = r
  BY Marks, Zenon DEF ReadKey, Blank, Equals
<1>2. char = Equals => ReadKey(r, char) = In(r, AtStart)
  BY Marks, Zenon DEF ReadKey, Blank, Equals, AtStart, In
<1>3. char # Blank /\ char # Equals => ReadKey(r, char) = Keyed(r, char)
  BY Marks, Zenon DEF ReadKey, Blank, Equals, Keyed
<1> QED
  BY <1>1, <1>2, <1>3

\* What the first character of a value does.
LEMMA StartCharRead ==
    ASSUME NEW r, NEW char
    PROVE  /\ char = Quote => ReadStart(r, char) = In(r, InQuotes)
           /\ char = Backslash => ReadStart(r, char) = After(In(r, InPlain), Escaped)
           /\ char # Blank /\ char # Quote /\ char # Backslash
                => ReadStart(r, char) = AddChar(In(r, InPlain), char)
<1>1. char = Quote => ReadStart(r, char) = In(r, InQuotes)
  BY Marks, Zenon DEF ReadStart, Blank, Quote, Backslash, InQuotes, In
<1>2. char = Backslash => ReadStart(r, char) = After(In(r, InPlain), Escaped)
  <2>1. char = Backslash => ReadStart(r, char) = [r EXCEPT !.in = InPlain, !.after = Escaped]
    BY Marks, Zenon DEF ReadStart, Blank, Quote, Backslash, InPlain, Escaped
  <2>2. [r EXCEPT !.in = InPlain, !.after = Escaped] = After(In(r, InPlain), Escaped)
    BY DEF After, In
  <2> QED
    BY <2>1, <2>2
<1>3. char # Blank /\ char # Quote /\ char # Backslash
         => ReadStart(r, char) = AddChar(In(r, InPlain), char)
  BY Marks, Zenon DEF ReadStart, Blank, Quote, Backslash, InPlain, In
<1> QED
  BY <1>1, <1>2, <1>3

\* What a character of a value does, after a backslash and else.
LEMMA ValueCharRead ==
    ASSUME NEW r, NEW char
    PROVE  /\ r.in = InQuotes => EndOfValue(r) = Quote
           /\ r.in # InQuotes => EndOfValue(r) = Blank
           /\ r.after = Escaped => ReadValue(r, char) = AddChar(r, char)
           /\ r.after # Escaped /\ char = Backslash => ReadValue(r, char) = After(r, Escaped)
           /\ r.after # Escaped /\ char = EndOfValue(r) => ReadValue(r, char) = PutPair(r)
           /\ r.after # Escaped /\ char # Backslash /\ char # EndOfValue(r)
                => ReadValue(r, char) = AddChar(r, char)
<1>1. /\ r.in = InQuotes => EndOfValue(r) = Quote
      /\ r.in # InQuotes => EndOfValue(r) = Blank
  BY Zenon DEF EndOfValue, InQuotes, Quote, Blank
<1>2. EndOfValue(r) # Backslash
  BY <1>1, Marks, Zenon
<1>3. r.after = Escaped => ReadValue(r, char) = AddChar(r, char)
  BY Zenon DEF ReadValue, Escaped
<1>4. r.after # Escaped /\ char = Backslash => ReadValue(r, char) = After(r, Escaped)
  BY <1>2, Zenon DEF ReadValue, Escaped, Backslash, After
<1>5. r.after # Escaped /\ char = EndOfValue(r) => ReadValue(r, char) = PutPair(r)
  BY <1>2, Zenon DEF ReadValue, Escaped, Backslash
<1>6. r.after # Escaped /\ char # Backslash /\ char # EndOfValue(r) => ReadValue(r, char) = AddChar(r, char)
  BY Zenon DEF ReadValue, Escaped, Backslash
<1> QED
  BY <1>1, <1>3, <1>4, <1>5, <1>6

\* Before a value the key is read.
LEMMA KeyRead ==
    ASSUME NEW pairs, NEW key, NEW value, NEW after, NEW char,
           NEW r, r = Reader(pairs, InKey, key, value, after)
    PROVE  /\ char = Blank => ReadChar(r, char) = r
           /\ char = Equals => ReadChar(r, char) = Reader(pairs, AtStart, key, value, after)
           /\ char # Blank /\ char # Equals => ReadChar(r, char) = Reader(pairs, InKey, char, value, after)
<1>1. r.in = InKey
  BY ReaderFields
<1>2. ReadChar(r, char) = ReadKey(r, char)
  BY <1>1, CharRead
<1>3. In(r, AtStart) = Reader(pairs, AtStart, key, value, after)
  BY ReaderChanged
<1>4. Keyed(r, char) = Reader(pairs, InKey, char, value, after)
  BY ReaderChanged
<1> QED
  BY <1>2, <1>3, <1>4, KeyCharRead

\* A value begins with a quote, or with its first character.
LEMMA StartRead ==
    ASSUME NEW pairs, NEW key, NEW value, NEW after, NEW char,
           NEW r, r = Reader(pairs, AtStart, key, value, after)
    PROVE  /\ char = Quote => ReadChar(r, char) = Reader(pairs, InQuotes, key, value, after)
           /\ char = Backslash => ReadChar(r, char) = Reader(pairs, InPlain, key, value, Escaped)
           /\ char # Blank /\ char # Quote /\ char # Backslash =>
                 ReadChar(r, char) = Reader(pairs, InPlain, key, More(value, char), Usual)
<1>1. r.in = AtStart
  BY ReaderFields
<1>2. ReadChar(r, char) = ReadStart(r, char)
  BY <1>1, CharRead
<1>3. In(r, InQuotes) = Reader(pairs, InQuotes, key, value, after)
  BY ReaderChanged
<1> PICK s, more : s = In(r, InPlain) /\ more = More(value, char)
  OBVIOUS
<1>4. s = Reader(pairs, InPlain, key, value, after)
  BY ReaderChanged
<1>5. After(s, Escaped) = Reader(pairs, InPlain, key, value, Escaped)
  BY <1>4, ReaderChanged
<1>7. AddChar(s, char) = Reader(pairs, InPlain, key, more, Usual)
  BY <1>4, CharAdded
<1> QED
  BY <1>2, <1>3, <1>5, <1>7, StartCharRead

\* In a value a character is one of it, unless it ends the value.
LEMMA ValueRead ==
    ASSUME NEW pairs, NEW in, in = InPlain \/ in = InQuotes, NEW key, NEW value, NEW char,
           NEW r, r = Reader(pairs, in, key, value, Usual),
           NEW end, end = IF in = InQuotes THEN Quote ELSE Blank
    PROVE  /\ char = Backslash => ReadChar(r, char) = Reader(pairs, in, key, value, Escaped)
           /\ char = end => ReadChar(r, char) = PutPair(r)
           /\ char # Backslash /\ char # end =>
                 ReadChar(r, char) = Reader(pairs, in, key, More(value, char), Usual)
<1>1. r.in = in /\ r.after = Usual
  BY ReaderFields
<1>2. ReadChar(r, char) = ReadValue(r, char)
  BY <1>1, CharRead, Marks
<1>3. end = EndOfValue(r)
  BY <1>1, ValueCharRead
<1>4. After(r, Escaped) = Reader(pairs, in, key, value, Escaped)
  BY ReaderChanged
<1> PICK more : more = More(value, char)
  OBVIOUS
<1>5. AddChar(r, char) = Reader(pairs, in, key, more, Usual)
  BY CharAdded
<1> QED
  BY <1>1, <1>2, <1>3, <1>4, <1>5, ValueCharRead, Marks

\* After a backslash any character is one of the value.
LEMMA EscapedCharRead ==
    ASSUME NEW pairs, NEW in, in = InPlain \/ in = InQuotes, NEW key, NEW value, NEW char,
           NEW r, r = Reader(pairs, in, key, value, Escaped)
    PROVE  ReadChar(r, char) = Reader(pairs, in, key, More(value, char), Usual)
<1>1. r.in = in /\ r.after = Escaped
  BY ReaderFields
<1>2. ReadChar(r, char) = ReadValue(r, char)
  BY <1>1, CharRead, Marks
<1> PICK more : more = More(value, char)
  OBVIOUS
<1>3. AddChar(r, char) = Reader(pairs, in, key, more, Usual)
  BY CharAdded
<1> QED
  BY <1>1, <1>2, <1>3, ValueCharRead

\* F is the reader after every character of a string, from its state a to its state b.
ReadsBy(F, string, a, b) ==
    F[0] = a /\ F[Len(string)] = b /\ \A i \in 1..Len(string) : F[i] = ReadChar(F[i - 1], string[i])

\* A string takes a reader from state a to state b.
Reads(string, a, b) == \E F : ReadsBy(F, string, a, b)

\* What is read of a connection string, character by character.
LEMMA ConninfoReads ==
    ASSUME NEW C, NEW string \in Seq(C)
    PROVE  \E b : /\ Reads(string, NothingRead, b)
                  /\ ReadConninfo(string) = IF b.in = InPlain THEN PutPair(b).pairs ELSE b.pairs
<1> PICK N \in Nat : N = Len(string) /\ DOMAIN string = 1..N
  OBVIOUS
<1> DEFINE Body(F, n) ==
               [s \in SUBSET (1..n) |->
                   IF s = {} THEN NothingRead ELSE ReadChar(F[s \ {Max(s)}], string[Max(s)])]
           Stuck == {n \in 0..N : ~ \E F : F = Body(F, n)}
<1>0. \A n \in 0..N : \A s \in SUBSET (1..n) :
         s # {} => Max(s) \in s /\ \A y \in s : y <= Max(s)
  <2> TAKE n \in 0..N
  <2> TAKE s \in SUBSET (1..n)
  <2> HAVE s # {}
  <2>1. s \in SUBSET Int /\ \A x \in s : x <= n
    OBVIOUS
  <2>2. n \in Int
    OBVIOUS
  <2> QED
    BY <2>1, <2>2, MaxOfBounded
<1>1. 0 \notin Stuck
  <2>1. 1..0 = {}
    OBVIOUS
  <2> DEFINE F == [s \in SUBSET (1..0) |-> NothingRead]
  <2>2. SUBSET (1..0) = {{}}
    BY <2>1
  <2>3. F = Body(F, 0)
    BY <2>2
  <2> HIDE DEF F
  <2> QED
    BY <2>3
<1>2. ASSUME NEW n \in 1..N, n - 1 \in 0..N, n - 1 \notin Stuck
      PROVE  n \notin Stuck
  <2>1. PICK F : F = Body(F, n - 1)
    BY <1>2
  <2> DEFINE H == [s \in SUBSET (1..n) |->
                      IF n \in s THEN ReadChar(F[s \ {n}], string[n]) ELSE F[s]]
  <2>2. \A s \in SUBSET (1..n) : s \ {n} \in SUBSET (1..n - 1) /\ (n \notin s => s \in SUBSET (1..n - 1))
    OBVIOUS
  <2>4. \A s \in SUBSET (1..n) : s # {} => H[s] = ReadChar(H[s \ {Max(s)}], string[Max(s)])
    <3> TAKE s \in SUBSET (1..n)
    <3> HAVE s # {}
    <3> n \in 0..N /\ n \in 1..n
      OBVIOUS
    <3>1. Max(s) \in s /\ \A y \in s : y <= Max(s)
      BY <1>0
    <3>2. CASE n \in s
      <4>1. Max(s) = n
        <5>1. Max(s) \in 1..n /\ n <= Max(s)
          BY <3>1, <3>2
        <5> QED
          BY <5>1
      <4>2. s \ {n} \in SUBSET (1..n) /\ n \notin s \ {n}
        OBVIOUS
      <4>3. H[s] = ReadChar(F[s \ {n}], string[n])
        BY <3>2
      <4>4. H[s \ {n}] = F[s \ {n}]
        BY <4>2
      <4> QED
        BY <4>1, <4>3, <4>4
    <3>3. CASE n \notin s
      <4>1. s \in SUBSET (1..n - 1) /\ s \ {Max(s)} \in SUBSET (1..n) /\ n \notin s \ {Max(s)}
        BY <2>2, <3>3
      <4>2. F[s] = ReadChar(F[s \ {Max(s)}], string[Max(s)])
        <5>1. F = Body(F, n - 1)
          BY <2>1
        <5> QED
          BY <4>1, <5>1
      <4>3. H[s] = F[s] /\ H[s \ {Max(s)}] = F[s \ {Max(s)}]
        BY <3>3, <4>1
      <4> QED
        BY <4>2, <4>3
    <3> QED
      BY <3>2, <3>3
  <2>5. H[{}] = NothingRead
    <3>1. {} \in SUBSET (1..n) /\ {} \in SUBSET (1..n - 1) /\ n \notin {}
      OBVIOUS
    <3>2. F = Body(F, n - 1)
      BY <2>1
    <3>3. F[{}] = NothingRead
      BY <3>1, <3>2
    <3> QED
      BY <3>1, <3>3
  <2>6. H = Body(H, n)
    <3> DEFINE G == H
    <3>0. G = [s \in SUBSET (1..n) |-> G[s]]
      OBVIOUS
    <3>1. \A s \in SUBSET (1..n) :
             G[s] = IF s = {} THEN NothingRead ELSE ReadChar(G[s \ {Max(s)}], string[Max(s)])
      <4> HIDE DEF H
      <4> QED
        BY <2>4, <2>5
    <3>2. G = Body(G, n)
      <4> HIDE DEF G
      <4> QED
        BY <3>0, <3>1
    <3> QED
      BY <3>2
  <2> HIDE DEF H
  <2> QED
    BY <2>6
<1>3. Stuck = {}
  <2>1. Stuck \in SUBSET (0..N)
    OBVIOUS
  <2> HIDE DEF Stuck
  <2> QED
    BY <1>1, <1>2, <2>1, FirstFailure
<1>4. \E F : F = Body(F, N)
  <2>1. N \in 0..N /\ N \notin Stuck
    <3>1. N \in 0..N
      OBVIOUS
    <3> HIDE DEF Stuck
    <3> QED
      BY <1>3, <3>1
  <2> QED
    BY <2>1
<1> DEFINE iter == CHOOSE f : f = Body(f, N)
           last == iter[1..N]
<1>5. iter = Body(iter, N)
  BY <1>4
<1>6. ReadConninfo(string) = IF last.in = InPlain THEN PutPair(last).pairs ELSE last.pairs
  <2>1. FoldLeft(ReadChar, NothingRead, string) = last
    BY DEF FoldLeft, MapThenFoldSet
  <2> HIDE DEF last
  <2> QED
    BY <2>1, Zenon DEF ReadConninfo, InPlain
<1> HIDE DEF iter
<1> DEFINE F == [i \in 0..N |-> iter[1..i]]
<1>7. F[0] = NothingRead
  <2>1. 1..0 = {} /\ 0 \in 0..N
    OBVIOUS
  <2> QED
    BY <1>5, <2>1
<1>8. ASSUME NEW i \in 1..N
      PROVE  F[i] = ReadChar(F[i - 1], string[i])
  <2>1. i \in 1..i /\ 1..i \in SUBSET (1..N) /\ i \in 0..N /\ i - 1 \in 0..N
    OBVIOUS
  <2>2. Max(1..i) = i
    <3>1. 1..i \in SUBSET Int /\ 1..i # {} /\ i \in Int /\ \A x \in 1..i : x <= i
      BY <2>1
    <3>2. Max(1..i) \in 1..i /\ \A y \in 1..i : y <= Max(1..i)
      BY <3>1, MaxOfBounded
    <3>3. Max(1..i) \in 1..i /\ i <= Max(1..i)
      BY <2>1, <3>2
    <3> QED
      BY <3>3
  <2>3. (1..i) \ {i} = 1..i - 1
    OBVIOUS
  <2>4. iter[1..i] = ReadChar(iter[1..i - 1], string[i])
    BY <1>5, <2>1, <2>2, <2>3
  <2> QED
    BY <2>1, <2>4
<1>9. F[N] = last
  <2>1. N \in 0..N
    OBVIOUS
  <2> HIDE DEF last
  <2> QED
    BY <2>1 DEF last
<1> HIDE DEF F, last
<1>10. ReadsBy(F, string, NothingRead, last)
  BY <1>7, <1>8, <1>9 DEF ReadsBy
<1> QED
  BY <1>6, <1>10 DEF Reads

\* A reader ends in one state only.
LEMMA ReadsOneWay ==
    ASSUME NEW string, Len(string) \in Nat, NEW a, NEW b, NEW c,
           Reads(string, a, b), Reads(string, a, c)
    PROVE  b = c
<1> PICK N \in Nat : N = Len(string)
  OBVIOUS
<1> PICK F, G : ReadsBy(F, string, a, b) /\ ReadsBy(G, string, a, c)
  BY DEF Reads
<1>1. /\ F[0] = a /\ F[N] = b /\ \A i \in 1..N : F[i] = ReadChar(F[i - 1], string[i])
      /\ G[0] = a /\ G[N] = c /\ \A i \in 1..N : G[i] = ReadChar(G[i - 1], string[i])
  BY DEF ReadsBy
<1> DEFINE Wrong == {n \in 0..N : F[n] # G[n]}
<1>2. 0 \notin Wrong
  BY <1>1
<1>3. \A n \in 1..N : n - 1 \in 0..N /\ n - 1 \notin Wrong => n \notin Wrong
  BY <1>1
<1>4. Wrong = {}
  <2>1. Wrong \in SUBSET (0..N)
    OBVIOUS
  <2> HIDE DEF Wrong
  <2> QED
    BY <1>2, <1>3, <2>1, FirstFailure
<1>5. N \in 0..N
  OBVIOUS
<1> QED
  BY <1>1, <1>4, <1>5

\* An empty string leaves a reader as it is.
LEMMA ReadsNothing == \A a : Reads(<< >>, a, a)
<1> TAKE a
<1>1. ReadsBy([i \in {0} |-> a], << >>, a, a)
  BY DEF ReadsBy
<1> QED
  BY <1>1 DEF Reads

\* A string of one character does what the character does.
LEMMA ReadsChar ==
    ASSUME NEW char, NEW a, NEW b, b = ReadChar(a, char)
    PROVE  Reads(<< char >>, a, b)
<1> DEFINE F == [i \in 0..1 |-> IF i = 0 THEN a ELSE b]
<1>1. F[0] = a /\ F[1] = b
  OBVIOUS
<1>2. Len(<< char >>) = 1 /\ << char >>[1] = char
  OBVIOUS
<1> HIDE DEF F
<1>3. ReadsBy(F, << char >>, a, b)
  BY <1>1, <1>2 DEF ReadsBy
<1> QED
  BY <1>3 DEF Reads

\* What is read of two strings is read of them together.
LEMMA ReadsConcat ==
    ASSUME NEW C, NEW s \in Seq(C), NEW t \in Seq(C), NEW a, NEW b, NEW c,
           Reads(s, a, b), Reads(t, b, c)
    PROVE  Reads(s \o t, a, c) /\ s \o t \in Seq(C)
<1> PICK F, G : ReadsBy(F, s, a, b) /\ ReadsBy(G, t, b, c)
  BY DEF Reads
<1> PICK m \in Nat, n \in Nat : m = Len(s) /\ n = Len(t)
  OBVIOUS
<1>1. /\ F[0] = a /\ F[m] = b /\ \A i \in 1..m : F[i] = ReadChar(F[i - 1], s[i])
      /\ G[0] = b /\ G[n] = c /\ \A i \in 1..n : G[i] = ReadChar(G[i - 1], t[i])
  BY DEF ReadsBy
<1> PICK string : string = s \o t
  OBVIOUS
<1>2. /\ Len(string) = m + n /\ m + n \in Nat
      /\ \A i \in 1..m : string[i] = s[i]
      /\ \A i \in m + 1..m + n : string[i] = t[i - m]
  OBVIOUS
<1> DEFINE H == [i \in 0..m + n |-> IF i <= m THEN F[i] ELSE G[i - m]]
<1>3. H[0] = a
  BY <1>1
<1>4. H[m + n] = c
  <2>1. CASE n = 0
    BY <1>1, <2>1
  <2>2. CASE n # 0
    <3>1. ~(m + n <= m) /\ m + n \in 0..m + n /\ m + n - m = n
      BY <2>2
    <3> QED
      BY <1>1, <3>1
  <2> QED
    BY <2>1, <2>2
<1>0. \A i \in Int : \A j \in 1..n : j = i - m /\ j # 1 => ~(i - 1 <= m) /\ (i - 1) - m = j - 1
  OBVIOUS
<1>5. ASSUME NEW i \in 1..m + n
      PROVE  H[i] = ReadChar(H[i - 1], string[i])
  <2>1. i \in 0..m + n /\ i - 1 \in 0..m + n
    OBVIOUS
  <2>2. CASE i <= m
    <3>1. i \in 1..m /\ i - 1 <= m
      BY <2>2
    <3> QED
      BY <1>1, <1>2, <2>1, <2>2, <3>1
  <2>3. CASE ~(i <= m)
    <3> PICK j \in 1..n : j = i - m
      BY <2>3
    <3>1. i \in m + 1..m + n /\ string[i] = t[j]
      BY <1>2, <2>3
    <3>2. H[i] = ReadChar(G[j - 1], t[j])
      BY <1>1, <2>1, <2>3
    <3>3. H[i - 1] = G[j - 1]
      <4>1. CASE j = 1
        <5>1. i - 1 = m /\ m <= m /\ j - 1 = 0
          BY <4>1
        <5> QED
          BY <1>1, <2>1, <5>1
      <4>2. CASE j # 1
        <5>1. ~(i - 1 <= m) /\ (i - 1) - m = j - 1
          BY <1>0, <4>2
        <5> QED
          BY <2>1, <5>1
      <4> QED
        BY <4>1, <4>2
    <3> QED
      BY <3>1, <3>2, <3>3
  <2> QED
    BY <2>2, <2>3
<1> HIDE DEF H
<1>6. ReadsBy(H, string, a, c)
  BY <1>2, <1>3, <1>4, <1>5 DEF ReadsBy
<1>7. Reads(string, a, c)
  BY <1>6 DEF Reads
<1> QED
  BY <1>7

\* A string of two characters does what they do, one after the other.
LEMMA ReadsTwo ==
    ASSUME NEW x, NEW y, NEW a, NEW b, NEW c, b = ReadChar(a, x), c = ReadChar(b, y)
    PROVE  Reads(<< x, y >>, a, c)
<1> DEFINE F == [i \in 0..2 |-> IF i = 0 THEN a ELSE IF i = 1 THEN b ELSE c]
<1>1. F[0] = a /\ F[1] = b /\ F[2] = c
  OBVIOUS
<1>2. Len(<< x, y >>) = 2 /\ << x, y >>[1] = x /\ << x, y >>[2] = y
  OBVIOUS
<1> HIDE DEF F
<1>3. \A i \in 1..2 : i = 1 \/ i = 2
  OBVIOUS
<1>4. ReadsBy(F, << x, y >>, a, c)
  BY <1>1, <1>2, <1>3 DEF ReadsBy
<1> QED
  BY <1>4 DEF Reads

\* A character as it stands in the string.
Escape(char) == IF char \in {Backslash, Quote} THEN << Backslash, char >> ELSE << char >>

\* Where in a value a reader is after a character of it.
Inside(in) == IF in = InQuotes THEN InQuotes ELSE InPlain

\* A character that is escaped is read as it was.
LEMMA CharEscaped ==
    ASSUME NEW pairs, NEW in, in = AtStart \/ in = InPlain \/ in = InQuotes, NEW key, NEW value, NEW char,
           in = InQuotes \/ char # Blank,
           NEW a, a = Reader(pairs, in, key, value, Usual),
           NEW b, b = Reader(pairs, Inside(in), key, More(value, char), Usual)
    PROVE  Reads(Escape(char), a, b)
<1>1. CASE char \in {Backslash, Quote}
  <2> PICK m : m = Reader(pairs, Inside(in), key, value, Escaped)
    OBVIOUS
  <2>1. m = ReadChar(a, Backslash)
    <3>1. CASE in = AtStart
      BY <3>1, StartRead, Marks DEF Inside
    <3>2. CASE in # AtStart
      BY <3>2, ValueRead DEF Inside
    <3> QED
      BY <3>1, <3>2
  <2>2. b = ReadChar(m, char)
    BY EscapedCharRead DEF Inside
  <2> QED
    BY <1>1, <2>1, <2>2, ReadsTwo DEF Escape
<1>2. CASE char \notin {Backslash, Quote}
  <2>1. b = ReadChar(a, char)
    <3>1. CASE in = AtStart
      BY <1>2, <3>1, StartRead, Marks DEF Inside
    <3>2. CASE in # AtStart
      BY <1>2, <3>2, ValueRead, Marks DEF Inside
    <3> QED
      BY <3>1, <3>2
  <2> QED
    BY <1>2, <2>1, ReadsChar DEF Escape
<1> QED
  BY <1>1, <1>2

\* All characters of a text as they stand in the string.
EscapeAll(word) == FlattenSeq([i \in DOMAIN word |-> Escape(word[i])])

\* A prefix is the one before and one character more.
LEMMA OneMore ==
    ASSUME NEW C, NEW word \in Seq(C), NEW n \in 1..Len(word)
    PROVE  /\ n = 1 => SubSeq(word, 1, n) = More(<< >>, word[n])
           /\ n # 1 => SubSeq(word, 1, n) = More(SubSeq(word, 1, n - 1), word[n])
<1>1. n = 1 => SubSeq(word, 1, n) = More(<< >>, word[n])
  <2>1. ASSUME n = 1
        PROVE  SubSeq(word, 1, n) = << word[n] >>
    <3> PICK one : one = SubSeq(word, 1, n)
      OBVIOUS
    <3>1. 1 \in Int /\ n \in Int
      OBVIOUS
    <3>2. one \in Seq(C) /\ Len(one) = 1 /\ one[1] = word[1]
      BY <2>1
    <3> PICK x \in C : x = one[1]
      BY <3>2
    <3>4. << x >> \in Seq(C) /\ Len(<< x >>) = 1 /\ << x >>[1] = x
      OBVIOUS
    <3>5. \A i \in 1..1 : i = 1
      OBVIOUS
    <3>3. one = << x >>
      <4>1. Len(one) = Len(<< x >>) /\ \A i \in 1..Len(one) : one[i] = << x >>[i]
        BY <3>2, <3>4, <3>5
      <4> QED
        BY <3>2, <3>4, <4>1, SeqEqual
    <3> QED
      BY <2>1, <3>2, <3>3
  <2>2. \A x : Append(<< >>, x) = << x >>
    OBVIOUS
  <2> QED
    BY <2>1, <2>2 DEF More
<1>2. n # 1 => SubSeq(word, 1, n) = More(SubSeq(word, 1, n - 1), word[n])
  BY DEF More
<1> QED
  BY <1>1, <1>2

\* A text that is escaped is read as it was.
LEMMA TextEscaped ==
    ASSUME NEW C, NEW word \in Seq(C), word # << >>,
           NEW pairs, NEW in, in = AtStart \/ in = InQuotes, NEW key,
           in = InQuotes \/ \A i \in DOMAIN word : word[i] # Blank,
           NEW a, a = Reader(pairs, in, key, << >>, Usual),
           NEW b, b = Reader(pairs, Inside(in), key, word, Usual)
    PROVE  Reads(EscapeAll(word), a, b) /\ EscapeAll(word) \in Seq(C \cup {Backslash})
<1> PICK N \in Nat \ {0} : N = Len(word) /\ DOMAIN word = 1..N
  OBVIOUS
<1> PICK D : D = C \cup {Backslash}
  OBVIOUS
<1> DEFINE seqs == [i \in DOMAIN word |-> Escape(word[i])]
<1>1. \A i \in 1..N : seqs[i] = Escape(word[i]) /\ seqs[i] \in Seq(D)
  <2>1. \A char \in C : Escape(char) \in Seq(D)
    <3>1. \A char \in C : << char >> \in Seq(D) /\ << Backslash, char >> \in Seq(D)
      OBVIOUS
    <3> QED
      BY <3>1 DEF Escape
  <2>2. \A i \in 1..N : word[i] \in C
    OBVIOUS
  <2> QED
    BY <2>1, <2>2
<1>2. Len(seqs) = N
  BY <1>1
<1>3. EscapeAll(word) = FlattenSeq(seqs)
  BY DEF EscapeAll
<1> HIDE DEF seqs
<1>4. PICK F : /\ FlattenSeq(seqs) = F[N]
               /\ F[1] = seqs[1]
               /\ \A i \in 2..N : F[i] = F[i - 1] \o seqs[i]
  <2>1. Len(seqs) \in Nat \ {0}
    BY <1>2
  <2>2. \E F : /\ FlattenSeq(seqs) = F[Len(seqs)]
               /\ F[1] = seqs[1]
               /\ \A i \in 2..Len(seqs) : F[i] = F[i - 1] \o seqs[i]
    BY <2>1, FlattenSteps
  <2> QED
    BY <1>2, <2>2
<1> DEFINE ReadTo(n) == Reader(pairs, Inside(in), key, SubSeq(word, 1, n), Usual)
           Good(n) == F[n] \in Seq(D) /\ Reads(F[n], a, ReadTo(n))
           Wrong == {n \in 0..N : n # 0 /\ ~Good(n)}
<1>5. ASSUME NEW n \in 1..N, n - 1 \notin Wrong
      PROVE  n \notin Wrong
  <2>1. CASE n = 1
    <3>1. F[n] = Escape(word[n]) /\ F[n] \in Seq(D)
      BY <1>1, <1>4, <2>1
    <3>2. SubSeq(word, 1, n) = More(<< >>, word[n])
      BY <2>1, OneMore
    <3>3. Reads(Escape(word[n]), a, ReadTo(n))
      BY <3>2, CharEscaped
    <3> QED
      BY <3>1, <3>3
  <2>2. CASE n # 1
    <3>1. n \in 2..N /\ n - 1 \in 0..N /\ n - 1 # 0
      BY <2>2
    <3>2. F[n - 1] \in Seq(D) /\ Reads(F[n - 1], a, ReadTo(n - 1))
      BY <1>5, <3>1
    <3>3. F[n] = F[n - 1] \o Escape(word[n]) /\ Escape(word[n]) \in Seq(D)
      BY <1>1, <1>4, <3>1
    <3>4. SubSeq(word, 1, n) = More(SubSeq(word, 1, n - 1), word[n])
      BY <2>2, OneMore
    <3>5. Inside(in) = InPlain \/ Inside(in) = InQuotes
      BY DEF Inside
    <3>6. Inside(in) = InQuotes \/ word[n] # Blank
      BY DEF Inside
    <3>7. Inside(Inside(in)) = Inside(in)
      BY DEF Inside
    <3>8. Reads(Escape(word[n]), ReadTo(n - 1), ReadTo(n))
      BY <3>4, <3>5, <3>6, <3>7, CharEscaped
    <3> PICK first, last, before, after :
              first = F[n - 1] /\ last = Escape(word[n]) /\ before = ReadTo(n - 1) /\ after = ReadTo(n)
      OBVIOUS
    <3> HIDE DEF ReadTo
    <3>9. first \in Seq(D) /\ last \in Seq(D) /\ Reads(first, a, before) /\ Reads(last, before, after)
      BY <3>2, <3>3, <3>8
    <3>10. Reads(first \o last, a, after) /\ first \o last \in Seq(D)
      BY <3>9, ReadsConcat
    <3> QED
      BY <3>3, <3>10
  <2> QED
    BY <2>1, <2>2
<1>6. Wrong = {}
  <2>1. Wrong \in SUBSET (0..N) /\ 0 \notin Wrong
    OBVIOUS
  <2> HIDE DEF Wrong
  <2> QED
    BY <1>5, <2>1, FirstFailure
<1>7. Good(N)
  <2>1. N \in 0..N /\ N # 0
    OBVIOUS
  <2> HIDE DEF Good
  <2> QED
    BY <1>6, <2>1
<1>8. SubSeq(word, 1, N) = word
  OBVIOUS
<1> QED
  BY <1>3, <1>4, <1>7, <1>8

\* A reader that has read these pairs and is ready for the next.
Ready(pairs) == Reader(pairs, InKey, NoKey, << >>, Usual)

\* A value has been read to its end, or up to what would end it.
HasRead(b, pairs, key, value) ==
    b = Ready(More(pairs, <<key, value>>)) \/ b = Reader(pairs, InPlain, key, value, Usual)

\* How a value is quoted, in the terms above.
LEMMA QuotedValue ==
    ASSUME NEW value
    PROVE  QuoteConninfoValue(value) =
              IF value = << >> \/ Contains(value, Blank)
              THEN << Quote >> \o EscapeAll(value) \o << Quote >> ELSE EscapeAll(value)
<1>1. EscapeAll(value) =
         FlattenSeq([i \in DOMAIN value |->
             IF value[i] \in {"\\", "'"} THEN <<"\\", value[i]>> ELSE <<value[i]>>])
  BY Zenon DEF EscapeAll, Escape, Backslash, Quote
<1> QED
  BY <1>1, Zenon DEF QuoteConninfoValue, Blank, Quote

\* A value that is quoted is read as it was.
LEMMA ValueQuoted ==
    ASSUME NEW C, NEW value \in Seq(C), NEW D, D = C \cup {Backslash, Quote},
           NEW pairs, NEW key, NEW a, a = Reader(pairs, AtStart, key, << >>, Usual)
    PROVE  /\ QuoteConninfoValue(value) \in Seq(D)
           /\ \E b : Reads(QuoteConninfoValue(value), a, b) /\ HasRead(b, pairs, key, value)
<1> PICK escaped : escaped = EscapeAll(value)
  OBVIOUS
<1>0. ASSUME NEW s, s \in Seq(C \cup {Backslash})
      PROVE  s \in Seq(D)
  BY <1>0
<1>1. CASE value = << >> \/ Contains(value, Blank)
  <2> PICK opened, read, closed :
            /\ opened = Reader(pairs, InQuotes, key, << >>, Usual)
            /\ read = Reader(pairs, InQuotes, key, value, Usual)
            /\ closed = Ready(More(pairs, <<key, value>>))
    OBVIOUS
  <2>1. Reads(<< Quote >>, a, opened)
    BY StartRead, ReadsChar
  <2>2. Reads(escaped, opened, read) /\ escaped \in Seq(D)
    <3>1. CASE value = << >>
      <4>1. escaped = << >>
        <5>1. [i \in DOMAIN value |-> Escape(value[i])] = << >>
          BY <3>1
        <5>2. FlattenSeq(<< >>) = << >>
          BY DEF FlattenSeq
        <5> QED
          BY <5>1, <5>2 DEF EscapeAll
      <4>2. opened = read
        BY <3>1
      <4>3. Reads(<< >>, opened, opened)
        BY ReadsNothing
      <4>4. << >> \in Seq(D)
        OBVIOUS
      <4> QED
        BY <4>1, <4>2, <4>3, <4>4
    <3>2. CASE value # << >>
      <4>1. Reads(escaped, opened, read) /\ escaped \in Seq(C \cup {Backslash})
        BY <3>2, TextEscaped DEF Inside
      <4> QED
        BY <1>0, <4>1
    <3> QED
      BY <3>1, <3>2
  <2>3. Reads(<< Quote >>, read, closed)
    <3>1. ReadChar(read, Quote) = PutPair(read)
      BY ValueRead
    <3>2. PutPair(read) = closed
      BY PairPut DEF Ready
    <3> QED
      BY <3>1, <3>2, ReadsChar
  <2>4. << Quote >> \in Seq(D)
    OBVIOUS
  <2>5. Reads(<< Quote >> \o escaped, a, read) /\ << Quote >> \o escaped \in Seq(D)
    BY <2>1, <2>2, <2>4, ReadsConcat
  <2> PICK front : front = << Quote >> \o escaped
    OBVIOUS
  <2>6. Reads(front \o << Quote >>, a, closed) /\ front \o << Quote >> \in Seq(D)
    BY <2>3, <2>4, <2>5, ReadsConcat
  <2>7. QuoteConninfoValue(value) = front \o << Quote >>
    BY <1>1, QuotedValue
  <2> QED
    BY <2>6, <2>7 DEF HasRead
<1>2. CASE ~(value = << >> \/ Contains(value, Blank))
  <2> PICK read : read = Reader(pairs, InPlain, key, value, Usual)
    OBVIOUS
  <2>1. \A i \in DOMAIN value : value[i] # Blank
    BY <1>2 DEF Contains
  <2>2. Inside(AtStart) = InPlain
    BY Marks DEF Inside
  <2>3. Reads(escaped, a, read) /\ escaped \in Seq(C \cup {Backslash})
    BY <1>2, <2>1, <2>2, TextEscaped
  <2>4. QuoteConninfoValue(value) = escaped
    BY <1>2, QuotedValue
  <2> QED
    BY <1>0, <2>3, <2>4 DEF HasRead
<1> QED
  BY <1>1, <1>2

\* Where a part begins, after what separates it from the one before.
Begins(a, front, pairs) ==
    \/ front = << >> /\ a = Ready(pairs)
    \/ /\ front = << Blank >>
       /\ \E before, k, v : HasRead(a, before, k, v) /\ pairs = More(before, <<k, v>>)

\* The part of a string for a key, and the characters in it.
PartOf(front, key, value) == front \o << key, Equals >> \o QuoteConninfoValue(value)

CharsOf(C, key) == C \cup {Backslash, Quote, Blank, Equals, key}

\* The part of a string for a key, and where the pair before may end.
LEMMA PartRead ==
    ASSUME NEW C, NEW value \in Seq(C), NEW key, key # Blank, key # Equals,
           NEW pairs, NEW a, NEW front, Begins(a, front, pairs),
           NEW part, part = PartOf(front, key, value)
    PROVE  part \in Seq(CharsOf(C, key)) /\ \E b : Reads(part, a, b) /\ HasRead(b, pairs, key, value)
<1> PICK D : D = C \cup {Backslash, Quote, Blank, Equals, key}
  OBVIOUS
<1>0. D = CharsOf(C, key)
  BY DEF CharsOf
<1> PICK ready, keyed, started :
          /\ ready = Ready(pairs)
          /\ keyed = Reader(pairs, InKey, key, << >>, Usual)
          /\ started = Reader(pairs, AtStart, key, << >>, Usual)
  OBVIOUS
<1>1. Reads(front, a, ready) /\ front \in Seq(D)
  <2>1. CASE front = << >> /\ a = Ready(pairs)
    BY <2>1, ReadsNothing
  <2>2. CASE /\ front = << Blank >>
             /\ \E before, k, v : HasRead(a, before, k, v) /\ pairs = More(before, <<k, v>>)
    <3> PICK before, k, v : HasRead(a, before, k, v) /\ pairs = More(before, <<k, v>>)
      BY <2>2
    <3>1. ReadChar(a, Blank) = ready
      <4>1. CASE a = Ready(More(before, <<k, v>>))
        <5>1. a = Reader(pairs, InKey, NoKey, << >>, Usual)
          BY <4>1 DEF Ready
        <5>2. ReadChar(a, Blank) = a
          BY <5>1, KeyRead
        <5> QED
          BY <4>1, <5>2
      <4>2. CASE a = Reader(before, InPlain, k, v, Usual)
        <5>1. ReadChar(a, Blank) = PutPair(a)
          BY <4>2, ValueRead, Marks
        <5>2. PutPair(a) = ready
          BY <4>2, PairPut DEF Ready
        <5> QED
          BY <5>1, <5>2
      <4> QED
        BY <4>1, <4>2 DEF HasRead
    <3>2. << Blank >> \in Seq(D)
      OBVIOUS
    <3> QED
      BY <2>2, <3>1, <3>2, ReadsChar
  <2> QED
    BY <2>1, <2>2 DEF Begins
<1>2. Reads(<< key, Equals >>, ready, started) /\ << key, Equals >> \in Seq(D)
  <2>1. ready = Reader(pairs, InKey, NoKey, << >>, Usual)
    BY DEF Ready
  <2>2. ReadChar(ready, key) = keyed
    BY <2>1, KeyRead
  <2>3. ReadChar(keyed, Equals) = started
    BY KeyRead
  <2>4. << key, Equals >> \in Seq(D)
    OBVIOUS
  <2> QED
    BY <2>2, <2>3, <2>4, ReadsTwo
<1> PICK quoted, head : quoted = QuoteConninfoValue(value) /\ head = front \o << key, Equals >>
  OBVIOUS
<1> PICK E : E = C \cup {Backslash, Quote}
  OBVIOUS
<1>3. PICK b : Reads(quoted, started, b) /\ HasRead(b, pairs, key, value)
  BY ValueQuoted
<1>4. quoted \in Seq(D)
  <2>1. quoted \in Seq(E)
    BY ValueQuoted
  <2> QED
    BY <2>1
<1>5. Reads(head, a, started) /\ head \in Seq(D)
  BY <1>1, <1>2, ReadsConcat
<1>6. Reads(head \o quoted, a, b) /\ head \o quoted \in Seq(D)
  BY <1>3, <1>4, <1>5, ReadsConcat
<1>7. part = head \o quoted
  BY DEF PartOf
<1> QED
  BY <1>0, <1>3, <1>6, <1>7

\* A character that can stand for a key.
IsKey(key) == key # Blank /\ key # Equals

\* The five keys of the connection string are settings, and no marks.
LEMMA KeysOfConnection ==
    /\ Len(ConnectionKeys) = 5 /\ DOMAIN ConnectionKeys = 1..5
    /\ \A i \in 1..5 : IsKey(ConnectionKeys[i])
    /\ \A i \in 1..5 : ConnectionKeys[i] \in Names
<1>1. Len(ConnectionKeys) = 5 /\ DOMAIN ConnectionKeys = 1..5
  BY DEF ConnectionKeys
<1>2. IsKey("db_host") /\ IsKey("db_port") /\ IsKey("db_name") /\ IsKey("db_user") /\ IsKey("db_password")
  BY DEF IsKey, Blank, Equals
<1>3. {"db_host", "db_port", "db_name", "db_user", "db_password"} \subseteq Names
  BY Zenon DEF Names, Settings
<1>4. \A i \in 1..5 : i = 1 \/ i = 2 \/ i = 3 \/ i = 4 \/ i = 5
  OBVIOUS
<1>5. /\ ConnectionKeys[1] = "db_host" /\ ConnectionKeys[2] = "db_port" /\ ConnectionKeys[3] = "db_name"
      /\ ConnectionKeys[4] = "db_user" /\ ConnectionKeys[5] = "db_password"
  BY DEF ConnectionKeys
<1> QED
  BY <1>1, <1>2, <1>3, <1>4, <1>5

\* The database is asked for with the five texts as they are.
LEMMA ConnectionReadBack ==
    ASSUME NEW C, \A i \in DOMAIN ConnectionKeys : Spelled(config[ConnectionKeys[i]]) \in Seq(C)
    PROVE  ReadConninfo(DbConnectionString) =
              [i \in DOMAIN ConnectionKeys |-> <<ConnectionKeys[i], Spelled(config[ConnectionKeys[i]])>>]
<1> PICK keys : keys = ConnectionKeys
  OBVIOUS
<1> PICK N \in Nat \ {0} : N = 5
  OBVIOUS
<1> DEFINE value(i) == Spelled(config[keys[i]])
           front(i) == IF i = 1 THEN << >> ELSE << Blank >>
           part(i) == front(i) \o << keys[i], Equals >> \o QuoteConninfoValue(value(i))
           seqs == [i \in 1..N |-> part(i)]
           pair(i) == << keys[i], value(i) >>
           P(n) == [i \in 1..n |-> pair(i)]
           D == C \cup {Backslash, Quote, Blank, Equals} \cup {keys[i] : i \in 1..N}
<1>1. DOMAIN keys = 1..N /\ \A i \in 1..N : value(i) \in Seq(C) /\ keys[i] # Blank /\ keys[i] # Equals
  BY KeysOfConnection DEF IsKey
<1>2. DbConnectionString = FlattenSeq(seqs)
  <2>1. DbConnectionString = FlattenSeq([i \in DOMAIN keys |->
          (IF i = 1 THEN << >> ELSE <<" ">>) \o << keys[i], "=" >> \o QuoteConninfoValue(Spelled(config[keys[i]]))])
    BY Zenon DEF DbConnectionString
  <2>2. DbConnectionString = FlattenSeq([i \in DOMAIN keys |-> part(i)])
    BY <2>1, Zenon DEF Blank, Equals
  <2> QED
    BY <1>1, <2>2, Zenon
<1>3. \A i \in 1..N : seqs[i] = part(i)
  OBVIOUS
<1>4. Len(seqs) = N
  OBVIOUS
<1> HIDE DEF seqs
<1>5. PICK F : /\ FlattenSeq(seqs) = F[N]
               /\ F[1] = seqs[1]
               /\ \A i \in 2..N : F[i] = F[i - 1] \o seqs[i]
  <2>1. Len(seqs) \in Nat \ {0}
    BY <1>4
  <2>2. \E F : /\ FlattenSeq(seqs) = F[Len(seqs)]
               /\ F[1] = seqs[1]
               /\ \A i \in 2..Len(seqs) : F[i] = F[i - 1] \o seqs[i]
    BY <2>1, FlattenSteps
  <2> QED
    BY <1>4, <2>2
<1>6. ASSUME NEW n \in 1..N
      PROVE  More(P(n - 1), pair(n)) = P(n)
  <2> PICK U : U = {pair(i) : i \in 1..N}
    OBVIOUS
  <2>1. \A i \in 1..N : pair(i) \in U
    OBVIOUS
  <2> HIDE DEF pair
  <2>2. n - 1 \in Nat /\ \A i \in 1..n - 1 : i \in 1..N
    OBVIOUS
  <2>3. P(n - 1) \in Seq(U) /\ Len(P(n - 1)) = n - 1
    BY <2>1, <2>2
  <2>4. P(n) \in Seq(U) /\ Len(P(n)) = n
    BY <2>1
  <2> PICK before, after : before = P(n - 1) /\ after = P(n)
    OBVIOUS
  <2>5. /\ \A i \in 1..n - 1 : before[i] = pair(i) /\ after[i] = pair(i)
        /\ after[n] = pair(n)
    OBVIOUS
  <2> HIDE DEF P
  <2> PICK more : more = Append(before, pair(n))
    OBVIOUS
  <2>6. more \in Seq(U) /\ Len(more) = n /\ more[n] = pair(n) /\ \A i \in 1..n - 1 : more[i] = before[i]
    BY <2>1, <2>3
  <2>7. \A i \in 1..n : i = n \/ i \in 1..n - 1
    OBVIOUS
  <2>8. more = after
    BY <2>4, <2>5, <2>6, <2>7, SeqEqual
  <2> QED
    BY <2>8 DEF More
<1> DEFINE ReadTo(n, b) == HasRead(b, P(n - 1), keys[n], value(n))
           Good(n) == F[n] \in Seq(D) /\ \E b : Reads(F[n], NothingRead, b) /\ ReadTo(n, b)
           Wrong == {n \in 0..N : n # 0 /\ ~Good(n)}
<1>7. ASSUME NEW n \in 1..N, NEW a, Begins(a, front(n), P(n - 1))
      PROVE  part(n) \in Seq(D) /\ \E b : Reads(part(n), a, b) /\ ReadTo(n, b)
  <2> PICK v, key, start, pairs, quoted : 
        /\ v = value(n) /\ key = keys[n] /\ start = front(n) /\ pairs = P(n - 1)
        /\ quoted = PartOf(start, key, v)
    OBVIOUS
  <2> PICK E : E = CharsOf(C, key)
    OBVIOUS
  <2>1. v \in Seq(C) /\ key # Blank /\ key # Equals /\ part(n) = quoted
    BY <1>1 DEF PartOf
  <2>2. E \subseteq D
    BY DEF CharsOf
  <2>3. Begins(a, start, pairs)
    BY <1>7
  <2> HIDE DEF front, value, part, P, D
  <2>4. quoted \in Seq(E) /\ \E b : Reads(quoted, a, b) /\ HasRead(b, pairs, key, v)
    BY <2>1, <2>3, PartRead
  <2>5. quoted \in Seq(D)
    BY <2>2, <2>4
  <2> QED
    BY <2>1, <2>4, <2>5
<1>8. Ready(P(0)) = NothingRead
  <2>1. P(0) = << >>
    OBVIOUS
  <2>2. NothingRead = Reader(<< >>, "key", "", << >>, "value")
    BY DEF NothingRead, Reader
  <2>3. NothingRead = Reader(<< >>, InKey, NoKey, << >>, Usual)
    BY <2>2, Zenon DEF InKey, NoKey, Usual
  <2> QED
    BY <2>1, <2>3 DEF Ready
<1>9. ASSUME NEW n \in 1..N, n - 1 \in 0..N, n - 1 \notin Wrong
      PROVE  n \notin Wrong
  <2> HIDE DEF P, value, D
  <2>1. CASE n = 1
    <3>1. front(n) = << >> /\ n - 1 = 0
      BY <2>1
    <3>3. Begins(NothingRead, front(n), P(n - 1))
      BY <1>8, <3>1 DEF Begins
    <3> HIDE DEF part, front, ReadTo
    <3>4. F[n] = part(n)
      BY <1>3, <1>5, <2>1
    <3>2. part(n) \in Seq(D) /\ \E b : Reads(part(n), NothingRead, b) /\ ReadTo(n, b)
      BY <1>7, <3>3
    <3> QED
      BY <3>2, <3>4
  <2>2. CASE n # 1
    <3>1. n \in 2..N /\ n - 1 # 0 /\ n - 1 \in 1..N /\ front(n) = << Blank >>
      BY <2>2
    <3>2. F[n] = F[n - 1] \o part(n)
      BY <1>3, <1>5, <3>1
    <3>3. PICK a : F[n - 1] \in Seq(D) /\ Reads(F[n - 1], NothingRead, a) /\ ReadTo(n - 1, a)
      BY <1>9, <3>1
    <3>4. P(n - 1) = More(P((n - 1) - 1), << keys[n - 1], value(n - 1) >>)
      BY <1>6, <3>1
    <3>5. \E before, k, v : HasRead(a, before, k, v) /\ P(n - 1) = More(before, <<k, v>>)
      BY <3>3, <3>4
    <3>8. Begins(a, front(n), P(n - 1))
      BY <3>1, <3>5 DEF Begins
    <3> HIDE DEF part, front, ReadTo
    <3>6. PICK b : part(n) \in Seq(D) /\ Reads(part(n), a, b) /\ ReadTo(n, b)
      BY <1>7, <3>8
    <3> PICK first, last : first = F[n - 1] /\ last = part(n)
      OBVIOUS
    <3>7. Reads(first \o last, NothingRead, b) /\ first \o last \in Seq(D)
      BY <3>3, <3>6, ReadsConcat
    <3> QED
      BY <3>2, <3>6, <3>7
  <2> QED
    BY <2>1, <2>2
<1>10. Wrong = {}
  <2>1. Wrong \in SUBSET (0..N) /\ 0 \notin Wrong
    OBVIOUS
  <2> HIDE DEF Wrong
  <2> QED
    BY <1>9, <2>1, FirstFailure
<1>11. Good(N)
  <2>1. N \in 0..N /\ N # 0
    OBVIOUS
  <2> HIDE DEF Good
  <2> QED
    BY <1>10, <2>1
<1> PICK string : string = DbConnectionString
  OBVIOUS
<1>12. PICK b : Reads(string, NothingRead, b) /\ ReadTo(N, b)
  BY <1>2, <1>5, <1>11
<1>13. string \in Seq(D)
  BY <1>2, <1>5, <1>11
<1>14. PICK c : /\ Reads(string, NothingRead, c)
                /\ ReadConninfo(string) = IF c.in = InPlain THEN PutPair(c).pairs ELSE c.pairs
  <2> HIDE DEF D
  <2> QED
    BY <1>13, ConninfoReads
<1>15. b = c
  <2>1. Len(string) \in Nat
    <3> HIDE DEF D
    <3> QED
      BY <1>13
  <2> HIDE DEF ReadTo
  <2> QED
    BY <1>12, <1>14, <2>1, ReadsOneWay
<1>16. ReadConninfo(string) = P(N)
  <2>0. N \in 1..N /\ More(P(N - 1), << keys[N], value(N) >>) = P(N)
    <3>1. N \in 1..N
      OBVIOUS
    <3> HIDE DEF P, value
    <3> QED
      BY <1>6, <3>1
  <2> PICK before, all, key, v : before = P(N - 1) /\ all = P(N) /\ key = keys[N] /\ v = value(N)
    OBVIOUS
  <2>1. all = More(before, << key, v >>) /\ HasRead(b, before, key, v)
    BY <1>12, <2>0
  <2> HIDE DEF P, value
  <2>2. CASE b = Ready(all)
    <3>1. b = Reader(all, InKey, NoKey, << >>, Usual)
      BY <2>2 DEF Ready
    <3>2. b.in = InKey /\ b.pairs = all
      BY <3>1, ReaderFields
    <3> QED
      BY <1>14, <1>15, <3>2, Marks
  <2>3. CASE b = Reader(before, InPlain, key, v, Usual)
    <3>1. b.in = InPlain
      BY <2>3, ReaderFields
    <3>2. PutPair(b) = Reader(all, InKey, NoKey, << >>, Usual)
      BY <2>1, <2>3, PairPut
    <3>3. PutPair(b).pairs = all
      BY <3>2, ReaderFields
    <3> QED
      BY <1>14, <1>15, <3>1, <3>3
  <2> QED
    BY <2>1, <2>2, <2>3 DEF HasRead
<1> QED
  BY <1>1, <1>16

\* What the settings of the database say is a text.
LEMMA ConnectionKinds ==
    \A i \in 1..5 : IsOfKind(Settings[ConnectionKeys[i]], "text") /\ ConnectionKeys[i] \notin DOMAIN ArgumentOf
<1>1. IsOfKind(Settings["db_host"], "text")
  <2>1. Settings["db_host"] = Setting("text", "db", <<"host">>, <<"BO_DB_HOST">>, "localhost")
    BY Zenon DEF Settings
  <2> QED
    BY <2>1, KindOfSetting, Zenon
<1>2. IsOfKind(Settings["db_port"], "text")
  <2>1. Settings["db_port"] = Setting("text", "db", <<"port">>, <<"BO_DB_PORT">>, "5432")
    BY Zenon DEF Settings
  <2> QED
    BY <2>1, KindOfSetting, Zenon
<1>3. IsOfKind(Settings["db_name"], "text")
  <2>1. Settings["db_name"] = Setting("text", "db", <<"dbname">>, <<"BO_DB_NAME">>, "blitzortung")
    BY Zenon DEF Settings
  <2> QED
    BY <2>1, KindOfSetting, Zenon
<1>4. IsOfKind(Settings["db_user"], "text")
  <2>1. Settings["db_user"] = Setting("text", "db", <<"username">>, <<"BO_DB_USER">>, "blitzortung")
    BY Zenon DEF Settings
  <2> QED
    BY <2>1, KindOfSetting, Zenon
<1>5. IsOfKind(Settings["db_password"], "text")
  <2>1. Settings["db_password"] = Setting("text", "db", <<"password">>, <<"BO_DB_PASSWORD">>, "")
    BY Zenon DEF Settings
  <2> QED
    BY <2>1, KindOfSetting, Zenon
<1>6. /\ ConnectionKeys[1] = "db_host" /\ ConnectionKeys[2] = "db_port" /\ ConnectionKeys[3] = "db_name"
      /\ ConnectionKeys[4] = "db_user" /\ ConnectionKeys[5] = "db_password"
  BY DEF ConnectionKeys
<1>7. DOMAIN ArgumentOf = {"port", "protocol", "service_geoip_db"}
  BY DEF ArgumentOf
<1>8. {"db_host", "db_port", "db_name", "db_user", "db_password"} \cap DOMAIN ArgumentOf = {}
  BY <1>7
<1>9. \A i \in 1..5 : i = 1 \/ i = 2 \/ i = 3 \/ i = 4 \/ i = 5
  OBVIOUS
<1> QED
  BY <1>1, <1>2, <1>3, <1>4, <1>5, <1>6, <1>8, <1>9

\* A text of the environment, the file or a default is of the words of the start.
LEMMA WordsOfSources ==
    ASSUME given.lines \in Seq(ToSet(given.lines)), NEW name \in Names, name \notin DOMAIN ArgumentOf,
           NEW n \in 1..4, NEW text \in SourcesOf(name)[n]
    PROVE  text.word \in Words(given)
<1> PICK s : s = Settings[name]
  OBVIOUS
<1>0. IsList(s.env) /\ IsList(s.keys)
  BY SettingFacts DEF IsSetting
<1>1. CASE n = 1
  BY <1>1 DEF SourcesOf, Argument
<1>2. CASE n = 2
  <2> DEFINE set == {k \in DOMAIN s.env : s.env[k] \in DOMAIN given.env}
  <2>1. text \in InEnv(s)
    BY <1>2 DEF SourcesOf
  <2>2. set # {} /\ text = given.env[s.env[Min(set)]]
    BY <2>1 DEF InEnv
  <2>3. set \in SUBSET Int /\ 0 \in Int /\ \A k \in set : 0 <= k
    BY <1>0 DEF IsList
  <2>4. Min(set) \in set
    <3> HIDE DEF set
    <3> QED
      BY <2>2, <2>3, MinOfBounded
  <2>5. PICK variable \in DOMAIN given.env : text = given.env[variable]
    BY <2>2, <2>4
  <2> QED
    BY <2>5 DEF Words
<1>3. CASE n = 3
  <2> DEFINE keys == {k \in DOMAIN s.keys : PairsOf(s, s.keys[k]) # {}}
  <2>1. text \in InFile(s)
    BY <1>3 DEF SourcesOf
  <2>2. keys # {} /\ text = Trim(given.lines[Max(PairsOf(s, s.keys[Min(keys)]))].text)
    BY <2>1 DEF InFile
  <2>3. keys \in SUBSET Int /\ 0 \in Int /\ \A k \in keys : 0 <= k
    BY <1>0 DEF IsList
  <2>4. Min(keys) \in keys
    <3> HIDE DEF keys
    <3> QED
      BY <2>2, <2>3, MinOfBounded
  <2>5. PICK S : S = PairsOf(s, s.keys[Min(keys)]) /\ S # {}
    BY <2>4
  <2>6. PICK N \in Nat : DOMAIN given.lines = 1..N
    OBVIOUS
  <2>7. S \in SUBSET Int /\ N \in Int /\ \A x \in S : x <= N
    <3>1. S \subseteq 1..N
      BY <2>5, <2>6 DEF PairsOf
    <3> QED
      BY <3>1
  <2>8. Max(S) \in S
    BY <2>5, <2>7, MaxOfBounded
  <2>9. PICK line : /\ line \in ToSet(given.lines) /\ line.is = "pair" /\ text = Trim(line.text)
    <3>1. PICK m \in DOMAIN given.lines : given.lines[m].is = "pair" /\ text = Trim(given.lines[m].text)
      BY <2>2, <2>5, <2>8 DEF PairsOf
    <3>2. given.lines[m] \in ToSet(given.lines)
      BY DEF ToSet
    <3> QED
      BY <3>1, <3>2
  <2>10. text.word = line.text.word
    BY <2>9 DEF Trim, Text
  <2>11. line.text.word \in {l.text.word : l \in {k \in ToSet(given.lines) : k.is = "pair"}}
    BY <2>9
  <2> QED
    BY <2>10, <2>11 DEF Words
<1>4. CASE n = 4
  <2>1. text = s.default
    BY <1>4 DEF SourcesOf
  <2> QED
    BY <2>1 DEF Words
<1> QED
  BY <1>1, <1>2, <1>3, <1>4

\* The five texts are spelled with characters.
LEMMA ConnectionSpelled ==
    ASSUME SettingsInv, stage = "running",
           NEW C, C = STRING \cup {Blank}, NEW i \in DOMAIN ConnectionKeys
    PROVE  Spelled(config[ConnectionKeys[i]]) \in Seq(C)
<1> PICK name, value : name = ConnectionKeys[i] /\ value = config[name]
  OBVIOUS
<1>1. name \in Names /\ name \notin DOMAIN ArgumentOf /\ IsOfKind(Settings[name], "text")
  BY KeysOfConnection, ConnectionKinds
<1>2. given \in Given /\ given.lines \in Seq(ToSet(given.lines)) /\ DecidedUpTo(1)
  BY GivenAssumption DEF SettingsInv, ConfigInv, GivenAssumption
<1>3. PICK n \in 1..4 : \E text \in SourcesOf(name)[n] : value = Meant(Settings[name].kind, text)
  <2>1. \A k \in 1..4 : ReadOf(name, 1)[k] = SourcesOf(name)[k]
    BY DEF ReadOf
  <2>2. DecidedBy(value, Settings[name].kind, ReadOf(name, 1))
    BY <1>1, <1>2 DEF DecidedUpTo
  <2> QED
    BY <2>1, <2>2 DEF DecidedBy
<1> PICK text \in SourcesOf(name)[n] : value = Meant(Settings[name].kind, text)
  BY <1>3
<1>4. value = text
  <2>1. TakesAsIs("text", text)
    BY KindFacts
  <2> QED
    BY <1>1, <2>1 DEF TakesAsIs, IsOfKind
<1>5. text.word \in Words(given)
  BY <1>1, <1>2, WordsOfSources
<1> PICK word : word = Spelling(text.word)
  OBVIOUS
<1>6. word \in Seq(STRING)
  BY <1>2, <1>5, SpellingAssumption DEF SpellingAssumption
<1> PICK T : T = STRING
  OBVIOUS
<1>7. word \in Seq(C) /\ << Blank >> \in Seq(C)
  BY <1>6
<1>8. << Blank >> \o word \o << Blank >> \in Seq(C)
  <2>1. << Blank >> \o word \in Seq(C)
    BY <1>7
  <2> QED
    BY <1>7, <2>1
<1>9. Spelled(value) = IF text.padded THEN << Blank >> \o word \o << Blank >> ELSE word
  BY <1>4, Zenon DEF Spelled, Blank
<1> QED
  BY <1>7, <1>8, <1>9

\* Once the service runs, every setting is what the most explicit source that is
\* usable says, the connection string is read back as the texts it was made of,
\* and the usage log is kept where the settings say, for any files, variables
\* and arguments, and any spelling of the words in them.
THEOREM EverySettingIsRespected == SettingsSpec => []SettingsRespected
<1>1. SettingsInit => SettingsInv
  BY StartDecided
<1>2. SettingsInv /\ [SettingsStep]_settingVars => SettingsInv'
  BY StepDecided
<1>3. SettingsInv => SettingsRespected
  <2> SUFFICES ASSUME SettingsInv, stage = "running"
               PROVE  SettingsRespected
    BY DEF SettingsRespected
  <2>1. DecidedUpTo(1)
    BY DEF SettingsInv, ConfigInv
  <2>2. \A name \in Names : \E text \in Decides(name) : config[name] = Meant(Settings[name].kind, text)
    BY <2>1, DecidedIsRespected
  <2>3. ReadConninfo(DbConnectionString) =
          [i \in DOMAIN ConnectionKeys |-> <<ConnectionKeys[i], Spelled(config[ConnectionKeys[i]])>>]
    <3> PICK C : C = STRING \cup {Blank}
      OBVIOUS
    <3>1. \A i \in DOMAIN ConnectionKeys : Spelled(config[ConnectionKeys[i]]) \in Seq(C)
      BY ConnectionSpelled
    <3> QED
      BY <3>1, ConnectionReadBack
  <2>4. UsageLogKept
    BY UsageRespected
  <2> QED
    BY <2>2, <2>3, <2>4, Zenon DEF SettingsRespected
<1> QED
  BY <1>1, <1>2, <1>3, PTL DEF SettingsSpec
==============================================================================
