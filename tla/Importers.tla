----------------------------- MODULE Importers -----------------------------
(***************************************************************************)
(* The three programs that fill the strikes table: bo-import reads the     *)
(* ten-minute logs past the newest stored strike, batch by batch and with  *)
(* retries; bo-update inserts what the table lacks of a window;            *)
(* bo-import-websocket inserts strikes as they arrive.  Each program has a *)
(* lock of its own, so two runs of one never overlap, while runs of        *)
(* different programs do.  Every INSERT is a transaction of its own.       *)
(*                                                                         *)
(* One region, and strikes told apart by their de-duplication key.         *)
(***************************************************************************)
EXTENDS Integers, Sequences, FiniteSets, SequencesExt, Lists

CONSTANTS Strike,
          Run,           (* the runs of bo-import and bo-update            *)
          Live,          (* the bo-import-websocket process                *)
          Granularity,   (* the minutes of one log file                    *)
          Batch,         (* STRIKE_BATCH_SIZE                              *)
          Chunk,         (* MAX_STRIKES_PER_INSERT, for bo-update          *)
          RetryCount,
          UpdateWindow,  (* the minutes of bo-import --update              *)
          Hours,         (* the minutes of bo-update --hours               *)
          Strikes,       (* bound of the model: the minutes with strikes   *)
          Programs,      (* bound of the model: which program each run is  *)
                         (* of, several such assignments                   *)
          MaxTime        (* bound of the model on the clock, in minutes    *)

ASSUME ImportersAssumption ==
    /\ IsFiniteSet(Strike)
    /\ Live \notin Run
    /\ {Granularity, Batch, Chunk, RetryCount} \subseteq Nat \ {0}
    /\ {UpdateWindow, Hours, Strikes, MaxTime} \subseteq Nat
    /\ Programs \subseteq [Run -> {"bo-import", "bo-update"}]

VARIABLES now,           (* the clock                                      *)
          time,          (* when each strike happens                       *)
          log,           (* the lines the data server has, oldest first    *)
          rows,          (* per strike, who has inserted a row of it       *)
          liveAt,        (* when the websocket inserted it, -1 before      *)
          program,       (* which program a run is of                      *)
          option,        (* per run of bo-import: --update or not          *)
          pc,            (* where each run is                              *)
          tries,         (* the failed attempts of a run                   *)
          mark,          (* import: latest_time; update: now at its start  *)
          slot,          (* import: the next log file                      *)
          last,          (* import: the last log file of the attempt       *)
          todo,          (* the strikes still to be inserted               *)
          seen           (* import: the lines of the files it has read     *)

world == <<now, time, log, program, option>>
table == <<rows, liveAt>>
vars == <<world, table, pc, tries, mark, slot, last, todo, seen>>

Import == {p \in Run : program[p] = "bo-import"}
Update == Run \ Import

Place == {"idle", "mark", "fetch", "keys", "insert", "done", "failed"}

\* The runs inside their program, which holds its lock until it ends.
Active == {p \in Run : pc[p] \in {"mark", "fetch", "keys", "insert"}}

TypeOK ==
    /\ now \in 0..MaxTime
    /\ time \in [Strike -> 1..Strikes]
    /\ log \in Seq(Strike)
    /\ rows \in [Strike -> Seq(Run \cup {Live})]
    /\ liveAt \in [Strike -> (-1)..MaxTime]
    /\ program \in Programs
    /\ option \in [Run -> BOOLEAN]
    /\ pc \in [Run -> Place]
    /\ tries \in [Run -> 0..RetryCount]
    /\ mark \in [Run -> Int]
    /\ slot \in [Run -> Int]
    /\ last \in [Run -> Int]
    /\ todo \in [Run -> Seq(Strike)]
    /\ seen \in [Run -> SUBSET Strike]
    /\ \A p, q \in Active : program[p] = program[q] => p = q

Init ==
    /\ now = 0
    /\ time \in [Strike -> 1..Strikes]
    /\ log = <<>>
    /\ rows = [s \in Strike |-> <<>>]
    /\ liveAt = [s \in Strike |-> -1]
    /\ program \in Programs
    /\ option \in {f \in [Run -> BOOLEAN] : \A p \in Update : ~f[p]}
    /\ pc = [p \in Run |-> "idle"]
    /\ tries = [p \in Run |-> 0]
    /\ mark = [p \in Run |-> 0]
    /\ slot = [p \in Run |-> 0]
    /\ last = [p \in Run |-> 0]
    /\ todo = [p \in Run |-> <<>>]
    /\ seen = [p \in Run |-> {}]
-----------------------------------------------------------------------------
Stored == {s \in Strike : rows[s] # <<>>}

Go(p, place) == pc' = [pc EXCEPT ![p] = place]

\* A run ends, and what it held in memory ends with it.
Exit(p, place) ==
    /\ Go(p, place)
    /\ tries' = [tries EXCEPT ![p] = 0]
    /\ mark' = [mark EXCEPT ![p] = 0]
    /\ slot' = [slot EXCEPT ![p] = 0]
    /\ last' = [last EXCEPT ![p] = 0]
    /\ todo' = [todo EXCEPT ![p] = <<>>]
    /\ seen' = [seen EXCEPT ![p] = {}]

InsertRows(S, p) == rows' = [s \in Strike |-> IF s \in S THEN Append(rows[s], p) ELSE rows[s]]

Tick ==
    /\ now < MaxTime
    /\ now' = now + 1
    /\ UNCHANGED <<time, log, program, option, table, pc, tries, mark, slot, last, todo, seen>>

\* The data server adds a strike to its logs, some time after it happened.
Publish(s) ==
    /\ time[s] <= now
    /\ s \notin ToSet(log)
    /\ log' = Append(log, s)
    /\ UNCHANGED <<now, time, program, option, table, pc, tries, mark, slot, last, todo, seen>>

\* Importer::on_message: a strike arrives over the websocket and is inserted
\* (a failed insert drops it, and the connection is made anew).
Message(s) ==
    /\ time[s] <= now
    /\ liveAt[s] = -1
    /\ InsertRows({s}, Live)
    /\ liveAt' = [liveAt EXCEPT ![s] = now]
    /\ UNCHANGED <<world, pc, tries, mark, slot, last, todo, seen>>

\* Mutant: no run ever waits for another.
NobodyElse(p) == TRUE

\* LockWithTimeout: no other run of the program holds its lock.
LockFree(p) == \A q \in Active : program[p] # program[q]

\* The lock is not free within its ten seconds, and the run exits.
GiveUp(p) ==
    /\ pc[p] = "idle"
    /\ ~LockFree(p)
    /\ Exit(p, "failed")
    /\ UNCHANGED <<world, table>>

\* A run is killed; its flock goes with it, what it inserted stays.
Crash(p) ==
    /\ p \in Active
    /\ Exit(p, "failed")
    /\ UNCHANGED <<world, table>>
-----------------------------------------------------------------------------
(* bo-import *)

StartImport(p) ==
    /\ pc[p] = "idle"
    /\ LockFree(p)
    /\ Go(p, "mark")
    /\ UNCHANGED <<world, table, tries, mark, slot, last, todo, seen>>

\* An attempt has failed, and the next one starts over with nothing held.
Again(p) ==
    /\ Go(p, "mark")
    /\ mark' = [mark EXCEPT ![p] = 0]
    /\ slot' = [slot EXCEPT ![p] = 0]
    /\ last' = [last EXCEPT ![p] = 0]
    /\ todo' = [todo EXCEPT ![p] = <<>>]
    /\ seen' = [seen EXCEPT ![p] = {}]

\* Mutant: a failed attempt is not counted.
RetryForever(p) == Again(p) /\ UNCHANGED tries

\* import_strikes: after its last attempt a run has failed.
Retry(p) ==
    IF tries[p] + 1 < RetryCount
    THEN Again(p) /\ tries' = [tries EXCEPT ![p] = @ + 1]
    ELSE Exit(p, "failed")

\* The mark of an attempt: the newest stored strike, or where the import
\* starts without one, and for --update no more than the window back.
Latest(p) ==
    LET newest == Max({0} \cup {time[s] : s \in Stored})
    IN  IF option[p] THEN Max({newest, now - UpdateWindow}) ELSE newest

\* import_strikes_for up to the list of files, from the one with the mark to
\* the one of now.
ReadMark(p) ==
    /\ pc[p] = "mark"
    /\ \/ /\ mark' = [mark EXCEPT ![p] = Latest(p)]
          /\ slot' = [slot EXCEPT ![p] = Latest(p) \div Granularity]
          /\ last' = [last EXCEPT ![p] = now \div Granularity]
          /\ todo' = [todo EXCEPT ![p] = <<>>]
          /\ seen' = [seen EXCEPT ![p] = {}]
          /\ Go(p, "fetch")
          /\ UNCHANGED tries
       \/ Retry(p)
    /\ UNCHANGED <<world, table>>

\* Mutant: a strike at the mark is taken again.
FromMark(p, s) == time[s] >= mark[p]

\* The strikes newer than the mark are wanted.
Wanted(p, s) == time[s] > mark[p]

SlotOf(s) == time[s] \div Granularity

\* The lines of the file of slot k, as far as the server has them.
Lines(k) == {s \in ToSet(log) : SlotOf(s) = k}

\* The next log file is read, found missing (or timed out) and passed over,
\* or fails the attempt; or the time budget ends the list of files.
Fetch(p) ==
    /\ pc[p] = "fetch"
    /\ slot[p] <= last[p]
    /\ Len(todo[p]) < Batch
    /\ \/ /\ todo' = [todo EXCEPT ![p] =
                        @ \o Among(log, {s \in Lines(slot[p]) : Wanted(p, s)})]
          /\ seen' = [seen EXCEPT ![p] = @ \cup Lines(slot[p])]
          /\ slot' = [slot EXCEPT ![p] = @ + 1]
          /\ UNCHANGED <<pc, tries, mark, last>>
       \/ /\ slot' \in {[slot EXCEPT ![p] = k] : k \in {slot[p] + 1, last[p] + 1}}
          /\ UNCHANGED <<pc, tries, mark, last, todo, seen>>
       \/ Retry(p)
    /\ UNCHANGED <<world, table>>

\* Mutant: the last, partial batch is forgotten.
FullBatch(p) == Len(todo[p]) >= Batch

\* A batch is full, or the rest follows the last file.
BatchReady(p) ==
    Len(todo[p]) >= Batch \/ (slot[p] > last[p] /\ todo[p] # <<>>)

\* ChunkInserter::accept: one INSERT, which may fail, or be done and its
\* answer lost.
InsertBatch(p) ==
    LET n == Min({Batch, Len(todo[p])})
        S == ToSet(SubSeq(todo[p], 1, n))
    IN  /\ pc[p] = "fetch"
        /\ BatchReady(p)
        /\ \/ /\ InsertRows(S, p)
              /\ todo' = [todo EXCEPT ![p] = SubSeq(@, n + 1, Len(@))]
              /\ UNCHANGED <<pc, tries, mark, slot, last, seen>>
           \/ /\ InsertRows(S, p) \/ UNCHANGED rows
              /\ Retry(p)
        /\ UNCHANGED <<world, liveAt>>

FinishImport(p) ==
    /\ pc[p] = "fetch"
    /\ slot[p] > last[p]
    /\ ~BatchReady(p)
    /\ Exit(p, "done")
    /\ UNCHANGED <<world, table>>

ImportStep(p) ==
    StartImport(p) \/ ReadMark(p) \/ Fetch(p) \/ InsertBatch(p) \/ FinishImport(p)
-----------------------------------------------------------------------------
(* bo-update *)

\* The run has its lock and reads the clock.
StartUpdate(p) ==
    /\ pc[p] = "idle"
    /\ LockFree(p)
    /\ mark' = [mark EXCEPT ![p] = now]
    /\ Go(p, "fetch")
    /\ UNCHANGED <<world, table, tries, slot, last, todo, seen>>

\* The last strikes are downloaded, as far as the server has them.
Download(p) ==
    /\ pc[p] = "fetch"
    /\ \/ /\ todo' = [todo EXCEPT ![p] = Among(log, {s \in Strike : time[s] >= mark[p] - Hours})]
          /\ Go(p, "keys")
          /\ UNCHANGED <<tries, mark, slot, last, seen>>
       \/ Exit(p, "failed")
    /\ UNCHANGED <<world, table>>

\* Mutant: the last minute is not left to the websocket.
WithinWindow(p, s) == mark[p] - Hours <= time[s] /\ time[s] <= mark[p]

\* A strike is inserted if it lies in the window, but for its last minute.
Due(p, s) == mark[p] - Hours <= time[s] /\ time[s] < mark[p] - 1

\* The keys of the window are selected, and what they hold is passed over.
SelectKeys(p) ==
    /\ pc[p] = "keys"
    /\ \/ /\ todo' = [todo EXCEPT ![p] = Among(@, {s \in Strike \ Stored : Due(p, s)})]
          /\ Go(p, "insert")
          /\ UNCHANGED <<tries, mark, slot, last, seen>>
       \/ Exit(p, "failed")
    /\ UNCHANGED <<world, table>>

\* insert_many, one chunk at a time.  After a failure rollback undoes nothing.
InsertChunk(p) ==
    LET n == Min({Chunk, Len(todo[p])})
        S == ToSet(SubSeq(todo[p], 1, n))
    IN  /\ pc[p] = "insert"
        /\ todo[p] # <<>>
        /\ \/ /\ InsertRows(S, p)
              /\ todo' = [todo EXCEPT ![p] = SubSeq(@, n + 1, Len(@))]
              /\ UNCHANGED <<pc, tries, mark, slot, last, seen>>
           \/ /\ InsertRows(S, p) \/ UNCHANGED rows
              /\ Exit(p, "failed")
        /\ UNCHANGED <<world, liveAt>>

FinishUpdate(p) ==
    /\ pc[p] = "insert"
    /\ todo[p] = <<>>
    /\ Exit(p, "done")
    /\ UNCHANGED <<world, table>>

UpdateStep(p) ==
    \/ StartUpdate(p) \/ Download(p) \/ SelectKeys(p)
    \/ InsertChunk(p) \/ FinishUpdate(p)

Step(p) == (p \in Import /\ ImportStep(p)) \/ (p \in Update /\ UpdateStep(p))

Next ==
    \/ Tick
    \/ \E s \in Strike : Publish(s) \/ Message(s)
    \/ \E p \in Run : Step(p) \/ GiveUp(p) \/ Crash(p)

Spec == Init /\ [][Next]_vars

\* A run goes on with what it has begun: its requests and statements end.
Fairness == \A p \in Run : WF_vars(p \in Active /\ Step(p))

FairSpec == Spec /\ Fairness
-----------------------------------------------------------------------------
(* Properties *)

\* The rows of strike s inserted by the runs of P.
RowsBy(s, P) == {i \in DOMAIN rows[s] : rows[s][i] \in P}

\* No program inserts a strike twice.  bo-import never does, with a retry after
\* a lost answer, in two runs or after a crash, though it never looks for the
\* key; nor bo-update, whichever chunk of an earlier run had failed.
InsertedOnce ==
    \A s \in Strike, P \in {Import, Update} : \A i, j \in RowsBy(s, P) : i = j

\* bo-update and the websocket both insert a strike only if the websocket is
\* more than a minute late with it: that is what the last minute is left for.
TwiceOnlyIfLate ==
    \A s \in Strike :
        RowsBy(s, Update) # {} /\ liveAt[s] # -1 => liveAt[s] > time[s] + 1

\* Run p ends well in this step.
Finishes(p) == pc[p] # "done" /\ pc'[p] = "done"

\* An import run that ends well has stored all that its files had past the
\* mark of its last attempt, the last partial batch included.
NothingLeftBehind ==
    [][\A p \in Import : Finishes(p) =>
          \A s \in seen[p] : time[s] > mark[p] => s \in Stored]_vars

\* Every run comes to its end, and with it frees its lock.
EveryRunEnds == \A p \in Run : p \in Active ~> p \notin Active

\* doc/database_setup.md: "Restart the importers afterwards; backfill recent
\* history with `bo-import --startdate <date>`".  A run that starts at 0 stores
\* what the logs have had since then.
BackfillFillsBack ==
    [][\A p \in Import : Finishes(p) /\ ~option[p] => seen[p] \subseteq Stored]_vars
=============================================================================
