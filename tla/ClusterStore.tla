---------------------------- MODULE ClusterStore ----------------------------
(***************************************************************************)
(* The stored strike clusters: runs of bo-cluster --insert build the       *)
(* clusters of a window and insert them one by one, past the newest stored *)
(* timestamp of the window's length; the cluster handlers of the service   *)
(* look up the newest stored slot of a request (the anchor) and then       *)
(* select the slots that go back from it.  Nothing holds a lock, and each  *)
(* statement is a transaction of its own.                                  *)
(*                                                                         *)
(* A cluster is told by its place; all clusters of a window have the       *)
(* window's end as timestamp.  The clock counts minutes: both sides cut    *)
(* their end to the minute.                                                *)
(***************************************************************************)
EXTENDS Integers, FiniteSets, FiniteSetsExt

CONSTANTS Place,       (* where clusters may be                            *)
          Producer,    (* runs of bo-cluster --insert                      *)
          Reader,      (* requests that reach a cluster producer           *)
          Area,        (* areas a request may cover                        *)
          Length,      (* window lengths of runs, in minutes               *)
          Asked,       (* those of requests: minute_length                 *)
          MaxLength,   (* MAX_INTERVAL_SECONDS, in minutes                 *)
          Count,       (* values of interval_count                         *)
          Back,        (* values of -minute_offset                         *)
          MaxTime      (* bound of the model on the clock                  *)

ASSUME ClusterStoreAssumption ==
    /\ IsFiniteSet(Place)
    /\ Producer \cap Reader = {}
    /\ Area \subseteq SUBSET Place
    /\ Length \cup Asked \subseteq Nat \ {0} /\ Count \subseteq Nat \ {0} /\ Back \subseteq Nat
    /\ MaxLength \in Nat /\ MaxTime \in Nat \ {0}

VARIABLES now,         (* the clock                                        *)
          rows,        (* strike_clusters                                  *)
          pc,          (* where each run and each request is               *)
          end,         (* the end of its window or interval                *)
          length,      (* its length                                       *)
          built,       (* run: the places of its clusters                  *)
          todo,        (* run: those not yet inserted                      *)
          latest,      (* run: the newest stored timestamp it read, or 0   *)
          met,         (* run: the runs that were inserting at one time    *)
                       (* with it                                          *)
          area,        (* request: the places it covers                    *)
          count,       (* request: interval_count                          *)
          back,        (* request: -minute_offset                          *)
          anchor,      (* request: the newest slot of its answer           *)
          answer,      (* request: the rows of its answer                  *)
          before       (* request: those answered before it began          *)

run == <<built, todo, latest, met>>
request == <<area, count, back, anchor, answer, before>>
vars == <<now, rows, pc, end, length, run, request>>

Row == [place : Place, at : Int, length : Length, by : Producer]

TypeOK ==
    /\ now \in 1..MaxTime
    /\ rows \subseteq Row
    /\ pc \in [Producer \cup Reader ->
                 {"idle", "inserting", "asked", "snapped", "done", "failed"}]
    /\ end \in [Producer \cup Reader -> Int]
    /\ length \in [Producer \cup Reader -> {0} \cup Length \cup Asked]
    /\ built \in [Producer -> SUBSET Place]
    /\ todo \in [Producer -> SUBSET Place]
    /\ \A p \in Producer : todo[p] \subseteq built[p]
    /\ latest \in [Producer -> 0..MaxTime]
    /\ met \in [Producer -> SUBSET Producer]
    /\ \A p, q \in Producer : p \in met[q] <=> q \in met[p]
    /\ area \in [Reader -> {{}} \cup Area]
    /\ count \in [Reader -> {0} \cup Count]
    /\ back \in [Reader -> {0} \cup Back]
    /\ anchor \in [Reader -> Int]
    /\ answer \in [Reader -> SUBSET Row]
    /\ before \in [Reader -> SUBSET Reader]
    /\ \A row \in rows : row.at >= 1 /\ row.length <= MaxLength

Init ==
    /\ now = 1
    /\ rows = {}
    /\ pc = [p \in Producer \cup Reader |-> "idle"]
    /\ end = [p \in Producer \cup Reader |-> 0]
    /\ length = [p \in Producer \cup Reader |-> 0]
    /\ built = [p \in Producer |-> {}]
    /\ todo = [p \in Producer |-> {}]
    /\ latest = [p \in Producer |-> 0]
    /\ met = [p \in Producer |-> {}]
    /\ area = [r \in Reader |-> {}]
    /\ count = [r \in Reader |-> 0]
    /\ back = [r \in Reader |-> 0]
    /\ anchor = [r \in Reader |-> 0]
    /\ answer = [r \in Reader |-> {}]
    /\ before = [r \in Reader |-> {}]
-----------------------------------------------------------------------------
Go(p, place) == pc' = [pc EXCEPT ![p] = place]

Tick ==
    /\ now < MaxTime
    /\ now' = now + 1
    /\ UNCHANGED <<rows, pc, end, length, run, request>>

\* The run's process ends with an error, and its state with it.
End(p) ==
    /\ Go(p, "failed")
    /\ end' = [end EXCEPT ![p] = 0]
    /\ length' = [length EXCEPT ![p] = 0]
    /\ built' = [built EXCEPT ![p] = {}]
    /\ todo' = [todo EXCEPT ![p] = {}]
    /\ latest' = [latest EXCEPT ![p] = 0]
    /\ UNCHANGED met

\* An insert fails.  (A request that fails leaves nothing behind: it is one that
\* takes no more steps.)
Fail(p) ==
    /\ pc[p] = "inserting"
    /\ End(p)
    /\ UNCHANGED <<now, rows, request>>
-----------------------------------------------------------------------------
(* bo-cluster *)

\* Mutant: an interval of any length is taken.
AnyLength(len) == TRUE

\* The interval fits the SMALLINT column.
Storable(len) == len <= MaxLength

Rows(S, len) == {row \in S : row.length = len}

Newest(S) == Max({0} \cup {row.at : row \in S})

Inserting == {q \in Producer : pc[q] = "inserting"}

\* resolve_cluster_interval: the window ends with the last minute start, or
\* earlier with an explicit end, and has any length.
WindowEnd == 1..now

\* collect_clusters: any set of clusters comes of the strikes of the window.
\* insert_clusters: the newest timestamp of this length is read, once.
\* (Until then a run reads nothing that runs write, so it is one step, and
\* the time it took is in the choice of the end.  A run that fails up to
\* here, or whose interval is not storable, leaves nothing behind.)
Collect(p) ==
    /\ pc[p] = "idle"
    /\ \E e \in WindowEnd, len \in Length, C \in SUBSET Place :
          /\ Storable(len)
          /\ end' = [end EXCEPT ![p] = e]
          /\ length' = [length EXCEPT ![p] = len]
          /\ built' = [built EXCEPT ![p] = C]
          /\ todo' = [todo EXCEPT ![p] = C]
          /\ latest' = [latest EXCEPT ![p] = Newest(Rows(rows, len))]
    /\ met' = [q \in Producer |-> IF q = p THEN met[p] \cup Inserting
                                  ELSE IF q \in Inserting THEN met[q] \cup {p} ELSE met[q]]
    /\ Go(p, "inserting")
    /\ UNCHANGED <<now, rows, request>>

\* Mutant: the slot of the newest timestamp is taken to be open still.
NewerOrSame(p) == end[p] >= latest[p]

\* Mutant: the newest timestamp is read again for every cluster.
NewerThanStored(p) == end[p] > Newest(Rows(rows, length[p]))

\* The window ends after everything stored, as far as the run has read.
Newer(p) == end[p] > latest[p]

\* The next cluster is inserted; the answer may be lost.
Insert(p, c) ==
    /\ pc[p] = "inserting"
    /\ c \in todo[p]
    /\ Newer(p)
    /\ rows' = rows \cup {[place |-> c, at |-> end[p], length |-> length[p], by |-> p]}
    /\ \/ /\ todo' = [todo EXCEPT ![p] = @ \ {c}]
          /\ UNCHANGED <<pc, end, length, built, latest, met>>
       \/ End(p)
    /\ UNCHANGED <<now, request>>

\* All are inserted, or passed over as not newer ("already up to date").
Finish(p) ==
    /\ pc[p] = "inserting"
    /\ todo[p] = {} \/ ~Newer(p)
    /\ Go(p, "done")
    /\ UNCHANGED <<now, rows, end, length, run, request>>
-----------------------------------------------------------------------------
(* get_global_clusters and get_local_clusters *)

\* create_cluster_time_interval: the request reads the clock.
Ask(r) ==
    /\ pc[r] = "idle"
    /\ \E A \in Area : area' = [area EXCEPT ![r] = A]
    /\ \E l \in Asked : length' = [length EXCEPT ![r] = l]
    /\ \E n \in Count : count' = [count EXCEPT ![r] = n]
    /\ \E b \in Back : back' = [back EXCEPT ![r] = b] /\ end' = [end EXCEPT ![r] = now - b]
    /\ before' = [before EXCEPT ![r] = {q \in Reader : pc[q] = "done"}]
    /\ Go(r, "asked")
    /\ UNCHANGED <<now, rows, run, anchor, answer>>

\* Mutant: the lookup of the anchor covers the whole world.
Everywhere(r) == Rows(rows, length[r])

\* The rows a request is about.
InArea(r) == {row \in Rows(rows, length[r]) : row.place \in area[r]}

\* Mutant: the oldest slot of the window is the anchor.
OldestOf(S) == Min(S)

LatestOf(S) == Max(S)

\* latest_timestamp_at_or_before: the newest slot of the requested window, if
\* there is one and the request is for now.
Snap(r) ==
    LET found == {row.at : row \in {w \in InArea(r) :
                      end[r] - length[r] * count[r] <= w.at /\ w.at <= end[r]}}
    IN  /\ pc[r] = "asked"
        /\ anchor' = [anchor EXCEPT ![r] =
                         IF back[r] = 0 /\ found # {} THEN LatestOf(found) ELSE end[r]]
        /\ Go(r, "snapped")
        /\ UNCHANGED <<now, rows, end, length, run, area, count, back, answer, before>>

\* cluster_timestamps: n slots, going back from t.
Slots(t, len, n) == {u \in (t - len * (n - 1))..t : (t - u) % len = 0}

\* StrikeClusterDb::select, for the slots from the anchor.
Select(r) ==
    /\ pc[r] = "snapped"
    /\ answer' = [answer EXCEPT ![r] =
                     {row \in {w \in Rows(rows, length[r]) : w.place \in area[r]} :
                         row.at \in Slots(anchor[r], length[r], count[r])}]
    /\ Go(r, "done")
    /\ UNCHANGED <<now, rows, end, length, run, area, count, back, anchor, before>>

Next ==
    \/ Tick
    \/ \E p \in Producer :
          \/ Collect(p) \/ Finish(p) \/ Fail(p)
          \/ \E c \in Place : Insert(p, c)
    \/ \E r \in Reader : Ask(r) \/ Snap(r) \/ Select(r)

Spec == Init /\ [][Next]_vars
-----------------------------------------------------------------------------
(* Properties *)

Own(p) == {row.place : row \in {w \in rows : w.by = p}}

\* A run that ends well has stored all clusters it built or none of them, and
\* none only if rows of other runs stood in the slot or a newer one.
AllOrNothing ==
    \A p \in Producer : pc[p] = "done" =>
        \/ Own(p) = built[p]
        \/ /\ Own(p) = {}
           /\ \E row \in Rows(rows, length[p]) : row.by # p /\ row.at >= end[p]

\* bo-cluster: re-running a window creates no duplicates.  A row is stored in a
\* slot that is not newer than all others (its own run's apart) only by runs
\* that were inserting at the same time.
OnlyOverlapGoesBack ==
    [][\A new \in rows' \ rows : \A old \in Rows(rows, new.length) :
          old.by # new.by /\ old.at >= new.at => old.by \in met[new.by]]_vars

\* README, "Anchor snapping": a request for now whose anchor is a stored slot
\* has clusters to show at the anchor, in its own area, also if runs insert
\* between the lookup and the select.
AnchorShown ==
    \A r \in Reader : pc[r] = "done" /\ back[r] = 0 /\ anchor[r] # end[r] =>
        \E row \in answer[r] : row.at = anchor[r]

\* A map that is asked for again never goes back: a later request for the same
\* clusters has no older anchor than one that was shown clusters at its own,
\* whichever older slots runs have filled in the meantime.
NeverGoesBack ==
    \A r, s \in Reader :
        /\ pc[s] = "done" /\ r \in before[s]
        /\ <<length[r], count[r], area[r]>> = <<length[s], count[s], area[s]>>
        /\ back[r] = 0 /\ back[s] = 0
        /\ \E row \in answer[r] : row.at = anchor[r]
        => anchor[s] >= anchor[r]
=============================================================================
