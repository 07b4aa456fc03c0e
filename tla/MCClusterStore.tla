--------------------------- MODULE MCClusterStore ---------------------------
(* ClusterStore with two overlapping or successive runs and two requests,   *)
(* two places, windows of one minute (and one that is too long).  What a    *)
(* run inserts is any set of clusters.  How it comes by its window and its  *)
(* strikes is DbTools, and by the clusters Clustering; they share no state  *)
(* with the rest and are done in its stead from states of their own: what   *)
(* some 2600 command lines ask for, and the clusters over all distances of  *)
(* up to four strikes, with outlines that do not overlap, and over three    *)
(* storms of three strikes, with a strike apart, under all outlines of up   *)
(* to two of four places in a row.                                          *)
EXTENDS ClusterStore, Clustering, DbTools, TLC

CONSTANTS b1, b2, r1, r2, p1, p2

MCProducers == {b1, b2}
MCReaders == {r1, r2}
MCPlaces == {p1, p2}
MCAreas == {{p1}}
Symmetry == Permutations(MCProducers) \cup Permutations(MCReaders)

\* All distances between m strikes, from D.
Distances(m, D) ==
    LET pairs == {p \in (1..m) \X (1..m) : p[1] < p[2]}
    IN  {[i \in 1..m |-> [j \in 1..m |->
              IF i = j THEN 0 ELSE f[<<Min({i, j}), Max({i, j})>>]]] : f \in [pairs -> D]}

Loose == UNION {{[n |-> m, d |-> d, limit |-> 1, places |-> << >>] :
                    d \in Distances(m, 0..2)} : m \in 1..4}

\* Strike 10 is the one apart; the others are of the storms 1, 2, 3 in turn.
Storm(i) == IF i = 10 THEN 4 ELSE 1 + (i % 3)
StormDistances ==
    [i \in 1..10 |-> [j \in 1..10 |->
        IF i = j THEN 0 ELSE IF Storm(i) = Storm(j) THEN 1 ELSE 2]]
Overlaps ==
    {[n |-> 10, d |-> StormDistances, limit |-> 1, places |-> f] :
        f \in [1..3 -> {A \in SUBSET (1..4) : Cardinality(A) <= 2}]}

MCCase == Loose \cup Overlaps

\* The outline of one storm is its places, that of several what lies between.
MCOutline(w, members) ==
    IF w.places = << >> THEN members
    ELSE LET storms == {Storm(i) : i \in members}
             all == UNION {w.places[s] : s \in storms \ {4}}
         IN  IF Cardinality(storms) = 1 \/ all = {} THEN all ELSE Min(all)..Max(all)
MCOneRing(S) == S = Min(S)..Max(S)

NoCase == [n |-> 1, d |-> <<0>>, limit |-> 0, places |-> << >>]

(* The clocks: a minute of two seconds, an hour of two minutes, a day of    *)
(* three hours, three days.  In the middle of the second day the clocks of  *)
(* "spring" go an hour forward, those of "autumn" an hour back.             *)

MCKnown == {"UTC", "spring", "autumn"}
MCOffset(tz, t) ==
    IF (tz = "spring" /\ t >= 18) \/ (tz = "autumn" /\ t < 18) THEN 4 ELSE 0

MCInstants == (-12)..48

MCSpots == {<<0, 0>>, <<0, 1>>, <<1, 2>>, <<2, 1>>}
MCPolygon == [xmin |-> 0, xmax |-> 2, ymin |-> 0, ymax |-> 2, inside |-> {<<0, 1>>}]

Whole(m) == [at |-> m, seconds |-> FALSE]
ToTheSecond(s) == [at |-> s, seconds |-> TRUE]

Windowed(tool, minutes) ==
    [tool : {tool}, tz : MCKnown, now : {13, 21, 27},
     startdate : {Default, 1}, starttime : {Default, Whole(4), Whole(8)},
     enddate : {Default, 1, Bad}, endtime : {Default, Whole(6), ToTheSecond(9), Whole(10)},
     minutes : minutes, area : {Default}, useenv : {FALSE}, grid : {Default},
     xgrid : {Default}, ygrid : {Default}, map : {FALSE}, insert : {tool = "bo-cluster"}]

Placed ==
    [tool : {"bo-db"}, tz : {"UTC", "nowhere"}, now : {13},
     startdate : {Default}, starttime : {Default, Bad, Whole(2), Whole(4)},
     enddate : {Default}, endtime : {Default}, minutes : {Default},
     area : {Default, Bad, "polygon"}, useenv : BOOLEAN,
     grid : {Default, 2}, xgrid : {Default, 1, 2}, ygrid : {Default, 1}, map : BOOLEAN,
     insert : {FALSE}]

MCCommandLine == Windowed("bo-db", {Default}) \cup Windowed("bo-cluster", {Default, 0, 3}) \cup Placed

BuildDone ==
    /\ window = NoCase /\ phase = "done"
    /\ inTree = {} /\ key = << >> /\ parent = << >> /\ edges = << >>
    /\ root = << >> /\ label = << >> /\ merges = << >>
    /\ clusters = << >> /\ found = << >>

ToolDone ==
    /\ asked = << >> /\ stage = "done" /\ interval = << >> /\ within = << >>
    /\ shown = {} /\ inserted = << >> /\ status = -1

MCInit ==
    /\ Init
    /\ \/ BuildDone /\ ToolDone
       \/ (\E w \in Case : BuildInit(w)) /\ ToolDone
       \/ BuildDone /\ ToolInit

MCNext ==
    \/ BuildStep /\ UNCHANGED <<vars, toolVars>>
    \/ ToolStep /\ UNCHANGED <<vars, buildVars>>
    \/ phase = "done" /\ stage = "done" /\ Next /\ UNCHANGED <<buildVars, toolVars>>

MCSpec == MCInit /\ [][MCNext]_<<vars, buildVars, toolVars>>
=============================================================================
