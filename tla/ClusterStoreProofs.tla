------------------------- MODULE ClusterStoreProofs -------------------------
(***************************************************************************)
(* Proofs about ClusterStore for every set of places, of runs, of requests *)
(* and of window lengths, and every bound on the clock.                    *)
(***************************************************************************)
EXTENDS ClusterStore, Lemmas

\* What is stored is of the past, and of a run that has begun.
RowsPast == \A row \in rows : row.at <= now /\ pc[row.by] # "idle"

\* A run inserts for a window of the past that the column can hold.
WindowsPast ==
    \A p \in Inserting :
        /\ end[p] \in 1..now
        /\ length[p] \in Length
        /\ length[p] <= MaxLength

\* A run has stored what it has taken off its list, and nothing at all if its
\* window is not newer than what it had read.
OwnStored ==
    \A p \in Inserting :
        /\ Own(p) = built[p] \ todo[p]
        /\ Own(p) # {} => Newer(p)

\* What a run has read as the newest timestamp is that of a row of another.
LatestOfOthers ==
    \A p \in Inserting :
        latest[p] # 0 =>
            \E row \in Rows(rows, length[p]) : row.by # p /\ row.at = latest[p]

\* The rows of others that a run did not see are of runs it overlaps with.
UnseenAreMet ==
    \A p \in Inserting : \A row \in Rows(rows, length[p]) :
        row.by # p /\ row.at > latest[p] => row.by \in met[p]

\* Two runs that insert have met.
InsertersMet == \A p, q \in Inserting : p # q => p \in met[q]

\* A request has read its clock in the past, and its parameters are legal.
RequestsPast ==
    \A r \in Reader : pc[r] # "idle" =>
        /\ end[r] <= now
        /\ length[r] \in Asked
        /\ count[r] \in Count

\* What was answered before a request began has read an earlier clock.
BeforeIsEarlier ==
    \A r, s \in Reader : pc[s] # "idle" /\ r \in before[s] =>
        /\ pc[r] = "done"
        /\ back[r] = 0 /\ back[s] = 0 => end[r] <= end[s]

\* The anchor of a request for now lies in the window of its lookup.
Looked(r) == pc[r] \in {"snapped", "done"}

AnchorInWindow ==
    \A r \in Reader : Looked(r) /\ back[r] = 0 =>
        end[r] - length[r] * count[r] <= anchor[r] /\ anchor[r] <= end[r]

\* An anchor that a lookup has found is there to be selected.
AnchorStored ==
    \A r \in Reader : pc[r] = "snapped" /\ back[r] = 0 /\ anchor[r] # end[r] =>
        \E row \in InArea(r) : row.at = anchor[r]

\* What a request was given is stored, and what it was about.
AnswerStored == \A r \in Reader : pc[r] = "done" => answer[r] \subseteq InArea(r)

\* NeverGoesBack holds as soon as the later request has its anchor.
SameClusters(r, s) ==
    <<length[r], count[r], area[r]>> = <<length[s], count[s], area[s]>>

NoOlderAnchor ==
    \A r, s \in Reader :
        /\ Looked(s) /\ r \in before[s]
        /\ SameClusters(r, s)
        /\ back[r] = 0 /\ back[s] = 0
        /\ \E row \in answer[r] : row.at = anchor[r]
        => anchor[s] >= anchor[r]

RunInv ==
    RowsPast /\ WindowsPast /\ OwnStored /\ LatestOfOthers /\ UnseenAreMet /\ InsertersMet

RequestInv ==
    /\ RequestsPast /\ BeforeIsEarlier /\ AnchorInWindow
    /\ AnchorStored /\ AnswerStored /\ NoOlderAnchor

IInv == TypeOK /\ RunInv /\ RequestInv /\ AllOrNothing /\ AnchorShown
-----------------------------------------------------------------------------
(* The newest timestamp and the anchor *)

\* The newest timestamp of a set of rows of the past is one of theirs, or 0.
LEMMA NewestFacts ==
    ASSUME NEW S \in SUBSET Row, NEW b \in Nat, \A row \in S : row.at <= b
    PROVE  /\ Newest(S) \in 0..b
           /\ \A row \in S : row.at <= Newest(S)
           /\ Newest(S) # 0 => \E row \in S : row.at = Newest(S)
<1> DEFINE A == {row.at : row \in S}
           T == {0} \cup A
<1>1. \A row \in S : row.at \in Int /\ row.at <= b
  BY DEF Row
<1>2. A \in SUBSET Int /\ \A x \in A : x <= b
  BY <1>1, Zenon
<1>3. T \in SUBSET Int /\ T # {} /\ \A x \in T : x <= b
  BY <1>2
<1>4. Max(T) \in T /\ \A y \in T : Max(T) >= y
  <2> HIDE DEF T
  <2> QED
    BY <1>3, MaxOfBounded
<1>5. Newest(S) = Max(T)
  BY DEF Newest
<1>6. Newest(S) \in Int /\ Newest(S) <= b /\ Newest(S) >= 0
  BY <1>3, <1>4, <1>5
<1>7. \A row \in S : row.at \in T
  OBVIOUS
<1>8. QED
  <2>1. \A row \in S : row.at <= Newest(S)
    BY <1>1, <1>4, <1>5, <1>6, <1>7
  <2>2. Newest(S) # 0 => \E row \in S : row.at = Newest(S)
    BY <1>4, <1>5
  <2>3. QED
    BY <1>6, <2>1, <2>2
-----------------------------------------------------------------------------
(* Type correctness *)

\* At the start the table is empty and nobody is under way.
LEMMA TypeInit == Init => TypeOK /\ RowsPast
BY ClusterStoreAssumption DEF ClusterStoreAssumption, Init, TypeOK, RowsPast

\* No step of a run, a request or the clock takes a variable out of its type.
LEMMA TypeStep ==
    ASSUME TypeOK, RowsPast, WindowsPast, [Next]_vars
    PROVE  TypeOK'
<1> USE ClusterStoreAssumption DEF ClusterStoreAssumption
<1>1. CASE UNCHANGED vars
  BY <1>1 DEF TypeOK, vars, run, request, Row
<1>2. CASE Tick
  BY <1>2 DEF TypeOK, Tick, run, request, Row
<1>3. ASSUME NEW p \in Producer, Collect(p)
      PROVE  TypeOK'
  <2>1. PICK e \in WindowEnd, len \in Length, C \in SUBSET Place :
            /\ end' = [end EXCEPT ![p] = e]
            /\ length' = [length EXCEPT ![p] = len]
            /\ built' = [built EXCEPT ![p] = C]
            /\ todo' = [todo EXCEPT ![p] = C]
            /\ latest' = [latest EXCEPT ![p] = Newest(Rows(rows, len))]
    BY <1>3 DEF Collect
  <2>2. Newest(Rows(rows, len)) \in 0..now
    <3>1. now \in Nat /\ Rows(rows, len) \in SUBSET Row
      BY DEF TypeOK, Rows
    <3>2. \A row \in Rows(rows, len) : row.at <= now
      BY DEF RowsPast, Rows
    <3>3. QED
      BY <3>1, <3>2, NewestFacts
  <2>3. /\ pc' \in [Producer \cup Reader ->
                      {"idle", "inserting", "asked", "snapped", "done", "failed"}]
        /\ end' \in [Producer \cup Reader -> Int]
        /\ length' \in [Producer \cup Reader -> {0} \cup Length \cup Asked]
        /\ built' \in [Producer -> SUBSET Place]
        /\ todo' \in [Producer -> SUBSET Place]
        /\ \A q \in Producer : todo'[q] \subseteq built'[q]
        /\ latest' \in [Producer -> 0..MaxTime]
    BY <1>3, <2>1, <2>2 DEF Collect, Go, TypeOK, WindowEnd
  <2>4. /\ met' \in [Producer -> SUBSET Producer]
        /\ \A q, r \in Producer : q \in met'[r] <=> r \in met'[q]
    BY <1>3 DEF Collect, TypeOK, Inserting
  <2>5. QED
    BY <1>3, <2>3, <2>4 DEF Collect, TypeOK, request
<1>4. ASSUME NEW p \in Producer, Finish(p)
      PROVE  TypeOK'
  BY <1>4 DEF Finish, Go, TypeOK, run, request
<1>5. ASSUME NEW p \in Producer, Fail(p)
      PROVE  TypeOK'
  BY <1>5 DEF Fail, End, Go, TypeOK, request
<1>6. ASSUME NEW p \in Producer, NEW c \in Place, Insert(p, c)
      PROVE  TypeOK'
  <2> DEFINE new == [place |-> c, at |-> end[p], length |-> length[p], by |-> p]
  <2>1. /\ new \in Row /\ new.at >= 1 /\ new.length <= MaxLength
        /\ rows' = rows \cup {new}
    BY <1>6 DEF Insert, TypeOK, WindowsPast, Inserting, Row
  <2>2. rows' \subseteq Row /\ \A row \in rows' : row.at >= 1 /\ row.length <= MaxLength
    BY <2>1 DEF TypeOK
  <2>3. CASE todo' = [todo EXCEPT ![p] = @ \ {c}]
             /\ UNCHANGED <<pc, end, length, built, latest, met>>
    BY <1>6, <2>2, <2>3 DEF Insert, TypeOK, request
  <2>4. CASE End(p)
    BY <1>6, <2>2, <2>4 DEF Insert, End, Go, TypeOK, request
  <2>5. QED
    BY <1>6, <2>3, <2>4 DEF Insert
<1>7. ASSUME NEW r \in Reader, Ask(r)
      PROVE  TypeOK'
  BY <1>7 DEF Ask, Go, TypeOK, run
<1>8. ASSUME NEW r \in Reader, Snap(r)
      PROVE  TypeOK'
  <2> DEFINE found == {row.at : row \in {w \in InArea(r) :
                          end[r] - length[r] * count[r] <= w.at /\ w.at <= end[r]}}
  <2>1. found \in SUBSET Int /\ \A x \in found : x <= end[r]
    BY DEF InArea, Rows, TypeOK, Row
  <2>2. end[r] \in Int /\ (found # {} => LatestOf(found) \in Int)
    <3> HIDE DEF found
    <3> QED BY <2>1, MaxOfBounded DEF LatestOf, TypeOK
  <2>3. anchor' \in [Reader -> Int]
    BY <1>8, <2>2 DEF Snap, TypeOK
  <2>4. QED
    BY <1>8, <2>3 DEF Snap, Go, TypeOK, run
<1>9. ASSUME NEW r \in Reader, Select(r)
      PROVE  TypeOK'
  BY <1>9 DEF Select, Go, Rows, TypeOK, run
<1>10. QED
  BY <1>1, <1>2, <1>3, <1>4, <1>5, <1>6, <1>7, <1>8, <1>9 DEF Next
-----------------------------------------------------------------------------
(* The runs of bo-cluster *)

\* Before the first run there is nothing to relate.
LEMMA RunInit == Init => RunInv /\ AllOrNothing
BY ClusterStoreAssumption
   DEF ClusterStoreAssumption, Init, RunInv, RowsPast, WindowsPast, OwnStored, LatestOfOthers,
       UnseenAreMet, InsertersMet, Inserting, AllOrNothing

\* What runs depend on: no step but their own changes it, apart from the clock.
RunsUntouched ==
    /\ UNCHANGED <<rows, run>>
    /\ now' \in Int /\ now <= now'
    /\ \A p \in Producer : /\ pc'[p] = pc[p]
                           /\ end'[p] = end[p]
                           /\ length'[p] = length[p]

\* What is known of runs outlasts the steps of requests and of the clock.
LEMMA RunUntouched ==
    ASSUME TypeOK, RunInv, AllOrNothing, RunsUntouched
    PROVE  RunInv' /\ AllOrNothing'
<1> USE DEF RunsUntouched, run
<1>1. Inserting' = Inserting /\ \A p \in Producer : Own(p)' = Own(p)
  BY DEF Inserting, Own
<1>2. \A p \in Producer : Rows(rows, length[p])' = Rows(rows, length[p]) /\ Newer(p)' = Newer(p)
  BY DEF Rows, Newer
<1>3. RowsPast'
  BY DEF RunInv, RowsPast, TypeOK, Row
<1>4. WindowsPast'
  BY <1>1 DEF RunInv, WindowsPast, TypeOK, Inserting
<1>5. OwnStored'
  BY <1>1, <1>2 DEF RunInv, OwnStored, Inserting
<1>6. LatestOfOthers' /\ UnseenAreMet' /\ InsertersMet'
  BY <1>1, <1>2 DEF RunInv, LatestOfOthers, UnseenAreMet, InsertersMet, Inserting
<1>7. AllOrNothing'
  BY <1>1, <1>2 DEF AllOrNothing
<1>8. QED
  BY <1>3, <1>4, <1>5, <1>6, <1>7 DEF RunInv

\* A run that begins (bo-cluster reads the newest timestamp) has met every run
\* that inserts, and has seen the rows of all others.
LEMMA CollectStep ==
    ASSUME TypeOK, RunInv, AllOrNothing, NEW p \in Producer, Collect(p)
    PROVE  RunInv' /\ AllOrNothing'
<1> USE ClusterStoreAssumption DEF ClusterStoreAssumption
<1>1. PICK e \in WindowEnd, len \in Length, C \in SUBSET Place :
          /\ Storable(len)
          /\ end' = [end EXCEPT ![p] = e]
          /\ length' = [length EXCEPT ![p] = len]
          /\ built' = [built EXCEPT ![p] = C]
          /\ todo' = [todo EXCEPT ![p] = C]
          /\ latest' = [latest EXCEPT ![p] = Newest(Rows(rows, len))]
  BY DEF Collect
<1>2. /\ Newest(Rows(rows, len)) \in 0..now
      /\ \A row \in Rows(rows, len) : row.at <= Newest(Rows(rows, len))
      /\ Newest(Rows(rows, len)) # 0 =>
             \E row \in Rows(rows, len) : row.at = Newest(Rows(rows, len))
  <2>1. now \in Nat /\ Rows(rows, len) \in SUBSET Row
    BY DEF TypeOK, Rows
  <2>2. \A row \in Rows(rows, len) : row.at <= now
    BY DEF RunInv, RowsPast, Rows
  <2>3. QED
    BY <2>1, <2>2, NewestFacts
<1>3. /\ pc[p] = "idle" /\ pc' = [pc EXCEPT ![p] = "inserting"]
      /\ UNCHANGED <<now, rows>>
      /\ met' = [q \in Producer |-> IF q = p THEN met[p] \cup Inserting
                                    ELSE IF q \in Inserting THEN met[q] \cup {p} ELSE met[q]]
  BY DEF Collect, Go
<1>4. \A row \in rows : row.by # p
  BY <1>3 DEF RunInv, RowsPast
<1>5. /\ Inserting' = Inserting \cup {p} /\ p \notin Inserting
      /\ \A q \in Producer : Own(q)' = Own(q)
  BY <1>3 DEF Inserting, Own, TypeOK
<1>6. /\ \A q \in Producer \ {p} :
            /\ end'[q] = end[q] /\ length'[q] = length[q] /\ built'[q] = built[q]
            /\ todo'[q] = todo[q] /\ latest'[q] = latest[q] /\ met[q] \subseteq met'[q]
      /\ end'[p] = e /\ length'[p] = len /\ built'[p] = C /\ todo'[p] = C
      /\ latest'[p] = Newest(Rows(rows, len))
  BY <1>1, <1>3 DEF TypeOK
<1>7. RowsPast'
  BY <1>3 DEF RunInv, RowsPast, TypeOK, Row
<1>8. WindowsPast'
  BY <1>1, <1>3, <1>5, <1>6 DEF RunInv, WindowsPast, Inserting, WindowEnd, Storable
<1>9. OwnStored'
  <2> SUFFICES ASSUME NEW q \in Inserting'
               PROVE  Own(q)' = built'[q] \ todo'[q] /\ (Own(q)' # {} => Newer(q)')
    BY DEF OwnStored
  <2>1. CASE q = p
    <3>1. Own(p) = {}
      BY <1>4 DEF Own
    <3>2. QED
      BY <1>5, <1>6, <2>1, <3>1
  <2>2. CASE q # p
    <3>1. q \in Inserting /\ q \in Producer \ {p}
      BY <1>5, <2>2 DEF Inserting
    <3>2. Own(q) = built[q] \ todo[q] /\ (Own(q) # {} => Newer(q))
      BY <3>1 DEF RunInv, OwnStored
    <3>3. Newer(q)' <=> Newer(q)
      BY <1>6, <3>1 DEF Newer
    <3>4. QED
      BY <1>5, <1>6, <3>1, <3>2, <3>3
  <2>3. QED
    BY <2>1, <2>2
<1>10. LatestOfOthers'
  BY <1>2, <1>3, <1>4, <1>5, <1>6 DEF RunInv, LatestOfOthers, Inserting, Rows
<1>11. UnseenAreMet'
  <2> SUFFICES ASSUME NEW q \in Inserting', NEW row \in Rows(rows, length'[q]),
                      row.by # q, row.at > latest'[q]
               PROVE  row.by \in met'[q]
    BY <1>3 DEF UnseenAreMet
  <2>1. CASE q = p
    <3>1. row.at <= Newest(Rows(rows, len)) /\ row.at \in Nat /\ now \in Nat
      BY <1>2, <1>6, <2>1 DEF Rows, TypeOK, Row
    <3>2. latest'[q] = Newest(Rows(rows, len)) /\ Newest(Rows(rows, len)) \in Int
      BY <1>2, <1>6, <2>1, <3>1
    <3>3. QED
      BY <3>1, <3>2
  <2>2. CASE q # p
    <3>1. q \in Inserting /\ q \in Producer \ {p}
      BY <1>5, <2>2 DEF Inserting
    <3>2. row.by \in met[q]
      BY <1>6, <3>1 DEF RunInv, UnseenAreMet
    <3>3. QED
      BY <1>6, <3>1, <3>2
  <2>3. QED
    BY <2>1, <2>2
<1>12. InsertersMet'
  BY <1>3, <1>5 DEF RunInv, InsertersMet, Inserting
<1>13. AllOrNothing'
  <2> SUFFICES ASSUME NEW q \in Producer, pc'[q] = "done"
               PROVE  \/ Own(q)' = built'[q]
                      \/ /\ Own(q)' = {}
                         /\ \E row \in Rows(rows, length[q])' : row.by # q /\ row.at >= end'[q]
    BY DEF AllOrNothing
  <2>1. q # p /\ pc[q] = "done"
    BY <1>3 DEF TypeOK
  <2>2. \/ Own(q) = built[q]
        \/ /\ Own(q) = {}
           /\ \E row \in Rows(rows, length[q]) : row.by # q /\ row.at >= end[q]
    BY <2>1 DEF AllOrNothing
  <2>3. Own(q)' = Own(q) /\ Rows(rows, length[q])' = Rows(rows, length[q])
    BY <1>3, <1>5, <1>6, <2>1 DEF Rows
  <2>4. QED
    BY <1>6, <2>1, <2>2, <2>3
<1>14. QED
  BY <1>7, <1>8, <1>9, <1>10, <1>11, <1>12, <1>13 DEF RunInv

\* A run that ends takes what it held with it, and leaves the others alone.
LEMMA EndStep ==
    ASSUME TypeOK, RunInv, AllOrNothing, NEW p \in Producer, End(p), UNCHANGED <<now, rows>>
    PROVE  RunInv' /\ AllOrNothing'
<1>1. /\ Inserting' = Inserting \ {p}
      /\ pc'[p] = "failed"
      /\ \A q \in Producer : Own(q)' = Own(q)
  BY DEF End, Go, Inserting, Own, TypeOK
<1>2. \A q \in Producer \ {p} :
          /\ end'[q] = end[q] /\ length'[q] = length[q] /\ built'[q] = built[q]
          /\ todo'[q] = todo[q] /\ latest'[q] = latest[q] /\ met'[q] = met[q]
          /\ pc'[q] = pc[q]
  BY DEF End, Go, TypeOK
<1>3. RowsPast'
  BY DEF End, Go, RunInv, RowsPast, TypeOK, Row
<1>4. WindowsPast'
  BY <1>1, <1>2 DEF RunInv, WindowsPast, Inserting
<1>5. OwnStored'
  BY <1>1, <1>2 DEF RunInv, OwnStored, Inserting, Newer
<1>6. LatestOfOthers' /\ UnseenAreMet' /\ InsertersMet'
  BY <1>1, <1>2 DEF RunInv, LatestOfOthers, UnseenAreMet, InsertersMet, Inserting, Rows
<1>7. AllOrNothing'
  BY <1>1, <1>2 DEF AllOrNothing, Rows
<1>8. QED
  BY <1>3, <1>4, <1>5, <1>6, <1>7 DEF RunInv

\* One cluster more is stored: a row is only ever new to runs that have met its
\* writer.
LEMMA InsertStep ==
    ASSUME TypeOK, RunInv, AllOrNothing, NEW p \in Producer, NEW c \in Place, Insert(p, c)
    PROVE  RunInv' /\ AllOrNothing'
<1> DEFINE new == [place |-> c, at |-> end[p], length |-> length[p], by |-> p]
<1>1. /\ pc[p] = "inserting" /\ p \in Inserting /\ c \in todo[p] /\ c \in built[p]
      /\ Newer(p)
      /\ UNCHANGED now
      /\ rows' = rows \cup {new}
      /\ new.at = end[p] /\ new.by = p /\ new.place = c /\ new.length = length[p]
  BY DEF Insert, TypeOK, Inserting
<1>2. \A q \in Producer : Own(q)' = IF q = p THEN Own(p) \cup {c} ELSE Own(q)
  <2> HIDE DEF new
  <2> QED BY <1>1 DEF Own
<1>3. \A len : /\ Rows(rows, len) \subseteq Rows(rows', len)
               /\ \A row \in Rows(rows', len) : row \in Rows(rows, len) \/ row = new
  BY <1>1 DEF Rows
<1>4. \A q \in Inserting \ {p} : p \in met[q]
  BY <1>1 DEF RunInv, InsertersMet
<1> HIDE DEF new
<1>5. RowsPast'
  <2>1. \A row \in rows' : row.at <= now
    BY <1>1 DEF RunInv, RowsPast, WindowsPast
  <2>2. \A row \in rows' : row.by \in Producer /\ pc[row.by] # "idle"
    BY <1>1 DEF RunInv, RowsPast, TypeOK, Row
  <2>3. \A q \in Producer : pc[q] # "idle" => pc'[q] # "idle"
    BY <1>1 DEF Insert, End, Go, TypeOK
  <2>4. QED
    BY <1>1, <2>1, <2>2, <2>3 DEF RowsPast
<1>6. CASE todo' = [todo EXCEPT ![p] = @ \ {c}] /\ UNCHANGED <<pc, end, length, built, latest, met>>
  <2>1. /\ Inserting' = Inserting
        /\ \A q \in Producer : todo'[q] = IF q = p THEN todo[p] \ {c} ELSE todo[q]
    BY <1>6 DEF Inserting, TypeOK
  <2>2. WindowsPast' /\ InsertersMet'
    BY <1>1, <1>6, <2>1 DEF RunInv, WindowsPast, InsertersMet
  <2>3. OwnStored'
    BY <1>1, <1>2, <1>6, <2>1 DEF RunInv, OwnStored, Inserting, Newer
  <2>4. LatestOfOthers'
    BY <1>3, <1>6, <2>1 DEF RunInv, LatestOfOthers
  <2>5. UnseenAreMet'
    BY <1>1, <1>3, <1>4, <1>6, <2>1 DEF RunInv, UnseenAreMet
  <2>6. AllOrNothing'
    BY <1>1, <1>2, <1>3, <1>6 DEF AllOrNothing
  <2>7. QED
    BY <1>5, <2>2, <2>3, <2>4, <2>5, <2>6 DEF RunInv
<1>7. CASE End(p)
  <2>1. /\ Inserting' = Inserting \ {p}
        /\ pc'[p] = "failed"
    BY <1>7 DEF End, Go, Inserting, TypeOK
  <2>2. \A q \in Producer \ {p} :
            /\ end'[q] = end[q] /\ length'[q] = length[q] /\ built'[q] = built[q]
            /\ todo'[q] = todo[q] /\ latest'[q] = latest[q] /\ met'[q] = met[q]
            /\ pc'[q] = pc[q]
    BY <1>7 DEF End, Go, TypeOK
  <2>3. WindowsPast' /\ InsertersMet'
    BY <1>1, <2>1, <2>2 DEF RunInv, WindowsPast, InsertersMet, Inserting
  <2>4. OwnStored'
    BY <1>2, <2>1, <2>2 DEF RunInv, OwnStored, Inserting, Newer
  <2>5. LatestOfOthers'
    BY <1>3, <2>1, <2>2 DEF RunInv, LatestOfOthers, Inserting
  <2>6. UnseenAreMet'
    BY <1>1, <1>3, <1>4, <2>1, <2>2 DEF RunInv, UnseenAreMet, Inserting
  <2>7. AllOrNothing'
    <3> SUFFICES ASSUME NEW q \in Producer, pc'[q] = "done"
                 PROVE  \/ Own(q)' = built'[q]
                        \/ /\ Own(q)' = {}
                           /\ \E row \in Rows(rows', length'[q]) : row.by # q /\ row.at >= end'[q]
      BY DEF AllOrNothing
    <3>1. q # p /\ pc[q] = "done"
      BY <2>1, <2>2
    <3>2. Own(q)' = Own(q) /\ Rows(rows, length[q]) \subseteq Rows(rows', length'[q])
      BY <1>2, <1>3, <2>2, <3>1
    <3>3. QED
      BY <2>2, <3>1, <3>2 DEF AllOrNothing
  <2>8. QED
    BY <1>5, <2>3, <2>4, <2>5, <2>6, <2>7 DEF RunInv
<1>8. QED
  BY <1>6, <1>7 DEF Insert

\* A run that ends has stored its whole list.
LEMMA FinishStep ==
    ASSUME TypeOK, RunInv, AllOrNothing, NEW p \in Producer, Finish(p)
    PROVE  RunInv' /\ AllOrNothing'
<1>1. /\ p \in Inserting /\ Inserting' = Inserting \ {p}
      /\ todo[p] = {} \/ ~Newer(p)
      /\ UNCHANGED <<now, rows, end, length, run>>
      /\ pc' = [pc EXCEPT ![p] = "done"]
  BY DEF Finish, Go, Inserting, TypeOK
<1>2. \A q \in Producer : Own(q)' = Own(q)
  BY <1>1 DEF Own
<1>3. RowsPast'
  BY <1>1 DEF RunInv, RowsPast, TypeOK, Row
<1>4. /\ WindowsPast' /\ OwnStored' /\ LatestOfOthers' /\ UnseenAreMet' /\ InsertersMet'
  BY <1>1, <1>2 DEF RunInv, WindowsPast, OwnStored, LatestOfOthers, UnseenAreMet, InsertersMet,
       Inserting, Newer, run
<1>5. \/ Own(p) = built[p]
      \/ /\ Own(p) = {}
         /\ \E row \in Rows(rows, length[p]) : row.by # p /\ row.at >= end[p]
  <2>1. CASE todo[p] = {}
    BY <1>1, <2>1 DEF RunInv, OwnStored
  <2>2. CASE ~Newer(p)
    <3> end[p] \in 1..now /\ now \in Nat /\ latest[p] \in Nat
      BY <1>1 DEF RunInv, WindowsPast, TypeOK
    <3>1. Own(p) = {} /\ end[p] <= latest[p] /\ latest[p] # 0
      BY <1>1, <2>2 DEF RunInv, OwnStored, Newer
    <3>2. QED
      BY <1>1, <3>1 DEF RunInv, LatestOfOthers
  <2>3. QED
    BY <1>1, <2>1, <2>2
<1>6. AllOrNothing'
  BY <1>1, <1>2, <1>5 DEF AllOrNothing, TypeOK, run
<1>7. QED
  BY <1>3, <1>4, <1>6 DEF RunInv

\* Every step preserves what is known of runs, and that they are whole.
LEMMA RunStep ==
    ASSUME TypeOK, RunInv, AllOrNothing, [Next]_vars
    PROVE  RunInv' /\ AllOrNothing'
<1> USE ClusterStoreAssumption DEF ClusterStoreAssumption
<1>1. CASE UNCHANGED vars
  BY <1>1, RunUntouched DEF RunsUntouched, vars, TypeOK
<1>2. CASE Tick
  BY <1>2, RunUntouched DEF RunsUntouched, Tick, TypeOK
<1>3. ASSUME NEW p \in Producer, Fail(p)
      PROVE  RunInv' /\ AllOrNothing'
  BY <1>3, EndStep DEF Fail
<1>4. ASSUME NEW r \in Reader, Ask(r) \/ Snap(r) \/ Select(r)
      PROVE  RunInv' /\ AllOrNothing'
  <2>1. RunsUntouched
    BY <1>4 DEF RunsUntouched, Ask, Snap, Select, Go, TypeOK
  <2>2. QED
    BY <2>1, RunUntouched
<1>5. QED
  BY <1>1, <1>2, <1>3, <1>4, CollectStep, InsertStep, FinishStep DEF Next
-----------------------------------------------------------------------------
(* The requests for clusters *)

\* Before the first request there is nothing to relate.
LEMMA RequestInit == Init => RequestInv /\ AnchorShown
BY ClusterStoreAssumption
   DEF ClusterStoreAssumption, Init, RequestInv, RequestsPast, BeforeIsEarlier, AnchorInWindow,
       AnchorStored, AnswerStored, NoOlderAnchor, AnchorShown, Looked

\* What requests depend on: no step but their own changes it, but the clock
\* goes on and rows are added.
RequestsUntouched ==
    /\ UNCHANGED request
    /\ now' \in Int /\ now <= now'
    /\ rows \subseteq rows'
    /\ \A r \in Reader : /\ pc'[r] = pc[r]
                         /\ end'[r] = end[r]
                         /\ length'[r] = length[r]

\* What is known of requests outlasts the clock and further rows.
LEMMA RequestUntouched ==
    ASSUME TypeOK, RequestInv, AnchorShown, RequestsUntouched
    PROVE  RequestInv' /\ AnchorShown'
<1> USE DEF RequestsUntouched, request
<1>1. \A r \in Reader : InArea(r) \subseteq InArea(r)'
  BY DEF InArea, Rows
<1>2. \A r, s \in Reader : SameClusters(r, s)' = SameClusters(r, s)
  BY DEF SameClusters
<1>3. RequestsPast' /\ BeforeIsEarlier' /\ AnchorInWindow'
  BY DEF RequestInv, RequestsPast, BeforeIsEarlier, AnchorInWindow, Looked, TypeOK
<1>4. AnchorStored' /\ AnswerStored'
  BY <1>1 DEF RequestInv, AnchorStored, AnswerStored
<1>5. NoOlderAnchor' /\ AnchorShown'
  BY <1>2 DEF RequestInv, NoOlderAnchor, AnchorShown, Looked
<1>6. QED
  BY <1>3, <1>4, <1>5 DEF RequestInv

\* A request that begins has read a clock no earlier than those already answered.
LEMMA AskStep ==
    ASSUME TypeOK, RequestInv, AnchorShown, NEW r \in Reader, Ask(r)
    PROVE  RequestInv' /\ AnchorShown'
<1> USE ClusterStoreAssumption DEF ClusterStoreAssumption
<1>1. /\ pc[r] = "idle" /\ pc' = [pc EXCEPT ![r] = "asked"]
      /\ UNCHANGED <<now, rows, anchor, answer>>
      /\ length'[r] \in Asked /\ count'[r] \in Count
      /\ back'[r] \in Nat /\ end'[r] = now - back'[r]
      /\ before'[r] = {q \in Reader : pc[q] = "done"}
  BY DEF Ask, Go, TypeOK
<1>2. \A q \in Reader \ {r} :
          /\ length'[q] = length[q] /\ count'[q] = count[q] /\ area'[q] = area[q]
          /\ back'[q] = back[q] /\ end'[q] = end[q] /\ before'[q] = before[q]
          /\ pc'[q] = pc[q]
  BY DEF Ask, Go, TypeOK
<1>3. /\ pc'[r] = "asked" /\ \A q \in Reader : Looked(q)' <=> Looked(q)
      /\ ~Looked(r)
  BY <1>1, <1>2 DEF Looked, TypeOK
<1>4. RequestsPast'
  BY <1>1, <1>2 DEF RequestInv, RequestsPast, TypeOK
<1>5. BeforeIsEarlier'
  <2> SUFFICES ASSUME NEW q \in Reader, NEW s \in Reader, pc'[s] # "idle", q \in before'[s]
               PROVE  pc'[q] = "done" /\ (back'[q] = 0 /\ back'[s] = 0 => end'[q] <= end'[s])
    BY DEF BeforeIsEarlier
  <2>1. CASE s = r
    BY <1>1, <1>2, <2>1 DEF RequestInv, RequestsPast, TypeOK
  <2>2. CASE s # r
    BY <1>1, <1>2, <2>2 DEF RequestInv, BeforeIsEarlier
  <2>3. QED
    BY <2>1, <2>2
<1>6. AnchorInWindow'
  BY <1>1, <1>2, <1>3 DEF RequestInv, AnchorInWindow
<1>7. AnchorStored' /\ AnswerStored'
  BY <1>1, <1>2, <1>3 DEF RequestInv, AnchorStored, AnswerStored, InArea, Rows
<1>8. NoOlderAnchor'
  BY <1>1, <1>2, <1>3 DEF RequestInv, NoOlderAnchor, BeforeIsEarlier, SameClusters, Looked
<1>9. AnchorShown'
  BY <1>1, <1>2, <1>3 DEF AnchorShown
<1>10. QED
  BY <1>4, <1>5, <1>6, <1>7, <1>8, <1>9 DEF RequestInv

\* The lookup of the anchor finds no older one than an earlier answer showed, as
\* rows are never taken away.
LEMMA SnapStep ==
    ASSUME TypeOK, RequestInv, AnchorShown, NEW r \in Reader, Snap(r)
    PROVE  RequestInv' /\ AnchorShown'
<1> USE ClusterStoreAssumption DEF ClusterStoreAssumption
<1> DEFINE from == end[r] - length[r] * count[r]
           shown == {w \in InArea(r) : from <= w.at /\ w.at <= end[r]}
           found == {row.at : row \in shown}
           chosen == IF back[r] = 0 /\ found # {} THEN LatestOf(found) ELSE end[r]
<1>1. /\ pc[r] = "asked" /\ pc' = [pc EXCEPT ![r] = "snapped"]
      /\ anchor' = [anchor EXCEPT ![r] = chosen]
      /\ UNCHANGED <<now, rows, end, length, area, count, back, answer, before>>
  BY DEF Snap, Go
<1>2. /\ end[r] \in Int /\ length[r] \in Nat \ {0} /\ count[r] \in Nat \ {0}
      /\ from \in Int /\ from <= end[r]
  <2>1. end[r] \in Int /\ length[r] \in Nat \ {0} /\ count[r] \in Nat \ {0}
    BY <1>1 DEF RequestInv, RequestsPast, TypeOK
  <2>2. length[r] * count[r] \in Nat
    BY <2>1
  <2>3. QED
    BY <2>1, <2>2
<1>3. found \in SUBSET Int /\ \A x \in found : from <= x /\ x <= end[r]
  BY DEF InArea, Rows, TypeOK, Row
<1>4. /\ chosen \in Int /\ from <= chosen /\ chosen <= end[r]
      /\ back[r] = 0 => \A x \in found : x <= chosen
      /\ chosen # end[r] => chosen \in found
  <2> HIDE DEF found, from
  <2>1. CASE back[r] = 0 /\ found # {}
    <3>1. LatestOf(found) \in found /\ \A x \in found : LatestOf(found) >= x
      BY <1>2, <1>3, <2>1, MaxOfBounded DEF LatestOf
    <3>2. QED
      BY <1>2, <1>3, <2>1, <3>1
  <2>2. CASE ~(back[r] = 0 /\ found # {})
    BY <1>2, <2>2
  <2>3. QED
    BY <2>1, <2>2
<1>5. \A q \in Reader : /\ InArea(q)' = InArea(q)
                        /\ pc'[q] = IF q = r THEN "snapped" ELSE pc[q]
                        /\ anchor'[q] = IF q = r THEN chosen ELSE anchor[q]
  <2> HIDE DEF chosen
  <2> QED BY <1>1 DEF InArea, Rows, TypeOK
<1>6. RequestsPast'
  BY <1>1, <1>5 DEF RequestInv, RequestsPast
<1>7. BeforeIsEarlier'
  BY <1>1, <1>5 DEF RequestInv, BeforeIsEarlier
<1>8. AnchorInWindow'
  <2> HIDE DEF chosen
  <2> QED BY <1>1, <1>4, <1>5 DEF RequestInv, AnchorInWindow, Looked
<1>9. AnchorStored'
  <2>1. chosen # end[r] => \E row \in InArea(r) : row.at = chosen
    <3> HIDE DEF chosen
    <3> QED BY <1>4
  <2> HIDE DEF chosen
  <2> QED BY <1>1, <1>5, <2>1 DEF RequestInv, AnchorStored
<1>10. AnswerStored'
  <2> HIDE DEF chosen, found, shown, from
  <2> QED BY <1>1, <1>5 DEF RequestInv, AnswerStored
<1>11. NoOlderAnchor'
  <2> SUFFICES ASSUME NEW q \in Reader, NEW s \in Reader, Looked(s)', q \in before[s],
                      SameClusters(q, s), back[q] = 0, back[s] = 0,
                      NEW row \in answer[q], row.at = anchor'[q]
               PROVE  anchor'[s] >= anchor'[q]
    BY <1>1 DEF NoOlderAnchor, SameClusters
  <2>1. pc[s] # "idle" /\ pc[q] = "done" /\ q # r
    BY <1>1, <1>5 DEF Looked, RequestInv, BeforeIsEarlier
  <2>2. CASE s = r
    <3>1. row \in InArea(q)
      BY <2>1 DEF RequestInv, AnswerStored
    <3>2. row \in InArea(r)
      BY <2>2, <3>1 DEF InArea, SameClusters
    <3>3. anchor[q] <= end[q] /\ end[q] <= end[r] /\ row.at = anchor[q] /\ back[r] = 0
      BY <1>5, <2>1, <2>2 DEF RequestInv, AnchorInWindow, BeforeIsEarlier, Looked
    <3>4. row.at >= from => row.at \in found
      BY <1>2, <3>2, <3>3 DEF TypeOK
    <3>5. chosen >= anchor[q]
      <4> HIDE DEF chosen, found, from
      <4> QED BY <1>2, <1>4, <3>3, <3>4 DEF TypeOK
    <3>6. QED
      <4> HIDE DEF chosen
      <4> QED BY <1>5, <2>1, <2>2, <3>5
  <2>3. CASE s # r
    <3>1. anchor'[q] = anchor[q] /\ anchor'[s] = anchor[s] /\ Looked(s)
      BY <1>5, <2>1, <2>3 DEF Looked
    <3>2. QED
      BY <2>3, <3>1 DEF RequestInv, NoOlderAnchor
  <2>4. QED
    BY <2>2, <2>3
<1>12. AnchorShown'
  BY <1>1, <1>5 DEF AnchorShown
<1>13. QED
  BY <1>6, <1>7, <1>8, <1>9, <1>10, <1>11, <1>12 DEF RequestInv

\* Where an anchor was found there are clusters to show, and rows never go away.
LEMMA SelectStep ==
    ASSUME TypeOK, RequestInv, AnchorShown, NEW r \in Reader, Select(r)
    PROVE  RequestInv' /\ AnchorShown'
<1> USE ClusterStoreAssumption DEF ClusterStoreAssumption
<1>1. /\ pc[r] = "snapped" /\ pc' = [pc EXCEPT ![r] = "done"]
      /\ answer' = [answer EXCEPT ![r] =
             {row \in InArea(r) : row.at \in Slots(anchor[r], length[r], count[r])}]
      /\ UNCHANGED <<now, rows, end, length, area, count, back, anchor, before>>
  BY DEF Select, Go, InArea
<1>2. \A q \in Reader : /\ InArea(q)' = InArea(q)
                        /\ pc'[q] = IF q = r THEN "done" ELSE pc[q]
                        /\ Looked(q)' <=> Looked(q)
                        /\ q # r => answer'[q] = answer[q]
  BY <1>1 DEF InArea, Rows, TypeOK, Looked
<1>3. anchor[r] \in Slots(anchor[r], length[r], count[r])
  <2>1. anchor[r] \in Int /\ length[r] \in Nat \ {0} /\ count[r] \in Nat \ {0}
    BY <1>1 DEF RequestInv, RequestsPast, TypeOK
  <2>2. \A l \in Nat \ {0}, m \in Nat : l * m \in Nat
    OBVIOUS
  <2>3. anchor[r] - length[r] * (count[r] - 1) <= anchor[r]
    <3>1. length[r] * (count[r] - 1) \in Nat
      BY <2>1, <2>2
    <3>2. QED
      BY <2>1, <3>1
  <2>4. length[r] * (count[r] - 1) \in Int /\ (anchor[r] - anchor[r]) % length[r] = 0
    BY <2>1, <2>2
  <2>5. QED
    BY <2>1, <2>3, <2>4 DEF Slots
<1>4. RequestsPast' /\ AnchorInWindow' /\ AnchorStored'
  <2>1. RequestsPast'
    BY <1>1, <1>2 DEF RequestInv, RequestsPast
  <2>2. AnchorInWindow'
    BY <1>1, <1>2 DEF RequestInv, AnchorInWindow
  <2>3. AnchorStored'
    <3>1. ASSUME NEW q \in Reader, pc'[q] = "snapped" PROVE q # r /\ pc[q] = "snapped"
      BY <1>2, <3>1
    <3> QED
      BY <1>1, <1>2, <3>1 DEF RequestInv, AnchorStored
  <2>4. QED
    BY <2>1, <2>2, <2>3
<1>5. BeforeIsEarlier'
  BY <1>1, <1>2 DEF RequestInv, BeforeIsEarlier
<1>6. AnswerStored'
  BY <1>1, <1>2 DEF RequestInv, AnswerStored, TypeOK
<1>7. NoOlderAnchor'
  BY <1>1, <1>2 DEF RequestInv, NoOlderAnchor, BeforeIsEarlier, SameClusters, Looked
<1>8. AnchorShown'
  <2> SUFFICES ASSUME NEW q \in Reader, pc'[q] = "done", back[q] = 0, anchor[q] # end[q]
               PROVE  \E row \in answer'[q] : row.at = anchor[q]
    BY <1>1 DEF AnchorShown
  <2>1. CASE q = r
    <3>1. PICK row \in InArea(r) : row.at = anchor[r]
      BY <1>1, <2>1 DEF RequestInv, AnchorStored
    <3>2. row \in answer'[r]
      BY <1>1, <1>3, <3>1 DEF TypeOK
    <3>3. QED
      BY <2>1, <3>1, <3>2
  <2>2. CASE q # r
    BY <1>2, <2>2 DEF AnchorShown
  <2>3. QED
    BY <2>1, <2>2
<1>9. QED
  BY <1>4, <1>5, <1>6, <1>7, <1>8 DEF RequestInv

\* Every step preserves what is known of requests, and that an anchor is shown.
LEMMA RequestStep ==
    ASSUME TypeOK, RequestInv, AnchorShown, [Next]_vars
    PROVE  RequestInv' /\ AnchorShown'
<1> USE ClusterStoreAssumption DEF ClusterStoreAssumption
<1>1. CASE UNCHANGED vars
  BY <1>1, RequestUntouched DEF RequestsUntouched, vars, TypeOK
<1>2. CASE Tick
  BY <1>2, RequestUntouched DEF RequestsUntouched, Tick, TypeOK
<1>3. ASSUME NEW p \in Producer,
             Collect(p) \/ Finish(p) \/ Fail(p) \/ \E c \in Place : Insert(p, c)
      PROVE  RequestInv' /\ AnchorShown'
  <2>1. RequestsUntouched
    BY <1>3 DEF RequestsUntouched, Collect, Finish, Fail, Insert, End, Go, TypeOK
  <2>2. QED
    BY <2>1, RequestUntouched
<1>4. QED
  BY <1>1, <1>2, <1>3, AskStep, SnapStep, SelectStep DEF Next
-----------------------------------------------------------------------------
(* The theorems *)

\* The inductive invariant holds in every state.
LEMMA Invariant == Spec => []IInv
<1>1. Init => IInv
  BY TypeInit, RunInit, RequestInit DEF IInv
<1>2. IInv /\ [Next]_vars => IInv'
  BY TypeStep, RunStep, RequestStep DEF IInv, RunInv
<1>3. QED
  BY <1>1, <1>2, PTL DEF Spec

\* Every variable keeps its type, whatever runs and requests do beside each
\* other (bo-cluster, cluster_db.rs, the cluster handlers of service.rs).
THEOREM TypeCorrect == Spec => []TypeOK
<1>1. IInv => TypeOK
  BY DEF IInv
<1>2. QED
  BY <1>1, Invariant, PTL

\* insert_clusters: a run that ends well has stored all of its clusters or
\* none, and none only if other runs had stored rows as new as its own.
THEOREM RunsAreWhole == Spec => []AllOrNothing
<1>1. IInv => AllOrNothing
  BY DEF IInv
<1>2. QED
  BY <1>1, Invariant, PTL

\* insert_clusters: a run without a lock stores a cluster no newer than one of
\* another run only if both were inserting at one time.
THEOREM RerunsAddNothing == Spec => OnlyOverlapGoesBack
<1>1. IInv /\ [Next]_vars =>
         [\A new \in rows' \ rows : \A old \in Rows(rows, new.length) :
             old.by # new.by /\ old.at >= new.at => old.by \in met[new.by]]_vars
  <2> SUFFICES ASSUME IInv, [Next]_vars,
                      NEW new \in rows' \ rows, NEW old \in Rows(rows, new.length),
                      old.by # new.by, old.at >= new.at
               PROVE  old.by \in met[new.by]
    OBVIOUS
  <2>1. PICK p \in Producer, c \in Place : Insert(p, c)
    BY DEF Next, vars, Tick, Collect, Finish, Fail, Ask, Snap, Select
  <2>2. /\ p \in Inserting /\ Newer(p)
        /\ new.by = p /\ new.at = end[p] /\ new.length = length[p]
    BY <2>1 DEF Insert, Inserting
  <2>3. old.at > latest[p]
    BY <2>2 DEF IInv, TypeOK, Newer, Rows, Row
  <2>4. QED
    BY <2>2, <2>3 DEF IInv, RunInv, UnseenAreMet
<1>2. QED
  BY <1>1, Invariant, PTL DEF Spec, OnlyOverlapGoesBack

\* latest_timestamp_at_or_before: a request for now that was moved to a stored
\* slot has clusters of its area to show there, whatever runs insert meanwhile.
THEOREM AnchorIsShown == Spec => []AnchorShown
<1>1. IInv => AnchorShown
  BY DEF IInv
<1>2. QED
  BY <1>1, Invariant, PTL

\* The map of a client that asks again never goes back to an older slot.
THEOREM MapNeverGoesBack == Spec => []NeverGoesBack
<1>1. IInv => NeverGoesBack
  BY DEF IInv, RequestInv, NoOlderAnchor, NeverGoesBack, SameClusters, Looked
<1>2. QED
  BY <1>1, Invariant, PTL
=============================================================================
