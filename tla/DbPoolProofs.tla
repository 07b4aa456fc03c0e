---------------------------- MODULE DbPoolProofs ----------------------------
(***************************************************************************)
(* Proofs about DbPool for any finite number of queries, any size of the   *)
(* pool and any number of outages.                                         *)
(***************************************************************************)
EXTENDS DbPool, Lemmas

\* A query that waits for its permit stands in the line.
WaitersInLine ==
    \A q \in Query : pc[q] = "waiting" => \E i \in DOMAIN waiting : waiting[i] = q

\* The queries at work on a connection hold one, the others none.
AtWork == {q \in Query : pc[q] \in {"got", "querying", "answered", "broken", "leaving"}}

HeldAtWork == \A q \in Query : IF q \in AtWork THEN held[q] \in Link ELSE held[q] = 0

\* No connection is with two queries, or with one and in the pool.
HeldOnce ==
    \A q \in AtWork :
        /\ \A r \in AtWork : held[q] = held[r] => q = r
        /\ \A i \in DOMAIN idle : idle[i] # held[q]

\* A connection exists as long as a query or the pool has it.
Idle == {idle[i] : i \in DOMAIN idle}
Taken == {held[q] : q \in AtWork}

ConnectionsKept == \A c \in Link : link[c] # "none" <=> c \in Idle \cup Taken

\* Permits given and connections kept never exceed the size of the pool.
PermitsLeft == Len(idle) + Cardinality(Permitted) <= size

PoolInv ==
    WaitersInLine /\ HeldAtWork /\ HeldOnce /\ ConnectionsKept /\ PermitsLeft

\* As long as there has been no outage, no connection and no query has met one.
NoOutageYet ==
    outage = 0 =>
        /\ up
        /\ \A c \in Link : link[c] \in {"none", "open"}
        /\ \A q \in Query : pc[q] # "refused"

\* The connections that may still cost a query: those that nobody knows to be
\* dead, and those that a query found closed and has not noted.
Unnoted(c) == \E q \in Query : held[q] = c /\ pc[q] \in {"got", "querying", "broken"}

Costly == {c \in Link : link[c] = "dead" \/ (link[c] = "closed" /\ Unnoted(c))}

LossPaid == up => lost + Cardinality(Costly) <= size

FailureInv == NoOutageYet /\ NothingLoggedWhenWell /\ LossPaid /\ LostBounded

\* TypeOK but for the number of connections, which follows from PoolInv.
Types ==
    /\ size \in Nat
    /\ up \in BOOLEAN
    /\ outage \in 0..MaxOutage
    /\ link \in [Link -> {"none", "open", "dead", "closed"}]
    /\ idle \in Seq(Link) /\ IsInjective(idle)
    /\ waiting \in Seq(Query)
    /\ pc \in [Query -> {"idle", "waiting", "connecting", "refused", "got",
                         "querying", "answered", "broken", "leaving"}]
    /\ held \in [Query -> Link \cup {0}]
    /\ logged \in BOOLEAN
    /\ lines \in [0..MaxOutage -> 0..MaxLines]
    /\ lost \in Nat

IInv == Types /\ PoolInv /\ FailureInv
-----------------------------------------------------------------------------
(* Lemmas *)

\* SelectInSeq finds the first usable connection in the pool.
LEMMA FirstUsable ==
    ASSUME idle \in Seq(Link)
    PROVE  LET i == SelectInSeq(idle, Usable)
           IN  /\ i \in 0..Len(idle)
               /\ i # 0 => Usable(idle[i])
               /\ \A j \in 1..(IF i = 0 THEN Len(idle) ELSE i - 1) : ~Usable(idle[j])
<1> DEFINE I == {j \in 1..Len(idle) : Usable(idle[j])}
<1>1. Len(idle) \in Nat /\ I \in SUBSET Int /\ \A j \in I : 1 <= j
  OBVIOUS
<1>2. SelectInSeq(idle, Usable) = IF I # {} THEN Min(I) ELSE 0
  BY DEF SelectInSeq
<1>3. CASE I = {}
  BY <1>1, <1>2, <1>3
<1>4. CASE I # {}
  <2>1. Min(I) \in I /\ \A j \in I : Min(I) <= j
    <3> HIDE DEF I
    <3> QED BY <1>1, <1>4, MinOfBounded
  <2>2. Min(I) \in 1..Len(idle) /\ Usable(idle[Min(I)])
    BY <2>1
  <2>3. \A j \in 1..(Min(I) - 1) : ~Usable(idle[j])
    BY <1>1, <2>1, <2>2
  <2> HIDE DEF I
  <2>4. QED
    BY <1>1, <1>2, <1>4, <2>2, <2>3
<1>5. QED
  BY <1>3, <1>4

\* The connections there are fit the pool.
LEMMA ConnectionsFit ==
    ASSUME Types, PoolInv
    PROVE  /\ IsFiniteSet({c \in Link : link[c] # "none"})
           /\ Cardinality({c \in Link : link[c] # "none"}) <= size
<1> DEFINE C == {c \in Link : link[c] # "none"}
<1>1. /\ IsFiniteSet(Idle) /\ Cardinality(Idle) <= Len(idle)
      /\ Cardinality(Idle) \in Nat /\ Len(idle) \in Nat
  <2>1. idle \in Seq(Link) /\ Len(idle) \in Nat
    BY DEF Types
  <2>2. IsFiniteSet(Idle) /\ Cardinality(Idle) <= Len(idle)
    BY <2>1, ElementsOfSeq DEF Idle
  <2>3. QED
    BY <2>1, <2>2, FS_CardinalityType
<1>2. /\ IsFiniteSet(Permitted) /\ IsFiniteSet(AtWork) /\ AtWork \subseteq Permitted
      /\ Cardinality(AtWork) <= Cardinality(Permitted)
      /\ Cardinality(Permitted) \in Nat /\ Cardinality(AtWork) \in Nat
  <2>1. IsFiniteSet(Permitted) /\ AtWork \in SUBSET Permitted
    BY DbPoolAssumption, FS_Subset DEF DbPoolAssumption, Permitted, AtWork
  <2>2. QED
    BY <2>1, FS_Subset, FS_CardinalityType
<1>3. /\ IsFiniteSet(Taken) /\ Cardinality(Taken) <= Cardinality(AtWork)
      /\ Cardinality(Taken) \in Nat
  <2> DEFINE f == [q \in AtWork |-> held[q]]
  <2>1. f \in Surjection(AtWork, Taken)
    BY DEF Taken, Surjection
  <2>2. QED
    BY <1>2, <2>1, FS_Surjection, FS_CardinalityType
<1>4. /\ IsFiniteSet(Idle \cup Taken)
      /\ Cardinality(Idle \cup Taken) <= Cardinality(Idle) + Cardinality(Taken)
      /\ Cardinality(Idle \cup Taken) \in Nat
  <2>1. IsFiniteSet(Idle \cap Taken)
    BY <1>1, FS_Subset
  <2>2. Cardinality(Idle \cap Taken) \in Nat
    BY <2>1, FS_CardinalityType
  <2>3. /\ IsFiniteSet(Idle \cup Taken)
        /\ Cardinality(Idle \cup Taken)
              = Cardinality(Idle) + Cardinality(Taken) - Cardinality(Idle \cap Taken)
    BY <1>1, <1>3, FS_Union
  <2>4. QED
    BY <1>1, <1>3, <2>2, <2>3, FS_CardinalityType
<1>5. C \in SUBSET (Idle \cup Taken)
  BY DEF PoolInv, ConnectionsKept
<1>6. IsFiniteSet(C) /\ Cardinality(C) <= Cardinality(Idle \cup Taken) /\ Cardinality(C) \in Nat
  <2> HIDE DEF C
  <2> QED BY <1>4, <1>5, FS_Subset, FS_CardinalityType
<1>7. Len(idle) + Cardinality(Permitted) <= size /\ size \in Nat
  BY DEF PoolInv, PermitsLeft, Types
<1>8. QED
  BY <1>1, <1>2, <1>3, <1>4, <1>6, <1>7
-----------------------------------------------------------------------------
(* The pool *)

\* At the start nobody waits, nothing is connected and every permit is free.
LEMMA PoolInit == Init => Types /\ PoolInv
<1> SUFFICES ASSUME Init
             PROVE  Types /\ PoolInv
  OBVIOUS
<1> USE DbPoolAssumption DEF DbPoolAssumption
<1>1. size \in Nat \ {0}
  BY DEF Init, PoolSize
<1>2. Types
  <2>1. idle \in Seq(Link) /\ IsInjective(idle)
    BY DEF Init, IsInjective
  <2>2. waiting \in Seq(Query) /\ outage \in 0..MaxOutage
    BY DEF Init
  <2>3. lines \in [0..MaxOutage -> 0..MaxLines]
    BY DEF Init
  <2>4. QED
    BY <1>1, <2>1, <2>2, <2>3 DEF Init, Types
<1>3. Permitted = {} /\ AtWork = {} /\ Idle = {} /\ Taken = {}
  BY DEF Init, Permitted, AtWork, Idle, Taken
<1>4. PermitsLeft
  BY <1>1, <1>3, FS_EmptySet DEF PermitsLeft, Init
<1>5. WaitersInLine /\ HeldAtWork /\ HeldOnce /\ ConnectionsKept
  BY <1>3 DEF Init, WaitersInLine, HeldAtWork, HeldOnce, ConnectionsKept
<1>6. QED
  BY <1>2, <1>4, <1>5 DEF PoolInv

\* There are finitely many queries, so the permits in use can be counted.
LEMMA PermittedFinite ==
    ASSUME Types
    PROVE  IsFiniteSet(Permitted) /\ Cardinality(Permitted) \in Nat
<1>1. IsFiniteSet(Permitted)
  BY DbPoolAssumption, FS_Subset DEF DbPoolAssumption, Permitted
<1>2. QED
  BY <1>1, FS_CardinalityType

\* Steps that leave the pool as it is, apart from the state of connections and
\* the permits that are let go.
PoolUntouched ==
    /\ UNCHANGED <<size, idle, waiting, held>>
    /\ \A c \in Link : link'[c] = "none" <=> link[c] = "none"
    /\ \A q \in Query : /\ q \in AtWork' <=> q \in AtWork
                        /\ pc'[q] = "waiting" => pc[q] = "waiting"
                        /\ q \in Permitted' => q \in Permitted

\* What is known of the pool outlasts the steps that do not touch it.
LEMMA PoolSame ==
    ASSUME Types, PoolInv, Types', PoolUntouched
    PROVE  PoolInv'
<1> USE DEF PoolUntouched
<1>1. AtWork' = AtWork /\ Idle' = Idle /\ Permitted' \in SUBSET Permitted
  BY DEF AtWork, Idle, Permitted
<1>2. Taken' = Taken
  BY <1>1 DEF Taken
<1>3. WaitersInLine' /\ HeldAtWork' /\ HeldOnce'
  BY <1>1 DEF PoolInv, WaitersInLine, HeldAtWork, HeldOnce
<1>4. ConnectionsKept'
  BY <1>1, <1>2 DEF PoolInv, ConnectionsKept
<1>5. PermitsLeft'
  <2>1. Cardinality(Permitted') <= Cardinality(Permitted) /\ Cardinality(Permitted') \in Nat
    BY <1>1, PermittedFinite, FS_Subset, FS_CardinalityType
  <2>2. QED
    BY <2>1, PermittedFinite DEF PoolInv, PermitsLeft, Types
<1>6. QED
  BY <1>3, <1>4, <1>5 DEF PoolInv

\* A query that asks takes an idle connection, waits, or goes to connect: it never
\* takes a permit that is not left.
LEMMA AskStep ==
    ASSUME Types, PoolInv, NEW q \in Query, Ask(q)
    PROVE  Types' /\ PoolInv'
<1>1. /\ pc[q] = "idle" /\ pc' = [pc EXCEPT ![q] = "waiting"]
      /\ waiting' = Append(waiting, q)
      /\ UNCHANGED <<size, up, outage, link, idle, held, logged, lines, lost>>
  BY DEF Ask, Go, database, failures
<1>2. Types'
  BY <1>1 DEF Types
<1>3. AtWork' = AtWork /\ Permitted' = Permitted /\ Idle' = Idle
  BY <1>1 DEF AtWork, Permitted, Idle, Types
<1>4. WaitersInLine'
  <2> SUFFICES ASSUME NEW r \in Query, pc'[r] = "waiting"
               PROVE  \E i \in DOMAIN waiting' : waiting'[i] = r
    BY DEF WaitersInLine
  <2>1. /\ waiting \in Seq(Query) /\ Len(waiting) \in Nat
        /\ DOMAIN waiting = 1..Len(waiting) /\ DOMAIN waiting' = 1..(Len(waiting) + 1)
        /\ \A i \in 1..Len(waiting) : waiting'[i] = waiting[i]
        /\ waiting'[Len(waiting) + 1] = q
    BY <1>1, AppendProperties DEF Types
  <2>2. CASE r = q
    BY <2>1, <2>2
  <2>3. CASE r # q
    <3>1. PICK i \in DOMAIN waiting : waiting[i] = r
      BY <1>1, <2>3 DEF PoolInv, WaitersInLine, Types
    <3>2. QED
      BY <2>1, <3>1
  <2>4. QED
    BY <2>2, <2>3
<1>5. HeldAtWork' /\ HeldOnce' /\ ConnectionsKept' /\ PermitsLeft'
  <2>1. Taken' = Taken
    BY <1>1, <1>3 DEF Taken
  <2>2. QED
    BY <1>1, <1>3, <2>1 DEF PoolInv, HeldAtWork, HeldOnce, ConnectionsKept, PermitsLeft
<1>6. QED
  BY <1>2, <1>4, <1>5 DEF PoolInv

\* What Get makes of the pool: the connection in hand, if any, was usable, and
\* only closed ones have been dropped.
LEMMA GetStep ==
    ASSUME Types, PoolInv, NEW q \in Query, Get(q)
    PROVE  /\ Types' /\ PoolInv'
           /\ \A c \in Link : link'[c] = link[c] \/ (link[c] = "closed" /\ link'[c] = "none")
           /\ \A r \in Query \ {q} : held'[r] = held[r] /\ pc'[r] = pc[r]
           /\ pc'[q] \in {"connecting", "got"}
           /\ pc'[q] = "got" => link[held'[q]] # "closed" /\ link'[held'[q]] = link[held'[q]]
<1> DEFINE i == SelectInSeq(idle, Usable)
           skipped == {idle[j] : j \in 1..(IF i = 0 THEN Len(idle) ELSE i - 1)}
<1>1. /\ i \in 0..Len(idle)
      /\ i # 0 => Usable(idle[i])
      /\ \A j \in 1..(IF i = 0 THEN Len(idle) ELSE i - 1) : ~Usable(idle[j])
  BY FirstUsable DEF Types
<1>2. /\ pc[q] = "waiting" /\ Head(waiting) = q /\ Cardinality(Permitted) < size
      /\ waiting' = Tail(waiting)
      /\ link' = [c \in Link |-> IF c \in skipped THEN "none" ELSE link[c]]
      /\ idle' = IF i = 0 THEN << >> ELSE SubSeq(idle, i + 1, Len(idle))
      /\ held' = [held EXCEPT ![q] = IF i = 0 THEN 0 ELSE idle[i]]
      /\ pc' = [pc EXCEPT ![q] = IF i = 0 THEN "connecting" ELSE "got"]
      /\ UNCHANGED <<size, up, outage, logged, lines, lost>>
  BY DEF Get, Go, database, failures
<1>3. /\ Len(idle) \in Nat /\ DOMAIN idle = 1..Len(idle)
      /\ \A j \in 1..Len(idle) : idle[j] \in Link
      /\ \A j, k \in 1..Len(idle) : idle[j] = idle[k] => j = k
  BY DEF Types, IsInjective
<1>4. \A c \in skipped : c \in Link /\ link[c] = "closed"
  <2> HIDE DEF i
  <2> QED BY <1>1, <1>3 DEF Usable
<1> DEFINE n == IF i = 0 THEN 0 ELSE Len(idle) - i
<1>5. /\ idle' \in Seq(Link) /\ Len(idle') = n /\ DOMAIN idle' = 1..n
      /\ \A j \in 1..n : idle'[j] = idle[i + j] /\ i + j \in 1..Len(idle)
      /\ n \in Nat
  <2> HIDE DEF i
  <2>1. CASE i = 0
    BY <1>2, <2>1
  <2>2. CASE i # 0
    <3>1. idle \in Seq(Link) /\ i \in 1..Len(idle)
      BY <1>1, <1>3, <2>2 DEF Types
    <3>2. idle' = SubSeq(idle, i + 1, Len(idle)) /\ n = Len(idle) - i
      BY <1>2, <2>2
    <3> HIDE DEF n
    <3>3. QED
      BY <3>1, <3>2, DropFirst
  <2>3. QED
    BY <2>1, <2>2
<1>6. /\ link' \in [Link -> {"none", "open", "dead", "closed"}]
      /\ \A c \in Link : link'[c] = IF c \in skipped THEN "none" ELSE link[c]
  <2> HIDE DEF skipped
  <2> QED BY <1>2 DEF Types
<1>7. /\ held' \in [Query -> Link \cup {0}]
      /\ held'[q] = IF i = 0 THEN 0 ELSE idle[i]
      /\ \A r \in Query \ {q} : held'[r] = held[r]
  <2> HIDE DEF i
  <2> QED BY <1>1, <1>2, <1>3 DEF Types
<1>8. /\ pc' \in [Query -> {"idle", "waiting", "connecting", "refused", "got",
                            "querying", "answered", "broken", "leaving"}]
      /\ pc'[q] = IF i = 0 THEN "connecting" ELSE "got"
      /\ \A r \in Query \ {q} : pc'[r] = pc[r]
  <2> HIDE DEF i
  <2> QED BY <1>2 DEF Types
<1>9. PICK first \in DOMAIN waiting : waiting[first] = q
  BY <1>2 DEF PoolInv, WaitersInLine
<1>10. /\ waiting # << >> /\ waiting' \in Seq(Query)
       /\ Len(waiting) \in Nat \ {0} /\ DOMAIN waiting = 1..Len(waiting) /\ waiting[1] = q
       /\ DOMAIN waiting' = 1..(Len(waiting) - 1)
       /\ \A j \in 1..(Len(waiting) - 1) : waiting'[j] = waiting[j + 1]
  BY <1>2, <1>9, HeadTailProperties DEF Types
<1> HIDE DEF i, n, skipped
<1>11. IsInjective(idle')
  <2>1. \A j, k \in 1..n : idle'[j] = idle'[k] => i + j = i + k
    BY <1>3, <1>5
  <2>2. QED
    BY <1>1, <1>5, <2>1 DEF IsInjective
<1>12. Types'
  BY <1>2, <1>5, <1>6, <1>7, <1>8, <1>10, <1>11 DEF Types
<1>13. /\ q \notin AtWork
       /\ AtWork' = IF i = 0 THEN AtWork ELSE AtWork \cup {q}
       /\ q \notin Permitted
       /\ Permitted' = Permitted \cup {q}
  BY <1>2, <1>8 DEF AtWork, Permitted
<1>14. WaitersInLine'
  <2> SUFFICES ASSUME NEW r \in Query, pc'[r] = "waiting"
               PROVE  \E j \in DOMAIN waiting' : waiting'[j] = r
    BY DEF WaitersInLine
  <2>1. r # q
    BY <1>8
  <2>2. PICK j \in DOMAIN waiting : waiting[j] = r
    BY <1>8, <2>1 DEF PoolInv, WaitersInLine
  <2>3. j - 1 \in 1..(Len(waiting) - 1) /\ waiting'[j - 1] = r
    BY <1>10, <2>1, <2>2
  <2>4. QED
    BY <1>10, <2>3
<1>15. HeldAtWork'
  BY <1>1, <1>3, <1>7, <1>13 DEF PoolInv, HeldAtWork
<1>16. HeldOnce'
  <2> SUFFICES ASSUME NEW s \in AtWork'
               PROVE  /\ \A r \in AtWork' : held'[s] = held'[r] => s = r
                      /\ \A j \in DOMAIN idle' : idle'[j] # held'[s]
    BY DEF HeldOnce
  <2>1. CASE s = q
    <3>1. i \in 1..Len(idle) /\ held'[q] = idle[i]
      BY <1>1, <1>7, <1>8, <2>1 DEF AtWork
    <3>2. \A r \in AtWork : r \in Query /\ r # q /\ held'[r] = held[r] /\ held[r] # idle[i]
      BY <1>3, <1>7, <1>13, <3>1 DEF PoolInv, HeldOnce, AtWork
    <3>3. \A j \in DOMAIN idle' : idle'[j] # idle[i]
      BY <1>3, <1>5, <3>1
    <3>4. QED
      BY <1>13, <2>1, <3>1, <3>2, <3>3
  <2>2. CASE s # q
    <3>1. s \in AtWork /\ s \in Query /\ held'[s] = held[s]
      BY <1>7, <1>13, <2>2 DEF AtWork
    <3>2. \A j \in DOMAIN idle' : idle'[j] # held[s]
      BY <1>3, <1>5, <3>1 DEF PoolInv, HeldOnce
    <3>3. \A r \in AtWork : held[s] = held'[r] => s = r
      BY <1>7, <1>13, <3>1 DEF PoolInv, HeldOnce, AtWork
    <3>4. q \in AtWork' => held'[q] # held[s]
      <4>1. q \in AtWork' => i \in 1..Len(idle) /\ held'[q] = idle[i]
        BY <1>1, <1>7, <1>8 DEF AtWork
      <4>2. QED
        BY <1>3, <3>1, <4>1 DEF PoolInv, HeldOnce
    <3>5. QED
      BY <1>13, <3>1, <3>2, <3>3, <3>4
  <2>3. QED
    BY <2>1, <2>2
<1>17. ConnectionsKept'
  <2> SUFFICES ASSUME NEW c \in Link
               PROVE  link'[c] # "none" <=> c \in Idle' \cup Taken'
    BY DEF ConnectionsKept
  <2>1. c \in skipped <=> \E j \in 1..Len(idle) : idle[j] = c /\ (i = 0 \/ j < i)
    BY <1>1, <1>3 DEF skipped
  <2>2. c \in Idle' <=> i # 0 /\ \E j \in 1..Len(idle) : idle[j] = c /\ j > i
    <3>1. ASSUME NEW j \in 1..Len(idle), i # 0, j > i
          PROVE  j - i \in 1..n /\ idle'[j - i] = idle[j]
      <4>1. j - i \in 1..n /\ i + (j - i) = j
        BY <1>1, <1>3, <3>1 DEF n
      <4>2. QED
        BY <1>5, <4>1
    <3>2. ASSUME NEW j \in 1..n
          PROVE  i # 0 /\ i + j \in 1..Len(idle) /\ i + j > i /\ idle'[j] = idle[i + j]
      <4>1. i # 0
        BY <3>2 DEF n
      <4>2. j >= 1 /\ j \in Int /\ i \in Int
        BY <1>1, <1>5, <3>2
      <4>3. QED
        BY <1>5, <3>2, <4>1, <4>2
    <3>3. DOMAIN idle' = 1..n
      BY <1>5
    <3>4. QED
      BY <3>1, <3>2, <3>3 DEF Idle
  <2>3. c \in Taken' <=> c \in Taken \/ (i # 0 /\ c = idle[i])
    <3>1. \A r \in AtWork : r # q /\ r \in AtWork' /\ held'[r] = held[r]
      BY <1>7, <1>13 DEF AtWork
    <3>2. i # 0 => q \in AtWork' /\ held'[q] = idle[i]
      BY <1>7, <1>13
    <3>3. \A r \in AtWork' : r \in AtWork \/ (r = q /\ i # 0)
      BY <1>13
    <3>4. QED
      BY <3>1, <3>2, <3>3 DEF Taken
  <2>4. c \in Idle <=> \E j \in 1..Len(idle) : idle[j] = c
    BY <1>3 DEF Idle
  <2>5. c \in skipped => c \notin Taken
    BY <1>3, <2>1 DEF Taken, PoolInv, HeldOnce
  <2>6. c \in skipped => c \notin Idle' /\ ~(i # 0 /\ c = idle[i])
    BY <1>1, <1>3, <2>1, <2>2
  <2>7. c \notin skipped => (c \in Idle <=> c \in Idle' \/ (i # 0 /\ c = idle[i]))
    BY <1>1, <1>3, <2>1, <2>2, <2>4
  <2>8. link'[c] # "none" <=> c \notin skipped /\ c \in Idle \cup Taken
    BY <1>6 DEF PoolInv, ConnectionsKept
  <2>9. QED
    BY <2>3, <2>5, <2>6, <2>7, <2>8
<1>18. PermitsLeft'
  <2>1. Cardinality(Permitted') = Cardinality(Permitted) + 1
    BY <1>13, PermittedFinite, FS_AddElement
  <2>2. Len(idle) + Cardinality(Permitted) <= size /\ Cardinality(Permitted) \in Nat /\ size \in Nat
    BY PermittedFinite DEF PoolInv, PermitsLeft, Types
  <2>3. CASE i = 0
    BY <1>2, <1>5, <2>1, <2>2, <2>3 DEF PermitsLeft, n
  <2>4. CASE i # 0
    <3>1. Len(idle') + 1 <= Len(idle)
      BY <1>1, <1>3, <1>5, <2>4 DEF n
    <3>2. Len(idle') \in Nat /\ Len(idle) \in Nat
      BY <1>3, <1>5
    <3>3. QED
      <4>1. size' = size
        BY <1>2
      <4>2. QED
        BY <2>1, <2>2, <3>1, <3>2, <4>1 DEF PermitsLeft
  <2>5. QED
    BY <2>3, <2>4
<1>19. pc'[q] = "got" => link[held'[q]] # "closed" /\ link'[held'[q]] = link[held'[q]]
  <2>1. ASSUME i # 0
        PROVE  held'[q] \in Link /\ link[held'[q]] # "closed"
    BY <1>1, <1>3, <1>7, <2>1 DEF Usable
  <2>2. QED
    BY <1>4, <1>6, <1>8, <2>1
<1>20. QED
  BY <1>4, <1>6, <1>7, <1>8, <1>12, <1>14, <1>15, <1>16, <1>17, <1>18, <1>19 DEF PoolInv

\* A new connection is numbered like no other and belongs to who made it.
LEMMA ConnectStep ==
    ASSUME Types, PoolInv, NEW q \in Query, Connect(q)
    PROVE  Types' /\ PoolInv'
<1>1. /\ pc[q] = "connecting" /\ UNCHANGED <<size, up, outage, idle, waiting, logged, lines, lost>>
  BY DEF Connect, database, failures
<1>2. CASE Go(q, "refused") /\ UNCHANGED <<link, held>>
  <2>1. pc' = [pc EXCEPT ![q] = "refused"]
    BY <1>2 DEF Go
  <2>2. Types'
    BY <1>1, <1>2, <2>1 DEF Types
  <2>3. PoolUntouched
    BY <1>1, <1>2, <2>1 DEF Types, PoolUntouched, AtWork, Permitted
  <2>4. QED
    BY <2>2, <2>3, PoolSame
<1>3. ASSUME NEW c \in Link, link[c] = "none",
             link' = [link EXCEPT ![c] = "open"], held' = [held EXCEPT ![q] = c],
             Go(q, "got")
      PROVE  Types' /\ PoolInv'
  <2>1. pc' = [pc EXCEPT ![q] = "got"]
    BY <1>3 DEF Go
  <2>2. Types'
    BY <1>1, <1>3, <2>1 DEF Types
  <2>3. /\ q \notin AtWork /\ AtWork' = AtWork \cup {q}
        /\ Permitted' = Permitted /\ Idle' = Idle
    BY <1>1, <2>1 DEF AtWork, Permitted, Idle, Types
  <2>4. /\ held'[q] = c /\ \A r \in AtWork : r # q /\ held'[r] = held[r]
        /\ \A r \in Query \ {q} : held'[r] = held[r] /\ r \in Query
    BY <1>3, <2>3 DEF Types, AtWork
  <2>5. c \notin Idle /\ c \notin Taken
    BY <1>3 DEF PoolInv, ConnectionsKept
  <2>6. Taken' = Taken \cup {c}
    BY <2>3, <2>4 DEF Taken
  <2>7. ConnectionsKept'
    BY <1>3, <2>3, <2>6 DEF PoolInv, ConnectionsKept, Types
  <2>8. HeldAtWork'
    BY <2>3, <2>4 DEF PoolInv, HeldAtWork
  <2>9. HeldOnce'
    <3>1. \A r \in AtWork : held[r] # c
      BY <2>5 DEF Taken
    <3>2. \A j \in DOMAIN idle' : idle'[j] # c
      BY <1>1, <2>5 DEF Idle
    <3>3. QED
      BY <1>1, <2>3, <2>4, <3>1, <3>2 DEF PoolInv, HeldOnce
  <2>10. WaitersInLine' /\ PermitsLeft'
    BY <1>1, <2>1, <2>3 DEF PoolInv, WaitersInLine, PermitsLeft, Types
  <2>11. QED
    BY <2>2, <2>7, <2>8, <2>9, <2>10 DEF PoolInv
<1>4. QED
  BY <1>2, <1>3 DEF Connect

\* Giving a connection back moves it from the query to the pool.
LEMMA GiveBackStep ==
    ASSUME Types, PoolInv, NEW q \in AtWork, GiveBack(q), UNCHANGED waiting
    PROVE  Types' /\ PoolInv'
<1> DEFINE h == held[q]
<1>1. /\ idle' = Append(idle, h) /\ held' = [held EXCEPT ![q] = 0]
      /\ pc' = [pc EXCEPT ![q] = "idle"]
      /\ UNCHANGED <<size, up, outage, link, waiting, logged, lines, lost>>
  BY DEF GiveBack, Go, database, failures
<1>2. q \in Query /\ h \in Link /\ \A j \in DOMAIN idle : idle[j] # h
  BY DEF AtWork, PoolInv, HeldAtWork, HeldOnce
<1> HIDE DEF h
<1>3. /\ Len(idle) \in Nat /\ DOMAIN idle = 1..Len(idle)
      /\ idle' \in Seq(Link) /\ Len(idle') = Len(idle) + 1
      /\ DOMAIN idle' = 1..(Len(idle) + 1)
      /\ \A j \in 1..Len(idle) : idle'[j] = idle[j]
      /\ idle'[Len(idle) + 1] = h
  BY <1>1, <1>2, AppendProperties DEF Types
<1>4. IsInjective(idle')
  <2> SUFFICES ASSUME NEW j \in DOMAIN idle', NEW k \in DOMAIN idle', idle'[j] = idle'[k]
               PROVE  j = k
    BY DEF IsInjective
  <2>1. \A x \in DOMAIN idle' : x \in 1..Len(idle) \/ x = Len(idle) + 1
    BY <1>3
  <2>2. \A x, y \in 1..Len(idle) : idle[x] = idle[y] => x = y
    BY <1>3 DEF Types, IsInjective
  <2>3. QED
    BY <1>2, <1>3, <2>1, <2>2
<1>5. /\ held' \in [Query -> Link \cup {0}] /\ held'[q] = 0
      /\ \A r \in Query \ {q} : held'[r] = held[r]
  BY <1>1, <1>2 DEF Types
<1>6. /\ pc' \in [Query -> {"idle", "waiting", "connecting", "refused", "got",
                            "querying", "answered", "broken", "leaving"}]
      /\ pc'[q] = "idle" /\ \A r \in Query \ {q} : pc'[r] = pc[r]
  BY <1>1, <1>2 DEF Types
<1>7. Types'
  BY <1>1, <1>3, <1>4, <1>5, <1>6 DEF Types
<1>8. AtWork' = AtWork \ {q} /\ q \in Permitted /\ Permitted' = Permitted \ {q}
  BY <1>2, <1>6 DEF AtWork, Permitted
<1>9. Idle' = Idle \cup {h}
  <2>1. \A c \in Idle : c \in Idle'
    BY <1>3 DEF Idle
  <2>2. h \in Idle'
    BY <1>3 DEF Idle
  <2>3. \A j \in DOMAIN idle' : j \in 1..Len(idle) \/ j = Len(idle) + 1
    BY <1>3
  <2>4. \A c \in Idle' : c \in Idle \cup {h}
    BY <1>3, <2>3 DEF Idle
  <2>5. QED
    BY <2>1, <2>2, <2>4
<1>10. /\ \A r \in AtWork' : r \in AtWork /\ r \in Query /\ r # q /\ held'[r] = held[r] /\ held[r] # h
  BY <1>5, <1>8 DEF AtWork, PoolInv, HeldOnce, h
<1>11. Taken' = Taken \ {h}
  <2>1. \A r \in AtWork : r \in AtWork' \/ r = q
    BY <1>8
  <2>2. \A r \in AtWork : r = q => held[r] = h
    BY DEF h
  <2>3. QED
    BY <1>10, <2>1, <2>2 DEF Taken
<1>12. ConnectionsKept'
  <2>1. h \in Taken
    BY DEF Taken, h
  <2>2. QED
    BY <1>1, <1>9, <1>11, <2>1 DEF PoolInv, ConnectionsKept
<1>13. HeldAtWork'
  <2> SUFFICES ASSUME NEW r \in Query
               PROVE  IF r \in AtWork' THEN held'[r] \in Link ELSE held'[r] = 0
    BY DEF HeldAtWork
  <2>1. QED
    BY <1>5, <1>8, <1>10 DEF PoolInv, HeldAtWork
<1>14. HeldOnce'
  <2> SUFFICES ASSUME NEW r \in AtWork'
               PROVE  /\ \A s \in AtWork' : held'[r] = held'[s] => r = s
                      /\ \A j \in DOMAIN idle' : idle'[j] # held'[r]
    BY DEF HeldOnce
  <2>1. \A j \in DOMAIN idle' : idle'[j] = h \/ (j \in DOMAIN idle /\ idle'[j] = idle[j])
    BY <1>3
  <2>2. QED
    BY <1>10, <2>1 DEF PoolInv, HeldOnce
<1>15. WaitersInLine'
  BY <1>1, <1>6 DEF PoolInv, WaitersInLine
<1>16. PermitsLeft'
  <2>1. Cardinality(Permitted') = Cardinality(Permitted) - 1
    BY <1>8, PermittedFinite, FS_RemoveElement
  <2>2. QED
    BY <1>1, <1>3, <2>1, PermittedFinite DEF PoolInv, PermitsLeft, Types
<1>17. QED
  BY <1>7, <1>12, <1>13, <1>14, <1>15, <1>16 DEF PoolInv

\* Who gives up waiting leaves the line, and the others keep their order.
LEMMA CancelWaitingStep ==
    ASSUME Types, PoolInv, NEW q \in Query, Go(q, "idle"), NEW i \in DOMAIN waiting,
           waiting[i] = q, waiting' = RemoveAt(waiting, i), pc[q] = "waiting",
           UNCHANGED <<size, database, link, idle, held, failures>>
    PROVE  Types' /\ PoolInv'
<1>1. /\ pc' = [pc EXCEPT ![q] = "idle"]
      /\ UNCHANGED <<size, up, outage, link, idle, held, logged, lines, lost>>
  BY DEF Go, database, failures
<1>2. /\ waiting' \in Seq(Query)
      /\ \A j \in DOMAIN waiting \ {i} : \E k \in DOMAIN waiting' : waiting'[k] = waiting[j]
  BY RemoveAtFacts DEF Types
<1>3. Types'
  BY <1>1, <1>2 DEF Types
<1>4. AtWork' = AtWork /\ Permitted' = Permitted /\ Idle' = Idle /\ Taken' = Taken
  BY <1>1 DEF AtWork, Permitted, Idle, Taken, Types
<1>5. WaitersInLine'
  <2> SUFFICES ASSUME NEW r \in Query, pc'[r] = "waiting"
               PROVE  \E k \in DOMAIN waiting' : waiting'[k] = r
    BY DEF WaitersInLine
  <2>1. r # q /\ pc[r] = "waiting"
    BY <1>1 DEF Types
  <2>2. PICK j \in DOMAIN waiting : waiting[j] = r
    BY <2>1 DEF PoolInv, WaitersInLine
  <2>3. QED
    BY <1>2, <2>1, <2>2
<1>6. QED
  BY <1>1, <1>3, <1>4, <1>5
     DEF PoolInv, HeldAtWork, HeldOnce, ConnectionsKept, PermitsLeft

\* The lines of an outage stay within their bound.
LEMMA LinesFit ==
    ASSUME Types, NoteFailure
    PROVE  lines' \in [0..MaxOutage -> 0..MaxLines] /\ logged' \in BOOLEAN
<1>1. MaxLines \in Nat /\ outage \in 0..MaxOutage /\ lines[outage] \in 0..MaxLines
  BY DbPoolAssumption DEF DbPoolAssumption, Types
<1>2. Min({lines[outage] + 1, MaxLines}) \in 0..MaxLines
  BY <1>1, MinOfTwo
<1>3. lines' = IF logged THEN lines
               ELSE [lines EXCEPT ![outage] = Min({lines[outage] + 1, MaxLines})]
  BY DEF NoteFailure
<1>4. QED
  BY <1>2, <1>3 DEF Types, NoteFailure

\* The pool keeps its invariant.
LEMMA PoolStep ==
    ASSUME Types, PoolInv, [Next]_vars
    PROVE  Types' /\ PoolInv'
<1> USE DEF database, pool, failures, Go, NoteSuccess
<1>1. ASSUME Fail PROVE Types' /\ PoolInv'
  <2>1. Types'
    <3>1. outage' \in 0..MaxOutage
      <4>1. /\ outage \in Int /\ 0 <= outage /\ outage < MaxOutage /\ outage' = outage + 1
            /\ MaxOutage \in Int
        BY <1>1, DbPoolAssumption DEF Fail, Types, DbPoolAssumption
      <4>2. QED
        BY <4>1
    <3>2. link' \in [Link -> {"none", "open", "dead", "closed"}]
      BY <1>1 DEF Fail, Types
    <3>3. up' \in BOOLEAN /\ UNCHANGED <<size, idle, waiting, held, pc, logged, lines, lost>>
      BY <1>1 DEF Fail
    <3>4. QED
      BY <3>1, <3>2, <3>3 DEF Types
  <2>2. PoolUntouched
    BY <1>1 DEF Fail, PoolUntouched, AtWork, Permitted, Types
  <2>3. QED
    BY <2>1, <2>2, PoolSame
<1>2. ASSUME Recover PROVE Types' /\ PoolInv'
  <2>1. Types' /\ PoolUntouched
    BY <1>2 DEF Recover, Types, PoolUntouched, AtWork, Permitted
  <2>2. QED
    BY <2>1, PoolSame
<1>3. ASSUME NEW c \in Link, Notice(c) PROVE Types' /\ PoolInv'
  <2>1. Types' /\ PoolUntouched
    BY <1>3 DEF Notice, Types, PoolUntouched, AtWork, Permitted
  <2>2. QED
    BY <2>1, PoolSame
<1>4. ASSUME NEW q \in Query, Ask(q) \/ Get(q) \/ Connect(q) PROVE Types' /\ PoolInv'
  BY <1>4, AskStep, GetStep, ConnectStep
<1>5. ASSUME NEW q \in Query, Acquired(q) \/ Answer(q) PROVE Types' /\ PoolInv'
  <2>1. Types'
    <3>1. CASE Acquired(q)
      BY <3>1 DEF Acquired, Types
    <3>2. CASE Answer(q)
      BY <3>2 DEF Answer, Types
    <3>3. QED
      BY <1>5, <3>1, <3>2
  <2>2. PoolUntouched
    BY <1>5 DEF Acquired, Answer, PoolUntouched, AtWork, Permitted, Types
  <2>3. QED
    BY <2>1, <2>2, PoolSame
<1>6. ASSUME NEW q \in Query, Refused(q) PROVE Types' /\ PoolInv'
  <2>1. Types'
    BY <1>6, LinesFit DEF Refused, Types
  <2>2. PoolUntouched
    BY <1>6 DEF Refused, PoolUntouched, AtWork, Permitted, Types
  <2>3. QED
    BY <2>1, <2>2, PoolSame
<1>7. ASSUME NEW q \in Query, Note(q) PROVE Types' /\ PoolInv'
  <2>1. /\ pc[q] \in {"answered", "broken"} /\ pc' = [pc EXCEPT ![q] = "leaving"]
        /\ UNCHANGED <<size, up, outage, link, idle, waiting, held>>
    BY <1>7 DEF Note
  <2>2. /\ lines' \in [0..MaxOutage -> 0..MaxLines] /\ logged' \in BOOLEAN
        /\ lost' \in Nat
    <3>1. CASE pc[q] = "answered" /\ NoteSuccess
      BY <3>1 DEF Types
    <3>2. CASE ~(pc[q] = "answered" /\ NoteSuccess)
      <4>1. IF IsOutage(held[q]) THEN NoteFailure ELSE UNCHANGED <<logged, lines>>
        BY <1>7, <3>2 DEF Note
      <4>2. lost' = IF link[held[q]] = "closed" /\ up THEN lost + 1 ELSE lost
        BY <1>7, <3>2 DEF Note
      <4>3. QED
        BY <4>1, <4>2, LinesFit DEF Types
    <3>3. QED
      BY <3>1, <3>2
  <2>3. Types'
    BY <2>1, <2>2 DEF Types
  <2>4. PoolUntouched
    BY <2>1 DEF PoolUntouched, AtWork, Permitted, Types
  <2>5. QED
    BY <2>3, <2>4, PoolSame
<1>8. ASSUME NEW q \in Query, Leave(q) PROVE Types' /\ PoolInv'
  <2>1. q \in AtWork /\ GiveBack(q) /\ UNCHANGED waiting
    BY <1>8 DEF Leave, AtWork
  <2>2. QED
    BY <2>1, GiveBackStep
<1>9. ASSUME NEW q \in Query, Cancel(q) PROVE Types' /\ PoolInv'
  <2>1. CASE pc[q] = "querying" /\ GiveBack(q) /\ UNCHANGED waiting
    <3>1. q \in AtWork
      BY <2>1 DEF AtWork
    <3>2. QED
      BY <2>1, <3>1, GiveBackStep
  <2>2. CASE pc[q] = "connecting" /\ Go(q, "idle") /\ UNCHANGED <<size, database, pool, failures>>
    <3>1. Types' /\ PoolUntouched
      BY <2>2 DEF Types, PoolUntouched, AtWork, Permitted
    <3>2. QED
      BY <3>1, PoolSame
  <2>3. CASE /\ pc[q] = "waiting"
             /\ Go(q, "idle")
             /\ \E i \in DOMAIN waiting : waiting[i] = q /\ waiting' = RemoveAt(waiting, i)
             /\ UNCHANGED <<size, database, link, idle, held, failures>>
    BY <2>3, CancelWaitingStep
  <2>4. QED
    BY <1>9, <2>1, <2>2, <2>3 DEF Cancel
<1>10. ASSUME UNCHANGED vars PROVE Types' /\ PoolInv'
  <2>1. Types' /\ PoolUntouched
    BY <1>10 DEF vars, Types, PoolUntouched, AtWork, Permitted
  <2>2. QED
    BY <2>1, PoolSame
<1>11. QED
  BY <1>1, <1>2, <1>3, <1>4, <1>5, <1>6, <1>7, <1>8, <1>9, <1>10 DEF Next, Step
-----------------------------------------------------------------------------
(* The failure log *)

\* The connections that may still cost a query its answer are no more than the
\* pool can hold.
LEMMA CostlyFinite ==
    ASSUME Types, PoolInv
    PROVE  /\ IsFiniteSet(Costly) /\ Cardinality(Costly) \in Nat
           /\ Cardinality(Costly) <= size
<1> DEFINE C == {c \in Link : link[c] # "none"}
<1>1. IsFiniteSet(C) /\ Cardinality(C) <= size /\ Costly \in SUBSET C
  BY ConnectionsFit DEF Costly
<1> HIDE DEF C
<1>2. QED
  BY <1>1, FS_Subset, FS_CardinalityType DEF Types

\* A step that makes no connection costly and loses no query.
LEMMA NoNewCost ==
    ASSUME Types, PoolInv, LossPaid, LostBounded,
           Costly' \subseteq Costly, UNCHANGED <<size, lost>>, up' => up
    PROVE  LossPaid' /\ LostBounded'
<1>1. /\ Cardinality(Costly) \in Nat /\ Cardinality(Costly') \in Nat
      /\ Cardinality(Costly') <= Cardinality(Costly)
  <2>1. Costly' \in SUBSET Costly
    OBVIOUS
  <2>2. QED
    BY <2>1, CostlyFinite, FS_Subset, FS_CardinalityType
<1>2. QED
  BY <1>1 DEF LossPaid, LostBounded, Types

\* Queries that go on with what they hold make no connection costly.
LEMMA SameLinks ==
    ASSUME UNCHANGED link,
           \A q \in Query :
               pc'[q] \in {"got", "querying", "broken"} =>
                   pc[q] \in {"got", "querying", "broken"} /\ held'[q] = held[q]
    PROVE  Costly' \subseteq Costly
<1>1. \A c \in Link : Unnoted(c)' => Unnoted(c)
  BY DEF Unnoted
<1>2. QED
  BY <1>1 DEF Costly

\* A query that is lost with the database up pays with a connection that costs no
\* other: none of the pool is counted twice.
LEMMA LossStep ==
    ASSUME Types, PoolInv, LossPaid, LostBounded, [Next]_vars
    PROVE  LossPaid' /\ LostBounded'
<1> USE DEF database, pool, failures, Go, NoteSuccess
<1>1. ASSUME Fail PROVE LossPaid' /\ LostBounded'
  BY <1>1 DEF Fail, LossPaid, LostBounded
<1>2. ASSUME Recover PROVE LossPaid' /\ LostBounded'
  <2>1. Costly' = Costly /\ lost' = 0 /\ size' = size
    BY <1>2 DEF Recover, Costly, Unnoted
  <2>2. QED
    BY <2>1, CostlyFinite DEF LossPaid, LostBounded, Types
<1>3. ASSUME NEW c \in Link, Notice(c) PROVE LossPaid' /\ LostBounded'
  <2>1. \A d \in Link : Unnoted(d)' = Unnoted(d)
    BY <1>3 DEF Notice, Unnoted
  <2>2. Costly' \subseteq Costly
    BY <1>3, <2>1 DEF Notice, Costly, Types
  <2>3. QED
    BY <1>3, <2>2, NoNewCost DEF Notice
<1>4. ASSUME NEW q \in Query, Get(q) PROVE LossPaid' /\ LostBounded'
  <2>1. /\ \A c \in Link : link'[c] = link[c] \/ (link[c] = "closed" /\ link'[c] = "none")
        /\ \A r \in Query \ {q} : held'[r] = held[r] /\ pc'[r] = pc[r]
        /\ pc'[q] \in {"connecting", "got"}
        /\ pc'[q] = "got" => link[held'[q]] # "closed" /\ link'[held'[q]] = link[held'[q]]
    BY <1>4, GetStep
  <2>2. \A c \in Link : Unnoted(c)' => Unnoted(c) \/ (pc'[q] = "got" /\ held'[q] = c)
    BY <2>1 DEF Unnoted
  <2>3. Costly' \subseteq Costly
    BY <2>1, <2>2 DEF Costly
  <2>4. UNCHANGED <<size, lost, up>>
    BY <1>4 DEF Get
  <2>5. QED
    BY <2>3, <2>4, NoNewCost
<1>5. ASSUME NEW q \in Query, Connect(q) PROVE LossPaid' /\ LostBounded'
  <2>1. CASE Go(q, "refused") /\ UNCHANGED <<link, held>>
    <3>1. Costly' \subseteq Costly
      BY <2>1, SameLinks DEF Types
    <3>2. QED
      BY <1>5, <3>1, NoNewCost DEF Connect
  <2>2. ASSUME NEW c \in Link, link' = [link EXCEPT ![c] = "open"],
               held' = [held EXCEPT ![q] = c], Go(q, "got")
        PROVE  LossPaid' /\ LostBounded'
    <3>1. /\ link'[c] = "open" /\ \A d \in Link \ {c} : link'[d] = link[d]
          /\ held'[q] = c /\ \A r \in Query \ {q} : held'[r] = held[r] /\ pc'[r] = pc[r]
      BY <2>2 DEF Types
    <3>2. \A d \in Link \ {c} : Unnoted(d)' => Unnoted(d)
      BY <3>1 DEF Unnoted
    <3>3. Costly' \subseteq Costly
      BY <3>1, <3>2 DEF Costly
    <3>4. QED
      BY <1>5, <3>3, NoNewCost DEF Connect
  <2>3. QED
    BY <1>5, <2>1, <2>2 DEF Connect
<1>6. ASSUME NEW q \in Query, Ask(q) \/ Acquired(q) \/ Refused(q) \/ Answer(q)
      PROVE  LossPaid' /\ LostBounded'
  <2>1. UNCHANGED <<size, up, link, held, lost>>
    BY <1>6 DEF Ask, Acquired, Refused, Answer
  <2>2. \A r \in Query : pc'[r] \in {"got", "querying", "broken"} =>
                             pc[r] \in {"got", "querying", "broken"}
    BY <1>6 DEF Ask, Acquired, Refused, Answer, Types
  <2>3. QED
    BY <2>1, <2>2, SameLinks, NoNewCost
<1>7. ASSUME NEW q \in Query, Note(q) PROVE LossPaid' /\ LostBounded'
  <2>1. /\ pc[q] \in {"answered", "broken"} /\ pc' = [pc EXCEPT ![q] = "leaving"]
        /\ UNCHANGED <<size, up, outage, link, idle, waiting, held>>
    BY <1>7 DEF Note
  <2>2. Costly' \subseteq Costly
    BY <2>1, SameLinks DEF Types
  <2>3. CASE lost' = lost
    BY <2>1, <2>2, <2>3, NoNewCost
  <2>4. CASE lost' # lost
    <3>1. pc[q] = "broken" /\ link[held[q]] = "closed" /\ up /\ lost' = lost + 1
      BY <1>7, <2>4 DEF Note
    <3>2. q \in AtWork /\ held[q] \in Link
      BY <3>1 DEF AtWork, PoolInv, HeldAtWork
    <3>3. held[q] \in Costly
      BY <3>1, <3>2 DEF Costly, Unnoted
    <3>4. ~Unnoted(held[q])'
      <4>1. SUFFICES ASSUME NEW r \in Query, held'[r] = held'[q],
                            pc'[r] \in {"got", "querying", "broken"}
                     PROVE  FALSE
        BY DEF Unnoted
      <4>2. r # q /\ r \in AtWork /\ held[r] = held[q]
        BY <2>1, <4>1 DEF AtWork, Types
      <4>3. QED
        BY <3>2, <4>2 DEF PoolInv, HeldOnce
    <3>5. Costly' \in SUBSET (Costly \ {held[q]})
      BY <2>1, <2>2, <3>1, <3>4 DEF Costly
    <3>6. /\ IsFiniteSet(Costly \ {held[q]})
          /\ Cardinality(Costly \ {held[q]}) = Cardinality(Costly) - 1
          /\ Cardinality(Costly) \in Nat
      BY <3>3, CostlyFinite, FS_RemoveElement
    <3>7. Cardinality(Costly') <= Cardinality(Costly) - 1 /\ Cardinality(Costly') \in Nat
      BY <3>5, <3>6, FS_Subset, FS_CardinalityType
    <3>8. QED
      BY <2>1, <3>1, <3>6, <3>7 DEF LossPaid, LostBounded, Types
  <2>5. QED
    BY <2>3, <2>4
<1>8. ASSUME NEW q \in Query, Leave(q) \/ Cancel(q) PROVE LossPaid' /\ LostBounded'
  <2>1. UNCHANGED <<size, up, link, lost>> /\ pc' = [pc EXCEPT ![q] = "idle"]
    BY <1>8 DEF Leave, Cancel, GiveBack
  <2>2. \A r \in Query \ {q} : held'[r] = held[r]
    BY <1>8 DEF Leave, Cancel, GiveBack, Types
  <2>3. Costly' \subseteq Costly
    BY <2>1, <2>2, SameLinks DEF Types
  <2>4. QED
    BY <2>1, <2>3, NoNewCost
<1>9. ASSUME UNCHANGED vars PROVE LossPaid' /\ LostBounded'
  BY <1>9, SameLinks, NoNewCost DEF vars
<1>10. QED
  BY <1>1, <1>2, <1>3, <1>4, <1>5, <1>6, <1>7, <1>8, <1>9 DEF Next, Step

\* Before the first outage nothing that happens counts as one.
LEMMA WellStep ==
    ASSUME Types, PoolInv, NoOutageYet, NothingLoggedWhenWell, [Next]_vars
    PROVE  NoOutageYet' /\ NothingLoggedWhenWell'
<1> USE DEF database, pool, failures, Go, NoteSuccess
<1>1. outage' = outage \/ (outage' = outage + 1 /\ lines' = lines)
  BY DEF Next, Step, vars, Fail, Recover, Notice, Ask, Get, Connect, Acquired, Refused,
         Answer, Note, Leave, Cancel, GiveBack
<1>2. ASSUME outage' # outage PROVE NoOutageYet' /\ NothingLoggedWhenWell'
  <2>1. outage \in Nat /\ outage' = outage + 1 /\ lines' = lines
    BY <1>1, <1>2 DEF Types
  <2>2. outage' # 0
    BY <2>1
  <2>3. QED
    BY <2>1, <2>2 DEF NoOutageYet, NothingLoggedWhenWell
<1>3. ASSUME NEW q \in Query, NoteFailure, outage # 0
      PROVE  lines'[0] = lines[0]
  BY <1>3, DbPoolAssumption DEF NoteFailure, Types, DbPoolAssumption
<1>4. lines'[0] = lines[0]
  <2>1. CASE UNCHANGED lines
    BY <2>1
  <2>2. ASSUME NEW q \in Query, Refused(q) PROVE lines'[0] = lines[0]
    BY <1>3, <2>2 DEF Refused, NoOutageYet
  <2>3. ASSUME NEW q \in Query, Note(q), ~UNCHANGED lines PROVE lines'[0] = lines[0]
    <3>1. pc[q] = "broken" /\ link[held[q]] = "closed" /\ NoteFailure
      BY <2>3 DEF Note, IsOutage
    <3>2. held[q] \in Link
      BY <3>1 DEF PoolInv, HeldAtWork, AtWork
    <3>3. outage # 0
      BY <3>1, <3>2 DEF NoOutageYet
    <3>4. QED
      BY <1>3, <3>1, <3>3
  <2>4. QED
    BY <2>1, <2>2, <2>3 DEF Next, Step, vars, Fail, Recover, Notice, Ask, Get, Connect,
                            Acquired, Answer, Leave, Cancel, GiveBack
<1>5. ASSUME outage' = outage, outage = 0 PROVE NoOutageYet'
  <2>1. up /\ (\A c \in Link : link[c] \in {"none", "open"})
        /\ \A q \in Query : pc[q] # "refused"
    BY <1>5 DEF NoOutageYet
  <2>2. ~Fail /\ ~Recover
    BY <1>5, <2>1 DEF Fail, Recover, Types
  <2>3. up'
    BY <2>1, <2>2 DEF Next, Step, vars, Notice, Ask, Get, Connect, Acquired, Refused,
                      Answer, Note, Leave, Cancel, GiveBack
  <2>4. \A c \in Link : link'[c] \in {"none", "open"}
    <3>1. ASSUME NEW q \in Query, Get(q) PROVE \A c \in Link : link'[c] \in {"none", "open"}
      BY <2>1, <3>1, GetStep
    <3>2. ASSUME NEW q \in Query, Connect(q) PROVE \A c \in Link : link'[c] \in {"none", "open"}
      BY <2>1, <3>2 DEF Connect, Types
    <3>3. \A c \in Link : ~Notice(c)
      BY <2>1 DEF Notice
    <3>4. QED
      BY <2>1, <2>2, <3>1, <3>2, <3>3 DEF Next, Step, vars, Ask, Acquired, Refused, Answer,
                                          Note, Leave, Cancel, GiveBack
  <2>5. \A q \in Query : pc'[q] # "refused"
    <3>1. ASSUME NEW q \in Query, Get(q) PROVE \A r \in Query : pc'[r] # "refused"
      BY <2>1, <3>1, GetStep
    <3>2. ASSUME NEW q \in Query, Connect(q) PROVE \A r \in Query : pc'[r] # "refused"
      BY <2>1, <3>2 DEF Connect, Types
    <3>3. ASSUME NEW q \in Query, Ask(q) \/ Acquired(q) \/ Refused(q) \/ Answer(q)
          PROVE  \A r \in Query : pc'[r] # "refused"
      BY <2>1, <3>3 DEF Ask, Acquired, Refused, Answer, Types
    <3>4. ASSUME NEW q \in Query, Note(q) \/ Leave(q) \/ Cancel(q)
          PROVE  \A r \in Query : pc'[r] # "refused"
      BY <2>1, <3>4 DEF Note, Leave, Cancel, GiveBack, Types
    <3>5. QED
      BY <2>1, <2>2, <3>1, <3>2, <3>3, <3>4 DEF Next, Step, vars, Notice
  <2>6. QED
    BY <2>3, <2>4, <2>5 DEF NoOutageYet
<1>6. QED
  <2>1. CASE outage' # outage
    BY <1>2, <2>1
  <2>2. CASE outage' = outage
    <3>1. NoOutageYet'
      BY <1>5, <2>2 DEF NoOutageYet
    <3>2. NothingLoggedWhenWell'
      BY <1>4 DEF NothingLoggedWhenWell
    <3>3. QED
      BY <3>1, <3>2
  <2>3. QED
    BY <2>1, <2>2
-----------------------------------------------------------------------------
(* The invariant, and what it shows *)

\* At the start the inductive invariant holds.
LEMMA InvInit == Init => IInv
<1> SUFFICES ASSUME Init
             PROVE  IInv
  OBVIOUS
<1>1. Types /\ PoolInv
  BY PoolInit
<1>2. NoOutageYet
  BY DEF Init, NoOutageYet
<1>3. NothingLoggedWhenWell
  BY DbPoolAssumption DEF Init, NothingLoggedWhenWell, DbPoolAssumption
<1>4. LossPaid /\ LostBounded
  BY <1>1, CostlyFinite DEF Init, LossPaid, LostBounded, Types
<1>5. QED
  BY <1>1, <1>2, <1>3, <1>4 DEF IInv, FailureInv

\* Every step preserves the inductive invariant.
LEMMA InvStep == IInv /\ [Next]_vars => IInv'
  BY PoolStep, LossStep, WellStep DEF IInv, FailureInv

\* The types, the bookkeeping of the pool and that of the failure log hold in
\* every state.
THEOREM Invariance == Spec => []IInv
  BY InvInit, InvStep, PTL DEF Spec

\* The pool never keeps or opens more connections than db_connection_count
\* allows, whatever queries come, fail, are dropped or find a closed connection,
\* and no connection is in the pool twice.
THEOREM TypeCorrect == Spec => []TypeOK
<1>1. IInv => TypeOK
  BY ConnectionsFit DEF IInv, Types, TypeOK
<1>2. QED
  BY <1>1, Invariance, PTL

\* FailureLog: nothing is logged as an outage while the database has always been
\* there, whatever statements fail and whichever queries are dropped half way.
THEOREM NothingIsLoggedWhenWell == Spec => []NothingLoggedWhenWell
<1>1. IInv => NothingLoggedWhenWell
  BY DEF IInv, FailureInv
<1>2. QED
  BY <1>1, Invariance, PTL

\* A connection that an outage left in the pool costs at most one query: after a
\* recovery no more queries are lost than the pool has connections.
THEOREM LossIsBounded == Spec => []LostBounded
<1>1. IInv => LostBounded
  BY DEF IInv, FailureInv
<1>2. QED
  BY <1>1, Invariance, PTL
=============================================================================
