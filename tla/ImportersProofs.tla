-------------------------- MODULE ImportersProofs --------------------------
(***************************************************************************)
(* Proofs about Importers for any strikes, any runs of the two programs    *)
(* and any lengths of files, batches, chunks and windows; and about        *)
(* Websocket for every alphabet and texts of every length: decode gives    *)
(* back what the server said, although each of the two builds its table    *)
(* from its own strings and decode's lags one behind; and about Records    *)
(* for any log and any download that each tell of a strike once: a strike  *)
(* stored from the log is found again from the download.                   *)
(***************************************************************************)
EXTENDS Importers, Websocket, Records, Lemmas

NoRow(s, P) == \A i \in DOMAIN rows[s] : rows[s][i] \notin P

\* An attempt holds strikes past its mark from the files behind it, and those
\* that it holds or has before it are in no row of bo-import yet.
Ahead(p, s) == SlotOf(s) >= slot[p] \/ s \in ToSet(todo[p])

AttemptFresh(p) ==
    /\ \A s \in ToSet(todo[p]) : Wanted(p, s) /\ SlotOf(s) < slot[p]
    /\ \A s \in Strike : Wanted(p, s) /\ Ahead(p, s) => NoRow(s, Import)

\* What it has read past its mark it holds or has inserted.
AttemptKeeps(p) ==
    \A s \in seen[p] : Wanted(p, s) => s \in Stored \/ s \in ToSet(todo[p])

\* What a run of bo-update holds is due, in no row of bo-update yet, and if the
\* websocket inserted it then since the run began.
UpdateFresh(p) ==
    \A s \in ToSet(todo[p]) :
        Due(p, s) /\ NoRow(s, Update) /\ (liveAt[s] = -1 \/ liveAt[s] >= mark[p])

\* The rows of the websocket and of bo-update show when they were inserted.
LiveStored == \A s \in Strike : liveAt[s] # -1 => s \in Stored
UpdatedLate == \A s \in Strike : NoRow(s, Update) \/ time[s] + 1 < now

\* A run is where its program goes, with no strike twice in its hands.
RunInv(p) ==
    /\ IsInjective(todo[p])
    /\ pc[p] = "mark" => p \in Import
    /\ pc[p] \in {"keys", "insert"} => p \in Update
    /\ p \in Import /\ pc[p] = "fetch" => AttemptFresh(p) /\ AttemptKeeps(p)
    /\ p \in Update /\ pc[p] \in {"fetch", "keys", "insert"} => mark[p] <= now
    /\ p \in Update /\ pc[p] = "insert" => UpdateFresh(p)

TableInv == LiveStored /\ UpdatedLate /\ InsertedOnce /\ TwiceOnlyIfLate

IInv ==
    /\ TypeOK
    /\ IsInjective(log)
    /\ TableInv
    /\ \A p \in Run : RunInv(p)
-----------------------------------------------------------------------------
(* Sequences of strikes *)

\* Among picks the elements in question, and each as often as the list has it.
LEMMA AmongOnce ==
    ASSUME NEW S, NEW list \in Seq(S), NEW T
    PROVE  /\ Among(list, T) \in Seq(S)
           /\ ToSet(Among(list, T)) = ToSet(list) \cap T
           /\ \A U : Once(list, U) => Once(Among(list, T), U)
<1> DEFINE Next1(G, i) == IF i = 0 THEN << >>
                          ELSE IF list[i] \in T THEN Append(G[i - 1], list[i]) ELSE G[i - 1]
           Good(G, n) == G = [i \in 0..n |-> Next1(G, i)]
           N == Len(list)
<1>1. N \in Nat /\ DOMAIN list = 1..N /\ \A i \in 1..N : list[i] \in S
  OBVIOUS
<1>2. \E G : Good(G, N)
  <2> DEFINE B == {n \in 0..N : ~ \E G : Good(G, n)}
  <2>1. SUFFICES ASSUME B # {}
                 PROVE  FALSE
    <3> HIDE DEF Good
    <3> QED BY <1>1
  <2>2. 0 \in B \/ \E n \in 1..N : n \in B /\ n - 1 \in 0..N /\ n - 1 \notin B
    <3>1. B \in SUBSET (0..N)
      OBVIOUS
    <3> HIDE DEF B
    <3>2. QED
      BY <1>1, <2>1, <3>1, FirstFailure
  <2>3. CASE 0 \in B
    <3>1. Good([i \in 0..0 |-> << >>], 0)
      OBVIOUS
    <3>2. QED
      BY <2>3, <3>1
  <2>4. ASSUME NEW n \in 1..N, n \in B, n - 1 \in 0..N, n - 1 \notin B
        PROVE  FALSE
    <3>1. n \in 1..N /\ n - 1 \in 0..N /\ n - 1 \notin B
      BY <2>4
    <3>2. PICK G : Good(G, n - 1)
      BY <3>1
    <3> DEFINE h == [i \in 0..n |-> IF i = n THEN Next1(G, n) ELSE G[i]]
    <3>3. ASSUME NEW i \in 0..n PROVE h[i] = Next1(h, i)
      <4>1. CASE i = 0
        BY <3>1, <3>2, <4>1
      <4>2. CASE i # 0
        <5>1. i - 1 \in 0..n /\ i - 1 # n /\ i - 1 \in 0..(n - 1)
          BY <3>1, <4>2
        <5>2. h[i - 1] = G[i - 1]
          BY <5>1
        <5>3. Next1(h, i) = Next1(G, i)
          BY <5>2
        <5>4. h[i] = Next1(G, i)
          <6>1. CASE i = n
            BY <6>1
          <6>2. CASE i # n
            <7>1. i \in 0..(n - 1)
              BY <3>1, <6>2
            <7>2. h[i] = G[i]
              BY <6>2
            <7>3. G[i] = Next1(G, i)
              <8> HIDE DEF Next1
              <8> QED BY <3>2, <7>1
            <7>4. QED
              BY <7>2, <7>3
          <6>3. QED
            BY <6>1, <6>2
        <5>5. QED
          BY <5>3, <5>4
      <4>3. QED
        BY <4>1, <4>2
    <3>4. Good(h, n)
      <4>1. h = [i \in 0..n |-> h[i]]
        OBVIOUS
      <4> HIDE DEF h, Next1
      <4>2. QED
        BY <3>3, <4>1
    <3>5. QED
      BY <2>4, <3>4
  <2>5. QED
    BY <2>2, <2>3, <2>4
<1> DEFINE H == CHOOSE G : Good(G, N)
<1>3. Good(H, N)
  <2> HIDE DEF Good
  <2> QED BY <1>2
<1>4. Among(list, T) = H[N]
  BY DEF Among
<1> DEFINE Picked(n) == /\ H[n] \in Seq(S)
                        /\ ToSet(H[n]) = {list[i] : i \in 1..n} \cap T
                        /\ \A U : Once(list, U) => Once(H[n], U)
<1>5. \A n \in 0..N : H[n] = Next1(H, n)
  <2> HIDE DEF H, Next1
  <2> QED BY <1>3
<1> HIDE DEF H, Good
<1>6. Picked(N)
  <2> DEFINE B == {n \in 0..N : ~ Picked(n)}
  <2>1. SUFFICES ASSUME B # {}
                 PROVE  FALSE
    <3> HIDE DEF Picked
    <3> QED BY <1>1
  <2>2. 0 \in B \/ \E n \in 1..N : n \in B /\ n - 1 \in 0..N /\ n - 1 \notin B
    <3>1. B \in SUBSET (0..N)
      OBVIOUS
    <3> HIDE DEF B
    <3>2. QED
      BY <1>1, <2>1, <3>1, FirstFailure
  <2>3. CASE 0 \in B
    <3>1. H[0] = << >>
      BY <1>1, <1>5
    <3>2. Picked(0)
      BY <3>1 DEF ToSet, Once
    <3>3. QED
      BY <2>3, <3>2
  <2>4. ASSUME NEW n \in 1..N, n \in B, n - 1 \in 0..N, n - 1 \notin B
        PROVE  FALSE
    <3>1. n \in 1..N /\ n - 1 \in 0..N /\ n - 1 \notin B
      BY <2>4
    <3>2. Picked(n - 1)
      <4> HIDE DEF Picked
      <4> QED BY <3>1
    <3>3. H[n] = IF list[n] \in T THEN Append(H[n - 1], list[n]) ELSE H[n - 1]
      BY <1>1, <1>5, <2>4
    <3>4. {list[i] : i \in 1..n} = {list[i] : i \in 1..(n - 1)} \cup {list[n]}
      <4>1. 1..n = 1..(n - 1) \cup {n}
        BY <3>1
      <4>2. QED
        BY <4>1
    <3>5. CASE list[n] \notin T
      <4>1. Picked(n)
        BY <3>2, <3>3, <3>4, <3>5
      <4>2. QED
        BY <2>4, <4>1
    <3>6. CASE list[n] \in T
      <4>1. list[n] \in S
        BY <1>1, <3>1
      <4>2. \A U : Once(list, U) /\ list[n] \in U => list[n] \notin {list[i] : i \in 1..(n - 1)}
        <5>1. \A i \in 1..(n - 1) : i \in 1..N /\ i # n
          BY <1>1, <3>1
        <5> QED
          BY <1>1, <3>1, <5>1 DEF Once
      <4>3. H[n] = Append(H[n - 1], list[n])
        BY <3>3, <3>6
      <4>4. H[n] \in Seq(S) /\ ToSet(H[n]) = ToSet(H[n - 1]) \cup {list[n]}
        BY <3>2, <4>1, <4>3, AppendFacts
      <4>5. ASSUME NEW U, Once(list, U) PROVE Once(H[n], U)
        <5>1. H[n - 1] \in Seq(S) /\ Once(H[n - 1], U)
          BY <3>2, <4>5
        <5>2. list[n] \in U => list[n] \notin ToSet(H[n - 1])
          BY <3>2, <4>2, <4>5
        <5> QED
          BY <4>1, <4>3, <5>1, <5>2, OnceAppend
      <4>6. Picked(n)
        BY <3>2, <3>4, <3>6, <4>4, <4>5
      <4>7. QED
        BY <2>4, <4>6
    <3>7. QED
      BY <3>5, <3>6
  <2>5. QED
    BY <2>2, <2>3, <2>4
<1>7. QED
  BY <1>1, <1>4, <1>6 DEF ToSet

\* So it takes a list without repetition to one.
LEMMA AmongFacts ==
    ASSUME NEW S, NEW list \in Seq(S), NEW T
    PROVE  /\ Among(list, T) \in Seq(S)
           /\ ToSet(Among(list, T)) = ToSet(list) \cap T
           /\ IsInjective(list) => IsInjective(Among(list, T))
<1> PICK A : A = Among(list, T)
  OBVIOUS
<1>1. A \in Seq(S) /\ ToSet(A) = ToSet(list) \cap T /\ (Once(list, S) => Once(A, S))
  BY AmongOnce
<1>2. IsInjective(list) => Once(list, S)
  BY DEF IsInjective, Once
<1>3. Once(A, S) => IsInjective(A)
  BY <1>1 DEF IsInjective, Once
<1> QED
  BY <1>1, <1>2, <1>3
-----------------------------------------------------------------------------
(* What the steps do to the table *)

\* An INSERT adds one row to each of its strikes.
LEMMA InsertFacts ==
    ASSUME TypeOK, NEW S \in SUBSET Strike, NEW p \in Run \cup {Live}, InsertRows(S, p)
    PROVE  /\ rows' \in [Strike -> Seq(Run \cup {Live})]
           /\ Stored' = Stored \cup S
           /\ \A s \in Strike \ S : rows'[s] = rows[s]
           /\ \A s \in S : \A i \in DOMAIN rows'[s] :
                  \/ i \in DOMAIN rows[s] /\ rows'[s][i] = rows[s][i]
                  \/ i = Len(rows[s]) + 1 /\ rows'[s][i] = p
<1>1. /\ rows \in [Strike -> Seq(Run \cup {Live})]
      /\ rows' = [s \in Strike |-> IF s \in S THEN Append(rows[s], p) ELSE rows[s]]
  BY DEF TypeOK, InsertRows
<1>2. ASSUME NEW s \in S
      PROVE  /\ rows'[s] \in Seq(Run \cup {Live}) /\ rows'[s] # << >>
             /\ \A i \in DOMAIN rows'[s] :
                  \/ i \in DOMAIN rows[s] /\ rows'[s][i] = rows[s][i]
                  \/ i = Len(rows[s]) + 1 /\ rows'[s][i] = p
  <2> DEFINE t == rows[s]
  <2>1. t \in Seq(Run \cup {Live}) /\ rows'[s] = Append(t, p)
    BY <1>1
  <2> HIDE DEF t
  <2>2. /\ Len(t) \in Nat /\ DOMAIN t = 1..Len(t)
        /\ Append(t, p) \in Seq(Run \cup {Live}) /\ Append(t, p) # << >>
        /\ DOMAIN Append(t, p) = 1..(Len(t) + 1)
        /\ \A i \in 1..Len(t) : Append(t, p)[i] = t[i]
        /\ Append(t, p)[Len(t) + 1] = p
    BY <2>1, AppendProperties
  <2>3. \A i \in 1..(Len(t) + 1) : i \in 1..Len(t) \/ i = Len(t) + 1
    BY <2>2
  <2>4. \A i \in DOMAIN Append(t, p) :
            \/ i \in DOMAIN t /\ Append(t, p)[i] = t[i]
            \/ i = Len(t) + 1 /\ Append(t, p)[i] = p
    BY <2>2, <2>3
  <2>5. QED
    BY <2>1, <2>2, <2>4 DEF t
<1>3. \A s \in Strike \ S : rows'[s] = rows[s]
  BY <1>1
<1>4. rows' \in [Strike -> Seq(Run \cup {Live})]
  <2>1. \A s \in Strike : rows'[s] \in Seq(Run \cup {Live})
    BY <1>1, <1>2, <1>3
  <2>2. QED
    BY <1>1, <2>1
<1>5. Stored' = Stored \cup S
  BY <1>2, <1>3 DEF Stored
<1>6. QED
  BY <1>2, <1>3, <1>4, <1>5

\* Rows of another program, or of other strikes, are no rows of P.
LEMMA StillNoRow ==
    ASSUME TypeOK, NEW S \in SUBSET Strike, NEW p \in Run \cup {Live}, InsertRows(S, p),
           NEW s \in Strike, NEW P, s \notin S \/ p \notin P, NoRow(s, P)
    PROVE  \A i \in DOMAIN rows'[s] : rows'[s][i] \notin P
<1>1. /\ s \notin S => rows'[s] = rows[s]
      /\ s \in S => \A i \in DOMAIN rows'[s] :
                        \/ i \in DOMAIN rows[s] /\ rows'[s][i] = rows[s][i]
                        \/ i = Len(rows[s]) + 1 /\ rows'[s][i] = p
  <2>1. /\ \A x \in Strike \ S : rows'[x] = rows[x]
        /\ \A x \in S : \A i \in DOMAIN rows'[x] :
               \/ i \in DOMAIN rows[x] /\ rows'[x][i] = rows[x][i]
               \/ i = Len(rows[x]) + 1 /\ rows'[x][i] = p
    BY InsertFacts
  <2>2. QED
    BY <2>1
<1>2. CASE s \notin S
  BY <1>1, <1>2 DEF NoRow
<1>3. CASE s \in S
  BY <1>1, <1>3 DEF NoRow
<1>4. QED
  BY <1>2, <1>3

\* With no row of P before, the new one is the only one.
LEMMA OneRow ==
    ASSUME TypeOK, NEW S \in SUBSET Strike, NEW p \in Run \cup {Live}, InsertRows(S, p),
           NEW s \in Strike, NEW P,
           s \in S /\ p \in P => NoRow(s, P),
           \A i, j \in RowsBy(s, P) : i = j
    PROVE  \A i, j \in DOMAIN rows'[s] : rows'[s][i] \in P /\ rows'[s][j] \in P => i = j
<1>1. /\ s \notin S => rows'[s] = rows[s]
      /\ s \in S => \A i \in DOMAIN rows'[s] :
                        \/ i \in DOMAIN rows[s] /\ rows'[s][i] = rows[s][i]
                        \/ i = Len(rows[s]) + 1 /\ rows'[s][i] = p
  <2>1. /\ \A x \in Strike \ S : rows'[x] = rows[x]
        /\ \A x \in S : \A i \in DOMAIN rows'[x] :
               \/ i \in DOMAIN rows[x] /\ rows'[x][i] = rows[x][i]
               \/ i = Len(rows[x]) + 1 /\ rows'[x][i] = p
    BY InsertFacts
  <2>2. QED
    BY <2>1
<1>2. CASE s \notin S
  BY <1>1, <1>2 DEF RowsBy
<1>3. CASE s \in S /\ p \notin P
  BY <1>1, <1>3 DEF RowsBy
<1>4. CASE s \in S /\ p \in P
  <2>1. \A i \in DOMAIN rows[s] : rows[s][i] \notin P
    BY <1>4 DEF NoRow
  <2>2. \A i \in DOMAIN rows'[s] : rows'[s][i] \in P => i = Len(rows[s]) + 1
    BY <1>1, <1>4, <2>1
  <2>3. QED
    BY <2>2
<1>5. QED
  BY <1>2, <1>3, <1>4

\* The table while nothing is inserted.
LEMMA TableSame ==
    ASSUME TypeOK, TableInv, UNCHANGED <<table, time, program>>, now' \in Int, now <= now'
    PROVE  TableInv'
<1>1. UNCHANGED <<rows, liveAt, time, program>> /\ Import' = Import /\ Update' = Update
  BY DEF table, Import, Update
<1>2. LiveStored' /\ InsertedOnce' /\ TwiceOnlyIfLate'
  BY <1>1 DEF TableInv, LiveStored, InsertedOnce, TwiceOnlyIfLate, Stored, RowsBy
<1>3. UpdatedLate'
  <2>1. \A s \in Strike : time[s] \in Int /\ now \in Int
    BY DEF TypeOK
  <2>2. QED
    BY <1>1, <2>1 DEF TableInv, UpdatedLate, NoRow
<1>4. QED
  BY <1>2, <1>3 DEF TableInv

\* What makes it right for run p to insert the strikes of S.
Fresh(p, S) ==
    /\ S \subseteq Strike
    /\ p \in Import => pc[p] = "fetch" /\ \A s \in S : NoRow(s, Import)
    /\ p \in Update =>
          /\ pc[p] = "insert"
          /\ \A s \in S : /\ NoRow(s, Update)
                          /\ time[s] + 1 < now
                          /\ liveAt[s] = -1 \/ liveAt[s] > time[s] + 1

\* Rows that are fresh for their run are the first of its program, and the second
\* of any only where the strike is late.
LEMMA TableInsert ==
    ASSUME TypeOK, TableInv, NEW p \in Run, NEW S, Fresh(p, S), InsertRows(S, p),
           UNCHANGED <<world, liveAt>>
    PROVE  TableInv'
<1>1. /\ UNCHANGED <<liveAt, time, program, now>> /\ Import' = Import /\ Update' = Update
      /\ S \in SUBSET Strike /\ p \in Run \cup {Live}
      /\ Import \cap Update = {} /\ (p \in Import \/ p \in Update)
  BY DEF world, Import, Update, Fresh
<1>2. LiveStored'
  BY <1>1, InsertFacts DEF TableInv, LiveStored
<1>3. InsertedOnce'
  <2> SUFFICES ASSUME NEW s \in Strike, NEW P \in {Import, Update}
               PROVE  \A i, j \in DOMAIN rows'[s] : rows'[s][i] \in P /\ rows'[s][j] \in P => i = j
    BY <1>1 DEF InsertedOnce, RowsBy
  <2>1. s \in S /\ p \in P => NoRow(s, P)
    BY <1>1 DEF Fresh
  <2>2. \A i, j \in RowsBy(s, P) : i = j
    BY DEF TableInv, InsertedOnce
  <2>3. QED
    BY <1>1, <2>1, <2>2, OneRow
<1>4. UpdatedLate'
  <2> SUFFICES ASSUME NEW s \in Strike, ~(time[s] + 1 < now)
               PROVE  \A i \in DOMAIN rows'[s] : rows'[s][i] \notin Update
    BY <1>1 DEF UpdatedLate, NoRow
  <2>1. NoRow(s, Update)
    BY DEF TableInv, UpdatedLate
  <2>2. s \notin S \/ p \notin Update
    BY DEF Fresh
  <2>3. QED
    BY <1>1, <2>1, <2>2, StillNoRow
<1>5. TwiceOnlyIfLate'
  <2> SUFFICES ASSUME NEW s \in Strike, liveAt[s] # -1, ~(liveAt[s] > time[s] + 1)
               PROVE  \A i \in DOMAIN rows'[s] : rows'[s][i] \notin Update
    BY <1>1 DEF TwiceOnlyIfLate, RowsBy
  <2>1. NoRow(s, Update)
    BY DEF TableInv, TwiceOnlyIfLate, RowsBy, NoRow
  <2>2. s \notin S \/ p \notin Update
    BY DEF Fresh
  <2>3. QED
    BY <1>1, <2>1, <2>2, StillNoRow
<1>6. QED
  BY <1>2, <1>3, <1>4, <1>5 DEF TableInv
-----------------------------------------------------------------------------
(* What a run sees of the others *)

\* The table has changed, and the run still knows what it knew.
LEMMA StableRun ==
    ASSUME TypeOK, NEW p \in Run, RunInv(p),
           pc'[p] = pc[p], mark'[p] = mark[p], slot'[p] = slot[p],
           todo'[p] = todo[p], seen'[p] = seen[p],
           UNCHANGED <<time, program>>, now' \in Int, now <= now',
           Stored \subseteq Stored',
           p \in Import /\ pc[p] = "fetch" =>
               \A s \in Strike : NoRow(s, Import) =>
                   \A i \in DOMAIN rows'[s] : rows'[s][i] \notin Import,
           p \in Update /\ pc[p] = "insert" =>
               \A s \in Strike : NoRow(s, Update) =>
                   \A i \in DOMAIN rows'[s] : rows'[s][i] \notin Update,
           \A s \in Strike : liveAt'[s] = liveAt[s] \/ liveAt'[s] = now
    PROVE  RunInv(p)'
<1>1. Import' = Import /\ Update' = Update
  BY DEF Import, Update
<1>2. /\ \A s \in Strike : Wanted(p, s)' = Wanted(p, s) /\ SlotOf(s)' = SlotOf(s)
      /\ \A s \in Strike : Due(p, s)' = Due(p, s) /\ Ahead(p, s)' = Ahead(p, s)
      /\ ToSet(todo[p])' = ToSet(todo[p]) /\ ToSet(todo[p]) \subseteq Strike
      /\ seen[p] \subseteq Strike
  BY DEF Wanted, SlotOf, Due, Ahead, ToSet, TypeOK
<1>3. p \in Import /\ pc[p] = "fetch" => AttemptFresh(p)' /\ AttemptKeeps(p)'
  BY <1>1, <1>2 DEF RunInv, AttemptFresh, AttemptKeeps, NoRow
<1>4. mark[p] <= now => mark[p] <= now'
  BY DEF TypeOK
<1>5. p \in Update /\ pc[p] = "insert" => UpdateFresh(p)'
  <2> SUFFICES ASSUME p \in Update, pc[p] = "insert", NEW s \in ToSet(todo[p])
               PROVE  /\ Due(p, s)
                      /\ \A i \in DOMAIN rows'[s] : rows'[s][i] \notin Update
                      /\ liveAt'[s] = -1 \/ liveAt'[s] >= mark[p]
    BY <1>1, <1>2 DEF UpdateFresh, NoRow
  <2>1. s \in Strike /\ Due(p, s) /\ NoRow(s, Update)
        /\ (liveAt[s] = -1 \/ liveAt[s] >= mark[p]) /\ mark[p] <= now
    BY <1>2 DEF RunInv, UpdateFresh
  <2>2. mark[p] \in Int /\ now \in Int
    BY DEF TypeOK
  <2>3. QED
    BY <2>1, <2>2
<1>6. IsInjective(todo'[p])
  BY DEF RunInv
<1>7. QED
  BY <1>1, <1>3, <1>4, <1>5, <1>6 DEF RunInv

\* A step of run p leaves the clock, the logs and the other runs alone.
Touches(p) ==
    /\ UNCHANGED world
    /\ pc' \in [Run -> Place]
    /\ tries' \in [Run -> 0..RetryCount]
    /\ mark' \in [Run -> Int]
    /\ slot' \in [Run -> Int]
    /\ last' \in [Run -> Int]
    /\ todo' \in [Run -> Seq(Strike)]
    /\ seen' \in [Run -> SUBSET Strike]
    /\ \A q \in Run \ {p} : /\ pc'[q] = pc[q]
                            /\ mark'[q] = mark[q]
                            /\ slot'[q] = slot[q]
                            /\ todo'[q] = todo[q]
                            /\ seen'[q] = seen[q]

\* It goes on or ends, or begins with the lock.
Locks(p) == pc'[p] \in {"mark", "fetch", "keys", "insert"} => p \in Active \/ LockFree(p)

\* It inserts nothing, or what is right for it to insert.
Inserts(p) ==
    \/ UNCHANGED table
    \/ UNCHANGED liveAt /\ \E S : Fresh(p, S) /\ InsertRows(S, p)

\* A step of one run that respects the lock and inserts only what is fresh keeps
\* the invariant for all others.
LEMMA RunStep ==
    ASSUME IInv, NEW p \in Run, Touches(p), Locks(p), Inserts(p), RunInv(p)'
    PROVE  IInv'
<1>1. /\ UNCHANGED <<now, time, log, program, option>> /\ Import' = Import /\ Update' = Update
      /\ now \in Int
  BY DEF Touches, world, Import, Update, IInv, TypeOK
<1>2. /\ \A q \in Import : program[q] = "bo-import"
      /\ \A q \in Update : program[q] = "bo-update"
      /\ \A q \in Run : q \in Import \/ q \in Update
  <2>1. program \in [Run -> {"bo-import", "bo-update"}]
    BY ImportersAssumption DEF ImportersAssumption, IInv, TypeOK
  <2>2. QED
    BY <2>1 DEF Import, Update
<1>3. \A q \in Active, r \in Active : program[q] = program[r] => q = r
  BY DEF IInv, TypeOK
<1>4. \A q, r \in Active' : program[q] = program[r] => q = r
  <2>1. Active' \subseteq Active \cup {p}
    BY DEF Touches, Active
  <2>2. p \in Active' => p \in Active \/ LockFree(p)
    BY DEF Active, Locks
  <2>3. QED
    BY <1>3, <2>1, <2>2 DEF LockFree
<1>5. ASSUME UNCHANGED table
      PROVE  IInv'
  <2>1. UNCHANGED <<rows, liveAt>> /\ Stored' = Stored
    BY <1>5 DEF table, Stored
  <2>2. TypeOK'
    BY <1>1, <1>4, <2>1 DEF TypeOK, Touches, IInv
  <2>3. TableInv'
    BY <1>1, <1>5, TableSame DEF IInv
  <2>4. ASSUME NEW q \in Run \ {p} PROVE RunInv(q)'
    BY <1>1, <2>1, StableRun DEF IInv, Touches, NoRow
  <2>5. QED
    BY <1>1, <2>2, <2>3, <2>4 DEF IInv
<1>6. ASSUME UNCHANGED liveAt, NEW S, Fresh(p, S), InsertRows(S, p)
      PROVE  IInv'
  <2>1. S \in SUBSET Strike /\ p \in Run \cup {Live} /\ TypeOK
    BY <1>6 DEF Fresh, IInv
  <2>2. rows' \in [Strike -> Seq(Run \cup {Live})] /\ Stored' = Stored \cup S
    BY <1>6, <2>1, InsertFacts
  <2>3. TypeOK'
    BY <1>1, <1>4, <1>6, <2>2 DEF TypeOK, Touches, IInv
  <2>4. TableInv'
    BY <1>1, <1>6, TableInsert DEF IInv, Touches
  <2>5. ASSUME NEW q \in Run \ {p} PROVE RunInv(q)'
    <3>1. /\ p \in Import => p \in Active
          /\ p \in Update => p \in Active
      BY <1>6 DEF Fresh, Active
    <3>2. q \in Import /\ pc[q] = "fetch" => p \notin Import
      <4>1. pc[q] = "fetch" => q \in Active
        BY DEF Active
      <4>2. QED
        BY <1>2, <1>3, <3>1, <4>1
    <3>3. q \in Update /\ pc[q] = "insert" => p \notin Update
      <4>1. pc[q] = "insert" => q \in Active
        BY DEF Active
      <4>2. QED
        BY <1>2, <1>3, <3>1, <4>1
    <3>4. ASSUME NEW P, p \notin P, NEW s \in Strike, NoRow(s, P)
          PROVE  \A i \in DOMAIN rows'[s] : rows'[s][i] \notin P
      BY <1>6, <2>1, <3>4, StillNoRow
    <3>5. /\ q \in Import /\ pc[q] = "fetch" =>
                \A s \in Strike : NoRow(s, Import) =>
                    \A i \in DOMAIN rows'[s] : rows'[s][i] \notin Import
          /\ q \in Update /\ pc[q] = "insert" =>
                \A s \in Strike : NoRow(s, Update) =>
                    \A i \in DOMAIN rows'[s] : rows'[s][i] \notin Update
      BY <3>2, <3>3, <3>4
    <3>6. RunInv(q) /\ q \in Run /\ now <= now' /\ now' \in Int
      BY <1>1 DEF IInv
    <3>7. /\ pc'[q] = pc[q] /\ mark'[q] = mark[q] /\ slot'[q] = slot[q]
          /\ todo'[q] = todo[q] /\ seen'[q] = seen[q]
      BY DEF Touches
    <3>8. Stored \subseteq Stored' /\ \A s \in Strike : liveAt'[s] = liveAt[s]
      BY <1>6, <2>2
    <3>9. QED
      BY <1>1, <2>1, <3>5, <3>6, <3>7, <3>8, StableRun
  <2>6. QED
    BY <1>1, <2>3, <2>4, <2>5 DEF IInv
<1>7. QED
  BY <1>5, <1>6 DEF Inserts
-----------------------------------------------------------------------------
(* The steps beside the runs *)

\* The clock takes nothing away from anyone.
LEMMA TickStep ==
    ASSUME IInv, Tick
    PROVE  IInv'
<1>1. /\ now' = now + 1 /\ now \in Int /\ now <= now' /\ now' \in 0..MaxTime
      /\ UNCHANGED <<time, log, program, option, rows, liveAt, pc, tries, mark, slot, last, todo, seen>>
  BY ImportersAssumption DEF Tick, table, IInv, TypeOK, ImportersAssumption
<1>2. TypeOK'
  BY <1>1 DEF IInv, TypeOK, Active
<1>3. TableInv'
  BY <1>1, TableSame DEF IInv, table
<1>4. ASSUME NEW p \in Run PROVE RunInv(p)'
  BY <1>1, StableRun DEF IInv, Stored, NoRow
<1>5. QED
  BY <1>1, <1>2, <1>3, <1>4 DEF IInv

\* A strike that appears at the service is in the log once; no run and no row is
\* touched.
LEMMA PublishStep ==
    ASSUME IInv, NEW s \in Strike, Publish(s)
    PROVE  IInv'
<1>1. /\ log' = Append(log, s) /\ s \notin ToSet(log) /\ now \in Int
      /\ UNCHANGED <<now, time, program, option, rows, liveAt, pc, tries, mark, slot, last, todo, seen>>
  BY DEF Publish, table, IInv, TypeOK
<1>2. log' \in Seq(Strike) /\ IsInjective(log')
  BY <1>1, AppendFacts DEF IInv, TypeOK
<1>3. TypeOK'
  BY <1>1, <1>2 DEF IInv, TypeOK, Active
<1>4. TableInv'
  BY <1>1, TableSame DEF IInv, table
<1>5. ASSUME NEW p \in Run PROVE RunInv(p)'
  BY <1>1, StableRun DEF IInv, Stored, NoRow
<1>6. QED
  BY <1>2, <1>3, <1>4, <1>5 DEF IInv

\* A strike that arrives live is stored at once, while no run moves.
LEMMA MessageStep ==
    ASSUME IInv, NEW s \in Strike, Message(s)
    PROVE  IInv'
<1>1. /\ InsertRows({s}, Live) /\ liveAt' = [liveAt EXCEPT ![s] = now]
      /\ UNCHANGED <<now, time, log, program, option, pc, tries, mark, slot, last, todo, seen>>
      /\ Import' = Import /\ Update' = Update /\ Active' = Active
      /\ Live \notin Import /\ Live \notin Update
  BY ImportersAssumption DEF Message, world, Import, Update, Active, ImportersAssumption
<1>2. /\ TypeOK /\ TableInv /\ {s} \in SUBSET Strike /\ Live \in Run \cup {Live}
      /\ now \in 0..MaxTime /\ liveAt \in [Strike -> (-1)..MaxTime]
  BY DEF IInv, TypeOK
<1>3. /\ rows' \in [Strike -> Seq(Run \cup {Live})] /\ Stored' = Stored \cup {s}
  BY <1>1, <1>2, InsertFacts
<1>4. /\ liveAt' \in [Strike -> (-1)..MaxTime] /\ liveAt'[s] = now
      /\ \A r \in Strike \ {s} : liveAt'[r] = liveAt[r]
  <2>1. now \in (-1)..MaxTime
    BY <1>2
  <2>2. QED
    BY <1>1, <1>2, <2>1
<1>5. TypeOK'
  BY <1>1, <1>3, <1>4 DEF IInv, TypeOK
<1>6. ASSUME NEW P, Live \notin P, NEW r \in Strike, NoRow(r, P)
      PROVE  \A i \in DOMAIN rows'[r] : rows'[r][i] \notin P
  BY <1>1, <1>2, <1>6, StillNoRow
<1>7. LiveStored'
  BY <1>2, <1>3, <1>4 DEF TableInv, LiveStored
<1>8. UpdatedLate'
  BY <1>1, <1>2, <1>6 DEF TableInv, UpdatedLate, NoRow
<1>9. InsertedOnce'
  <2> SUFFICES ASSUME NEW r \in Strike, NEW P \in {Import, Update}
               PROVE  \A i, j \in DOMAIN rows'[r] : rows'[r][i] \in P /\ rows'[r][j] \in P => i = j
    BY <1>1 DEF InsertedOnce, RowsBy
  <2>1. \A i, j \in RowsBy(r, P) : i = j
    BY <1>2 DEF TableInv, InsertedOnce
  <2>2. QED
    BY <1>1, <1>2, <2>1, OneRow
<1>10. TwiceOnlyIfLate'
  <2> SUFFICES ASSUME NEW r \in Strike, liveAt'[r] # -1, ~(liveAt'[r] > time[r] + 1)
               PROVE  \A i \in DOMAIN rows'[r] : rows'[r][i] \notin Update
    BY <1>1 DEF TwiceOnlyIfLate, RowsBy
  <2>1. NoRow(r, Update)
    <3>1. CASE r = s
      <4>1. time[s] \in Int /\ now \in Int /\ ~(time[s] + 1 < now)
        BY <1>2, <1>4, <3>1 DEF TypeOK
      <4>2. QED
        BY <1>2, <3>1, <4>1 DEF TableInv, UpdatedLate
    <3>2. CASE r # s
      BY <1>2, <1>4, <3>2 DEF TableInv, TwiceOnlyIfLate, RowsBy, NoRow
    <3>3. QED
      BY <3>1, <3>2
  <2>2. QED
    BY <1>1, <1>6, <2>1
<1>11. ASSUME NEW p \in Run PROVE RunInv(p)'
  <2>1. RunInv(p) /\ now' \in Int /\ now <= now'
    BY <1>1, <1>2 DEF IInv
  <2>2. Stored \subseteq Stored' /\ \A r \in Strike : liveAt'[r] = liveAt[r] \/ liveAt'[r] = now
    BY <1>3, <1>4
  <2>3. QED
    BY <1>1, <1>2, <1>6, <2>1, <2>2, StableRun
<1>12. QED
  BY <1>1, <1>5, <1>7, <1>8, <1>9, <1>10, <1>11 DEF IInv, TableInv
-----------------------------------------------------------------------------
(* The steps of a run *)

\* A step that gives the variables of run p these values.
LEMMA TouchFacts ==
    ASSUME TypeOK, NEW p \in Run, UNCHANGED world,
           NEW place \in Place, NEW m \in Int, NEW k \in Int, NEW l \in Int,
           NEW t \in Seq(Strike), NEW S \in SUBSET Strike,
           pc' = [pc EXCEPT ![p] = place],
           tries' \in [Run -> 0..RetryCount],
           mark' = [mark EXCEPT ![p] = m],
           slot' = [slot EXCEPT ![p] = k],
           last' = [last EXCEPT ![p] = l],
           todo' = [todo EXCEPT ![p] = t],
           seen' = [seen EXCEPT ![p] = S]
    PROVE  /\ Touches(p)
           /\ pc'[p] = place /\ mark'[p] = m /\ slot'[p] = k /\ todo'[p] = t /\ seen'[p] = S
<1>1. pc' \in [Run -> Place] /\ pc'[p] = place /\ \A q \in Run \ {p} : pc'[q] = pc[q]
  BY DEF TypeOK
<1>2. mark' \in [Run -> Int] /\ mark'[p] = m /\ \A q \in Run \ {p} : mark'[q] = mark[q]
  BY DEF TypeOK
<1>3. slot' \in [Run -> Int] /\ slot'[p] = k /\ \A q \in Run \ {p} : slot'[q] = slot[q]
  BY DEF TypeOK
<1>4. last' \in [Run -> Int]
  BY DEF TypeOK
<1>5. todo' \in [Run -> Seq(Strike)] /\ todo'[p] = t /\ \A q \in Run \ {p} : todo'[q] = todo[q]
  BY DEF TypeOK
<1>6. /\ seen' \in [Run -> SUBSET Strike] /\ seen'[p] = S
      /\ \A q \in Run \ {p} : seen'[q] = seen[q]
  BY DEF TypeOK
<1>7. QED
  BY <1>1, <1>2, <1>3, <1>4, <1>5, <1>6 DEF Touches

\* A run ends, or starts over with nothing in its hands.
LEMMA EndFacts ==
    ASSUME IInv, NEW p \in Run, UNCHANGED world,
           Exit(p, "failed") \/ Exit(p, "done") \/ (Retry(p) /\ p \in Import /\ p \in Active)
    PROVE  Touches(p) /\ Locks(p) /\ RunInv(p)'
<1>1. RetryCount \in Nat /\ 0 \in 0..RetryCount /\ tries \in [Run -> 0..RetryCount]
  BY ImportersAssumption DEF ImportersAssumption, IInv, TypeOK
<1>2. PICK place \in {"failed", "done", "mark"} :
        /\ pc' = [pc EXCEPT ![p] = place]
        /\ place = "mark" => p \in Import /\ p \in Active
        /\ mark' = [mark EXCEPT ![p] = 0]
        /\ slot' = [slot EXCEPT ![p] = 0]
        /\ last' = [last EXCEPT ![p] = 0]
        /\ todo' = [todo EXCEPT ![p] = << >>]
        /\ seen' = [seen EXCEPT ![p] = {}]
  BY DEF Exit, Retry, Again, Go
<1>3. tries' \in [Run -> 0..RetryCount]
  <2>1. tries[p] + 1 < RetryCount => tries[p] + 1 \in 0..RetryCount
    BY <1>1
  <2>2. \/ tries' = [tries EXCEPT ![p] = 0]
        \/ tries' = [tries EXCEPT ![p] = tries[p] + 1] /\ tries[p] + 1 < RetryCount
    BY DEF Exit, Retry
  <2>3. QED
    BY <1>1, <2>1, <2>2
<1>4. place \in Place /\ 0 \in Int /\ << >> \in Seq(Strike) /\ {} \in SUBSET Strike
  BY <1>2 DEF Place
<1>5. Touches(p) /\ pc'[p] = place /\ todo'[p] = << >>
  BY <1>2, <1>3, <1>4, TouchFacts DEF IInv
<1>6. Import' = Import
  BY DEF world, Import
<1>7. Locks(p)
  BY <1>2, <1>5 DEF Locks
<1>8. RunInv(p)'
  BY <1>2, <1>5, <1>6 DEF RunInv, IsInjective
<1>9. QED
  BY <1>5, <1>7, <1>8

\* The mark of an attempt is not before any strike stored so far.
LEMMA LatestFacts ==
    ASSUME TypeOK, NEW p \in Run
    PROVE  Latest(p) \in Int /\ \A s \in Stored : time[s] <= Latest(p)
<1> DEFINE T == {0} \cup {time[s] : s \in Stored}
<1>1. T \in SUBSET Int /\ T # {} /\ Strikes \in Int /\ \A x \in T : x <= Strikes
  BY ImportersAssumption, SMTT(20) DEF ImportersAssumption, TypeOK, Stored
<1>2. Max(T) \in T /\ \A x \in T : Max(T) >= x
  <2> HIDE DEF T
  <2> QED BY <1>1, MaxOfBounded
<1>3. Max(T) \in Int /\ \A s \in Stored : time[s] <= Max(T)
  BY <1>1, <1>2
<1>4. now - UpdateWindow \in Int
  BY ImportersAssumption DEF ImportersAssumption, TypeOK
<1>5. Latest(p) = IF option[p] THEN Max({Max(T), now - UpdateWindow}) ELSE Max(T)
  BY DEF Latest
<1> HIDE DEF T
<1>6. LET m == Max({Max(T), now - UpdateWindow}) IN m \in Int /\ Max(T) <= m
  BY <1>3, <1>4, MaxOfTwo
<1>7. \A s \in Stored : time[s] \in Int
  BY DEF TypeOK, Stored
<1>8. QED
  BY <1>3, <1>5, <1>6, <1>7
-----------------------------------------------------------------------------
(* bo-import *)

\* An attempt of bo-import begins with the lock in its hands.
LEMMA StartImportStep ==
    ASSUME IInv, NEW p \in Import, StartImport(p)
    PROVE  IInv'
<1>1. /\ p \in Run /\ TypeOK /\ UNCHANGED world /\ UNCHANGED table /\ LockFree(p)
      /\ pc' = [pc EXCEPT ![p] = "mark"] /\ "mark" \in Place
      /\ UNCHANGED <<tries, mark, slot, last, todo, seen>>
      /\ tries' \in [Run -> 0..RetryCount]
  BY DEF StartImport, Go, Import, IInv, TypeOK, Place
<1>2. Touches(p) /\ pc'[p] = "mark" /\ todo'[p] = todo[p]
  <2>1. pc' \in [Run -> Place] /\ pc'[p] = "mark" /\ \A q \in Run \ {p} : pc'[q] = pc[q]
    BY <1>1 DEF TypeOK
  <2>2. QED
    BY <1>1, <2>1 DEF Touches, TypeOK
<1>3. RunInv(p)'
  <2>1. Import' = Import /\ IsInjective(todo'[p])
    BY <1>1, <1>2 DEF world, Import, IInv, RunInv
  <2>2. QED
    BY <1>2, <2>1 DEF RunInv
<1>4. QED
  BY <1>1, <1>2, <1>3, RunStep DEF Locks, Inserts

\* A step that ends p's run or attempt, whatever it has inserted before.
LEMMA EndStep ==
    ASSUME IInv, NEW p \in Run, UNCHANGED world, Inserts(p),
           Exit(p, "failed") \/ Exit(p, "done") \/ (Retry(p) /\ p \in Import /\ p \in Active)
    PROVE  IInv'
BY EndFacts, RunStep

\* The mark is the newest time stored: past it, no strike is in a row of bo-import.
LEMMA ReadMarkStep ==
    ASSUME IInv, NEW p \in Import, ReadMark(p)
    PROVE  IInv'
<1>1. /\ p \in Run /\ TypeOK /\ UNCHANGED world /\ UNCHANGED table /\ p \in Active
      /\ Import' = Import /\ UNCHANGED <<time, rows>>
  BY DEF ReadMark, Import, IInv, Active, world, table
<1>2. CASE Retry(p)
  BY <1>1, <1>2, EndStep DEF Inserts
<1>3. ASSUME mark' = [mark EXCEPT ![p] = Latest(p)],
             slot' = [slot EXCEPT ![p] = Latest(p) \div Granularity],
             last' = [last EXCEPT ![p] = now \div Granularity],
             todo' = [todo EXCEPT ![p] = << >>],
             seen' = [seen EXCEPT ![p] = {}],
             Go(p, "fetch"), UNCHANGED tries
      PROVE  IInv'
  <2>1. /\ Latest(p) \in Int /\ Latest(p) \div Granularity \in Int
        /\ now \div Granularity \in Int
    <3>1. Latest(p) \in Int /\ now \in Int /\ Granularity \in Nat \ {0}
      <4>1. Latest(p) \in Int
        BY <1>1, LatestFacts
      <4>2. QED
        BY <1>1, <4>1, ImportersAssumption DEF ImportersAssumption, TypeOK
    <3>2. QED
      BY <3>1
  <2>2. /\ "fetch" \in Place /\ << >> \in Seq(Strike) /\ {} \in SUBSET Strike
        /\ pc' = [pc EXCEPT ![p] = "fetch"] /\ tries' \in [Run -> 0..RetryCount]
    BY <1>1, <1>3 DEF Place, Go, TypeOK
  <2>3. /\ Touches(p) /\ pc'[p] = "fetch" /\ mark'[p] = Latest(p)
        /\ todo'[p] = << >> /\ seen'[p] = {}
    BY <1>1, <1>3, <2>1, <2>2, TouchFacts
  <2>4. AttemptFresh(p)'
    <3>1. ToSet(todo'[p]) = {}
      BY <2>3 DEF ToSet
    <3>2. ASSUME NEW s \in Strike, time'[s] > mark'[p]
          PROVE  \A i \in DOMAIN rows'[s] : rows'[s][i] \notin Import'
      <4>1. \A r \in Stored : time[r] <= Latest(p)
        BY <1>1, LatestFacts
      <4>2. time[s] \in Int /\ Latest(p) \in Int /\ time[s] > Latest(p)
        BY <1>1, <2>1, <2>3, <3>2 DEF TypeOK
      <4>3. s \notin Stored
        BY <4>1, <4>2
      <4>4. rows[s] = << >>
        BY <4>3 DEF Stored
      <4>5. QED
        BY <1>1, <4>4
    <3>3. QED
      BY <3>1, <3>2 DEF AttemptFresh, Wanted, NoRow
  <2>5. AttemptKeeps(p)'
    BY <2>3 DEF AttemptKeeps
  <2>6. RunInv(p)'
    BY <1>1, <2>3, <2>4, <2>5 DEF RunInv, IsInjective, Update
  <2>7. QED
    BY <1>1, <2>3, <2>6, RunStep DEF Locks, Inserts
<1>4. QED
  BY <1>2, <1>3 DEF ReadMark

\* What an attempt that goes on has to know afterwards.
LEMMA FetchOn ==
    ASSUME IInv, NEW p \in Import, pc[p] = "fetch", UNCHANGED <<world, pc, tries, mark, last>>,
           Inserts(p), NEW k \in Int, NEW t \in Seq(Strike), NEW S \in SUBSET Strike,
           slot' = [slot EXCEPT ![p] = k], todo' = [todo EXCEPT ![p] = t],
           seen' = [seen EXCEPT ![p] = S],
           IsInjective(t),
           \A s \in ToSet(t) : Wanted(p, s) /\ SlotOf(s) < k,
           \A s \in Strike : Wanted(p, s) /\ (SlotOf(s) >= k \/ s \in ToSet(t)) =>
               \A i \in DOMAIN rows'[s] : rows'[s][i] \notin Import,
           \A s \in S : Wanted(p, s) => s \in Stored' \/ s \in ToSet(t)
    PROVE  IInv'
<1>1. /\ p \in Run /\ TypeOK /\ p \in Active /\ Import' = Import /\ Update' = Update
      /\ UNCHANGED time /\ tries' \in [Run -> 0..RetryCount] /\ p \notin Update
  BY DEF Import, Update, IInv, TypeOK, Active, world
<1>2. /\ Touches(p) /\ pc'[p] = "fetch" /\ mark'[p] = mark[p] /\ slot'[p] = k
      /\ todo'[p] = t /\ seen'[p] = S
  <2>1. slot' \in [Run -> Int] /\ slot'[p] = k /\ \A q \in Run \ {p} : slot'[q] = slot[q]
    BY <1>1 DEF TypeOK
  <2>2. todo' \in [Run -> Seq(Strike)] /\ todo'[p] = t /\ \A q \in Run \ {p} : todo'[q] = todo[q]
    BY <1>1 DEF TypeOK
  <2>3. /\ seen' \in [Run -> SUBSET Strike] /\ seen'[p] = S
        /\ \A q \in Run \ {p} : seen'[q] = seen[q]
    BY <1>1 DEF TypeOK
  <2>4. QED
    BY <1>1, <2>1, <2>2, <2>3 DEF Touches, TypeOK
<1>3. \A s : Wanted(p, s)' = Wanted(p, s) /\ SlotOf(s)' = SlotOf(s)
  BY <1>1, <1>2 DEF Wanted, SlotOf
<1>4. AttemptFresh(p)' /\ AttemptKeeps(p)'
  BY <1>1, <1>2, <1>3 DEF AttemptFresh, AttemptKeeps, Ahead, NoRow
<1>5. RunInv(p)'
  BY <1>1, <1>2, <1>4 DEF RunInv
<1>6. QED
  BY <1>1, <1>2, <1>5, RunStep DEF Locks

\* A download of one slot puts into the run's hands what is past the mark, once.
LEMMA FetchStep ==
    ASSUME IInv, NEW p \in Import, Fetch(p)
    PROVE  IInv'
<1>1. /\ p \in Run /\ TypeOK /\ UNCHANGED world /\ UNCHANGED table /\ Inserts(p)
      /\ p \in Active /\ pc[p] = "fetch" /\ slot[p] <= last[p] /\ UNCHANGED rows
      /\ Stored' = Stored
  BY DEF Fetch, Import, IInv, Active, table, Inserts, Stored
<1>2. /\ IsInjective(todo[p]) /\ todo[p] \in Seq(Strike) /\ seen[p] \in SUBSET Strike
      /\ slot[p] \in Int /\ last[p] \in Int
      /\ \A s \in ToSet(todo[p]) : Wanted(p, s) /\ SlotOf(s) < slot[p]
      /\ \A s \in Strike : Wanted(p, s) /\ (SlotOf(s) >= slot[p] \/ s \in ToSet(todo[p])) =>
            \A i \in DOMAIN rows[s] : rows[s][i] \notin Import
      /\ \A s \in seen[p] : Wanted(p, s) => s \in Stored \/ s \in ToSet(todo[p])
  BY <1>1 DEF IInv, RunInv, TypeOK, AttemptFresh, AttemptKeeps, Ahead, NoRow
<1>3. \A s \in Strike : SlotOf(s) \in Int
  <2>1. \A s \in Strike : time[s] \in Int
    BY <1>1 DEF TypeOK
  <2>2. Granularity \in Nat \ {0}
    BY ImportersAssumption DEF ImportersAssumption
  <2>3. QED
    BY <2>1, <2>2 DEF SlotOf
<1>4. \A s \in ToSet(todo[p]) : s \in Strike
  BY <1>2 DEF ToSet
<1> DEFINE L == {s \in Lines(slot[p]) : Wanted(p, s)}
           A == Among(log, L)
<1>5. /\ A \in Seq(Strike) /\ ToSet(A) = L /\ IsInjective(A)
      /\ L \subseteq Strike /\ Lines(slot[p]) \subseteq Strike
  <2>1. log \in Seq(Strike) /\ IsInjective(log)
    BY <1>1 DEF IInv, TypeOK
  <2>2. ToSet(log) \subseteq Strike /\ L \subseteq ToSet(log) /\ Lines(slot[p]) \subseteq ToSet(log)
    BY <2>1 DEF ToSet, Lines
  <2> HIDE DEF L
  <2>3. QED
    <3>1. A \in Seq(Strike) /\ ToSet(A) = ToSet(log) \cap L /\ IsInjective(A)
      BY <2>1, AmongFacts
    <3>2. QED
      BY <2>2, <3>1
<1>6. \A s \in L : Wanted(p, s) /\ SlotOf(s) = slot[p]
  BY DEF Lines
<1>7. ASSUME todo' = [todo EXCEPT ![p] = todo[p] \o A],
             seen' = [seen EXCEPT ![p] = seen[p] \cup Lines(slot[p])],
             slot' = [slot EXCEPT ![p] = slot[p] + 1],
             UNCHANGED <<pc, tries, mark, last>>
      PROVE  IInv'
  <2> DEFINE t == todo[p] \o A
             k == slot[p] + 1
             S == seen[p] \cup Lines(slot[p])
  <2>1. ToSet(todo[p]) \cap ToSet(A) = {}
    BY <1>2, <1>4, <1>3, <1>5, <1>6
  <2>2. t \in Seq(Strike) /\ ToSet(t) = ToSet(todo[p]) \cup L /\ IsInjective(t)
    <3> DEFINE a == todo[p]
    <3>1. a \in Seq(Strike) /\ A \in Seq(Strike) /\ IsInjective(a) /\ IsInjective(A)
          /\ ToSet(a) \cap ToSet(A) = {} /\ ToSet(A) = L
      BY <1>2, <1>5, <2>1
    <3> HIDE DEF a, A, L
    <3>2. a \o A \in Seq(Strike) /\ ToSet(a \o A) = ToSet(a) \cup L /\ IsInjective(a \o A)
      BY <3>1, ConcatFacts
    <3>3. QED
      BY <3>2 DEF a
  <2>3. k \in Int /\ S \in SUBSET Strike
    BY <1>2, <1>5
  <2>4. \A s \in ToSet(t) : Wanted(p, s) /\ SlotOf(s) < k
    BY <1>2, <1>3, <1>4, <1>5, <1>6, <2>2
  <2>5. \A s \in Strike : Wanted(p, s) /\ (SlotOf(s) >= k \/ s \in ToSet(t)) =>
            \A i \in DOMAIN rows'[s] : rows'[s][i] \notin Import
    <3>1. ASSUME NEW s \in Strike, SlotOf(s) >= k \/ s \in ToSet(t)
          PROVE  SlotOf(s) >= slot[p] \/ s \in ToSet(todo[p])
      BY <1>2, <1>3, <1>6, <2>2, <3>1
    <3>2. QED
      BY <1>1, <1>2, <3>1
  <2>6. \A s \in S : Wanted(p, s) => s \in Stored' \/ s \in ToSet(t)
    BY <1>1, <1>2, <2>2
  <2>7. /\ slot' = [slot EXCEPT ![p] = k] /\ todo' = [todo EXCEPT ![p] = t]
        /\ seen' = [seen EXCEPT ![p] = S] /\ UNCHANGED <<world, pc, tries, mark, last>>
    BY <1>1, <1>7
  <2> HIDE DEF t, k, S, A, L
  <2>8. QED
    BY <1>1, <2>2, <2>3, <2>4, <2>5, <2>6, <2>7, FetchOn
<1>8. ASSUME NEW k \in {slot[p] + 1, last[p] + 1}, slot' = [slot EXCEPT ![p] = k],
             UNCHANGED <<pc, tries, mark, last, todo, seen>>
      PROVE  IInv'
  <2>1. k \in Int /\ slot[p] < k
    BY <1>1, <1>2, <1>8
  <2>2. \A s \in ToSet(todo[p]) : Wanted(p, s) /\ SlotOf(s) < k
    BY <1>2, <1>3, <1>4, <2>1
  <2>3. \A s \in Strike : Wanted(p, s) /\ (SlotOf(s) >= k \/ s \in ToSet(todo[p])) =>
            \A i \in DOMAIN rows'[s] : rows'[s][i] \notin Import
    BY <1>1, <1>2, <1>3, <2>1
  <2> DEFINE t == todo[p]
             S == seen[p]
  <2>4. /\ todo' = [todo EXCEPT ![p] = t] /\ seen' = [seen EXCEPT ![p] = S]
        /\ UNCHANGED <<world, pc, tries, mark, last>>
    BY <1>1, <1>8 DEF TypeOK
  <2>5. /\ t \in Seq(Strike) /\ S \in SUBSET Strike /\ IsInjective(t)
        /\ \A s \in S : Wanted(p, s) => s \in Stored' \/ s \in ToSet(t)
        /\ \A s \in ToSet(t) : Wanted(p, s) /\ SlotOf(s) < k
        /\ \A s \in Strike : Wanted(p, s) /\ (SlotOf(s) >= k \/ s \in ToSet(t)) =>
                \A i \in DOMAIN rows'[s] : rows'[s][i] \notin Import
    BY <1>1, <1>2, <2>2, <2>3
  <2> HIDE DEF t, S
  <2>6. QED
    BY <1>1, <1>8, <2>1, <2>4, <2>5, FetchOn
<1>9. CASE Retry(p)
  BY <1>1, <1>9, EndStep
<1>10. QED
  BY <1>7, <1>8, <1>9 DEF Fetch

\* A batch takes from the list what it stores.
LEMMA InsertBatchStep ==
    ASSUME IInv, NEW p \in Import, InsertBatch(p)
    PROVE  IInv'
<1> DEFINE n == Min({Batch, Len(todo[p])})
           S == ToSet(SubSeq(todo[p], 1, n))
           rest == SubSeq(todo[p], n + 1, Len(todo[p]))
<1>1. /\ p \in Run /\ TypeOK /\ UNCHANGED world /\ UNCHANGED liveAt
      /\ p \in Active /\ pc[p] = "fetch" /\ p \notin Update
  BY DEF InsertBatch, Import, Update, IInv, Active
<1>2. /\ IsInjective(todo[p]) /\ todo[p] \in Seq(Strike) /\ seen[p] \in SUBSET Strike
      /\ slot[p] \in Int
      /\ \A s \in ToSet(todo[p]) : Wanted(p, s) /\ SlotOf(s) < slot[p]
      /\ \A s \in Strike : Wanted(p, s) /\ (SlotOf(s) >= slot[p] \/ s \in ToSet(todo[p])) =>
            NoRow(s, Import)
      /\ \A s \in seen[p] : Wanted(p, s) => s \in Stored \/ s \in ToSet(todo[p])
  BY <1>1 DEF IInv, RunInv, TypeOK, AttemptFresh, AttemptKeeps, Ahead
<1>3. n \in 0..Len(todo[p])
  <2>1. Batch \in Nat /\ Len(todo[p]) \in Nat
    BY <1>2, ImportersAssumption DEF ImportersAssumption
  <2>2. QED
    BY <2>1, MinOfTwo
<1>4. /\ rest \in Seq(Strike) /\ ToSet(todo[p]) = S \cup ToSet(rest) /\ S \in SUBSET Strike
      /\ IsInjective(rest) /\ S \cap ToSet(rest) = {}
  <2> HIDE DEF n
  <2>1. QED
    BY <1>2, <1>3, SplitFacts
<1> HIDE DEF S, rest, n
<1>5. Fresh(p, S)
  BY <1>1, <1>2, <1>4 DEF Fresh
<1>6. ASSUME InsertRows(S, p) \/ UNCHANGED rows, Retry(p)
      PROVE  IInv'
  <2>1. Inserts(p)
    BY <1>1, <1>5, <1>6 DEF Inserts, table
  <2>2. QED
    BY <1>1, <1>6, <2>1, EndStep
<1>7. ASSUME InsertRows(S, p), todo' = [todo EXCEPT ![p] = rest],
             UNCHANGED <<pc, tries, mark, slot, last, seen>>
      PROVE  IInv'
  <2>1. Inserts(p) /\ p \in Run \cup {Live}
    BY <1>1, <1>5, <1>7 DEF Inserts
  <2>2. Stored' = Stored \cup S
    BY <1>1, <1>4, <1>7, <2>1, InsertFacts
  <2> DEFINE k == slot[p]
             R == seen[p]
  <2>3. /\ slot' = [slot EXCEPT ![p] = k] /\ seen' = [seen EXCEPT ![p] = R]
        /\ UNCHANGED <<world, pc, tries, mark, last>> /\ k \in Int /\ R \in SUBSET Strike
    BY <1>1, <1>2, <1>7 DEF TypeOK
  <2>4. \A s \in ToSet(rest) : Wanted(p, s) /\ SlotOf(s) < k
    BY <1>2, <1>4
  <2>5. \A s \in R : Wanted(p, s) => s \in Stored' \/ s \in ToSet(rest)
    BY <1>2, <1>4, <2>2
  <2>6. \A s \in Strike : SlotOf(s) \in Int
    <3>1. \A s \in Strike : time[s] \in Int
      BY <1>1 DEF TypeOK
    <3>2. Granularity \in Nat \ {0}
      BY ImportersAssumption DEF ImportersAssumption
    <3>3. QED
      BY <3>1, <3>2 DEF SlotOf
  <2>7. ASSUME NEW s \in Strike, Wanted(p, s), SlotOf(s) >= k \/ s \in ToSet(rest)
        PROVE  \A i \in DOMAIN rows'[s] : rows'[s][i] \notin Import
    <3>1. NoRow(s, Import)
      BY <1>2, <1>4, <2>7
    <3>2. s \notin S
      BY <1>2, <1>4, <2>6, <2>7
    <3>3. QED
      BY <1>1, <1>4, <1>7, <2>1, <3>1, <3>2, StillNoRow
  <2> HIDE DEF k, R
  <2>8. QED
    BY <1>1, <1>4, <1>7, <2>1, <2>3, <2>4, <2>5, <2>7, FetchOn
<1>8. QED
  BY <1>6, <1>7 DEF InsertBatch, n, S, rest

\* Every step of an attempt of bo-import preserves the invariant.
LEMMA ImportSteps ==
    ASSUME IInv, NEW p \in Import, ImportStep(p)
    PROVE  IInv'
<1>1. CASE FinishImport(p)
  <2>1. p \in Run /\ UNCHANGED world /\ Inserts(p) /\ Exit(p, "done")
    BY <1>1 DEF FinishImport, Import, Inserts
  <2>2. QED
    BY <2>1, EndStep
<1>2. QED
  BY <1>1, StartImportStep, ReadMarkStep, FetchStep, InsertBatchStep DEF ImportStep
-----------------------------------------------------------------------------
(* bo-update *)

\* What a run that goes on has to know afterwards.
LEMMA UpdateOn ==
    ASSUME IInv, NEW p \in Update, UNCHANGED <<world, tries, slot, last, seen>>,
           Locks(p), Inserts(p),
           NEW place \in {"fetch", "keys", "insert"}, NEW m \in Int, NEW t \in Seq(Strike),
           pc' = [pc EXCEPT ![p] = place], mark' = [mark EXCEPT ![p] = m],
           todo' = [todo EXCEPT ![p] = t],
           IsInjective(t), m <= now,
           place = "insert" =>
               \A s \in ToSet(t) :
                   /\ m - Hours <= time[s] /\ time[s] < m - 1
                   /\ \A i \in DOMAIN rows'[s] : rows'[s][i] \notin Update
                   /\ liveAt'[s] = -1 \/ liveAt'[s] >= m
    PROVE  IInv'
<1>1. /\ p \in Run /\ TypeOK /\ Import' = Import /\ Update' = Update /\ p \notin Import
      /\ UNCHANGED <<time, now>> /\ place \in Place
  BY DEF Import, Update, IInv, world, Place
<1>2. pc' \in [Run -> Place] /\ pc'[p] = place /\ \A q \in Run \ {p} : pc'[q] = pc[q]
  BY <1>1 DEF TypeOK
<1>3. mark' \in [Run -> Int] /\ mark'[p] = m /\ \A q \in Run \ {p} : mark'[q] = mark[q]
  BY <1>1 DEF TypeOK
<1>4. todo' \in [Run -> Seq(Strike)] /\ todo'[p] = t /\ \A q \in Run \ {p} : todo'[q] = todo[q]
  BY <1>1 DEF TypeOK
<1>5. Touches(p)
  BY <1>1, <1>2, <1>3, <1>4 DEF Touches, TypeOK
<1>6. place = "insert" => UpdateFresh(p)'
  BY <1>1, <1>3, <1>4 DEF UpdateFresh, Due, NoRow
<1>7. RunInv(p)'
  BY <1>1, <1>2, <1>3, <1>4, <1>6 DEF RunInv
<1>8. QED
  BY <1>1, <1>5, <1>7, RunStep

\* Every step of a run of bo-update preserves the invariant.
LEMMA UpdateSteps ==
    ASSUME IInv, NEW p \in Update, UpdateStep(p)
    PROVE  IInv'
<1> DEFINE t == todo[p]
           m == mark[p]
<1>1. /\ p \in Run /\ TypeOK /\ p \notin Import /\ UNCHANGED world
      /\ t \in Seq(Strike) /\ IsInjective(t) /\ m \in Int /\ now \in Int
      /\ pc[p] \in {"fetch", "keys", "insert"} => m <= now /\ p \in Active
  <2>1. p \in Run /\ TypeOK /\ p \notin Import /\ RunInv(p)
    BY DEF Import, Update, IInv
  <2>2. UNCHANGED world
    BY DEF UpdateStep, StartUpdate, Download, SelectKeys, InsertChunk, FinishUpdate
  <2>3. t \in Seq(Strike) /\ IsInjective(t) /\ m \in Int /\ now \in Int
    BY <2>1 DEF RunInv, TypeOK
  <2>4. pc[p] \in {"fetch", "keys", "insert"} => m <= now /\ p \in Active
    BY <2>1 DEF RunInv, Active
  <2>5. QED
    BY <2>1, <2>2, <2>3, <2>4
<1>2. ASSUME StartUpdate(p) PROVE IInv'
  <2>1. /\ Locks(p) /\ Inserts(p) /\ UNCHANGED <<tries, slot, last, seen>>
        /\ pc' = [pc EXCEPT ![p] = "fetch"] /\ mark' = [mark EXCEPT ![p] = now]
    BY <1>2 DEF StartUpdate, Locks, Inserts, Go
  <2>2. todo' = [todo EXCEPT ![p] = t]
    BY <1>1, <1>2 DEF StartUpdate, TypeOK
  <2>3. now <= now
    BY <1>1
  <2> HIDE DEF t
  <2>4. QED
    BY <1>1, <2>1, <2>2, <2>3, UpdateOn
<1>3. ASSUME Download(p) PROVE IInv'
  <2>1. pc[p] = "fetch" /\ p \in Active /\ m <= now /\ Inserts(p) /\ Locks(p)
    BY <1>1, <1>3 DEF Download, Inserts, Locks
  <2>2. CASE Exit(p, "failed")
    BY <1>1, <2>1, <2>2, EndStep
  <2>3. CASE ~Exit(p, "failed")
    <3> DEFINE a == Among(log, {s \in Strike : time[s] >= mark[p] - Hours})
    <3>1. /\ todo' = [todo EXCEPT ![p] = a] /\ pc' = [pc EXCEPT ![p] = "keys"]
          /\ UNCHANGED <<tries, mark, slot, last, seen>>
      BY <1>3, <2>3 DEF Download, Go
    <3>2. a \in Seq(Strike) /\ IsInjective(a)
      <4>1. log \in Seq(Strike) /\ IsInjective(log)
        BY DEF IInv, TypeOK
      <4>2. QED
        BY <4>1, AmongFacts
    <3>3. mark' = [mark EXCEPT ![p] = m]
      BY <1>1, <3>1 DEF TypeOK
    <3> HIDE DEF a, m
    <3>4. QED
      BY <1>1, <2>1, <3>1, <3>2, <3>3, UpdateOn
  <2>4. QED
    BY <2>2, <2>3
<1>4. ASSUME SelectKeys(p) PROVE IInv'
  <2>1. /\ pc[p] = "keys" /\ p \in Active /\ m <= now /\ Inserts(p) /\ Locks(p)
        /\ UNCHANGED <<rows, liveAt>>
    BY <1>1, <1>4 DEF SelectKeys, Inserts, Locks, table
  <2>2. CASE Exit(p, "failed")
    BY <1>1, <2>1, <2>2, EndStep
  <2>3. CASE ~Exit(p, "failed")
    <3> DEFINE D == {s \in Strike \ Stored : Due(p, s)}
               a == Among(t, D)
    <3>1. /\ todo' = [todo EXCEPT ![p] = a] /\ pc' = [pc EXCEPT ![p] = "insert"]
          /\ UNCHANGED <<tries, mark, slot, last, seen>>
      BY <1>4, <2>3 DEF SelectKeys, Go
    <3>2. \A s \in D : /\ m - Hours <= time[s] /\ time[s] < m - 1
                       /\ \A i \in DOMAIN rows'[s] : rows'[s][i] \notin Update
                       /\ liveAt'[s] = -1 \/ liveAt'[s] >= m
      <4> SUFFICES ASSUME NEW s \in Strike, s \notin Stored, Due(p, s)
                   PROVE  /\ m - Hours <= time[s] /\ time[s] < m - 1
                          /\ \A i \in DOMAIN rows'[s] : rows'[s][i] \notin Update
                          /\ liveAt'[s] = -1 \/ liveAt'[s] >= m
        OBVIOUS
      <4>1. rows[s] = << >> /\ liveAt[s] = -1
        BY DEF Stored, IInv, TableInv, LiveStored
      <4>2. QED
        BY <2>1, <4>1 DEF Due
    <3>3. mark' = [mark EXCEPT ![p] = m]
      BY <1>1, <3>1 DEF TypeOK
    <3> HIDE DEF D, t, m
    <3>4. a \in Seq(Strike) /\ ToSet(a) = ToSet(t) \cap D /\ IsInjective(a)
      BY <1>1, AmongFacts
    <3>5. \A s \in ToSet(a) : /\ m - Hours <= time[s] /\ time[s] < m - 1
                              /\ \A i \in DOMAIN rows'[s] : rows'[s][i] \notin Update
                              /\ liveAt'[s] = -1 \/ liveAt'[s] >= m
      BY <3>2, <3>4
    <3> HIDE DEF a
    <3>6. QED
      BY <1>1, <2>1, <3>1, <3>3, <3>4, <3>5, UpdateOn
  <2>4. QED
    BY <2>2, <2>3
<1>5. ASSUME InsertChunk(p) PROVE IInv'
  <2> DEFINE n == Min({Chunk, Len(t)})
             S == ToSet(SubSeq(t, 1, n))
             rest == SubSeq(t, n + 1, Len(t))
  <2>1. /\ pc[p] = "insert" /\ p \in Active /\ m <= now /\ UNCHANGED liveAt /\ Locks(p)
    BY <1>1, <1>5 DEF InsertChunk, Locks
  <2>2. n \in 0..Len(t)
    <3>1. Chunk \in Nat /\ Len(t) \in Nat
      BY <1>1, ImportersAssumption DEF ImportersAssumption
    <3>2. QED
      BY <3>1, MinOfTwo
  <2>3. /\ rest \in Seq(Strike) /\ ToSet(t) = S \cup ToSet(rest) /\ S \in SUBSET Strike
        /\ IsInjective(rest) /\ S \cap ToSet(rest) = {}
    <3> HIDE DEF n, t
    <3>1. QED
      BY <1>1, <2>2, SplitFacts
  <2>4. ToSet(rest) \subseteq Strike /\ ToSet(rest) \subseteq ToSet(t)
    <3> HIDE DEF S, rest, t
    <3>1. ToSet(rest) \subseteq Strike
      BY <2>3 DEF ToSet
    <3>2. ToSet(rest) \subseteq ToSet(t)
      BY <2>3
    <3>3. QED
      BY <3>1, <3>2
  <2>5. \A s \in ToSet(t) : /\ m - Hours <= time[s] /\ time[s] < m - 1
                            /\ NoRow(s, Update)
                            /\ liveAt[s] = -1 \/ liveAt[s] >= m
    BY <1>1, <2>1 DEF IInv, RunInv, UpdateFresh, Due
  <2>6. InsertChunk(p) => \/ /\ InsertRows(S, p)
                             /\ todo' = [todo EXCEPT ![p] = rest]
                             /\ UNCHANGED <<pc, tries, mark, slot, last, seen>>
                          \/ /\ InsertRows(S, p) \/ UNCHANGED rows
                             /\ Exit(p, "failed")
    BY DEF InsertChunk
  <2> HIDE DEF S, rest, n
  <2>7. Fresh(p, S)
    <3>1. ASSUME NEW s \in S
          PROVE  NoRow(s, Update) /\ time[s] + 1 < now /\ (liveAt[s] = -1 \/ liveAt[s] > time[s] + 1)
      <4>1. s \in Strike /\ s \in ToSet(t)
        BY <2>3
      <4>2. time[s] \in Int /\ liveAt[s] \in Int
        BY <1>1, <4>1 DEF TypeOK
      <4>3. QED
        BY <1>1, <2>1, <2>5, <4>1, <4>2
    <3>2. QED
      BY <1>1, <2>1, <2>3, <3>1 DEF Fresh
  <2>8. ASSUME InsertRows(S, p) \/ UNCHANGED rows, Exit(p, "failed")
        PROVE  IInv'
    <3>1. Inserts(p)
      BY <2>1, <2>7, <2>8 DEF Inserts, table
    <3>2. QED
      BY <1>1, <2>8, <3>1, EndStep
  <2>9. ASSUME InsertRows(S, p), todo' = [todo EXCEPT ![p] = rest],
               UNCHANGED <<pc, tries, mark, slot, last, seen>>
        PROVE  IInv'
    <3>1. Inserts(p) /\ p \in Run \cup {Live}
      BY <1>1, <2>1, <2>7, <2>9 DEF Inserts
    <3>2. mark' = [mark EXCEPT ![p] = m] /\ pc' = [pc EXCEPT ![p] = "insert"]
      BY <1>1, <2>1, <2>9 DEF TypeOK
    <3>3. ASSUME NEW s \in ToSet(rest)
          PROVE  /\ m - Hours <= time[s] /\ time[s] < m - 1
                 /\ \A i \in DOMAIN rows'[s] : rows'[s][i] \notin Update
                 /\ liveAt'[s] = -1 \/ liveAt'[s] >= m
      <4>1. s \in Strike /\ s \in ToSet(t) /\ s \notin S
        BY <2>3, <2>4
      <4>2. \A i \in DOMAIN rows'[s] : rows'[s][i] \notin Update
        BY <1>1, <2>3, <2>5, <2>9, <3>1, <4>1, StillNoRow
      <4>3. QED
        BY <2>1, <2>5, <4>1, <4>2
    <3> HIDE DEF t, m
    <3>4. QED
      BY <1>1, <2>1, <2>3, <2>9, <3>1, <3>2, <3>3, UpdateOn
  <2>10. QED
    BY <1>5, <2>6, <2>8, <2>9
<1>6. ASSUME FinishUpdate(p) PROVE IInv'
  <2>1. Inserts(p) /\ Exit(p, "done")
    BY <1>6 DEF FinishUpdate, Inserts
  <2>2. QED
    BY <1>1, <2>1, EndStep
<1>7. QED
  BY <1>2, <1>3, <1>4, <1>5, <1>6 DEF UpdateStep
-----------------------------------------------------------------------------
(* The invariant, and what it shows *)

\* At the start the inductive invariant holds.
LEMMA InvInit == Init => IInv
<1> SUFFICES ASSUME Init
             PROVE  IInv
  OBVIOUS
<1> USE ImportersAssumption DEF ImportersAssumption
<1>1. TypeOK
  <2>1. /\ now \in 0..MaxTime /\ tries \in [Run -> 0..RetryCount]
        /\ liveAt \in [Strike -> (-1)..MaxTime]
    BY DEF Init
  <2>2. /\ log \in Seq(Strike) /\ rows \in [Strike -> Seq(Run \cup {Live})]
        /\ todo \in [Run -> Seq(Strike)] /\ seen \in [Run -> SUBSET Strike]
        /\ option \in [Run -> BOOLEAN] /\ pc \in [Run -> Place] /\ Active = {}
    BY DEF Init, Place, Active
  <2>3. QED
    BY <2>1, <2>2 DEF Init, TypeOK
<1>2. IsInjective(log)
  BY DEF Init, IsInjective
<1>3. TableInv
  BY DEF Init, TableInv, LiveStored, UpdatedLate, InsertedOnce, TwiceOnlyIfLate,
         NoRow, RowsBy, Stored
<1>4. ASSUME NEW p \in Run PROVE RunInv(p)
  BY DEF Init, RunInv, IsInjective
<1>5. QED
  BY <1>1, <1>2, <1>3, <1>4 DEF IInv

\* Every step preserves the inductive invariant.
LEMMA InvStep == IInv /\ [Next]_vars => IInv'
<1> SUFFICES ASSUME IInv, [Next]_vars
             PROVE  IInv'
  OBVIOUS
<1>1. ASSUME NEW p \in Run, GiveUp(p) \/ Crash(p) PROVE IInv'
  <2>1. UNCHANGED world /\ Inserts(p) /\ Exit(p, "failed")
    BY <1>1 DEF GiveUp, Crash, Inserts
  <2>2. QED
    BY <2>1, EndStep
<1>2. CASE UNCHANGED vars
  BY <1>2 DEF vars, world, table, IInv, TypeOK, Active, TableInv, LiveStored, UpdatedLate,
              InsertedOnce, TwiceOnlyIfLate, NoRow, RowsBy, Stored, RunInv, AttemptFresh,
              AttemptKeeps, UpdateFresh, Import, Update, Wanted, Due, SlotOf, Ahead, ToSet
<1>3. QED
  BY <1>1, <1>2, TickStep, PublishStep, MessageStep, ImportSteps, UpdateSteps DEF Next, Step

\* What is known of the table and of every run holds in every state.
THEOREM Invariance == Spec => []IInv
  BY InvInit, InvStep, PTL DEF Spec

\* Whatever runs are started, killed or retried, two runs of one program are
\* never inside it at a time, and no run retries more often than it may.
THEOREM TypeCorrect == Spec => []TypeOK
<1>1. IInv => TypeOK
  BY DEF IInv
<1>2. QED
  BY <1>1, Invariance, PTL

\* No program inserts a strike twice: bo-import never, with any number of
\* retries after lost answers and of crashes between batches, nor bo-update.
THEOREM NoneTwice == Spec => []InsertedOnce
<1>1. IInv => InsertedOnce
  BY DEF IInv, TableInv
<1>2. QED
  BY <1>1, Invariance, PTL

\* A strike that bo-update and the websocket have both inserted came over the
\* websocket more than a minute late, whenever the window was selected.
THEOREM TwiceIsLate == Spec => []TwiceOnlyIfLate
<1>1. IInv => TwiceOnlyIfLate
  BY DEF IInv, TableInv
<1>2. QED
  BY <1>1, Invariance, PTL

\* An import run that ends well has inserted, or found stored, all that the
\* files of its last attempt had past the mark, for any batch and file length.
THEOREM AllIsStored == Spec => NothingLeftBehind
<1> DEFINE Kept == \A p \in Import : Finishes(p) =>
                       \A s \in seen[p] : time[s] > mark[p] => s \in Stored
<1>1. IInv /\ [Next]_vars => [Kept]_vars
  <2> SUFFICES ASSUME IInv, Next, NEW p \in Import, Finishes(p),
                      NEW s \in seen[p], time[s] > mark[p]
               PROVE  s \in Stored
    OBVIOUS
  <2>1. p \in Run /\ pc[p] # "done" /\ pc'[p] = "done" /\ pc \in [Run -> Place]
    BY DEF Import, Finishes, IInv, TypeOK
  <2>2. FinishImport(p)
    <3>1. PICK q \in Run : Step(q) \/ GiveUp(q) \/ Crash(q)
      BY <2>1 DEF Next, Tick, Publish, Message
    <3>2. q = p
      BY <2>1, <3>1 DEF Step, ImportStep, UpdateStep, StartImport, ReadMark, Fetch, InsertBatch,
         FinishImport, StartUpdate, Download, SelectKeys, InsertChunk, FinishUpdate, GiveUp,
         Crash, Exit, Retry, Again, Go
    <3>3. p \notin Update
      BY DEF Update
    <3>4. QED
      BY <2>1, <3>1, <3>2, <3>3 DEF Step, ImportStep, StartImport, ReadMark, Fetch, InsertBatch,
         GiveUp, Crash, Exit, Retry, Again, Go
  <2>3. AttemptKeeps(p) /\ Wanted(p, s)
    BY <2>1, <2>2 DEF FinishImport, IInv, RunInv, Wanted
  <2>4. todo[p] = << >>
    BY <2>2 DEF FinishImport, BatchReady
  <2>5. QED
    BY <2>3, <2>4 DEF AttemptKeeps, ToSet
<1>2. QED
  BY <1>1, Invariance, PTL DEF Spec, NothingLeftBehind

------------------------------------------------------------------------------
(* The text of a websocket message *)

Texts == Seq(Char)

\* The text is the strings of `parts` one after the other, where string i ends
\* at cut[i + 1], and the table has of each two neighbours the first with the
\* first character of the second.
Parse(parts, cut) ==
    /\ parts \in Seq(Texts)
    /\ cut \in [1..(Len(parts) + 1) -> Nat]
    /\ cut[1] = 0 /\ cut[Len(parts) + 1] = Len(text)
    /\ \A i \in 1..Len(parts) :
          /\ parts[i] # << >>
          /\ cut[i + 1] = cut[i] + Len(parts[i]) /\ cut[i + 1] <= Len(text)
          /\ \A k \in 1..Len(parts[i]) : text[cut[i] + k] = parts[i][k]
    /\ DOMAIN learnt = 1..(Len(parts) - 1)
    /\ \A i \in 1..(Len(parts) - 1) : learnt[i] = Append(parts[i], parts[i + 1][1])

\* A code for string i: a character, or a place in the table that the server
\* had filled before the string was sent.
Stands(code, parts, i) ==
    \/ code.kind = "char" /\ parts[i] = << code.n >>
    \/ code.kind = "table" /\ code.n \in 1..(i - 1) /\ parts[i] = learnt[code.n]

\* All strings but the last, which the server still extends, are sent.
Encoding(parts) ==
    /\ parts = << >> => codes = << >> /\ string = << >>
    /\ parts # << >> =>
          /\ Len(codes) = Len(parts) - 1
          /\ string = parts[Len(parts)]
          /\ Known(string)
    /\ \A i \in DOMAIN codes : Stands(codes[i], parts, i)
    /\ e = << >> /\ f = << >> /\ g = << >>

\* decode has read m codes; the others stand for the strings from m + 1 on.
Decoding(parts, cut, m) ==
    /\ m \in 0..Len(parts) /\ Len(codes) = Len(parts) - m
    /\ \A j \in DOMAIN codes : Stands(codes[j], parts, m + j)
    /\ m = 0 => e = << >> /\ f = << >> /\ g = << >>
    /\ m > 0 =>
          /\ f = parts[m] /\ c = f[1]
          /\ Len(g) = cut[m + 1] /\ \A k \in 1..Len(g) : g[k] = text[k]
          /\ Len(e) = m - 1 /\ \A i \in 1..(m - 1) : e[i] = learnt[i]

TextTypes ==
    /\ reading \in {"encode", "decode", "decoded"}
    /\ text \in Texts /\ string \in Texts /\ g \in Texts
    /\ f \in Texts
    /\ learnt \in Seq(Texts) /\ e \in Seq(Texts)
    /\ codes \in Seq([kind : {"char", "table"}, n : Char \cup Nat])

TextInv ==
    /\ TextTypes
    /\ reading = "decoded" => g = text
    /\ reading # "decoded" =>
          \E parts \in Seq(Texts) : \E cut \in [1..(Len(parts) + 1) -> Nat] :
              /\ Parse(parts, cut)
              /\ reading = "encode" => Encoding(parts)
              /\ reading = "decode" => \E m \in 0..Len(parts) : Decoding(parts, cut, m)
-----------------------------------------------------------------------------
\* A sequence with one more element.
LEMMA Appended ==
    ASSUME NEW S, NEW t \in Seq(S), NEW x \in S
    PROVE  /\ Append(t, x) \in Seq(S) /\ Len(t) \in Nat
           /\ Len(Append(t, x)) = Len(t) + 1
           /\ \A k \in 1..Len(t) : Append(t, x)[k] = t[k]
           /\ Append(t, x)[Len(t) + 1] = x
           /\ Append(t, x) # << >>
           /\ t # << >> => Append(t, x)[1] = t[1]
<1>1. /\ Append(t, x) \in Seq(S) /\ Len(t) \in Nat
      /\ Len(Append(t, x)) = Len(t) + 1
      /\ \A k \in 1..Len(t) : Append(t, x)[k] = t[k]
      /\ Append(t, x)[Len(t) + 1] = x
  OBVIOUS
<1>2. Append(t, x) # << >>
  BY <1>1
<1>3. t # << >> => 1 \in 1..Len(t)
  OBVIOUS
<1> QED
  BY <1>1, <1>2, <1>3

\* Places within a stretch of b from a, which ends at d, and the one after it.
LEMMA Places ==
    ASSUME NEW a \in Nat, NEW b \in Nat, NEW d \in Nat
    PROVE  /\ a + b <= d => \A k \in 1..b : a + k \in 1..d
           /\ a + b = d => a + (b + 1) = d + 1
  OBVIOUS

\* Before anything is said there are no strings (textVars at the start of encode).
LEMMA InitHolds == TextInit => TextInv
<1> SUFFICES ASSUME TextInit PROVE TextInv
  OBVIOUS
<1> USE DEF TextInit
<1>1. TextTypes
  BY DEF TextTypes, Texts
<1> DEFINE parts == << >>
           cut == [i \in 1..1 |-> 0]
<1>2. parts \in Seq(Texts) /\ Len(parts) = 0 /\ cut \in [1..(Len(parts) + 1) -> Nat]
  OBVIOUS
<1>3. Parse(parts, cut)
  BY DEF Parse
<1>4. Encoding(parts)
  BY DEF Encoding
<1> HIDE DEF parts, cut
<1>5. \E ps \in Seq(Texts) : \E ct \in [1..(Len(ps) + 1) -> Nat] : Parse(ps, ct) /\ Encoding(ps)
  BY <1>2, <1>3, <1>4
<1> QED
  BY <1>1, <1>5 DEF TextInv

\* The last string is extended: nothing else of the parse changes.
LEMMA Extended ==
    ASSUME TextTypes, NEW char \in Char,
           NEW parts \in Seq(Texts), NEW cut \in [1..(Len(parts) + 1) -> Nat],
           Parse(parts, cut), Encoding(parts), parts # << >>,
           text' = Append(text, char), learnt' = learnt
    PROVE  \E p \in Seq(Texts) : \E ct \in [1..(Len(p) + 1) -> Nat] :
              /\ Parse(p, ct)'
              /\ Len(p) = Len(parts) /\ p[Len(p)] = Append(string, char)
              /\ \A i \in 1..(Len(parts) - 1) : p[i] = parts[i]
<1>a. string \in Texts /\ string \in Seq(Char)
  BY DEF TextTypes, Texts
<1>b. PICK s \in Seq(Char) : s = Append(string, char)
  BY <1>a, Appended
<1> DEFINE n == Len(parts)
           p == [parts EXCEPT ![n] = s]
           ct == [cut EXCEPT ![n + 1] = @ + 1]
<1>1. n \in Nat /\ n >= 1 /\ parts \in [1..n -> Texts] /\ DOMAIN parts = 1..n
  OBVIOUS
<1>2. string \in Texts /\ string = parts[n] /\ string # << >>
  BY <1>1 DEF Encoding, Parse, TextTypes
<1>3. s \in Texts /\ Len(s) = Len(string) + 1 /\ s # << >> /\ s[1] = string[1]
      /\ s[Len(string) + 1] = char /\ Len(string) \in Nat
      /\ \A k \in 1..Len(string) : s[k] = string[k]
  <2>1. /\ Len(string) \in Nat /\ Len(s) = Len(string) + 1
        /\ \A k \in 1..Len(string) : s[k] = string[k]
        /\ s[Len(string) + 1] = char /\ s # << >>
        /\ string # << >> => s[1] = string[1]
    BY <1>a, <1>b, Appended
  <2> QED
    BY <1>2, <2>1 DEF Texts
<1>4. /\ p \in Seq(Texts) /\ Len(p) = n
      /\ \A i \in 1..n : p[i] = IF i = n THEN s ELSE parts[i]
  BY <1>1, <1>3
<1>5. /\ ct \in [1..(n + 1) -> Nat]
      /\ \A i \in 1..(n + 1) : ct[i] = IF i = n + 1 THEN cut[n + 1] + 1 ELSE cut[i]
  BY <1>1, SMTT(20)
<1>6. Len(text) \in Nat /\ Len(text') = Len(text) + 1 /\ text'[Len(text) + 1] = char
      /\ \A k \in 1..Len(text) : text'[k] = text[k]
  BY Appended DEF TextTypes, Texts
<1>7. /\ cut[1] = 0 /\ cut[n + 1] = Len(text) /\ cut \in [1..(n + 1) -> Nat]
      /\ \A i \in 1..n : /\ parts[i] # << >>
                         /\ cut[i + 1] = cut[i] + Len(parts[i])
                         /\ cut[i + 1] <= Len(text)
                         /\ \A k \in 1..Len(parts[i]) : text[cut[i] + k] = parts[i][k]
      /\ DOMAIN learnt = 1..(n - 1)
      /\ \A i \in 1..(n - 1) : learnt[i] = Append(parts[i], parts[i + 1][1])
  BY DEF Parse
<1>8. \A i \in 1..n : Len(parts[i]) \in Nat
  BY <1>1 DEF Texts
<1> HIDE DEF p, ct, n
<1>9. \A i \in 1..n : p[i] # << >> /\ p[i][1] = parts[i][1]
  BY <1>2, <1>3, <1>4, <1>7
<1>10. ASSUME NEW i \in 1..n
       PROVE  /\ ct[i + 1] = ct[i] + Len(p[i]) /\ ct[i + 1] <= Len(text')
              /\ \A k \in 1..Len(p[i]) : text'[ct[i] + k] = p[i][k]
  <2>1. i \in Nat /\ i >= 1 /\ i <= n /\ ct[i] = cut[i] /\ cut[i] \in Nat
    <3>1. i \in 1..(n + 1) /\ i # n + 1 /\ i \in Nat /\ i >= 1 /\ i <= n
      BY <1>1
    <3> QED
      BY <3>1, <1>5, <1>7
  <2>2. CASE i = n
    <3>1. p[i] = s /\ ct[i + 1] = cut[i + 1] + 1 /\ Len(parts[i]) = Len(string)
      BY <1>1, <1>2, <1>4, <1>5, <2>2
    <3>2. cut[i] + Len(string) = Len(text)
      BY <1>7, <2>2, <3>1
    <3>3. ASSUME NEW k \in 1..Len(s) PROVE text'[cut[i] + k] = s[k]
      <4>1. CASE k = Len(string) + 1
        <5>1. cut[i] + k = Len(text) + 1
          <6>1. Len(string) \in Nat /\ Len(text) \in Nat /\ cut[i] \in Nat
            BY <2>1, <1>3, <1>6
          <6>2. \A a, b, d \in Nat : a + b = d => a + (b + 1) = d + 1
            BY Places
          <6>3. cut[i] + (Len(string) + 1) = Len(text) + 1
            BY <3>2, <6>1, <6>2, ZenonT(30)
          <6> QED
            BY <4>1, <6>3
        <5> QED
          BY <5>1, <4>1, <1>3, <1>6
      <4>2. CASE k # Len(string) + 1
        <5>1. k \in 1..Len(string) /\ cut[i] + k \in 1..Len(text)
          <6>1. /\ Len(string) \in Nat /\ Len(text) \in Nat /\ cut[i] \in Nat
                /\ k \in 1..(Len(string) + 1)
            BY <2>1, <1>3, <1>6
          <6>2. k \in 1..Len(string)
            <7>1. \A l \in Nat : \A j \in 1..(l + 1) : j # l + 1 => j \in 1..l
              OBVIOUS
            <7> QED
              BY <7>1, <6>1, <4>2, ZenonT(30)
          <6>3. \A a, b, d \in Nat : a + b = d => \A j \in 1..b : a + j \in 1..d
            OBVIOUS
          <6>4. cut[i] + k \in 1..Len(text)
            BY <6>1, <6>2, <3>2, SMTT(20)
          <6> QED
            BY <6>2, <6>4
        <5>2. text[cut[i] + k] = string[k]
          BY <5>1, <1>2, <1>7, <2>2
        <5> QED
          BY <5>1, <5>2, <1>3, <1>6
      <4> QED
        BY <4>1, <4>2
    <3>4. ct[i + 1] = cut[i] + Len(s) /\ ct[i + 1] <= Len(text')
      BY <3>1, <3>2, <2>1, <2>2, <1>3, <1>6, <1>7, SMTT(20)
    <3> QED
      BY <3>1, <3>3, <3>4, <2>1
  <2>3. CASE i # n
    <3>1. p[i] = parts[i] /\ ct[i + 1] = cut[i + 1]
      BY <1>1, <1>4, <1>5, <2>1, <2>3
    <3>2. ASSUME NEW k \in 1..Len(parts[i]) PROVE text'[cut[i] + k] = parts[i][k]
      <4>1. cut[i] + k \in 1..Len(text)
        <5>1. cut[i + 1] = cut[i] + Len(parts[i]) /\ cut[i + 1] <= Len(text)
              /\ Len(parts[i]) \in Nat
          BY <1>7, <1>8
        <5> QED
          BY <5>1, <1>6, <2>1, SMTT(20)
      <4> QED
        BY <4>1, <1>6, <1>7
    <3>3. ct[i + 1] = ct[i] + Len(p[i]) /\ ct[i + 1] <= Len(text')
      <4>1. cut[i + 1] = cut[i] + Len(parts[i]) /\ cut[i + 1] <= Len(text)
            /\ Len(parts[i]) \in Nat
        BY <1>7, <1>8
      <4>2. ct[i + 1] = ct[i] + Len(p[i])
        BY <4>1, <3>1, <2>1
      <4>3. Len(text) \in Nat /\ Len(text') = Len(text) + 1 /\ ct[i + 1] \in Nat
        BY <4>1, <3>1, <2>1, <1>6
      <4>4. ct[i + 1] <= Len(text)
        BY <4>1, <3>1
      <4> QED
        BY <4>2, <4>3, <4>4
    <3> QED
      BY <3>1, <3>2, <3>3, <2>1
  <2> QED
    BY <2>2, <2>3
<1>11. ct[1] = 0 /\ ct[n + 1] = Len(text')
  BY <1>1, <1>5, <1>6, <1>7
<1>12. \A i \in 1..(n - 1) : learnt[i] = Append(p[i], p[i + 1][1]) /\ p[i] = parts[i]
  <2> SUFFICES ASSUME NEW i \in 1..(n - 1)
               PROVE  learnt[i] = Append(p[i], p[i + 1][1]) /\ p[i] = parts[i]
    OBVIOUS
  <2>1. i \in 1..n /\ i + 1 \in 1..n /\ i # n
    BY <1>1
  <2> QED
    BY <2>1, <1>4, <1>7, <1>9
<1>13. Parse(p, ct)'
  <2>1. Len(p) = n
    BY <1>4
  <2> QED
  BY <2>1, <1>4, <1>5, <1>7, <1>9, <1>10, <1>11, <1>12 DEF Parse
<1>14. p[Len(p)] = s
  BY <1>1, <1>4
<1> QED
  BY <1>b, <1>4, <1>5, <1>12, <1>13, <1>14 DEF n

\* A new string is begun: the one before it is sent, and becomes known with
\* the character that did not belong to it.
LEMMA Begun ==
    ASSUME TextTypes, NEW char \in Char,
           NEW parts \in Seq(Texts), NEW cut \in [1..(Len(parts) + 1) -> Nat],
           Parse(parts, cut), Encoding(parts), parts # << >>,
           text' = Append(text, char),
           learnt' = Append(learnt, Append(string, char))
    PROVE  \E p \in Seq(Texts) : \E ct \in [1..(Len(p) + 1) -> Nat] :
              /\ Parse(p, ct)'
              /\ Len(p) = Len(parts) + 1 /\ p[Len(p)] = << char >>
              /\ \A i \in 1..Len(parts) : p[i] = parts[i]
<1>a. text \in Seq(Char) /\ string \in Texts /\ learnt \in Seq(Texts)
  BY DEF TextTypes, Texts
<1>b. << char >> \in Texts /\ << char >> # << >> /\ Len(<< char >>) = 1 /\ << char >>[1] = char
  BY DEF Texts
<1> DEFINE n == Len(parts)
           p == Append(parts, << char >>)
           ct == [i \in 1..(n + 2) |-> IF i = n + 2 THEN cut[n + 1] + 1 ELSE cut[i]]
<1>1. n \in Nat /\ n >= 1
  OBVIOUS
<1>2. string = parts[n]
  BY DEF Encoding
<1>3. /\ p \in Seq(Texts) /\ Len(p) = n + 1 /\ p[n + 1] = << char >>
      /\ \A i \in 1..n : p[i] = parts[i]
  BY <1>b, Appended
<1>4. /\ ct \in [1..(n + 2) -> Nat]
      /\ ct[n + 2] = cut[n + 1] + 1
      /\ \A i \in 1..(n + 1) : ct[i] = cut[i]
  <2>1. /\ \A i \in 1..(n + 2) : i = n + 2 \/ i \in 1..(n + 1)
        /\ \A i \in 1..(n + 1) : i # n + 2 /\ i \in 1..(n + 2)
        /\ n + 2 \in 1..(n + 2) /\ n + 1 \in 1..(n + 1)
    BY <1>1
  <2>2. cut \in [1..(n + 1) -> Nat]
    OBVIOUS
  <2> HIDE DEF n
  <2>3. \A i \in 1..(n + 2) : (IF i = n + 2 THEN cut[n + 1] + 1 ELSE cut[i]) \in Nat
    <3>1. \A i \in 1..(n + 1) : cut[i] \in Nat
      BY <2>2
    <3>2. cut[n + 1] + 1 \in Nat
      BY <3>1, <2>1
    <3> QED
      BY <2>1, <3>1, <3>2
  <2> QED
    BY <2>1, <2>3
<1>5. Len(text) \in Nat /\ Len(text') = Len(text) + 1 /\ text'[Len(text) + 1] = char
      /\ \A k \in 1..Len(text) : text'[k] = text[k]
  BY <1>a, Appended
<1>6. /\ cut[1] = 0 /\ cut[n + 1] = Len(text) /\ cut \in [1..(n + 1) -> Nat]
      /\ \A i \in 1..n : /\ parts[i] # << >>
                         /\ cut[i + 1] = cut[i] + Len(parts[i])
                         /\ cut[i + 1] <= Len(text)
                         /\ \A k \in 1..Len(parts[i]) : text[cut[i] + k] = parts[i][k]
      /\ DOMAIN learnt = 1..(n - 1)
      /\ \A i \in 1..(n - 1) : learnt[i] = Append(parts[i], parts[i + 1][1])
  BY DEF Parse
<1>7. \A i \in 1..n : Len(parts[i]) \in Nat
  BY <1>1 DEF Texts
<1>8. /\ DOMAIN learnt' = 1..n
      /\ learnt'[n] = Append(parts[n], char)
      /\ \A i \in 1..(n - 1) : learnt'[i] = learnt[i]
  <2>1. Append(string, char) \in Texts
    BY <1>a, Appended DEF Texts
  <2>2. Len(learnt) = n - 1
    BY <1>a, <1>1, <1>6
  <2>3. /\ learnt' \in Seq(Texts) /\ Len(learnt') = Len(learnt) + 1
        /\ \A k \in 1..Len(learnt) : learnt'[k] = learnt[k]
        /\ learnt'[Len(learnt) + 1] = Append(string, char)
    BY <1>a, <2>1, Appended
  <2> QED
    BY <2>2, <2>3, <1>1, <1>2
<1> HIDE DEF p, ct, n
<1>9. ASSUME NEW i \in 1..n
      PROVE  /\ p[i] # << >>
             /\ ct[i + 1] = ct[i] + Len(p[i]) /\ ct[i + 1] <= Len(text')
             /\ \A k \in 1..Len(p[i]) : text'[ct[i] + k] = p[i][k]
  <2>1. i \in 1..(n + 1) /\ i + 1 \in 1..(n + 1)
    BY <1>1
  <2>2. ct[i] = cut[i] /\ ct[i + 1] = cut[i + 1] /\ p[i] = parts[i]
        /\ cut[i] \in Nat /\ cut[i + 1] \in Nat
    BY <2>1, <1>3, <1>4, <1>6
  <2>3. ASSUME NEW k \in 1..Len(parts[i]) PROVE text'[cut[i] + k] = parts[i][k]
    <3>1. cut[i] + k \in 1..Len(text)
      <4>1. cut[i + 1] = cut[i] + Len(parts[i]) /\ cut[i + 1] <= Len(text)
            /\ Len(parts[i]) \in Nat
        BY <1>6, <1>7
      <4>2. cut[i] + Len(parts[i]) <= Len(text)
        BY <4>1
      <4> QED
        BY <4>1, <4>2, <2>2, <1>5, Places
    <3> QED
      BY <3>1, <1>5, <1>6
  <2>4. ct[i + 1] <= Len(text')
    BY <2>2, <1>5, <1>6
  <2> QED
    BY <2>2, <2>3, <2>4, <1>6
<1>10. /\ p[n + 1] # << >>
       /\ ct[(n + 1) + 1] = ct[n + 1] + Len(p[n + 1]) /\ ct[(n + 1) + 1] <= Len(text')
       /\ \A k \in 1..Len(p[n + 1]) : text'[ct[n + 1] + k] = p[n + 1][k]
  <2>1. (n + 1) + 1 = n + 2 /\ n + 1 \in 1..(n + 1)
    BY <1>1
  <2>2. ct[n + 1] = Len(text) /\ ct[n + 2] = Len(text) + 1
    BY <2>1, <1>4, <1>6
  <2>3. \A k \in 1..1 : text'[Len(text) + k] = << char >>[k]
    BY <1>b, <1>5
  <2> QED
    BY <1>b, <1>3, <1>5, <2>1, <2>2, <2>3
<1>11. ASSUME NEW i \in 1..n
       PROVE  learnt'[i] = Append(p[i], p[i + 1][1])
  <2>1. CASE i = n
    BY <2>1, <1>1, <1>3, <1>8, <1>b
  <2>2. CASE i # n
    <3>1. i \in 1..(n - 1) /\ i + 1 \in 1..n
      BY <2>2, <1>1
    <3> QED
      BY <3>1, <1>3, <1>6, <1>8
  <2> QED
    BY <2>1, <2>2
<1>12. Parse(p, ct)'
  <2>1. ct[1] = 0 /\ ct[(n + 1) + 1] = Len(text')
    BY <1>1, <1>4, <1>5, <1>6
  <2>2. \A i \in 1..(n + 1) : i \in 1..n \/ i = n + 1
    BY <1>1
  <2>3. Len(p) = n + 1 /\ (n + 1) + 1 = n + 2 /\ (n + 1) - 1 = n
    BY <1>1, <1>3
  <2>4. \A i \in 1..(n + 1) :
           /\ p[i] # << >>
           /\ ct[i + 1] = ct[i] + Len(p[i]) /\ ct[i + 1] <= Len(text')
           /\ \A k \in 1..Len(p[i]) : text'[ct[i] + k] = p[i][k]
    BY <2>2, <1>9, <1>10
  <2>5. ct \in [1..((n + 1) + 1) -> Nat] /\ p \in Seq(Texts)
    BY <2>3, <1>3, <1>4
  <2>6. DOMAIN learnt' = 1..((n + 1) - 1)
        /\ \A i \in 1..((n + 1) - 1) : learnt'[i] = Append(p[i], p[i + 1][1])
    BY <2>3, <1>8, <1>11
  <2> QED
    BY <2>1, <2>3, <2>4, <2>5, <2>6 DEF Parse
<1> QED
  <2>1. Len(p) = n + 1 /\ p[Len(p)] = << char >> /\ ct \in [1..(Len(p) + 1) -> Nat]
    BY <1>1, <1>3, <1>4
  <2> QED
    BY <2>1, <1>3, <1>12 DEF n

\* The code of a known string stands for it, whatever string comes next.
LEMMA CodeStands ==
    ASSUME TextTypes,
           NEW parts \in Seq(Texts), NEW n \in Nat \ {0}, string = parts[n],
           Known(string), string # << >>, DOMAIN learnt = 1..(n - 1)
    PROVE  /\ CodeOf(string) \in [kind : {"char", "table"}, n : Char \cup Nat]
           /\ Stands(CodeOf(string), parts, n)
<1>a. string \in Seq(Char)
  BY DEF TextTypes, Texts
<1>1. CASE Len(string) = 1
  <2>1. string[1] \in Char /\ string = << string[1] >>
    BY <1>1, <1>a
  <2>2. CodeOf(string) = [kind |-> "char", n |-> string[1]]
    BY <1>1 DEF CodeOf, Code
  <2> QED
    BY <2>1, <2>2 DEF Stands
<1>2. CASE Len(string) # 1
  <2>1. \E i \in DOMAIN learnt : learnt[i] = string
    BY <1>2 DEF Known
  <2>2. PICK i \in DOMAIN learnt :
           /\ i = CHOOSE j \in DOMAIN learnt : learnt[j] = string
           /\ learnt[i] = string
    BY <2>1, Zenon
  <2>3. CodeOf(string) = [kind |-> "table", n |-> i]
    BY <1>2, <2>2 DEF CodeOf, Code
  <2> QED
    BY <2>2, <2>3 DEF Stands
<1> QED
  BY <1>1, <1>2

\* One more character either extends the last string or sends it and begins another.
LEMMA SayKeepsIInv ==
    ASSUME TextInv, NEW char \in Char, Say(char)
    PROVE  TextInv'
<1>1. /\ reading = "encode" /\ reading' = "encode"
      /\ text' = Append(text, char)
      /\ UNCHANGED <<e, c, f, g>>
      /\ TextTypes
  BY DEF Say, decoder, TextInv
<1>2. PICK parts \in Seq(Texts) : \E ct \in [1..(Len(parts) + 1) -> Nat] :
          Parse(parts, ct) /\ Encoding(parts)
  BY <1>1 DEF TextInv
<1>3. PICK cut \in [1..(Len(parts) + 1) -> Nat] : Parse(parts, cut) /\ Encoding(parts)
  BY <1>2
<1>a. text \in Seq(Char) /\ string \in Seq(Char) /\ learnt \in Seq(Texts)
      /\ codes \in Seq([kind : {"char", "table"}, n : Char \cup Nat])
      /\ Append(text, char) \in Texts /\ Append(string, char) \in Texts
      /\ << char >> \in Texts
  BY <1>1 DEF TextTypes, Texts
<1>4. CASE string = << >>
  <2>1. parts = << >>
    BY <1>3, <1>4 DEF Parse, Encoding
  <2>2. Append(string, char) = << char >> /\ Len(<< char >>) = 1
    BY <1>4
  <2>3. string' = << char >> /\ learnt' = learnt /\ codes' = codes
    BY <2>2 DEF Say, Known
  <2>4. codes = << >> /\ text = << >> /\ learnt = << >>
    BY <2>1, <1>3, <1>a DEF Parse, Encoding
  <2>5. text' = << char >>
    BY <2>4, <1>1
  <2> DEFINE p == << << char >> >>
             ct == [i \in 1..2 |-> i - 1]
  <2>6. p \in Seq(Texts) /\ Len(p) = 1 /\ ct \in [1..(Len(p) + 1) -> Nat]
        /\ p[1] = << char >> /\ ct[1] = 0 /\ ct[2] = 1
    BY <1>a
  <2> HIDE DEF p, ct
  <2>7. Parse(p, ct)'
    <3>1. << char >> # << >> /\ Len(<< char >>) = 1 /\ << char >>[1] = char
      OBVIOUS
    <3>2. /\ \A i \in 1..1 : i = 1 /\ i + 1 = 2 /\ 0 + i = 1
          /\ 1..(1 - 1) = {} /\ 1 + 1 = 2 /\ 0 + 1 = 1 /\ 1 <= 1
      OBVIOUS
    <3>3. /\ Len(text') = 1 /\ text'[1] = char /\ DOMAIN learnt' = {}
      BY <2>3, <2>4, <2>5, <3>1
    <3>4. \A i \in 1..1 :
            /\ p[i] # << >>
            /\ ct[i + 1] = ct[i] + Len(p[i]) /\ ct[i + 1] <= Len(text')
            /\ \A k \in 1..Len(p[i]) : text'[ct[i] + k] = p[i][k]
      BY <2>6, <3>1, <3>2, <3>3
    <3> QED
      BY <2>6, <3>2, <3>3, <3>4 DEF Parse
  <2>8. Encoding(p)'
    BY <1>1, <1>3, <2>2, <2>3, <2>4, <2>6 DEF Encoding, Known
  <2>9. TextTypes'
    BY <1>1, <1>a, <2>3 DEF TextTypes
  <2> QED
    BY <1>1, <2>6, <2>7, <2>8, <2>9 DEF TextInv
<1>5. CASE string # << >>
  <2>1. parts # << >> /\ string = parts[Len(parts)] /\ Len(codes) = Len(parts) - 1
        /\ Known(string)
    BY <1>3, <1>5 DEF Encoding
  <2>2. CASE Known(Append(string, char))
    <3>1. string' = Append(string, char) /\ learnt' = learnt /\ codes' = codes
      BY <2>2 DEF Say
    <3>2. PICK p \in Seq(Texts) : \E ct \in [1..(Len(p) + 1) -> Nat] :
              /\ Parse(p, ct)'
              /\ Len(p) = Len(parts) /\ p[Len(p)] = Append(string, char)
              /\ \A i \in 1..(Len(parts) - 1) : p[i] = parts[i]
      BY <1>1, <1>3, <2>1, <3>1, Extended
    <3>3. Encoding(p)'
      <4>1. p # << >>
        BY <2>1, <3>2
      <4>2. Known(string)'
        BY <2>2, <3>1 DEF Known
      <4>3. \A i \in DOMAIN codes' : Stands(codes[i], p, i)'
        <5> SUFFICES ASSUME NEW i \in DOMAIN codes PROVE Stands(codes[i], p, i)'
          BY <3>1
        <5>1. i \in 1..(Len(parts) - 1)
          BY <1>a, <2>1
        <5>2. Stands(codes[i], parts, i) /\ p[i] = parts[i]
          BY <1>3, <3>2, <5>1 DEF Encoding
        <5> QED
          BY <5>2, <3>1 DEF Stands
      <4> QED
        BY <1>1, <1>3, <2>1, <3>1, <3>2, <4>1, <4>2, <4>3 DEF Encoding
    <3>4. TextTypes'
      BY <1>1, <1>a, <3>1 DEF TextTypes
    <3> QED
      BY <1>1, <3>2, <3>3, <3>4 DEF TextInv
  <2>3. CASE ~Known(Append(string, char))
    <3>1. /\ string' = << char >>
          /\ learnt' = Append(learnt, Append(string, char))
          /\ codes' = Append(codes, CodeOf(string))
      BY <2>3 DEF Say
    <3>2. PICK p \in Seq(Texts) : \E ct \in [1..(Len(p) + 1) -> Nat] :
              /\ Parse(p, ct)'
              /\ Len(p) = Len(parts) + 1 /\ p[Len(p)] = << char >>
              /\ \A i \in 1..Len(parts) : p[i] = parts[i]
      BY <1>1, <1>3, <2>1, <3>1, Begun
    <3> DEFINE n == Len(parts)
    <3>3. n \in Nat \ {0} /\ DOMAIN learnt = 1..(n - 1)
      BY <2>1, <1>3 DEF Parse
    <3>4. /\ CodeOf(string) \in [kind : {"char", "table"}, n : Char \cup Nat]
          /\ Stands(CodeOf(string), parts, n)
      BY <1>1, <1>5, <2>1, <3>3, CodeStands
    <3>5. /\ Len(codes') = n /\ codes'[n] = CodeOf(string)
          /\ codes' \in Seq([kind : {"char", "table"}, n : Char \cup Nat])
          /\ \A i \in 1..(n - 1) : codes'[i] = codes[i]
      BY <1>a, <2>1, <3>1, <3>3, <3>4, Appended
    <3>6. /\ learnt' \in Seq(Texts)
          /\ \A i \in DOMAIN learnt : learnt'[i] = learnt[i]
      BY <1>a, <3>1, Appended
    <3>7. \A i \in 1..n : Stands(codes[i], p, i)'
      <4> HIDE DEF n
      <4> SUFFICES ASSUME NEW i \in 1..n PROVE Stands(codes[i], p, i)'
        OBVIOUS
      <4>1. Stands(codes'[i], parts, i)
        <5>1. CASE i = n
          BY <5>1, <3>4, <3>5
        <5>2. CASE i # n
          <6>1. i \in 1..(n - 1) /\ i \in DOMAIN codes
            BY <5>2, <3>3, <2>1, <1>a DEF n
          <6> QED
            BY <6>1, <1>3, <3>5 DEF Encoding
        <5> QED
          BY <5>1, <5>2
      <4>2. 1..(i - 1) \subseteq DOMAIN learnt
        BY <3>3
      <4>3. p[i] = parts[i]
        BY <3>2 DEF n
      <4> QED
        BY <4>1, <4>2, <4>3, <3>6 DEF Stands
    <3>8. Encoding(p)'
      <4>1. p # << >> /\ Len(p) = n + 1 /\ string' = p[Len(p)]
        BY <3>1, <3>2
      <4>2. Known(string)'
        BY <3>1 DEF Known
      <4>3. DOMAIN codes' = 1..n
        BY <3>5, <3>3
      <4> QED
        BY <1>1, <1>3, <3>3, <3>5, <3>7, <4>1, <4>2, <4>3 DEF Encoding
    <3>9. TextTypes'
      BY <1>1, <1>a, <3>1, <3>5, <3>6 DEF TextTypes
    <3> QED
      BY <1>1, <3>2, <3>8, <3>9 DEF TextInv
  <2> QED
    BY <2>2, <2>3
<1> QED
  BY <1>4, <1>5

\* The text is empty exactly if there are no strings in it.
LEMMA NoStrings ==
    ASSUME TextTypes, NEW parts \in Seq(Texts),
           NEW cut \in [1..(Len(parts) + 1) -> Nat], Parse(parts, cut)
    PROVE  parts = << >> <=> text = << >>
<1> DEFINE n == Len(parts)
<1>1. Len(text) \in Nat /\ (text = << >> <=> Len(text) = 0) /\ n \in Nat
  BY DEF TextTypes, Texts
<1>2. CASE parts = << >>
  BY <1>1, <1>2 DEF Parse
<1>3. CASE parts # << >>
  <2>1. n \in 1..n /\ parts[n] \in Seq(Char) /\ n \in 1..(n + 1)
    BY <1>3 DEF Texts
  <2>2. parts[n] # << >> /\ cut[n + 1] = cut[n] + Len(parts[n]) /\ cut[n + 1] = Len(text)
    BY <2>1 DEF Parse
  <2>3. Len(parts[n]) \in Nat \ {0} /\ cut[n] \in Nat
    BY <2>1, <2>2
  <2>4. Len(text) # 0
    BY <2>2, <2>3
  <2> QED
    BY <2>4, <1>1, <1>3
<1> QED
  BY <1>2, <1>3

\* The last string is sent: decode has the codes of all of them to read.
LEMMA SendKeepsIInv ==
    ASSUME TextInv, Send
    PROVE  TextInv'
<1>1. /\ reading = "encode" /\ reading' = "decode"
      /\ UNCHANGED <<text, string, learnt, e, c, f, g>>
      /\ codes' = IF text = << >> THEN << >> ELSE Append(codes, CodeOf(string))
      /\ TextTypes
  BY DEF Send, decoder, TextInv
<1>2. PICK parts \in Seq(Texts) : \E ct \in [1..(Len(parts) + 1) -> Nat] :
          Parse(parts, ct) /\ Encoding(parts)
  BY <1>1 DEF TextInv
<1>3. PICK cut \in [1..(Len(parts) + 1) -> Nat] : Parse(parts, cut) /\ Encoding(parts)
  BY <1>2
<1> DEFINE n == Len(parts)
           CodeType == [kind : {"char", "table"}, n : Char \cup Nat]
<1>4. Parse(parts, cut)'
  BY <1>1, <1>3 DEF Parse
<1>5. codes \in Seq(CodeType) /\ n \in Nat
  BY <1>1 DEF TextTypes
<1>6. /\ codes' \in Seq(CodeType) /\ Len(codes') = n
      /\ \A j \in 1..n : Stands(codes'[j], parts, j)
  <2>1. CASE text = << >>
    <3>1. parts = << >>
      BY <1>1, <1>3, <2>1, NoStrings
    <3> QED
      BY <3>1, <2>1, <1>1
  <2>2. CASE text # << >>
    <3>1. parts # << >>
      BY <1>1, <1>3, <2>2, NoStrings
    <3>2. n \in Nat \ {0} /\ string = parts[n] /\ string # << >> /\ Known(string)
          /\ DOMAIN learnt = 1..(n - 1) /\ Len(codes) = n - 1
      BY <3>1, <1>3 DEF Parse, Encoding
    <3>3. CodeOf(string) \in CodeType /\ Stands(CodeOf(string), parts, n)
      BY <1>1, <3>2, CodeStands
    <3> HIDE DEF CodeType
    <3>4. /\ codes' \in Seq(CodeType) /\ Len(codes') = (n - 1) + 1
          /\ \A j \in 1..(n - 1) : codes'[j] = codes[j]
          /\ codes'[(n - 1) + 1] = CodeOf(string)
      BY <1>1, <1>5, <2>2, <3>2, <3>3, Appended
    <3>5. DOMAIN codes = 1..(n - 1)
      BY <1>5, <3>2
    <3>6. \A j \in 1..n : j = n \/ j \in 1..(n - 1)
      BY <3>2
    <3>7. (n - 1) + 1 = n
      BY <3>2
    <3>8. \A j \in 1..(n - 1) : Stands(codes[j], parts, j)
      BY <1>3, <3>5 DEF Encoding
    <3> HIDE DEF n
    <3> QED
      BY <3>3, <3>4, <3>6, <3>7, <3>8
  <2> QED
    BY <2>1, <2>2
<1>7. Decoding(parts, cut, 0)'
  <2>1. DOMAIN codes' = 1..n /\ 0 \in 0..n /\ n - 0 = n /\ \A j \in 1..n : 0 + j = j
    BY <1>5, <1>6
  <2>2. ASSUME NEW j \in DOMAIN codes'
        PROVE  Stands(codes[j], parts, 0 + j)'
    <3>1. j \in 1..n /\ 0 + j = j
      BY <2>1
    <3>2. Stands(codes'[j], parts, j)
      BY <1>6, <3>1
    <3>3. Stands(codes'[j], parts, 0 + j)
      BY <3>1, <3>2
    <3> QED
      BY <1>1, <3>3 DEF Stands
  <2> QED
    <3>1. e' = << >> /\ f' = << >> /\ g' = << >>
      BY <1>1, <1>3 DEF Encoding
    <3>2. ~(0 > 0) /\ 0 \in 0..Len(parts) /\ Len(codes') = Len(parts) - 0
      BY <1>6, <2>1
    <3> QED
      BY <2>2, <3>1, <3>2 DEF Decoding
<1>8. TextTypes'
  BY <1>1, <1>6 DEF TextTypes
<1>9. \E m \in 0..Len(parts) : Decoding(parts, cut, m)'
  <2>1. 0 \in 0..Len(parts)
    BY <1>5
  <2> QED
    BY <1>7, <2>1
<1> QED
  BY <1>1, <1>4, <1>8, <1>9 DEF TextInv

\* While decode reads: what the two sides' strings have to do with each other.
LEMMA Reading ==
    ASSUME TextInv, reading = "decode"
    PROVE  /\ TextTypes
           /\ \E parts \in Seq(Texts) : \E cut \in [1..(Len(parts) + 1) -> Nat] :
              \E m \in 0..Len(parts) : Parse(parts, cut) /\ Decoding(parts, cut, m)
  BY DEF TextInv

\* Where no code is left, every string of the text has been read.
LEMMA DecodedKeepsIInv ==
    ASSUME TextInv, Decoded
    PROVE  TextInv'
<1>1. /\ reading = "decode" /\ codes = << >> /\ reading' = "decoded"
      /\ UNCHANGED <<text, string, learnt, codes, e, c, f, g>>
      /\ TextTypes
  BY DEF Decoded, wire, decoder, TextInv
<1>a. PICK parts \in Seq(Texts) :
          \E ct \in [1..(Len(parts) + 1) -> Nat] : \E k \in 0..Len(parts) :
             Parse(parts, ct) /\ Decoding(parts, ct, k)
  BY <1>1, Reading
<1>2. PICK cut \in [1..(Len(parts) + 1) -> Nat] : \E k \in 0..Len(parts) :
          Parse(parts, cut) /\ Decoding(parts, cut, k)
  BY <1>a
<1>b. PICK m \in 0..Len(parts) : Parse(parts, cut) /\ Decoding(parts, cut, m)
  BY <1>2
<1>3. m = Len(parts)
  BY <1>1, <1>b DEF Decoding
<1>4. g = text
  <2>1. CASE m = 0
    <3>1. parts = << >>
      BY <1>3, <2>1, EmptySeq
    <3> QED
      BY <3>1, <2>1, <1>1, <1>b, NoStrings DEF Decoding
  <2>2. CASE m # 0
    <3>1. Len(g) = Len(text) /\ \A k \in 1..Len(g) : g[k] = text[k]
      BY <1>b, <1>3, <2>2 DEF Decoding, Parse
    <3>2. g \in Seq(Char) /\ text \in Seq(Char)
      BY <1>1 DEF TextTypes, Texts
    <3>3. /\ g \in [1..Len(g) -> Char] /\ text \in [1..Len(g) -> Char]
          /\ \A k \in 1..Len(g) : g[k] = text[k]
      BY <3>1, <3>2
    <3> QED
      BY <3>3
  <2> QED
    BY <2>1, <2>2
<1> QED
  BY <1>1, <1>4 DEF TextInv, TextTypes

\* The first code is the first string, a single character.
LEMMA DecodeFirstKeepsIInv ==
    ASSUME TextInv, DecodeFirst
    PROVE  TextInv'
<1>1. /\ reading = "decode" /\ reading' = "decode"
      /\ codes # << >> /\ g = << >>
      /\ codes' = Tail(codes) /\ c' = Head(codes).n /\ f' = << c' >> /\ g' = << c' >>
      /\ UNCHANGED <<text, string, learnt, e>>
      /\ TextTypes
  BY DEF DecodeFirst, TextInv
<1>a. PICK parts \in Seq(Texts) :
          \E ct \in [1..(Len(parts) + 1) -> Nat] : \E k \in 0..Len(parts) :
             Parse(parts, ct) /\ Decoding(parts, ct, k)
  BY <1>1, Reading
<1>b. PICK cut \in [1..(Len(parts) + 1) -> Nat] : \E k \in 0..Len(parts) :
          Parse(parts, cut) /\ Decoding(parts, cut, k)
  BY <1>a
<1>2. PICK m \in 0..Len(parts) : Parse(parts, cut) /\ Decoding(parts, cut, m)
  BY <1>b
<1> DEFINE n == Len(parts)
           CodeType == [kind : {"char", "table"}, n : Char \cup Nat]
<1>3. n \in Nat /\ codes \in Seq(CodeType) /\ Len(codes) = n - m /\ Len(codes) \in Nat \ {0}
  BY <1>1, <1>2 DEF TextTypes, Decoding
<1>4. /\ m \in Nat /\ n \in Nat
      /\ \A i \in 1..n : /\ parts[i] # << >> /\ Len(parts[i]) \in Nat \ {0}
                         /\ cut[i + 1] = cut[i] + Len(parts[i])
                         /\ \A k \in 1..Len(parts[i]) : text[cut[i] + k] = parts[i][k]
      /\ cut[1] = 0 /\ cut \in [1..(n + 1) -> Nat]
  <2>1. \A i \in 1..n : parts[i] \in Seq(Char) /\ parts[i] # << >>
    BY <1>2 DEF Texts, Parse
  <2>2. \A i \in 1..n : Len(parts[i]) \in Nat \ {0}
    BY <2>1
  <2>3. \A i \in 1..n : /\ cut[i + 1] = cut[i] + Len(parts[i])
                        /\ \A k \in 1..Len(parts[i]) : text[cut[i] + k] = parts[i][k]
    BY <1>2 DEF Parse
  <2> QED
    BY <2>1, <2>2, <2>3, <1>2, <1>3 DEF Parse
<1>5. m = 0
  <2> SUFFICES ASSUME m # 0 PROVE FALSE
    OBVIOUS
  <2>1. m \in 1..n /\ Len(g) = cut[m + 1] /\ cut[m] \in Nat
    <3>1. m \in 1..n /\ m \in 1..(n + 1) /\ m > 0
      BY <1>2, <1>3
    <3>2. Len(g) = cut[m + 1]
      BY <1>2, <3>1 DEF Decoding
    <3>3. cut[m] \in Nat
      BY <1>4, <3>1
    <3> QED
      BY <3>1, <3>2, <3>3
  <2>2. cut[m + 1] = cut[m] + Len(parts[m]) /\ Len(parts[m]) \in Nat \ {0}
    BY <1>4, <2>1
  <2>3. Len(g) # 0
    BY <2>1, <2>2
  <2> QED
    BY <2>3, <1>1
<1>6. /\ e = << >> /\ Len(codes) = n
      /\ codes[1] \in CodeType
      /\ Stands(codes[1], parts, 1)
  <2>1. 1 \in DOMAIN codes /\ m + 1 = 1
    BY <1>3, <1>5
  <2>2. \A j \in DOMAIN codes : Stands(codes[j], parts, m + j)
    BY <1>2 DEF Decoding
  <2>3. e = << >>
    BY <1>2, <1>5 DEF Decoding
  <2> HIDE DEF CodeType
  <2>4. codes[1] \in CodeType
    BY <2>1, <1>3
  <2>5. Len(codes) = n
    BY <1>3, <1>5
  <2> QED
    BY <2>5, <2>1, <2>2, <2>3, <2>4, <1>3, <1>5
<1>7. parts[1] = << codes[1].n >> /\ f' = parts[1] /\ g' = parts[1] /\ c' = codes[1].n
  <2>1. 1..(1 - 1) = {}
    OBVIOUS
  <2> QED
    BY <2>1, <1>1, <1>6 DEF Stands
<1>8. /\ codes' \in Seq(CodeType) /\ Len(codes') = n - 1
      /\ \A j \in 1..(n - 1) : codes'[j] = codes[1 + j]
  <2> HIDE DEF CodeType, n
  <2> QED
    BY <1>1, <1>3, <1>6
<1>9. \A j \in DOMAIN codes' : Stands(codes[j], parts, 1 + j)'
  <2> SUFFICES ASSUME NEW j \in DOMAIN codes' PROVE Stands(codes[j], parts, 1 + j)'
    OBVIOUS
  <2>1. j \in 1..(n - 1) /\ 1 + j \in DOMAIN codes /\ m + (1 + j) = 1 + j
    BY <1>3, <1>5, <1>6, <1>8
  <2>2. Stands(codes[1 + j], parts, m + (1 + j))
    BY <1>2, <2>1 DEF Decoding
  <2> QED
    BY <1>1, <1>8, <2>1, <2>2 DEF Stands
<1>10. 1 \in 1..n /\ 1 \in 0..n /\ parts[1] \in Texts /\ Len(parts[1]) = 1
  <2> HIDE DEF CodeType
  <2>1. 1 \in 1..n /\ 1 \in 0..n
    <3>1. n \in Nat \ {0}
      BY <1>3, <1>6
    <3> QED
      BY <3>1
  <2>2. parts[1] \in Texts
    BY <2>1
  <2>3. Len(parts[1]) = 1
    BY <1>7
  <2> QED
    BY <2>1, <2>2, <2>3
<1>11. /\ Len(g') = cut[1 + 1]
       /\ \A k \in 1..Len(g') : g'[k] = text[k]
  <2>1. cut[1 + 1] = 0 + Len(parts[1])
        /\ \A k \in 1..Len(parts[1]) : text[0 + k] = parts[1][k]
    <3>1. PICK d : d = 1
      OBVIOUS
    <3>2. cut[d + 1] = cut[d] + Len(parts[d]) /\ \A k \in 1..Len(parts[d]) : text[cut[d] + k] = parts[d][k]
      BY ONLY <1>4, <1>10, <3>1
    <3>3. cut[d] = 0
      BY ONLY <1>4, <3>1
    <3> QED
      BY ONLY <3>1, <3>2, <3>3
  <2>2. \A k \in 1..Len(parts[1]) : 0 + k = k
    BY <1>10
  <2> QED
    BY <2>1, <2>2, <1>7, <1>10
<1>12. Decoding(parts, cut, 1)'
  <2>1. 1 > 0 /\ 1 # 0 /\ 1..(1 - 1) = {} /\ Len(<< >>) = 1 - 1
    OBVIOUS
  <2>2. c' = f'[1]
    BY <1>7
  <2>3. e' = << >>
    BY <1>1, <1>6
  <2> QED
    BY <2>1, <2>2, <2>3, <1>1, <1>7, <1>8, <1>9, <1>10, <1>11 DEF Decoding
<1>13. Parse(parts, cut)'
  BY <1>1, <1>2 DEF Parse
<1>14. TextTypes'
  BY <1>1, <1>7, <1>8, <1>10 DEF TextTypes
<1> QED
  BY <1>1, <1>10, <1>12, <1>13, <1>14 DEF TextInv

\* What a code stands for is what decode makes of it, although the table of
\* decode is one string short of the server's: the string that is missing can
\* only be the one before and its first character once more.
LEMMA ValueStands ==
    ASSUME TextTypes, NEW parts \in Seq(Texts),
           NEW cut \in [1..(Len(parts) + 1) -> Nat], Parse(parts, cut),
           NEW m \in 1..(Len(parts) - 1), Decoding(parts, cut, m),
           NEW code, Stands(code, parts, m + 1)
    PROVE  Value(code) = parts[m + 1]
<1> DEFINE n == Len(parts)
<1>1. n \in Nat /\ m \in Nat /\ m > 0 /\ m \in 1..n /\ m + 1 \in 1..n /\ (m + 1) - 1 = m
  OBVIOUS
<1>2. /\ f = parts[m] /\ c = f[1] /\ Len(e) = m - 1
      /\ \A i \in 1..(m - 1) : e[i] = learnt[i]
  BY <1>1 DEF Decoding
<1>3. DOMAIN e = 1..(m - 1)
  BY <1>2, <1>1 DEF TextTypes
<1>4. learnt[m] = Append(parts[m], parts[m + 1][1])
  BY <1>1 DEF Parse
<1>5. CASE code.kind = "char"
  BY <1>5 DEF Value, Stands
<1>6. CASE code.kind # "char"
  <2>1. code.n \in 1..m /\ parts[m + 1] = learnt[code.n]
    BY <1>1, <1>6 DEF Stands
  <2>2. CASE code.n = m
    <3>1. parts[m] \in Seq(Char) /\ parts[m] # << >> /\ parts[m + 1] \in Seq(Char)
          /\ parts[m + 1] # << >>
      BY <1>1, SMTT(20) DEF Texts, Parse
    <3>2. parts[m + 1][1] \in Char
      BY <3>1
    <3>3. Append(parts[m], parts[m + 1][1])[1] = parts[m][1]
      BY <3>1, <3>2, Appended
    <3>4. parts[m + 1] = Append(parts[m], parts[m + 1][1])
      BY <2>1, <2>2, <1>4
    <3>5. parts[m + 1][1] = parts[m][1]
      BY <3>3, <3>4
    <3>6. parts[m + 1] = NotYet
      BY <3>4, <3>5, <1>2 DEF NotYet
    <3>7. code.n \notin DOMAIN e
      BY <1>1, <1>3, <2>2
    <3> QED
      BY <3>6, <3>7, <1>6 DEF Value
  <2>3. CASE code.n # m
    <3>1. code.n \in 1..(m - 1)
      BY <2>1, <2>3, <1>1
    <3> QED
      BY <3>1, <2>1, <1>2, <1>3, <1>6 DEF Value
  <2> QED
    BY <2>2, <2>3
<1> QED
  BY <1>5, <1>6

\* What is decoded, with the next string at its end, is the text so far.
LEMMA Joined ==
    ASSUME NEW t \in Seq(Char), NEW u \in Seq(Char), NEW v \in Seq(Char),
           \A k \in 1..Len(t) : t[k] = u[k],
           \A k \in 1..Len(v) : u[Len(t) + k] = v[k]
    PROVE  /\ t \o v \in Seq(Char) /\ Len(t \o v) = Len(t) + Len(v)
           /\ \A k \in 1..Len(t \o v) : (t \o v)[k] = u[k]
<1>1. /\ t \o v \in Seq(Char) /\ Len(t \o v) = Len(t) + Len(v)
      /\ Len(t) \in Nat /\ Len(v) \in Nat
  OBVIOUS
<1>2. ASSUME NEW k \in 1..Len(t \o v) PROVE (t \o v)[k] = u[k]
  <2>1. k \in Nat /\ k >= 1 /\ k <= Len(t) + Len(v)
    BY <1>1
  <2>2. CASE k <= Len(t)
    <3>1. k \in 1..Len(t) /\ (t \o v)[k] = t[k]
      BY <2>1, <2>2, <1>1
    <3> QED
      BY <3>1
  <2>3. CASE k > Len(t)
    <3>1. PICK j \in 1..Len(v) : k = Len(t) + j
      <4>1. k - Len(t) \in 1..Len(v) /\ k = Len(t) + (k - Len(t))
        BY <2>1, <2>3, <1>1
      <4> QED
        BY <4>1
    <3>2. (t \o v)[k] = v[k - Len(t)] /\ k - Len(t) = j
      BY <2>1, <2>3, <1>1, <3>1
    <3> QED
      BY <3>1, <3>2
  <2> QED
    BY <2>1, <2>2, <2>3, <1>1
<1> QED
  BY <1>1, <1>2

\* Every further code is the next string, and decode learns what the server had
\* learnt when it sent the one before.
LEMMA DecodeNextKeepsIInv ==
    ASSUME TextInv, DecodeNext
    PROVE  TextInv'
<1>1. /\ reading = "decode" /\ reading' = "decode"
      /\ codes # << >> /\ g # << >>
      /\ codes' = Tail(codes)
      /\ g' = g \o Value(Head(codes)) /\ c' = Value(Head(codes))[1]
      /\ e' = Append(e, Append(f, Value(Head(codes))[1]))
      /\ f' = Value(Head(codes))
      /\ UNCHANGED <<text, string, learnt>>
      /\ TextTypes
  BY DEF DecodeNext, TextInv
<1>a. PICK parts \in Seq(Texts) :
          \E ct \in [1..(Len(parts) + 1) -> Nat] : \E k \in 0..Len(parts) :
             Parse(parts, ct) /\ Decoding(parts, ct, k)
  BY <1>1, Reading
<1>b. PICK cut \in [1..(Len(parts) + 1) -> Nat] : \E k \in 0..Len(parts) :
          Parse(parts, cut) /\ Decoding(parts, cut, k)
  BY <1>a
<1>2. PICK m \in 0..Len(parts) : Parse(parts, cut) /\ Decoding(parts, cut, m)
  BY <1>b
<1> DEFINE n == Len(parts)
           CodeType == [kind : {"char", "table"}, n : Char \cup Nat]
<1>3. n \in Nat /\ m \in Nat /\ codes \in Seq(CodeType) /\ Len(codes) = n - m
      /\ Len(codes) \in Nat \ {0}
  BY <1>1, <1>2 DEF TextTypes, Decoding
<1> HIDE DEF CodeType
<1>4. m # 0
  BY <1>1, <1>2 DEF Decoding
<1>5. /\ m > 0 /\ m \in 1..n /\ m + 1 \in 1..n /\ m \in 1..(n - 1)
      /\ m + 1 \in 1..(n + 1) /\ (m + 1) - 1 = m /\ m + 1 > 0 /\ m + 1 # 0
      /\ n - (m + 1) = (n - m) - 1 /\ m + 1 \in 0..n
  BY <1>3, <1>4
<1>6. /\ codes[1] \in CodeType /\ Head(codes) = codes[1] /\ 1 \in DOMAIN codes
      /\ codes' \in Seq(CodeType) /\ Len(codes') = (n - m) - 1
      /\ \A j \in 1..((n - m) - 1) : codes'[j] = codes[1 + j] /\ 1 + j \in DOMAIN codes
  <2> HIDE DEF n
  <2> QED
    BY <1>1, <1>3
<1>7. Stands(codes[1], parts, m + 1)
  BY <1>2, <1>6 DEF Decoding
<1>8. Value(Head(codes)) = parts[m + 1]
  BY <1>1, <1>2, <1>5, <1>6, <1>7, ValueStands
<1>9. /\ parts[m + 1] \in Seq(Char) /\ parts[m + 1] # << >> /\ parts[m] \in Seq(Char)
      /\ parts[m + 1][1] \in Char
      /\ cut[(m + 1) + 1] = cut[m + 1] + Len(parts[m + 1])
      /\ \A k \in 1..Len(parts[m + 1]) : text[cut[m + 1] + k] = parts[m + 1][k]
  <2>1. parts[m + 1] \in Seq(Char) /\ parts[m] \in Seq(Char)
    BY <1>5 DEF Texts
  <2>2. /\ parts[m + 1] # << >>
        /\ cut[(m + 1) + 1] = cut[m + 1] + Len(parts[m + 1])
        /\ \A k \in 1..Len(parts[m + 1]) : text[cut[m + 1] + k] = parts[m + 1][k]
    BY <1>2, <1>5 DEF Parse
  <2>3. parts[m + 1][1] \in Char
    BY <2>1, <2>2
  <2> QED
    BY <2>1, <2>2, <2>3
<1>10. /\ f = parts[m] /\ Len(g) = cut[m + 1] /\ \A k \in 1..Len(g) : g[k] = text[k]
       /\ Len(e) = m - 1 /\ \A i \in 1..(m - 1) : e[i] = learnt[i]
  BY <1>2, <1>5 DEF Decoding
<1>11. /\ g' \in Seq(Char) /\ Len(g') = cut[(m + 1) + 1]
       /\ \A k \in 1..Len(g') : g'[k] = text[k]
  <2>1. g \in Seq(Char) /\ text \in Seq(Char)
    BY <1>1 DEF TextTypes, Texts
  <2>2. /\ g \o parts[m + 1] \in Seq(Char)
        /\ Len(g \o parts[m + 1]) = Len(g) + Len(parts[m + 1])
        /\ \A k \in 1..Len(g \o parts[m + 1]) : (g \o parts[m + 1])[k] = text[k]
    <3>1. \A k \in 1..Len(parts[m + 1]) : text[Len(g) + k] = parts[m + 1][k]
      BY <1>9, <1>10
    <3>2. parts[m + 1] \in Seq(Char) /\ \A k \in 1..Len(g) : g[k] = text[k]
      BY <1>9, <1>10
    <3> HIDE DEF n
    <3> QED
      BY <2>1, <3>1, <3>2, Joined
  <2> QED
    BY <2>2, <1>1, <1>8, <1>9, <1>10
<1>12. learnt[m] = Append(parts[m], parts[m + 1][1])
  BY <1>2, <1>5 DEF Parse
<1>13. /\ e' \in Seq(Texts) /\ Len(e') = m
       /\ \A i \in 1..m : e'[i] = learnt[i]
  <2>1. e \in Seq(Texts)
    BY <1>1 DEF TextTypes
  <2>2. e' = Append(e, learnt[m]) /\ learnt[m] \in Texts
    <3>1. Append(parts[m], parts[m + 1][1]) \in Seq(Char)
      BY <1>9, Appended
    <3> QED
      BY <3>1, <1>1, <1>8, <1>10, <1>12 DEF Texts
  <2>3. /\ e' \in Seq(Texts) /\ Len(e') = (m - 1) + 1
        /\ \A i \in 1..(m - 1) : e'[i] = e[i]
        /\ e'[(m - 1) + 1] = learnt[m]
    BY <2>1, <2>2, <1>10, Appended
  <2>4. (m - 1) + 1 = m /\ \A i \in 1..m : i = m \/ i \in 1..(m - 1)
    BY <1>3, <1>4
  <2> QED
    BY <2>3, <2>4, <1>10
<1>14. \A j \in DOMAIN codes' : Stands(codes[j], parts, (m + 1) + j)'
  <2> SUFFICES ASSUME NEW j \in DOMAIN codes' PROVE Stands(codes[j], parts, (m + 1) + j)'
    OBVIOUS
  <2>1. j \in 1..((n - m) - 1) /\ m + (1 + j) = (m + 1) + j
    BY <1>3, <1>6
  <2>2. 1 + j \in DOMAIN codes /\ codes'[j] = codes[1 + j]
    BY <1>6, <2>1
  <2>3. Stands(codes[1 + j], parts, m + (1 + j))
    BY <1>2, <2>2 DEF Decoding
  <2> QED
    BY <1>1, <2>1, <2>2, <2>3 DEF Stands
<1>15. Decoding(parts, cut, m + 1)'
  <2>1. Len(codes') = Len(parts) - (m + 1)
    BY <1>5, <1>6
  <2>2. f' = parts[m + 1] /\ c' = f'[1]
    BY <1>1, <1>8
  <2>3. \A i \in 1..((m + 1) - 1) : e'[i] = learnt'[i]
    BY <1>1, <1>5, <1>13
  <2>4. Len(g') = cut[(m + 1) + 1] /\ \A k \in 1..Len(g') : g'[k] = text'[k]
    BY <1>1, <1>11
  <2> HIDE DEF n
  <2>5. Len(e') = (m + 1) - 1 /\ m + 1 \in 0..Len(parts) /\ m + 1 # 0
    BY <1>5, <1>13 DEF n
  <2> QED
    BY <2>1, <2>2, <2>3, <2>4, <2>5, <1>14 DEF Decoding
<1>16. Parse(parts, cut)'
  BY <1>1, <1>2 DEF Parse
<1>17. TextTypes'
  <2>1. f' \in Texts
    BY <1>1, <1>8, <1>9 DEF Texts
  <2> QED
    BY <2>1, <1>1, <1>6, <1>11, <1>13 DEF TextTypes, Texts, CodeType
<1> QED
  BY <1>1, <1>5, <1>15, <1>16, <1>17 DEF TextInv
-----------------------------------------------------------------------------
\* What holds of the two sides while they agree (TextInv) holds in every state.
THEOREM BothSidesAgree == TextSpec => []TextInv
<1>1. TextInit => TextInv
  BY InitHolds
<1>2. TextInv /\ [TextStep]_textVars => TextInv'
  <2> SUFFICES ASSUME TextInv, [TextStep]_textVars PROVE TextInv'
    OBVIOUS
  <2>1. CASE Send
    BY <2>1, SendKeepsIInv
  <2>2. CASE DecodeFirst
    BY <2>2, DecodeFirstKeepsIInv
  <2>3. CASE DecodeNext
    BY <2>3, DecodeNextKeepsIInv
  <2>4. CASE Decoded
    BY <2>4, DecodedKeepsIInv
  <2>5. ASSUME NEW char \in Char, Say(char) PROVE TextInv'
    BY <2>5, SayKeepsIInv
  <2>6. CASE UNCHANGED textVars
    <3>1. UNCHANGED <<reading, text, string, learnt, codes, e, c, f, g>>
      BY <2>6 DEF textVars, wire, decoder
    <3>2. TextTypes' /\ (reading = "decoded" => g = text)'
      BY <3>1 DEF TextInv, TextTypes
    <3>3. ASSUME NEW parts \in Seq(Texts), NEW cut \in [1..(Len(parts) + 1) -> Nat]
          PROVE  Parse(parts, cut) => Parse(parts, cut)'
      BY <3>1 DEF Parse
    <3>4. ASSUME NEW parts \in Seq(Texts)
          PROVE  Encoding(parts) => Encoding(parts)'
      BY <3>1 DEF Encoding, Stands, Known
    <3>5. ASSUME NEW parts \in Seq(Texts), NEW cut \in [1..(Len(parts) + 1) -> Nat],
                 NEW m \in 0..Len(parts)
          PROVE  Decoding(parts, cut, m) => Decoding(parts, cut, m)'
      BY <3>1 DEF Decoding, Stands
    <3> QED
      BY <3>1, <3>2, <3>3, <3>4, <3>5 DEF TextInv
  <2> QED
    BY <2>1, <2>2, <2>3, <2>4, <2>5, <2>6 DEF TextStep
<1> QED
  BY <1>1, <1>2, PTL DEF TextSpec

\* A sequence that agrees with another as far as it goes is a prefix of it.
LEMMA Prefix ==
    ASSUME NEW S, NEW s \in Seq(S), NEW t \in Seq(S), Len(s) <= Len(t),
           \A k \in 1..Len(s) : s[k] = t[k]
    PROVE  IsPrefix(s, t)
<1>1. Len(s) \in Nat /\ Len(t) \in Nat
  OBVIOUS
<1>2. SubSeq(t, 1, Len(s)) = s
  <2>1. /\ SubSeq(t, 1, Len(s)) \in Seq(S) /\ Len(SubSeq(t, 1, Len(s))) = Len(s)
        /\ \A k \in 1..Len(s) : SubSeq(t, 1, Len(s))[k] = t[k]
    BY <1>1
  <2> QED
    BY <2>1
<1> QED
  BY <1>1, <1>2 DEF IsPrefix

\* decode gives back what the server said, whatever it says: at every code what
\* it has is the beginning of the text and its table the beginning of the
\* server's, and at the end nothing is missing.
THEOREM DecodesWhatWasSaid == TextSpec => []DecodedAsSent
<1>1. TextInv => DecodedAsSent
  <2> SUFFICES ASSUME TextInv PROVE DecodedAsSent
    OBVIOUS
  <2>1. reading = "decoded" => g = text
    BY DEF TextInv
  <2>2. ASSUME reading = "decode"
        PROVE  IsPrefix(g, text) /\ (f # << >> => IsPrefix(e, learnt))
    <3>1. TextTypes
      BY DEF TextInv
    <3>2. PICK parts \in Seq(Texts) :
              \E ct \in [1..(Len(parts) + 1) -> Nat] : \E k \in 0..Len(parts) :
                 Parse(parts, ct) /\ Decoding(parts, ct, k)
      BY <2>2, Reading
    <3>3. PICK cut \in [1..(Len(parts) + 1) -> Nat] : \E k \in 0..Len(parts) :
              Parse(parts, cut) /\ Decoding(parts, cut, k)
      BY <3>2
    <3>4. PICK m \in 0..Len(parts) : Parse(parts, cut) /\ Decoding(parts, cut, m)
      BY <3>3
    <3>5. /\ g \in Seq(Char) /\ text \in Seq(Char)
          /\ e \in Seq(Texts) /\ learnt \in Seq(Texts)
          /\ Len(parts) \in Nat /\ m \in Nat
      BY <3>1 DEF TextTypes, Texts
    <3>6. CASE m = 0
      <4>1. g = << >> /\ f = << >>
        BY <3>4, <3>6 DEF Decoding
      <4>2. Len(g) <= Len(text) /\ \A k \in 1..Len(g) : g[k] = text[k]
        BY <3>5, <4>1
      <4> QED
        BY <3>5, <4>1, <4>2, Prefix
    <3>7. CASE m # 0
      <4>1. m > 0 /\ m \in 1..Len(parts)
        BY <3>5, <3>7
      <4>2. /\ Len(g) = cut[m + 1] /\ \A k \in 1..Len(g) : g[k] = text[k]
            /\ Len(e) = m - 1 /\ \A i \in 1..(m - 1) : e[i] = learnt[i]
        BY <3>4, <4>1 DEF Decoding
      <4>3. cut[m + 1] <= Len(text) /\ DOMAIN learnt = 1..(Len(parts) - 1)
        BY <3>4, <4>1 DEF Parse
      <4>4. Len(e) <= Len(learnt)
        BY <3>5, <4>1, <4>2, <4>3
      <4>5. IsPrefix(g, text)
        BY <3>5, <4>2, <4>3, Prefix
      <4>6. IsPrefix(e, learnt)
        BY <3>5, <4>2, <4>4, Prefix
      <4> QED
        BY <4>5, <4>6
    <3> QED
      BY <3>6, <3>7
  <2> QED
    BY <2>1, <2>2 DEF DecodedAsSent
<1> QED
  BY <1>1, BothSidesAgree, PTL
-----------------------------------------------------------------------------
(* Records: a strike as a row, and read again *)

\* What either program makes of a line or an object that has a time.
IsMade(s) ==
    /\ \E d \in Int, n \in Nat : n < 1000 /\ s.timestamp = [datetime |-> << d >>, nanosecond |-> n]
    /\ \E a : s.altitude = << a >>
    /\ \E err \in Nat : err <= 32767 /\ s.lateral_error = << err >>

\* What fits a small integer is sent as it is.
LEMMA SentAsInt ==
    ASSUME NEW n \in Int, 0 <= n, n <= 32767
    PROVE  IntToSql(n, "int2") = n
<1>1. (n + 32768) % 65536 = n + 32768
  OBVIOUS
<1> QED
  BY <1>1 DEF IntToSql

\* A value sent is one value in its column.
LEMMA SentOne ==
    ASSUME NEW kind, NEW v, NEW type
    PROVE  ToSql(Param(kind, v), type) = << IF kind = "int" THEN IntToSql(v, type) ELSE v >>
<1> DEFINE w == IF kind = "int" THEN IntToSql(v, type) ELSE v
<1>1. Param(kind, v).value = << v >> /\ Param(kind, v).is = kind
  BY DEF Param
<1>2. DOMAIN << v >> = 1..1 /\ << v >>[1] = v /\ 1..1 = {1}
  OBVIOUS
<1>3. ToSql(Param(kind, v), type) = [i \in 1..1 |-> w]
  <2>1. \A i \in 1..1 : (IF Param(kind, v).is = "int" THEN IntToSql(Param(kind, v).value[i], type)
                                           ELSE Param(kind, v).value[i]) = w
    BY <1>1, <1>2
  <2>2. DOMAIN Param(kind, v).value = 1..1
    BY <1>1, <1>2
  <2> HIDE DEF w
  <2> QED
    BY <2>1, <2>2 DEF ToSql
<1> HIDE DEF w
<1>4. [i \in 1..1 |-> w] = << w >>
  OBVIOUS
<1> QED
  BY <1>3, <1>4 DEF w

\* The columns of a strike's row.
LEMMA RowIs ==
    ASSUME NEW s, IsMade(s), NEW r
    PROVE  /\ DOMAIN Row(s, r) = DOMAIN ColumnType
           /\ Row(s, r).datetime = s.timestamp.datetime
           /\ Row(s, r).nanoseconds = << s.timestamp.nanosecond >>
           /\ Row(s, r).x = << s.x >> /\ Row(s, r).y = << s.y >>
           /\ \E a : Row(s, r).altitude = << a >>
           /\ \E a : Row(s, r).region = << a >>
           /\ Row(s, r).error2d = s.lateral_error
<1> PICK d \in Int, n \in Nat : n < 1000 /\ s.timestamp = [datetime |-> << d >>, nanosecond |-> n]
  BY DEF IsMade
<1> PICK a : s.altitude = << a >>
  BY DEF IsMade
<1> PICK err \in Nat : err <= 32767 /\ s.lateral_error = << err >>
  BY DEF IsMade
<1> PICK t : t = (r \o s.region \o <<1>>)[1]
  OBVIOUS
<1>1. OrNull("int", s.altitude) = Param("int", a) /\ OrNull("int", s.lateral_error) = Param("int", err)
  BY DEF OrNull
<1>2. s.timestamp.datetime[1] = d /\ s.timestamp.nanosecond = n /\ s.timestamp.datetime = << d >>
  OBVIOUS
<1> DEFINE param == [datetime |-> Param("timestamp", d),
                     nanoseconds |-> Param("int", n),
                     x |-> Param("float", s.x), y |-> Param("float", s.y),
                     altitude |-> Param("int", a),
                     region |-> Param("int", t),
                     error2d |-> Param("int", err)]
<1>3. Row(s, r) = [column \in DOMAIN ColumnType |-> ToSql(param[column], ColumnType[column])]
  BY <1>1, <1>2 DEF Row
<1>4. /\ param.datetime = Param("timestamp", d)
      /\ param.nanoseconds = Param("int", n)
      /\ param.x = Param("float", s.x) /\ param.y = Param("float", s.y)
      /\ param.altitude = Param("int", a)
      /\ param.region = Param("int", t)
      /\ param.error2d = Param("int", err)
  OBVIOUS
<1> HIDE DEF param
<1>5. /\ {"datetime", "nanoseconds", "x", "y", "altitude", "region", "error2d"} = DOMAIN ColumnType
      /\ ColumnType["nanoseconds"] = "int2" /\ ColumnType["error2d"] = "int2"
  BY DEF ColumnType
<1>6. /\ DOMAIN Row(s, r) = DOMAIN ColumnType
      /\ \A column \in DOMAIN ColumnType : Row(s, r)[column] = ToSql(param[column], ColumnType[column])
  <2>1. DOMAIN Row(s, r) = DOMAIN ColumnType
    BY <1>3
  <2>2. ASSUME NEW column \in DOMAIN ColumnType
        PROVE  Row(s, r)[column] = ToSql(param[column], ColumnType[column])
    BY <1>3
  <2> QED
    BY <2>1, <2>2
<1>7. Row(s, r).datetime = << d >>
  BY <1>4, <1>5, <1>6, SentOne
<1>8. Row(s, r).nanoseconds = << n >>
  <2>1. IntToSql(n, "int2") = n
    BY SentAsInt
  <2> QED
    BY <1>4, <1>5, <1>6, <2>1, SentOne
<1>9. Row(s, r).x = << s.x >> /\ Row(s, r).y = << s.y >>
  BY <1>4, <1>5, <1>6, SentOne
<1>10. \E b : Row(s, r).altitude = << b >>
  BY <1>4, <1>5, <1>6, SentOne
<1>11. \E b : Row(s, r).region = << b >>
  BY <1>4, <1>5, <1>6, SentOne
<1>12. Row(s, r).error2d = << err >>
  <2>1. IntToSql(err, "int2") = err
    BY SentAsInt
  <2> QED
    BY <1>4, <1>5, <1>6, <2>1, SentOne
<1> QED
  BY <1>2, <1>6, <1>7, <1>8, <1>9, <1>10, <1>11, <1>12

\* A row is read without an error, each column as what it holds.
LEMMA RowReads ==
    ASSUME NEW s, IsMade(s), NEW r
    PROVE  /\ ConvertRow(Row(s, r)).is = "row"
           /\ GetTimestamp(Values(Row(s, r)).datetime) = s.timestamp.datetime
           /\ GetNumber(Values(Row(s, r)).nanoseconds) = << s.timestamp.nanosecond >>
           /\ GetNumber(Values(Row(s, r)).x) = << s.x >> /\ GetNumber(Values(Row(s, r)).y) = << s.y >>
           /\ GetNumber(Values(Row(s, r)).error2d) = s.lateral_error
<1> PICK row : row = Row(s, r)
  OBVIOUS
<1> PICK d \in Int : s.timestamp.datetime = << d >>
  BY DEF IsMade
<1> PICK err \in Int : s.lateral_error = << err >>
  BY DEF IsMade
<1>1. /\ DOMAIN row = DOMAIN ColumnType
      /\ row.datetime = << d >>
      /\ row.nanoseconds = << s.timestamp.nanosecond >>
      /\ row.x = << s.x >> /\ row.y = << s.y >>
      /\ \E a : row.altitude = << a >>
      /\ \E a : row.region = << a >>
      /\ row.error2d = << err >>
  BY RowIs
<1>2. DOMAIN ColumnType = {"datetime", "nanoseconds", "x", "y", "altitude", "region", "error2d"}
  BY DEF ColumnType
<1>3. \A a : << a >> # << >> /\ << a >>[1] = a
  OBVIOUS
<1>4. \A column \in DOMAIN row : \E a : row[column] = << a >>
  BY <1>1, <1>2
<1>5. ~ \E column \in DOMAIN row : row[column] = << >>
  BY <1>3, <1>4
<1> DEFINE kind == [column \in DOMAIN row |->
                       CASE ColumnType[column] = "int2" -> "int"
                         [] ColumnType[column] = "float8" -> "float"
                         [] ColumnType[column] = "timestamptz" -> "timestamp"]
           values == [column \in DOMAIN row |->
             [is |-> CASE ColumnType[column] = "int2" -> "int"
                       [] ColumnType[column] = "float8" -> "float"
                       [] ColumnType[column] = "timestamptz" -> "timestamp",
              value |-> row[column][1]]]
<1>6. ConvertRow(row) = [is |-> "row", values |-> values]
  BY <1>5, Zenon DEF ConvertRow
<1>7. ConvertRow(row).is = "row" /\ Values(row) = values
  <2> HIDE DEF values
  <2> QED BY <1>6 DEF Values
<1>8. /\ "datetime" \in DOMAIN row /\ "nanoseconds" \in DOMAIN row /\ "x" \in DOMAIN row
      /\ "y" \in DOMAIN row /\ "error2d" \in DOMAIN row
  BY <1>1, <1>2
<1>9. /\ ColumnType["datetime"] = "timestamptz" /\ ColumnType["nanoseconds"] = "int2"
      /\ ColumnType["x"] = "float8" /\ ColumnType["y"] = "float8" /\ ColumnType["error2d"] = "int2"
  BY DEF ColumnType
<1>10. /\ values["datetime"] = [is |-> "timestamp", value |-> row["datetime"][1]]
       /\ values["nanoseconds"] = [is |-> "int", value |-> row["nanoseconds"][1]]
       /\ values["x"] = [is |-> "float", value |-> row["x"][1]]
       /\ values["y"] = [is |-> "float", value |-> row["y"][1]]
       /\ values["error2d"] = [is |-> "int", value |-> row["error2d"][1]]
  BY <1>8, <1>9
<1> HIDE DEF values, kind
<1>11. \A v : /\ GetTimestamp([is |-> "timestamp", value |-> v]) = << v >>
              /\ GetNumber([is |-> "int", value |-> v]) = << v >>
              /\ GetNumber([is |-> "float", value |-> v]) = << v >>
  BY DEF GetTimestamp, GetNumber
<1>12. /\ GetTimestamp(values.datetime) = << d >>
       /\ GetNumber(values.nanoseconds) = << s.timestamp.nanosecond >>
       /\ GetNumber(values.x) = << s.x >> /\ GetNumber(values.y) = << s.y >>
       /\ GetNumber(values.error2d) = << err >>
  BY <1>1, <1>3, <1>10, <1>11
<1> QED
  BY <1>7, <1>12

\* Its time, to the nanosecond.
LEMMA TimeReads ==
    ASSUME NEW s, IsMade(s), NEW r
    PROVE  TimeOf(Values(Row(s, r))) = s.timestamp
<1> PICK d \in Int, n \in Nat : n < 1000 /\ s.timestamp = [datetime |-> << d >>, nanosecond |-> n]
  BY DEF IsMade
<1>1. s.timestamp.datetime = << d >> /\ s.timestamp.nanosecond = n
  OBVIOUS
<1>2. GetTimestamp(Values(Row(s, r)).datetime)[1] = d /\ GetNumber(Values(Row(s, r)).nanoseconds)[1] = n
  BY <1>1, RowReads
<1>3. d + n \div 1000 = d /\ n % 1000 = n
  OBVIOUS
<1> QED
  BY <1>2, <1>3 DEF TimeOf, Timestamp

\* Either way to its key leads to that of the strike.
LEMMA RowKey ==
    ASSUME NEW s, IsMade(s), NEW r
    PROVE  /\ SelectedKey(Values(Row(s, r))) = CreateStrikeKey(s)
           /\ CreateStrikeKey(MapStrike(Values(Row(s, r)))) = CreateStrikeKey(s)
<1> PICK v : v = Values(Row(s, r))
  OBVIOUS
<1>1. /\ TimeOf(v) = s.timestamp
      /\ GetNumber(v.x) = << s.x >> /\ GetNumber(v.y) = << s.y >>
      /\ GetNumber(v.error2d) = s.lateral_error
  BY RowReads, TimeReads
<1>2. GetNumber(v.x)[1] = s.x /\ GetNumber(v.y)[1] = s.y
  BY <1>1
<1>3. SelectedKey(v) = CreateStrikeKey(s)
  BY <1>1, <1>2 DEF SelectedKey, CreateStrikeKey
<1> PICK err \in Nat : err <= 32767 /\ s.lateral_error = << err >>
  BY DEF IsMade
<1>4. ForceRange(0, err, 32767) = err
  BY DEF ForceRange
<1>5. << ForceRange(0, GetNumber(v.error2d)[1], 32767) >> = s.lateral_error
  BY <1>1, <1>4
<1>6. /\ MapStrike(v).timestamp = s.timestamp /\ MapStrike(v).x = s.x /\ MapStrike(v).y = s.y
      /\ MapStrike(v).lateral_error = s.lateral_error
  BY <1>1, <1>2, <1>5 DEF MapStrike
<1>7. CreateStrikeKey(MapStrike(v)) = CreateStrikeKey(s)
  BY <1>6 DEF CreateStrikeKey
<1> QED
  BY <1>3, <1>7

\* Rows of one spot and deviation have one key.
LEMMA SpotTellsKey ==
    ASSUME NEW s, IsMade(s), NEW r, NEW t, IsMade(t), NEW q,
           Spot(Row(s, r)) = Spot(Row(t, q)), Row(s, r).error2d = Row(t, q).error2d
    PROVE  SelectedKey(Values(Row(s, r))) = SelectedKey(Values(Row(t, q)))
<1> PICK a : a = Row(s, r)
  OBVIOUS
<1> PICK b : b = Row(t, q)
  OBVIOUS
<1>1. /\ a.datetime = s.timestamp.datetime /\ a.nanoseconds = << s.timestamp.nanosecond >>
      /\ a.x = << s.x >> /\ a.y = << s.y >> /\ a.error2d = s.lateral_error
      /\ b.datetime = t.timestamp.datetime /\ b.nanoseconds = << t.timestamp.nanosecond >>
      /\ b.x = << t.x >> /\ b.y = << t.y >> /\ b.error2d = t.lateral_error
  BY RowIs
<1>2. /\ a.datetime = b.datetime /\ a.nanoseconds = b.nanoseconds
      /\ Round4(a.x[1]) = Round4(b.x[1]) /\ Round4(a.y[1]) = Round4(b.y[1])
      /\ a.error2d = b.error2d
  <2>1. Spot(a) = Spot(b) /\ a.error2d = b.error2d
    OBVIOUS
  <2> QED
    BY <2>1 DEF Spot
<1>3. \A u, v : << u >> = << v >> => u = v
  OBVIOUS
<1>4. \A u : << u >>[1] = u
  OBVIOUS
<1>5. /\ s.timestamp.datetime = t.timestamp.datetime /\ s.timestamp.nanosecond = t.timestamp.nanosecond
      /\ Round4(s.x) = Round4(t.x) /\ Round4(s.y) = Round4(t.y)
      /\ s.lateral_error = t.lateral_error
  BY <1>1, <1>2, <1>3, <1>4
<1>6. TimeValue(s.timestamp) = TimeValue(t.timestamp)
  BY <1>5 DEF TimeValue
<1>7. CreateStrikeKey(s) = CreateStrikeKey(t)
  BY <1>5, <1>6 DEF CreateStrikeKey, Key
<1> QED
  BY <1>7, RowKey

------------------------------------------------------------------------------
(* The log files *)

\* A day is of so many hours, and an hour of so many files.
LEMMA Grid ==
    \E b, a \in Nat \ {0} : HourSpan = FileSpan * b /\ DaySpan = HourSpan * a
<1>1. PICK F \in Nat \ {0} : F = FileSpan
  BY SpansAssumption DEF SpansAssumption
<1>2. PICK H \in Nat \ {0} : H = HourSpan
  BY SpansAssumption DEF SpansAssumption
<1>3. PICK D \in Nat \ {0} : D = DaySpan
  BY SpansAssumption DEF SpansAssumption
<1>4. H % F = 0 /\ D % H = 0
  BY ONLY <1>1, <1>2, <1>3, SpansAssumption DEF SpansAssumption
<1>5. \E b \in Nat \ {0} : H = F * b
  BY <1>4, Multiple
<1>6. \E a \in Nat \ {0} : D = H * a
  BY <1>4, Multiple
<1> QED
  BY ONLY <1>1, <1>2, <1>3, <1>5, <1>6

\* A time is rounded to the begin of its file.
LEMMA Rounded ==
    ASSUME NEW t \in Int
    PROVE  RoundTime(t) = (t \div FileSpan) * FileSpan
<1>1. PICK F \in Nat \ {0} : F = FileSpan
  BY SpansAssumption DEF SpansAssumption
<1>2. PICK b \in Nat \ {0}, a \in Nat \ {0} : HourSpan = F * b /\ DaySpan = HourSpan * a
  BY <1>1, Grid
<1>3. PICK parts \in Nat \ {0} : parts = b * a
  <2>1. b * a \in Nat \ {0}
    OBVIOUS
  <2> QED
    BY <2>1
<1>4. DaySpan = F * parts
  <2>1. (F * b) * a = F * (b * a)
    OBVIOUS
  <2> QED
    BY ONLY <1>2, <1>3, <2>1
<1>5. (t % (F * parts)) % F = t % F
  BY Nested
<1>6. t % F = t - (t \div F) * F
  BY Leftover
<1>7. PICK p \in Int : p = t \div F
  BY DivBounds
<1>8. PICK x \in Int : x = p * F
  OBVIOUS
<1>9. RoundTime(t) = t - (t % F)
  BY ONLY <1>1, <1>4, <1>5 DEF RoundTime
<1>10. t % F = t - x
  BY ONLY <1>6, <1>7, <1>8
<1>11. RoundTime(t) = x
  BY ONLY <1>9, <1>10, t \in Int, x \in Int
<1> QED
  BY ONLY <1>1, <1>7, <1>8, <1>11

\* A strike's line is in the file that begins where its time is rounded to.
LEMMA InItsFile ==
    ASSUME NEW line, line.at \in Int
    PROVE  FileOf(line).path = LogPath((line.at \div FileSpan) * FileSpan)
<1> PICK F \in Nat \ {0} : F = FileSpan
  BY SpansAssumption DEF SpansAssumption
<1> PICK H \in Nat \ {0} : H = HourSpan
  BY SpansAssumption DEF SpansAssumption
<1> PICK D \in Nat \ {0} : D = DaySpan
  BY SpansAssumption DEF SpansAssumption
<1> PICK t \in Int : t = line.at
  OBVIOUS
<1>1. PICK b \in Nat \ {0}, a \in Nat \ {0} : H = F * b /\ D = H * a
  BY Grid
<1>2. PICK parts \in Nat \ {0} : parts = b * a
  <2>1. b * a \in Nat \ {0}
    OBVIOUS
  <2> QED
    BY <2>1
<1>3. D = F * parts
  <2>1. (F * b) * a = F * (b * a)
    OBVIOUS
  <2> QED
    BY ONLY <1>1, <1>2, <2>1
<1>4. PICK p \in Int : p = t \div F
  BY DivBounds
<1>5. PICK r \in Int : r = p * F
  OBVIOUS
<1>6. r \div F = p /\ r \div H = t \div H /\ r \div D = t \div D
  <2>1. r \div F = p
    <3>1. p * F <= r /\ r < p * F + F
      BY ONLY <1>5, r \in Int, p \in Int, F \in Nat \ {0}
    <3> QED
      BY ONLY DivUnique, <3>1, r \in Int, p \in Int, F \in Nat \ {0}
  <2>2. (r \div F) \div b = r \div (F * b)
    BY ONLY TwoDivisions, r \in Int, F \in Nat \ {0}, b \in Nat \ {0}
  <2>3. (t \div F) \div b = t \div (F * b)
    BY ONLY TwoDivisions, t \in Int, F \in Nat \ {0}, b \in Nat \ {0}
  <2>4. (r \div F) \div parts = r \div (F * parts)
    BY ONLY TwoDivisions, r \in Int, F \in Nat \ {0}, parts \in Nat \ {0}
  <2>5. (t \div F) \div parts = t \div (F * parts)
    BY ONLY TwoDivisions, t \in Int, F \in Nat \ {0}, parts \in Nat \ {0}
  <2>6. r \div H = t \div H
    BY ONLY <2>1, <2>2, <2>3, <1>1, <1>4
  <2>7. r \div D = t \div D
    BY ONLY <2>1, <2>4, <2>5, <1>3, <1>4
  <2> QED
    BY ONLY <2>1, <2>6, <2>7
<1>7. PICK h \in Int : h = t \div H
  BY DivBounds
<1>8. PICK d \in Int : d = t \div D
  BY DivBounds
<1>9. (t % D) \div H = h - d * a /\ (r % D) \div H = h - d * a
  <2>1. (t % (H * a)) \div H = (t \div H) - (t \div (H * a)) * a
    BY ONLY Nested, t \in Int, H \in Nat \ {0}, a \in Nat \ {0}
  <2>2. (r % (H * a)) \div H = (r \div H) - (r \div (H * a)) * a
    BY ONLY Nested, r \in Int, H \in Nat \ {0}, a \in Nat \ {0}
  <2> QED
    BY ONLY <1>1, <1>6, <1>7, <1>8, <2>1, <2>2
<1>10. (t % H) \div F = p - h * b
  <2>1. (t % (F * b)) \div F = (t \div F) - (t \div (F * b)) * b
    BY ONLY Nested, t \in Int, F \in Nat \ {0}, b \in Nat \ {0}
  <2> QED
    BY ONLY <1>1, <1>4, <1>7, <2>1
<1>11. r % H = r - h * H
  <2>1. r % H = r - (r \div H) * H
    BY ONLY Leftover, r \in Int, H \in Nat \ {0}
  <2> QED
    BY ONLY <1>6, <1>7, <2>1
<1>12. (p - h * b) * F = p * F - h * (F * b)
  <2>1. PICK x \in Int : x = h * b
    OBVIOUS
  <2>2. (p - x) * F = p * F - x * F
    BY ONLY Apart, p \in Int, x \in Int, F \in Int
  <2>3. (h * b) * F = h * (F * b)
    OBVIOUS
  <2> QED
    BY ONLY <2>1, <2>2, <2>3
<1>13. ((t % H) \div F) * F = r % H
  <2>1. (p - h * b) * F = p * F - h * H
    BY ONLY <1>1, <1>12
  <2> QED
    BY ONLY <2>1, <1>5, <1>10, <1>11
<1>14. FileOf(line).path = [day |-> t \div D, hour |-> (t % D) \div H, minute |-> ((t % H) \div F) * F]
  BY DEF FileOf
<1>15. LogPath(r) = [day |-> r \div D, hour |-> (r % D) \div H, minute |-> r % H]
  BY DEF LogPath
<1>16. FileOf(line).path = LogPath(r)
  BY ONLY <1>6, <1>8, <1>9, <1>13, <1>14, <1>15
<1> QED
  BY <1>4, <1>5, <1>16

\* A file's name tells its time.
LEMMA PathTellsTime ==
    ASSUME NEW s \in Int, NEW t \in Int, LogPath(s) = LogPath(t)
    PROVE  s = t
<1> PICK H \in Nat \ {0} : H = HourSpan
  BY SpansAssumption DEF SpansAssumption
<1> PICK D \in Nat \ {0} : D = DaySpan
  BY SpansAssumption DEF SpansAssumption
<1>1. PICK a \in Nat \ {0} : D = H * a
  BY Grid
<1>2. s \div D = t \div D /\ (s % D) \div H = (t % D) \div H /\ s % H = t % H
  BY DEF LogPath
<1>3. \A x \in Int : x % D \in Int /\ (x % D) % H = x % H
  <2> TAKE x \in Int
  <2>1. (x % (H * a)) % H = x % H
    BY ONLY Nested, x \in Int, H \in Nat \ {0}, a \in Nat \ {0}
  <2> QED
    BY ONLY <1>1, <2>1, x \in Int, D \in Nat \ {0}
<1>4. ASSUME NEW x \in Int
      PROVE  /\ x % D = ((x % D) \div H) * H + (x % H)
             /\ x = (x \div D) * D + (x % D)
  <2>1. PICK y \in Int : y = x % D
    BY <1>3
  <2>2. PICK p \in Int : p = y \div H
    BY DivBounds
  <2>3. PICK q \in Int : q = x \div D
    BY DivBounds
  <2>4. PICK u \in Int : u = p * H
    OBVIOUS
  <2>5. PICK v \in Int : v = q * D
    OBVIOUS
  <2>6. y % H = y - u /\ y % H = x % H
    <3>1. y % H = y - (y \div H) * H
      BY ONLY Leftover, y \in Int, H \in Nat \ {0}
    <3>2. y % H = x % H
      BY ONLY <1>3, <2>1, x \in Int
    <3> QED
      BY ONLY <2>2, <2>4, <3>1, <3>2
  <2>7. y = x - v
    <3>1. x % D = x - (x \div D) * D
      BY ONLY Leftover, x \in Int, D \in Nat \ {0}
    <3> QED
      BY ONLY <2>1, <2>3, <2>5, <3>1
  <2>8. PICK z \in Int : z = x % H
    BY <2>6
  <2>9. y = u + z /\ x = v + y
    BY ONLY <2>6, <2>7, <2>8, x \in Int, y \in Int, u \in Int, v \in Int, z \in Int
  <2> QED
    <3>1. ((x % D) \div H) * H = u
      BY ONLY <2>1, <2>2, <2>4
    <3>2. (x \div D) * D = v
      BY ONLY <2>3, <2>5
    <3> QED
      BY ONLY <2>1, <2>8, <2>9, <3>1, <3>2
<1>5. s % D = t % D
  <2>1. s % D = ((s % D) \div H) * H + (s % H) /\ t % D = ((t % D) \div H) * H + (t % H)
    BY <1>4
  <2> QED
    BY ONLY <1>2, <2>1
<1> QED
  <2>1. s = (s \div D) * D + (s % D) /\ t = (t \div D) * D + (t % D)
    BY <1>4
  <2> QED
    BY ONLY <1>2, <1>5, <2>1

\* The files from one time to another: each once, and that of every time between.
LEMMA FilesBetween ==
    ASSUME NEW start \in Int, NEW end \in Int
    PROVE  LET files == TimeIntervals(start, end) IN
           /\ \E n \in Nat : DOMAIN files = 1..n
           /\ \A k \in DOMAIN files : files[k] \in Int
           /\ \A k, l \in DOMAIN files : files[k] = files[l] => k = l
           /\ \A t \in Int : start <= t /\ t <= end =>
                \E k \in DOMAIN files : files[k] = (t \div FileSpan) * FileSpan
<1> PICK F \in Nat \ {0} : F = FileSpan
  BY SpansAssumption DEF SpansAssumption
<1> PICK p \in Int : p = start \div F
  BY DivBounds
<1> PICK q \in Int : q = end \div F
  BY DivBounds
<1>1. PICK x \in Int : x = p * F
  OBVIOUS
<1>2. PICK y \in Int : y = q * F
  OBVIOUS
<1>3. RoundTime(start) = x /\ RoundTime(end) = y
  BY <1>1, <1>2, Rounded
<1>4. (y - x) \div F = q - p
  <2>1. PICK z \in Int : z = q - p
    BY ONLY p \in Int, q \in Int
  <2>2. (q - p) * F = q * F - p * F
    BY ONLY Apart, p \in Int, q \in Int, F \in Int
  <2>3. z * F = y - x
    BY ONLY <1>1, <1>2, <2>1, <2>2
  <2>4. z * F <= y - x /\ y - x < z * F + F
    BY <2>3
  <2> QED
    BY <2>1, <2>4, DivUnique
<1>5. PICK n \in Int : n = q - p + 1
  BY ONLY p \in Int, q \in Int
<1> DEFINE files == [k \in 1..n |-> x + (k - 1) * F]
<1>6. TimeIntervals(start, end) = files
  <2>1. (RoundTime(end) - RoundTime(start)) \div F + 1 = n
    BY ONLY <1>3, <1>4, <1>5
  <2> QED
    BY ONLY <1>3, <2>1, F = FileSpan DEF TimeIntervals
<1>7. \E m \in Nat : DOMAIN files = 1..m
  <2>1. CASE n >= 0
    <3>1. n \in Nat
      BY <2>1
    <3> QED
      BY <3>1
  <2>2. CASE n < 0
    <3>1. 1..n = 1..0
      BY <2>2
    <3> QED
      BY <3>1
  <2> QED
    BY <2>1, <2>2
<1>8. \A k \in 1..n : (k - 1) * F \in Int
  OBVIOUS
<1>9. \A k \in DOMAIN files : files[k] \in Int
  BY <1>8
<1>10. \A k, l \in Int : (k - 1) * F = (l - 1) * F => k = l
  <2> SUFFICES ASSUME NEW k \in Int, NEW l \in Int, (k - 1) * F = (l - 1) * F
               PROVE  k = l
    OBVIOUS
  <2>1. PICK i \in Int : i = k - 1
    OBVIOUS
  <2>2. PICK j \in Int : j = l - 1
    OBVIOUS
  <2>3. PICK z \in Int : z = i * F /\ z = j * F
    BY <2>1, <2>2
  <2>4. z \div F = i /\ z \div F = j
    <3>1. i * F <= z /\ z < i * F + F /\ j * F <= z /\ z < j * F + F
      BY <2>3
    <3> QED
      BY <3>1, DivUnique
  <2> QED
    BY <2>1, <2>2, <2>4
<1>11. \A k, l \in DOMAIN files : files[k] = files[l] => k = l
  <2> SUFFICES ASSUME NEW k \in 1..n, NEW l \in 1..n, x + (k - 1) * F = x + (l - 1) * F
               PROVE  k = l
    OBVIOUS
  <2>1. (k - 1) * F = (l - 1) * F
    BY <1>8
  <2> QED
    BY <1>10, <2>1
<1>12. ASSUME NEW t \in Int, start <= t, t <= end
       PROVE  \E k \in DOMAIN files : files[k] = (t \div F) * F
  <2>1. PICK m \in Int : m = t \div F
    BY DivBounds
  <2>2. p <= m /\ m <= q
    BY <1>12, <2>1, Monotone
  <2>3. PICK k \in Int : k = m - p + 1
    BY ONLY m \in Int, p \in Int
  <2>4. k \in 1..n /\ k - 1 = m - p
    BY ONLY <1>5, <2>2, <2>3, m \in Int, p \in Int, q \in Int
  <2>5. (m - p) * F = m * F - p * F
    BY ONLY Apart, p \in Int, m \in Int, F \in Int
  <2>6. x + (k - 1) * F = m * F
    <3>1. PICK w \in Int : w = m * F
      OBVIOUS
    <3>2. (k - 1) * F = w - x
      BY ONLY <1>1, <2>4, <2>5, <3>1
    <3>3. x + (k - 1) * F = w
      BY <3>2
    <3> QED
      BY <3>1, <3>3
  <2>7. files[k] = m * F
    BY <2>4, <2>6
  <2> QED
    BY <2>1, <2>4, <2>7
<1> HIDE DEF files
<1> QED
  BY <1>6, <1>7, <1>9, <1>11, <1>12
-----------------------------------------------------------------------------
(* Lines and objects *)

\* The mark is a time.
LEMMA MarkIsTime ==
    ASSUME IsFeed(feed)
    PROVE  Mark \in Int
<1>1. /\ feed.now \in Int /\ UpdateSpan \in Int /\ DefaultSpan \in Int /\ DaySpan \in Int
      /\ feed.startdate \in {DefaultDate, BadDate} \/ feed.startdate \in Int
      /\ feed.latest = << >> \/ feed.latest[1] \in Int
  BY SpansAssumption DEF SpansAssumption, IsFeed
<1>2. StartTime = << >> \/ StartTime[1] \in Int
  <2>1. \A date \in Int : << date * DaySpan >>[1] \in Int
    BY <1>1
  <2> QED
    BY <1>1, <2>1 DEF StartTime, ParseStartDate
<1> PICK start : start = StartTime
  OBVIOUS
<1> PICK latest : latest = IF feed.latest # << >> THEN feed.latest ELSE start
  OBVIOUS
<1>3. latest = << >> \/ latest[1] \in Int
  BY <1>1, <1>2
<1> PICK begin \in Int : begin = feed.now - UpdateSpan
  BY <1>1
<1>4. << begin >>[1] = begin
  OBVIOUS
<1>5. LatestTime = IF feed.update /\ (latest = << >> \/ begin > latest[1]) THEN << begin >> ELSE latest
  BY DEF LatestTime
<1>6. LatestTime = << >> \/ LatestTime[1] \in Int
  BY ONLY <1>3, <1>4, <1>5
<1>7. feed.now - DefaultSpan \in Int
  BY <1>1
<1> QED
  BY <1>6, <1>7 DEF Mark

\* A deviation that fits its column.
LEMMA Deviation ==
    ASSUME NEW v \in Int
    PROVE  /\ ForceRange(0, Truncated(v), 32767) \in Nat
           /\ ForceRange(0, Truncated(v), 32767) <= 32767
<1>1. PICK w \in Int : w = Truncated(v)
  BY DEF Truncated
<1>2. ForceRange(0, w, 32767) \in Nat /\ ForceRange(0, w, 32767) <= 32767
  BY DEF ForceRange
<1> QED
  BY ONLY <1>1, <1>2

\* A strike made of a line that has its time, at this time.
LEMMA LineIsMade ==
    ASSUME NEW line, NEW clock, IsLine(line, clock), LineComplete(line), line.stamp # << >>
    PROVE  /\ IsMade(BuildStrikeFromLine(line))
           /\ BuildStrikeFromLine(line).timestamp.datetime = << line.at >>
           /\ line.at \in Int /\ line.at <= clock
<1>1. /\ line.at \in Int /\ line.at <= clock /\ line.dev[1] \in Int
      /\ line.stamp[1].micros = line.at
      /\ line.stamp[1].nanos \in Nat /\ line.stamp[1].nanos < 1000
  BY DEF IsLine, LineComplete
<1> PICK v \in Int : v = line.dev[1]
  BY <1>1
<1> PICK err \in Nat : err = ForceRange(0, Truncated(v), 32767) /\ err <= 32767
  BY Deviation
<1> PICK d \in Int : d = line.at
  BY <1>1
<1> PICK n \in Nat : n = line.stamp[1].nanos /\ n < 1000
  BY <1>1
<1> PICK t : t = FromTimestamp(line.stamp)
  OBVIOUS
<1>2. t = [datetime |-> << d >>, nanosecond |-> n]
  BY <1>1 DEF FromTimestamp
<1> PICK b : b = FromLine(NewBuilder, line)
  OBVIOUS
<1>3. b.timestamp = << t >> /\ b.altitude = << line.pos[1].alt >> /\ b.lateral_error = << err >>
  BY DEF FromLine, NewBuilder
<1> PICK s : s = BuildStrikeFromLine(line)
  OBVIOUS
<1>4. s.timestamp = t /\ s.altitude = << line.pos[1].alt >> /\ s.lateral_error = << err >>
  BY <1>3 DEF Build, BuildStrikeFromLine
<1>5. IsMade(s)
  BY <1>2, <1>4 DEF IsMade
<1> QED
  BY <1>1, <1>2, <1>4, <1>5

\* A line without a time makes no strike that is newer than anything.
LEMMA NewerHasTime ==
    ASSUME NEW line, Newer(BuildStrikeFromLine(line))
    PROVE  line.stamp # << >>
<1> SUFFICES ASSUME line.stamp = << >> PROVE FALSE
  OBVIOUS
<1>1. FromTimestamp(line.stamp) = NAT
  BY DEF FromTimestamp
<1>2. FromLine(NewBuilder, line).timestamp = << NAT >>
  BY <1>1 DEF FromLine, NewBuilder
<1>3. BuildStrikeFromLine(line).timestamp = NAT
  BY <1>2 DEF Build, BuildStrikeFromLine
<1>4. NAT.datetime = << >>
  BY DEF NAT
<1> QED
  BY <1>3, <1>4 DEF Newer, IsValid

\* A strike made of an object.
LEMMA ObjectIsMade ==
    ASSUME NEW json, IsObject(json), ObjectComplete(json)
    PROVE  IsMade(Build(FromJson(NewBuilder, json)))
<1>1. json.time[1] \in Int /\ OrZero(json.mds) \in Int
  BY DEF IsObject, ObjectComplete, OrZero
<1> PICK err \in Nat : err = ForceRange(0, Truncated(OrZero(json.mds)), 32767) /\ err <= 32767
  BY <1>1, Deviation
<1> PICK d \in Int : d = json.time[1] \div 1000
  BY <1>1
<1> PICK n \in Nat : n = json.time[1] % 1000 /\ n < 1000
  BY <1>1
<1> PICK t : t = FromNanosecondValue(json.time[1])
  OBVIOUS
<1>3. t = [datetime |-> << d >>, nanosecond |-> n]
  BY DEF FromNanosecondValue
<1> PICK b : b = FromJson(NewBuilder, json)
  OBVIOUS
<1>4. b.timestamp = << t >> /\ b.altitude = << OrZero(json.alt) >> /\ b.lateral_error = << err >>
  BY DEF FromJson, NewBuilder
<1> PICK s : s = Build(b)
  OBVIOUS
<1>5. s.timestamp = t /\ s.altitude = << OrZero(json.alt) >> /\ s.lateral_error = << err >>
  BY <1>4 DEF Build
<1> QED
  BY <1>3, <1>5 DEF IsMade

\* The builder's parts.
Parts == DOMAIN NewBuilder

\* Whatever a builder has met before, an object sets all of it.
LEMMA AllIsSet ==
    ASSUME NEW b, DOMAIN b = Parts, NEW json
    PROVE  /\ DOMAIN FromJson(b, json) = Parts
           /\ Build(FromJson(b, json)) = Build(FromJson(NewBuilder, json))
<1>1. Parts = {"timestamp", "x", "y", "altitude", "lateral_error", "region"}
  BY DEF Parts, NewBuilder
<1>2. DOMAIN FromJson(b, json) = Parts
  BY DEF FromJson
<1> PICK one : one = FromJson(b, json)
  OBVIOUS
<1> PICK d : d = FromJson(NewBuilder, json)
  OBVIOUS
<1>3. /\ one.timestamp = << FromNanosecondValue(json.time[1]) >>
      /\ one.x = << Round4(json.lon[1]) >> /\ one.y = << Round4(json.lat[1]) >>
      /\ one.altitude = << OrZero(json.alt) >>
      /\ one.lateral_error = << ForceRange(0, Truncated(OrZero(json.mds)), 32767) >>
      /\ one.region = json.region
  BY <1>1 DEF FromJson
<1>4. /\ d.timestamp = << FromNanosecondValue(json.time[1]) >>
      /\ d.x = << Round4(json.lon[1]) >> /\ d.y = << Round4(json.lat[1]) >>
      /\ d.altitude = << OrZero(json.alt) >>
      /\ d.lateral_error = << ForceRange(0, Truncated(OrZero(json.mds)), 32767) >>
      /\ d.region = json.region
  BY DEF FromJson, NewBuilder
<1>5. Build(one) = Build(d)
  BY ONLY <1>3, <1>4 DEF Build
<1> QED
  BY <1>2, <1>5
-----------------------------------------------------------------------------
(* What bo-import makes of a log *)

\* What a filter leaves of a list.
Picks(list, T) ==
    /\ Among(list, T) \in Seq(ToSet(list))
    /\ ToSet(Among(list, T)) = ToSet(list) \cap T
    /\ \A U : Once(list, U) => Once(Among(list, T), U)

LEMMA PicksFacts ==
    ASSUME NEW S, NEW list \in Seq(S), NEW T
    PROVE  Picks(list, T)
<1>1. list \in Seq(ToSet(list))
  BY DEF ToSet
<1> QED
  BY <1>1, AmongOnce DEF Picks

\* The parts of ImportLog.
Files == [k \in DOMAIN GetPaths |-> LinesOf(BuildPath(GetPaths[k], ImportRegion))]
LogLines == FlattenSeq(Files)
CompleteLines == Among(LogLines, {line \in ToSet(LogLines) : LineComplete(line)})
BuiltLines == [i \in DOMAIN CompleteLines |-> BuildStrikeFromLine(CompleteLines[i])]
NewLines == Among(BuiltLines, {strike \in ToSet(BuiltLines) : Newer(strike)})

UsableLines == {line \in ToSet(feed.log) : Usable(line)}

\* Usable lines with one key are one.
LEMMA OneLine ==
    ASSUME IsFeed(feed), NEW l \in UsableLines, NEW m \in UsableLines, LineKey(l) = LineKey(m)
    PROVE  l = m
<1>1. PICK i \in DOMAIN feed.log : l = feed.log[i]
  BY DEF UsableLines, ToSet
<1>2. PICK j \in DOMAIN feed.log : m = feed.log[j]
  BY DEF UsableLines, ToSet
<1>3. Usable(feed.log[i]) /\ Usable(feed.log[j])
  BY <1>1, <1>2 DEF UsableLines
<1>4. i = j
  BY <1>1, <1>2, <1>3 DEF IsFeed
<1> QED
  BY <1>1, <1>2, <1>4

\* The files of an import: each once, with the lines of the region.
LEMMA FilesFacts ==
    ASSUME IsFeed(feed)
    PROVE  /\ Len(Files) \in Nat /\ DOMAIN Files = 1..Len(Files)
           /\ Len(Files) = 0 => Files = << >>
           /\ \A k \in DOMAIN Files :
                /\ Files[k] \in Seq(ToSet(feed.log))
                /\ \A line \in ToSet(Files[k]) :
                      /\ line \in ToSet(feed.log) /\ feed.status = "200"
                      /\ line.region = ImportRegion
                /\ Once(Files[k], UsableLines)
           /\ \A k, l \in DOMAIN Files : \A line :
                line \in ToSet(Files[k]) /\ line \in ToSet(Files[l]) => k = l
           /\ \A line \in ToSet(feed.log) :
                feed.status = "200" /\ line.region = ImportRegion /\ Mark <= line.at
                   => \E k \in DOMAIN Files : line \in ToSet(Files[k])
<1> DEFINE files == TimeIntervals(Mark, feed.now)
<1>1. Mark \in Int /\ feed.now \in Int
  BY MarkIsTime DEF IsFeed
<1>2. /\ \E n \in Nat : DOMAIN files = 1..n
      /\ \A k \in DOMAIN files : files[k] \in Int
      /\ \A k, l \in DOMAIN files : files[k] = files[l] => k = l
      /\ \A t \in Int : Mark <= t /\ t <= feed.now =>
            \E k \in DOMAIN files : files[k] = (t \div FileSpan) * FileSpan
  BY <1>1, FilesBetween
<1> HIDE DEF files
<1>3. GetPaths = [k \in DOMAIN files |-> LogPath(files[k])]
  BY DEF GetPaths, files
<1>4. /\ DOMAIN Files = DOMAIN files
      /\ \A k \in DOMAIN files : Files[k] = LinesOf(BuildPath(LogPath(files[k]), ImportRegion))
  <2>1. DOMAIN GetPaths = DOMAIN files /\ \A k \in DOMAIN files : GetPaths[k] = LogPath(files[k])
    BY <1>3
  <2> QED
    BY <2>1 DEF Files
<1>5. PICK n \in Nat : DOMAIN files = 1..n
  BY <1>2
<1>6. Files \in Seq(ToSet(Files)) /\ Len(Files) = n
  <2>1. Files = [k \in 1..n |-> Files[k]]
    BY <1>4, <1>5 DEF Files
  <2> QED
    BY <2>1, ListOfValues
<1>7. /\ Len(Files) \in Nat /\ DOMAIN Files = 1..Len(Files)
      /\ Len(Files) = 0 => Files = << >>
  BY <1>4, <1>5, <1>6, EmptySeq
<1>8. /\ feed.log \in Seq(ToSet(feed.log))
      /\ \A line \in ToSet(feed.log) : line.at \in Int /\ line.at <= feed.now
  BY DEF IsFeed, IsLine
<1>9. Once(feed.log, UsableLines)
  <2> SUFFICES ASSUME NEW i \in DOMAIN feed.log, NEW j \in DOMAIN feed.log,
                      feed.log[i] = feed.log[j], feed.log[i] \in UsableLines
               PROVE  i = j
    BY DEF Once
  <2> QED
    BY DEF UsableLines, IsFeed
<1>10. ASSUME NEW url
       PROVE  /\ LinesOf(url) \in Seq(ToSet(feed.log))
              /\ Once(LinesOf(url), UsableLines)
              /\ \A line \in ToSet(LinesOf(url)) :
                    line \in ToSet(feed.log) /\ feed.status = "200" /\ FileOf(line) = url
              /\ \A line \in ToSet(feed.log) :
                    feed.status = "200" /\ FileOf(line) = url => line \in ToSet(LinesOf(url))
  <2> DEFINE T == {line \in ToSet(feed.log) : FileOf(line) = url}
  <2>1. CASE feed.status = "200"
    <3>1. LinesOf(url) = Among(feed.log, T)
      BY <2>1 DEF LinesOf
    <3>2. \A line : line \in T <=> line \in ToSet(feed.log) /\ FileOf(line) = url
      OBVIOUS
    <3> HIDE DEF T
    <3>3. Picks(feed.log, T)
      BY <1>8, PicksFacts
    <3> QED
      BY <1>9, <2>1, <3>1, <3>2, <3>3 DEF Picks
  <2>2. CASE feed.status # "200"
    <3>1. LinesOf(url) = << >>
      BY <2>2 DEF LinesOf
    <3>2. ToSet(<< >>) = {}
      BY DEF ToSet
    <3>3. << >> \in Seq(ToSet(feed.log)) /\ Once(<< >>, UsableLines)
      BY DEF Once
    <3> QED
      BY <2>2, <3>1, <3>2, <3>3
  <2> QED
    BY <2>1, <2>2
<1>11. \A line, path : FileOf(line) = BuildPath(path, ImportRegion)
                         <=> line.region = ImportRegion /\ FileOf(line).path = path
  BY DEF FileOf, BuildPath
<1>12. ASSUME NEW k \in DOMAIN Files
       PROVE  /\ Files[k] \in Seq(ToSet(feed.log))
              /\ \A line \in ToSet(Files[k]) :
                    /\ line \in ToSet(feed.log) /\ feed.status = "200"
                    /\ line.region = ImportRegion
                    /\ FileOf(line).path = LogPath(files[k])
              /\ Once(Files[k], UsableLines)
  <2> PICK url : url = BuildPath(LogPath(files[k]), ImportRegion)
    OBVIOUS
  <2>1. Files[k] = LinesOf(url)
    BY <1>4
  <2> QED
    BY <1>10, <1>11, <2>1
<1>13. ASSUME NEW k \in DOMAIN Files, NEW l \in DOMAIN Files, NEW line,
              line \in ToSet(Files[k]), line \in ToSet(Files[l])
       PROVE  k = l
  <2>1. LogPath(files[k]) = LogPath(files[l])
    BY <1>12, <1>13
  <2>2. files[k] \in Int /\ files[l] \in Int /\ k \in DOMAIN files /\ l \in DOMAIN files
    BY <1>2, <1>4
  <2>3. files[k] = files[l]
    BY <2>1, <2>2, PathTellsTime
  <2> QED
    BY <1>2, <2>2, <2>3
<1>14. ASSUME NEW line \in ToSet(feed.log),
              feed.status = "200", line.region = ImportRegion, Mark <= line.at
       PROVE  \E k \in DOMAIN Files : line \in ToSet(Files[k])
  <2>1. line.at \in Int /\ line.at <= feed.now
    BY <1>8
  <2>2. PICK k \in DOMAIN files : files[k] = (line.at \div FileSpan) * FileSpan
    BY <1>2, <1>14, <2>1
  <2>3. FileOf(line).path = LogPath(files[k])
    BY <2>1, <2>2, InItsFile
  <2> PICK url : url = BuildPath(LogPath(files[k]), ImportRegion)
    OBVIOUS
  <2>4. Files[k] = LinesOf(url) /\ k \in DOMAIN Files
    BY <1>4
  <2>5. FileOf(line) = url
    BY <1>11, <1>14, <2>3
  <2>6. line \in ToSet(LinesOf(url))
    BY <1>10, <1>14, <2>5
  <2> QED
    BY <2>4, <2>6
<1> QED
  BY <1>7, <1>12, <1>13, <1>14

\* What bo-import reads of the log, whatever the files.
LEMMA LinesFacts ==
    ASSUME IsFeed(feed)
    PROVE  /\ LogLines \in Seq(ToSet(feed.log))
           /\ Once(LogLines, UsableLines)
           /\ \A line \in ToSet(LogLines) :
                line \in ToSet(feed.log) /\ feed.status = "200" /\ line.region = ImportRegion
           /\ \A line \in ToSet(feed.log) :
                feed.status = "200" /\ line.region = ImportRegion /\ Mark <= line.at
                   => line \in ToSet(LogLines)
<1> PICK F : F = Files
  OBVIOUS
<1> PICK S : S = ToSet(feed.log)
  OBVIOUS
<1>1. /\ Len(F) \in Nat /\ DOMAIN F = 1..Len(F)
      /\ Len(F) = 0 => F = << >>
      /\ \A k \in 1..Len(F) : F[k] \in Seq(S) /\ Once(F[k], UsableLines)
      /\ \A k, l \in 1..Len(F) : \A line \in UsableLines :
            line \in ToSet(F[k]) /\ line \in ToSet(F[l]) => k = l
  BY FilesFacts
<1>2. Once(FlattenSeq(F), UsableLines)
  BY <1>1, FlattenOnce
<1>3. /\ FlattenSeq(F) \in Seq(S)
      /\ \A k \in DOMAIN F : ToSet(F[k]) \subseteq ToSet(FlattenSeq(F))
      /\ \A line \in ToSet(FlattenSeq(F)) : \E k \in DOMAIN F : line \in ToSet(F[k])
  BY <1>1, FlattenFacts
<1>4. LogLines = FlattenSeq(F)
  BY DEF LogLines
<1>5. \A line \in ToSet(LogLines) :
         line \in S /\ feed.status = "200" /\ line.region = ImportRegion
  BY <1>3, <1>4, FilesFacts
<1>6. \A line \in S :
         feed.status = "200" /\ line.region = ImportRegion /\ Mark <= line.at
            => line \in ToSet(LogLines)
  BY <1>3, <1>4, FilesFacts
<1> QED
  BY <1>2, <1>3, <1>4, <1>5, <1>6

\* The strikes it makes: of every expected line one, with a key of its own.
LEMMA NewFacts ==
    ASSUME IsFeed(feed)
    PROVE  /\ NewLines \in Seq(ToSet(NewLines))
           /\ \A i \in DOMAIN NewLines : \E m \in Expected :
                 NewLines[i] = BuildStrikeFromLine(feed.log[m]) /\ IsMade(NewLines[i])
           /\ \A m \in Expected : \E i \in DOMAIN NewLines :
                 NewLines[i] = BuildStrikeFromLine(feed.log[m])
           /\ \A i, j \in DOMAIN NewLines :
                 CreateStrikeKey(NewLines[i]) = CreateStrikeKey(NewLines[j]) => i = j
<1> DEFINE Is(line) == /\ line \in UsableLines /\ feed.status = "200"
                       /\ Newer(BuildStrikeFromLine(line))
<1>0. PICK kept : kept = CompleteLines
  OBVIOUS
<1>1. /\ kept \in Seq(ToSet(LogLines))
      /\ Once(kept, UsableLines)
      /\ \A line : line \in ToSet(kept) <=> line \in ToSet(LogLines) /\ LineComplete(line)
  <2> DEFINE T == {line \in ToSet(LogLines) : LineComplete(line)}
  <2>1. Picks(LogLines, T)
    BY LinesFacts, PicksFacts
  <2>2. kept = Among(LogLines, T)
    BY <1>0 DEF CompleteLines
  <2>3. \A line : line \in T <=> line \in ToSet(LogLines) /\ LineComplete(line)
    OBVIOUS
  <2> HIDE DEF T
  <2> QED
    BY <2>1, <2>2, <2>3, LinesFacts DEF Picks
<1>2. PICK n \in Nat : DOMAIN kept = 1..n
  BY <1>1
<1>3. PICK b : b = BuiltLines
  OBVIOUS
<1>4. /\ DOMAIN b = 1..n
      /\ \A i \in 1..n : b[i] = BuildStrikeFromLine(kept[i]) /\ kept[i] \in ToSet(kept)
      /\ b = [i \in 1..n |-> b[i]]
  BY <1>0, <1>2, <1>3 DEF BuiltLines, ToSet
<1>5. b \in Seq(ToSet(b))
  BY <1>4, ListOfValues
<1>6. ASSUME NEW i \in 1..n, Newer(b[i])
      PROVE  Is(kept[i])
  <2>1. kept[i] \in ToSet(LogLines) /\ LineComplete(kept[i])
    BY <1>1, <1>4
  <2>2. kept[i].stamp # << >>
    BY <1>4, <1>6, NewerHasTime
  <2> QED
    BY <1>4, <1>6, <2>1, <2>2, LinesFacts DEF UsableLines, Usable
<1>7. ASSUME NEW i \in 1..n, NEW j \in 1..n, Newer(b[i]), Newer(b[j]),
             CreateStrikeKey(b[i]) = CreateStrikeKey(b[j])
      PROVE  i = j
  <2>1. Is(kept[i]) /\ Is(kept[j]) /\ LineKey(kept[i]) = LineKey(kept[j])
    BY <1>4, <1>6, <1>7 DEF LineKey
  <2>2. kept[i] = kept[j]
    BY <2>1, OneLine
  <2> QED
    BY <1>1, <1>2, <2>1, <2>2 DEF Once
<1> DEFINE T == {strike \in ToSet(b) : Newer(strike)}
<1>8. \A strike : strike \in T <=> strike \in ToSet(b) /\ Newer(strike)
  OBVIOUS
<1>9. Once(b, T)
  <2> SUFFICES ASSUME NEW i \in DOMAIN b, NEW j \in DOMAIN b, b[i] = b[j], b[i] \in T
               PROVE  i = j
    BY DEF Once
  <2> QED
    BY <1>4, <1>7
<1>10. NewLines = Among(b, T)
  BY <1>3 DEF NewLines
<1> HIDE DEF T
<1>11. PICK new : new = NewLines
  OBVIOUS
<1>12. new \in Seq(ToSet(b)) /\ ToSet(new) = ToSet(b) \cap T /\ Once(new, T)
  <2>1. Picks(b, T)
    BY <1>5, PicksFacts
  <2> QED
    BY <1>9, <1>10, <1>11, <2>1 DEF Picks
<1>13. \A i \in DOMAIN new : new[i] \in ToSet(new) /\ new[i] \in T
  BY <1>12 DEF ToSet
<1>14. ASSUME NEW i \in DOMAIN new
       PROVE  \E k \in 1..n : new[i] = b[k] /\ Newer(b[k])
  <2>1. new[i] \in ToSet(b) /\ Newer(new[i])
    BY <1>8, <1>13
  <2> QED
    BY <1>4, <2>1 DEF ToSet
<1>15. new \in Seq(ToSet(new))
  <2>1. PICK l \in Nat : DOMAIN new = 1..l
    BY <1>12
  <2>2. new = [i \in 1..l |-> new[i]]
    BY <1>12, <2>1
  <2> QED
    BY <2>2, ListOfValues
<1>16. ASSUME NEW i \in DOMAIN new
       PROVE  \E m \in Expected : new[i] = BuildStrikeFromLine(feed.log[m]) /\ IsMade(new[i])
  <2>1. PICK k \in 1..n : new[i] = b[k] /\ Newer(b[k])
    BY <1>14
  <2>2. Is(kept[k]) /\ b[k] = BuildStrikeFromLine(kept[k])
    BY <1>4, <1>6, <2>1
  <2>3. PICK m \in DOMAIN feed.log : kept[k] = feed.log[m]
    BY <2>2 DEF UsableLines, ToSet
  <2>4. /\ kept[k].region = ImportRegion /\ LineComplete(kept[k]) /\ kept[k].stamp # << >>
        /\ kept[k] \in ToSet(feed.log)
    BY <2>2 DEF UsableLines, Usable
  <2>5. m \in Expected
    BY <2>2, <2>3, <2>4 DEF Expected
  <2>6. IsMade(b[k])
    BY <2>2, <2>4, LineIsMade DEF IsFeed
  <2> QED
    BY <2>1, <2>2, <2>3, <2>5, <2>6
<1>17. ASSUME NEW m \in Expected
       PROVE  \E i \in DOMAIN new : new[i] = BuildStrikeFromLine(feed.log[m])
  <2>1. PICK line : line = feed.log[m]
    OBVIOUS
  <2>2. PICK s : s = BuildStrikeFromLine(line)
    OBVIOUS
  <2>3. /\ feed.status = "200" /\ line.region = ImportRegion /\ LineComplete(line) /\ Newer(s)
        /\ line \in ToSet(feed.log)
    BY <2>1, <2>2 DEF Expected, ToSet
  <2>4. s.timestamp.datetime = << line.at >> /\ line.at \in Int
    BY <2>2, <2>3, NewerHasTime, LineIsMade DEF IsFeed
  <2>5. Mark <= line.at
    BY <2>3, <2>4, MarkIsTime DEF Newer
  <2>6. line \in ToSet(kept)
    BY <1>1, <2>3, <2>5, LinesFacts
  <2>7. PICK i \in 1..n : line = kept[i]
    BY <1>2, <2>6 DEF ToSet
  <2>8. s = b[i]
    BY <1>4, <2>2, <2>7
  <2>9. s \in ToSet(b) /\ s \in T
    BY <1>4, <1>8, <2>3, <2>8 DEF ToSet
  <2>10. s \in ToSet(new)
    BY <1>12, <2>9
  <2> QED
    BY <2>1, <2>2, <2>10 DEF ToSet
<1>18. ASSUME NEW i \in DOMAIN new, NEW j \in DOMAIN new,
              CreateStrikeKey(new[i]) = CreateStrikeKey(new[j])
       PROVE  i = j
  <2>1. PICK k \in 1..n : new[i] = b[k] /\ Newer(b[k])
    BY <1>14
  <2>2. PICK l \in 1..n : new[j] = b[l] /\ Newer(b[l])
    BY <1>14
  <2>3. k = l
    BY <1>7, <1>18, <2>1, <2>2
  <2>4. new[i] = new[j]
    BY <2>1, <2>2, <2>3
  <2> QED
    BY <1>12, <1>13, <2>4 DEF Once
<1> QED
  BY <1>11, <1>15, <1>16, <1>17, <1>18

\* As many as there are expected lines.
LEMMA CountFacts ==
    ASSUME IsFeed(feed)
    PROVE  Len(NewLines) = Cardinality(Expected)
<1>1. PICK new : new = NewLines
  OBVIOUS
<1>2. /\ new \in Seq(ToSet(new))
      /\ \A i \in DOMAIN new : \E m \in Expected : new[i] = BuildStrikeFromLine(feed.log[m])
      /\ \A m \in Expected : \E i \in DOMAIN new : new[i] = BuildStrikeFromLine(feed.log[m])
      /\ \A i, j \in DOMAIN new : CreateStrikeKey(new[i]) = CreateStrikeKey(new[j]) => i = j
  BY <1>1, NewFacts
<1>3. PICK n \in Nat : n = Len(new) /\ DOMAIN new = 1..n
  BY <1>2
<1>4. IsFiniteSet(1..n) /\ Cardinality(1..n) = n
  <2>1. n \in Int /\ 1 \in Int /\ (1 > n => n = 0)
    OBVIOUS
  <2> QED
    BY <2>1, FS_Interval
<1> DEFINE S == ToSet(new)
           made == [m \in Expected |-> BuildStrikeFromLine(feed.log[m])]
<1>5. new \in Bijection(1..n, S)
  <2>1. new \in [1..n -> S] /\ \A i, j \in 1..n : new[i] = new[j] => i = j
    BY <1>2, <1>3
  <2>2. \A s \in S : \E i \in 1..n : new[i] = s
    BY <1>3 DEF ToSet
  <2> HIDE DEF S
  <2> QED
    BY <2>1, <2>2 DEF Bijection, Injection, Surjection, IsInjective
<1>6. IsFiniteSet(S) /\ Cardinality(S) = n
  <2> HIDE DEF S
  <2> QED
    BY <1>4, <1>5, FS_Bijection DEF ExistsBijection
<1>7. IsFiniteSet(Expected)
  <2>1. feed.log \in Seq(ToSet(feed.log)) /\ Expected \subseteq DOMAIN feed.log
    BY DEF IsFeed, Expected
  <2>2. PICK l \in Nat : DOMAIN feed.log = 1..l
    BY <2>1
  <2>3. IsFiniteSet(1..l)
    BY FS_Interval
  <2> QED
    BY <2>1, <2>2, <2>3, FS_Subset
<1>8. ASSUME NEW m \in Expected
      PROVE  m \in DOMAIN feed.log /\ Usable(feed.log[m])
  BY NewerHasTime DEF Expected, Usable
<1>9. \A m \in Expected : made[m] = BuildStrikeFromLine(feed.log[m])
  OBVIOUS
<1>10. made \in Bijection(Expected, S)
  <2>1. ASSUME NEW m \in Expected PROVE made[m] \in S
    BY <1>2, <1>9 DEF ToSet
  <2>2. made \in [Expected -> S]
    BY <2>1
  <2>3. ASSUME NEW l \in Expected, NEW m \in Expected, made[l] = made[m]
        PROVE  l = m
    <3>1. LineKey(feed.log[l]) = LineKey(feed.log[m])
      BY <1>9, <2>3 DEF LineKey
    <3> QED
      BY <1>8, <3>1 DEF IsFeed
  <2>4. ASSUME NEW s \in S PROVE \E m \in Expected : made[m] = s
    BY <1>2, <1>9 DEF ToSet
  <2> HIDE DEF S, made
  <2> QED
    BY <2>2, <2>3, <2>4 DEF Bijection, Injection, Surjection, IsInjective
<1>11. Cardinality(S) = Cardinality(Expected)
  <2> HIDE DEF S, made
  <2> QED
    BY <1>7, <1>10, FS_Bijection DEF ExistsBijection
<1> QED
  BY <1>1, <1>3, <1>6, <1>11
-----------------------------------------------------------------------------
(* The two programs *)

\* The strikes are each of an object alone, the rows each of a strike that can
\* be read back; no two strikes and no two rows have one key.
StrikesInv ==
    /\ strikes \in Seq(ToSet(strikes))
    /\ \A i \in DOMAIN strikes :
          /\ strikes[i].strike = Build(FromJson(NewBuilder, strikes[i].json))
          /\ IsMade(strikes[i].strike)
    /\ \A i, j \in DOMAIN strikes :
          CreateStrikeKey(strikes[i].strike) = CreateStrikeKey(strikes[j].strike) => i = j

StoredInv ==
    /\ stored \in Seq(ToSet(stored))
    /\ \A i \in DOMAIN stored : \E s, r : IsMade(s) /\ stored[i] = Row(s, r)
    /\ \A i, j \in DOMAIN stored :
          SelectedKey(Values(stored[i])) = SelectedKey(Values(stored[j])) => i = j

\* What is still to be read of the download has other keys than what has been.
StillOthers ==
    \A i \in DOMAIN strikes, j \in DOMAIN feed.download :
        ObjectComplete(feed.download[j])
           => ObjectKey(feed.download[j]) # CreateStrikeKey(strikes[i].strike)

Imported ==
    /\ Len(stored) = Cardinality(Expected)
    /\ \A i \in Expected : \E j \in DOMAIN stored :
          stored[j] = Row(BuildStrikeFromLine(feed.log[i]), <<ImportRegion>>)

Found ==
    \A i \in DOMAIN strikes : \E j \in DOMAIN stored :
        CreateStrikeKey(MapStrike(Values(stored[j]))) = CreateStrikeKey(strikes[i].strike)

\* The inductive invariant.
RecordInv ==
    /\ IsFeed(feed)
    /\ DOMAIN builder = Parts
    /\ StrikesInv /\ StoredInv /\ StillOthers
    /\ taking = "download" => Imported
    /\ taking = "done" => Found

\* It holds before anything is read.
LEMMA RecordsBegin == RecordsInit => RecordInv
<1> SUFFICES ASSUME RecordsInit PROVE RecordInv
  OBVIOUS
<1>1. IsFeed(feed)
  BY FeedAssumption DEF RecordsInit
<1>2. << >> \in Seq(ToSet(<< >>)) /\ DOMAIN << >> = {}
  OBVIOUS
<1>3. strikes = << >> /\ stored = << >> /\ builder = NewBuilder /\ taking = "options"
  BY DEF RecordsInit
<1>4. StrikesInv /\ StoredInv /\ StillOthers
  BY <1>2, <1>3 DEF StrikesInv, StoredInv, StillOthers
<1> QED
  BY <1>1, <1>3, <1>4 DEF RecordInv, Parts

\* bo-import stores the expected lines, each once.
LEMMA ImportKeeps ==
    ASSUME RecordInv, ImportLog
    PROVE  RecordInv'
<1>1. IsFeed(feed) /\ DOMAIN builder = Parts /\ StrikesInv /\ StillOthers
  BY DEF RecordInv
<1>2. feed' = feed /\ builder' = builder /\ strikes' = strikes /\ taking' = "download"
  BY DEF ImportLog
<1>3. PICK new : new = NewLines
  OBVIOUS
<1>4. stored' = [i \in DOMAIN new |-> Row(new[i], <<ImportRegion>>)]
  BY <1>3 DEF ImportLog, NewLines, BuiltLines, CompleteLines, LogLines, Files
<1>5. /\ new \in Seq(ToSet(new))
      /\ \A i \in DOMAIN new : IsMade(new[i])
      /\ \A m \in Expected : \E i \in DOMAIN new : new[i] = BuildStrikeFromLine(feed.log[m])
      /\ \A i, j \in DOMAIN new : CreateStrikeKey(new[i]) = CreateStrikeKey(new[j]) => i = j
      /\ Len(new) = Cardinality(Expected)
  BY <1>1, <1>3, NewFacts, CountFacts
<1>6. PICK n \in Nat : n = Len(new) /\ DOMAIN new = 1..n
  BY <1>5
<1>7. PICK t : t = stored'
  OBVIOUS
<1>8. DOMAIN t = 1..n /\ t = [i \in 1..n |-> t[i]] /\ \A i \in 1..n : t[i] = Row(new[i], <<ImportRegion>>)
  BY <1>4, <1>6, <1>7
<1>9. t \in Seq(ToSet(t)) /\ Len(t) = n
  BY <1>8, ListOfValues
<1>10. \A i \in 1..n : IsMade(new[i]) /\ SelectedKey(Values(t[i])) = CreateStrikeKey(new[i])
  BY <1>5, <1>6, <1>8, RowKey
<1>11. \A i, j \in DOMAIN t : SelectedKey(Values(t[i])) = SelectedKey(Values(t[j])) => i = j
  BY <1>5, <1>6, <1>8, <1>10
<1>12. \A i \in DOMAIN t : \E s, r : IsMade(s) /\ t[i] = Row(s, r)
  BY <1>8, <1>10
<1>13. StoredInv'
  BY <1>7, <1>9, <1>11, <1>12 DEF StoredInv
<1>14. Expected' = Expected
  BY <1>2 DEF Expected, Newer, Mark, LatestTime, StartTime
<1>15. \A m \in Expected : \E j \in DOMAIN t :
          t[j] = Row(BuildStrikeFromLine(feed.log[m]), <<ImportRegion>>)
  BY <1>5, <1>6, <1>8
<1>16. Imported'
  BY <1>2, <1>5, <1>6, <1>7, <1>9, <1>14, <1>15 DEF Imported
<1>17. StrikesInv' /\ StillOthers'
  BY <1>1, <1>2 DEF StrikesInv, StillOthers
<1> QED
  BY <1>1, <1>2, <1>13, <1>16, <1>17 DEF RecordInv

\* The rest of a download is one as well.
LEMMA RestIsFeed ==
    ASSUME NEW whole, IsFeed(whole), whole.download # << >>,
           NEW cut, cut = [whole EXCEPT !.download = Tail(@)]
    PROVE  /\ IsFeed(cut)
           /\ \A field \in {"startdate", "update", "latest", "now", "log", "status"} :
                 cut[field] = whole[field]
           /\ Len(whole.download) \in Nat \ {0} /\ DOMAIN whole.download = 1..Len(whole.download)
           /\ cut.download = Tail(whole.download)
           /\ DOMAIN cut.download = 1..(Len(whole.download) - 1)
           /\ \A i \in DOMAIN cut.download :
                 cut.download[i] = whole.download[i + 1] /\ i + 1 \in DOMAIN whole.download
<1>1. /\ {"startdate", "update", "latest", "now", "log", "status", "download"} \subseteq DOMAIN whole
      /\ whole.now \in Int
      /\ whole.startdate \in {DefaultDate, BadDate} \/ whole.startdate \in Int
      /\ whole.latest = << >> \/ whole.latest[1] \in Int
      /\ whole.log \in Seq(ToSet(whole.log)) /\ \A line \in ToSet(whole.log) : IsLine(line, whole.now)
      /\ \A i, j \in DOMAIN whole.log :
            /\ Usable(whole.log[i]) /\ Usable(whole.log[j])
            /\ LineKey(whole.log[i]) = LineKey(whole.log[j])
            => i = j
      /\ whole.download \in Seq(ToSet(whole.download)) /\ \A json \in ToSet(whole.download) : IsObject(json)
      /\ \A i, j \in DOMAIN whole.download :
            /\ ObjectComplete(whole.download[i]) /\ ObjectComplete(whole.download[j])
            /\ ObjectKey(whole.download[i]) = ObjectKey(whole.download[j])
            => i = j
  BY DEF IsFeed
<1>2. PICK a : a = whole.download
  OBVIOUS
<1>3. PICK n \in Nat \ {0} : n = Len(a) /\ DOMAIN a = 1..n
  BY <1>1, <1>2, EmptySeq
<1>4. PICK b : b = Tail(a)
  OBVIOUS
<1>5. b \in Seq(ToSet(a)) /\ Len(b) = n - 1 /\ \A i \in 1..(n - 1) : b[i] = a[i + 1]
  BY <1>1, <1>2, <1>3, <1>4
<1>6. DOMAIN b = 1..(n - 1) /\ n - 1 \in Nat /\ \A i \in 1..(n - 1) : i + 1 \in 1..n
  BY <1>3, <1>5
<1>7. b \in Seq(ToSet(b))
  <2>1. b = [i \in 1..(n - 1) |-> b[i]]
    BY <1>5, <1>6
  <2> QED
    BY <1>6, <2>1, ListOfValues
<1>8. ToSet(b) \subseteq ToSet(a)
  BY <1>3, <1>5, <1>6 DEF ToSet
<1>9. /\ \A field \in {"startdate", "update", "latest", "now", "log", "status"} : cut[field] = whole[field]
      /\ cut.download = b /\ DOMAIN cut = DOMAIN whole
  BY <1>1, <1>2, <1>4
<1>10. /\ cut.startdate = whole.startdate /\ cut.latest = whole.latest
       /\ cut.now = whole.now /\ cut.log = whole.log
  BY <1>9
<1>11. \A i, j \in DOMAIN b :
           ObjectComplete(b[i]) /\ ObjectComplete(b[j]) /\ ObjectKey(b[i]) = ObjectKey(b[j]) => i = j
  <2> SUFFICES ASSUME NEW i \in DOMAIN b, NEW j \in DOMAIN b,
                      ObjectComplete(b[i]), ObjectComplete(b[j]), ObjectKey(b[i]) = ObjectKey(b[j])
               PROVE  i = j
    OBVIOUS
  <2>1. i \in 1..(n - 1) /\ j \in 1..(n - 1)
    BY <1>6
  <2>2. b[i] = a[i + 1] /\ b[j] = a[j + 1] /\ i + 1 \in DOMAIN a /\ j + 1 \in DOMAIN a
    BY <1>3, <1>5, <1>6, <2>1
  <2>3. i + 1 = j + 1
    BY <1>1, <1>2, <2>2
  <2> QED
    BY <2>1, <2>3
<1>12. IsFeed(cut)
  BY <1>1, <1>2, <1>7, <1>8, <1>9, <1>10, <1>11 DEF IsFeed
<1> QED
  BY <1>2, <1>3, <1>4, <1>5, <1>6, <1>9, <1>12

\* bo-update makes a strike of the next object, or passes over it.
LEMMA ParseKeeps ==
    ASSUME RecordInv, ParseObject
    PROVE  RecordInv'
<1>1. /\ IsFeed(feed) /\ DOMAIN builder = Parts /\ StrikesInv /\ StoredInv /\ StillOthers
      /\ taking = "download" => Imported
  BY DEF RecordInv
<1>2. /\ taking = "download" /\ feed.download # << >> /\ taking' = taking /\ stored' = stored
      /\ feed' = [feed EXCEPT !.download = Tail(@)]
  BY DEF ParseObject
<1>3. PICK a : a = feed.download
  OBVIOUS
<1>4. PICK b : b = feed'.download
  OBVIOUS
<1>5. PICK n \in Nat \ {0} : n = Len(a)
  BY <1>1, <1>2, <1>3, RestIsFeed
<1>6. /\ IsFeed(feed')
      /\ \A field \in {"startdate", "update", "latest", "now", "log", "status"} : feed'[field] = feed[field]
      /\ DOMAIN a = 1..n
      /\ DOMAIN b = 1..(n - 1)
      /\ \A i \in DOMAIN b : b[i] = a[i + 1] /\ i + 1 \in DOMAIN a
  BY <1>1, <1>2, <1>3, <1>4, <1>5, RestIsFeed
<1>7. PICK json : json = a[1]
  OBVIOUS
<1>8. Head(a) = json /\ 1 \in DOMAIN a /\ json \in ToSet(a) /\ IsObject(json)
  <2>1. 1 \in DOMAIN a
    BY <1>6
  <2>2. json \in ToSet(a)
    BY <1>7, <2>1 DEF ToSet
  <2>3. IsObject(json)
    BY <1>1, <1>3, <2>2 DEF IsFeed
  <2>4. Head(a) = json
    <3>1. a \in Seq(ToSet(a)) /\ a # << >>
      BY <1>1, <1>2, <1>3 DEF IsFeed
    <3> QED
      BY <1>7, <3>1
  <2> QED
    BY <2>1, <2>2, <2>3, <2>4
<1>9. Expected' = Expected /\ feed'.log = feed.log
  <2>1. /\ feed'.startdate = feed.startdate /\ feed'.update = feed.update
        /\ feed'.latest = feed.latest /\ feed'.now = feed.now
        /\ feed'.log = feed.log /\ feed'.status = feed.status
    BY <1>6
  <2>2. StartTime' = StartTime
    BY <2>1 DEF StartTime
  <2>3. LatestTime' = LatestTime
    BY <2>1, <2>2 DEF LatestTime
  <2>4. Mark' = Mark
    BY <2>1, <2>3 DEF Mark
  <2>5. Expected' = Expected
    BY <2>1, <2>4 DEF Expected, Newer
  <2> QED
    BY <2>1, <2>5
<1>10. Imported'
  BY <1>1, <1>2, <1>9 DEF Imported
<1>11. StoredInv'
  BY <1>1, <1>2 DEF StoredInv
<1>12. CASE ~ ObjectComplete(json)
  <2>1. builder' = builder /\ strikes' = strikes
    BY <1>3, <1>8, <1>12 DEF ParseObject
  <2>2. StrikesInv'
    BY <1>1, <2>1 DEF StrikesInv
  <2>3. StillOthers'
    BY <1>1, <1>3, <1>4, <1>6, <2>1 DEF StillOthers
  <2> QED
    BY <1>1, <1>2, <1>6, <1>10, <1>11, <2>1, <2>2, <2>3 DEF RecordInv
<1>13. CASE ObjectComplete(json)
  <2>1. PICK s : s = Build(FromJson(NewBuilder, json))
    OBVIOUS
  <2>2. PICK made : made = [strike |-> s, json |-> json]
    BY Zenon
  <2>3. /\ builder' = FromJson(builder, json)
        /\ strikes' = Append(strikes, [strike |-> Build(builder'), json |-> json])
    BY <1>3, <1>8, <1>13 DEF ParseObject
  <2>4. DOMAIN builder' = Parts /\ Build(builder') = s
    BY <1>1, <2>1, <2>3, AllIsSet
  <2>5. strikes' = Append(strikes, made) /\ made.strike = s /\ made.json = json
    BY <2>2, <2>3, <2>4
  <2>6. PICK m \in Nat : m = Len(strikes) /\ DOMAIN strikes = 1..m
    BY <1>1 DEF StrikesInv
  <2>7. PICK t : t = strikes'
    OBVIOUS
  <2>8. /\ DOMAIN t = 1..(m + 1) /\ t[m + 1] = made
        /\ \A i \in 1..m : t[i] = strikes[i]
        /\ t = [i \in 1..(m + 1) |-> t[i]]
    <3>1. PICK S : S = ToSet(strikes) \cup {made}
      OBVIOUS
    <3>2. strikes \in Seq(S) /\ made \in S
      BY <1>1, <3>1 DEF StrikesInv
    <3>3. /\ t \in Seq(S) /\ Len(t) = m + 1 /\ t[m + 1] = made
          /\ \A i \in 1..m : t[i] = strikes[i]
      BY <2>5, <2>6, <2>7, <3>2, AppendProperties
    <3> QED
      BY <3>3
  <2>9. t \in Seq(ToSet(t))
    BY <2>8, ListOfValues
  <2>10. \A i \in DOMAIN t : i \in 1..m \/ i = m + 1
    BY <2>8
  <2>11. IsMade(s)
    BY <1>8, <1>13, <2>1, ObjectIsMade
  <2>12. CreateStrikeKey(s) = ObjectKey(json)
    BY <2>1 DEF ObjectKey
  <2>13. \A i \in 1..m : CreateStrikeKey(strikes[i].strike) # CreateStrikeKey(s)
    BY <1>1, <1>3, <1>7, <1>8, <1>13, <2>6, <2>12 DEF StillOthers
  <2>14. \A i \in DOMAIN t :
            t[i].strike = Build(FromJson(NewBuilder, t[i].json)) /\ IsMade(t[i].strike)
    BY <1>1, <2>1, <2>5, <2>6, <2>8, <2>10, <2>11 DEF StrikesInv
  <2>15. \A i, j \in DOMAIN t :
            CreateStrikeKey(t[i].strike) = CreateStrikeKey(t[j].strike) => i = j
    BY <1>1, <2>5, <2>6, <2>8, <2>10, <2>13 DEF StrikesInv
  <2>16. StrikesInv'
    BY <2>7, <2>9, <2>14, <2>15 DEF StrikesInv
  <2>17. ASSUME NEW i \in DOMAIN t, NEW j \in DOMAIN b, ObjectComplete(b[j])
         PROVE  ObjectKey(b[j]) # CreateStrikeKey(t[i].strike)
    <3>1. b[j] = a[j + 1] /\ j + 1 \in DOMAIN a /\ j \in 1..(n - 1) /\ j + 1 # 1
      BY <1>6
    <3>2. CASE i \in 1..m
      BY <1>1, <1>3, <2>6, <2>8, <2>17, <3>1, <3>2 DEF StillOthers
    <3>3. CASE i = m + 1
      <4>1. CreateStrikeKey(t[i].strike) = ObjectKey(a[1])
        BY <1>7, <2>5, <2>8, <2>12, <3>3
      <4> QED
        BY <1>1, <1>3, <1>7, <1>8, <1>13, <2>17, <3>1, <4>1 DEF IsFeed
    <3> QED
      BY <2>10, <3>2, <3>3
  <2>18. StillOthers'
    BY <1>4, <2>7, <2>17 DEF StillOthers
  <2> QED
    BY <1>2, <1>6, <1>10, <1>11, <2>4, <2>16, <2>18 DEF RecordInv
<1> QED
  BY <1>12, <1>13

\* It stores what the table has no key of.
LEMMA InsertKeeps ==
    ASSUME RecordInv, InsertNew
    PROVE  RecordInv'
<1>1. IsFeed(feed) /\ DOMAIN builder = Parts /\ StrikesInv /\ StoredInv /\ StillOthers
  BY DEF RecordInv
<1>2. feed' = feed /\ builder' = builder /\ strikes' = strikes /\ taking' = "done"
  BY DEF InsertNew
<1> DEFINE Existing == {SelectedKey(Values(stored[i])) : i \in DOMAIN stored}
           T == {s \in ToSet(strikes) : CreateStrikeKey(s.strike) \notin Existing}
<1>3. PICK new : new = Among(strikes, T)
  OBVIOUS
<1>4. stored' = stored \o [i \in DOMAIN new |-> Row(new[i].strike, << >>)]
  BY <1>3 DEF InsertNew
<1>5. \A s : s \in T <=> s \in ToSet(strikes) /\ CreateStrikeKey(s.strike) \notin Existing
  OBVIOUS
<1>6. /\ \A i \in DOMAIN stored : SelectedKey(Values(stored[i])) \in Existing
      /\ \A key \in Existing : \E i \in DOMAIN stored : key = SelectedKey(Values(stored[i]))
  OBVIOUS
<1> HIDE DEF T, Existing
<1>7. Once(strikes, T)
  BY <1>1 DEF StrikesInv, Once
<1>8. new \in Seq(ToSet(strikes)) /\ ToSet(new) = ToSet(strikes) \cap T /\ Once(new, T)
  <2>1. Picks(strikes, T)
    BY <1>1, PicksFacts DEF StrikesInv
  <2> QED
    BY <1>3, <1>7, <2>1 DEF Picks
<1>9. PICK n \in Nat : DOMAIN new = 1..n
  BY <1>8
<1>10. \A s \in ToSet(strikes) : IsMade(s.strike)
  BY <1>1 DEF StrikesInv, ToSet
<1>11. \A s, t \in ToSet(strikes) : CreateStrikeKey(s.strike) = CreateStrikeKey(t.strike) => s = t
  BY <1>1 DEF StrikesInv, ToSet
<1>12. \A i \in 1..n : new[i] \in ToSet(strikes) /\ new[i] \in T
  BY <1>8, <1>9 DEF ToSet
<1>13. PICK more : more = [i \in 1..n |-> Row(new[i].strike, << >>)]
  OBVIOUS
<1>14. /\ DOMAIN more = 1..n /\ more = [i \in 1..n |-> more[i]]
       /\ \A i \in 1..n : more[i] = Row(new[i].strike, << >>)
  BY <1>13
<1>15. more \in Seq(ToSet(more)) /\ Len(more) = n
  BY <1>14, ListOfValues
<1>16. PICK m \in Nat : m = Len(stored) /\ DOMAIN stored = 1..m
  BY <1>1 DEF StoredInv
<1>17. PICK t : t = stored'
  OBVIOUS
<1>18. /\ DOMAIN t = 1..(m + n) /\ t = [i \in 1..(m + n) |-> t[i]]
       /\ \A i \in 1..m : t[i] = stored[i]
       /\ \A i \in 1..n : t[m + i] = more[i]
  <2> PICK S : S = ToSet(stored) \cup ToSet(more)
    OBVIOUS
  <2>1. stored \in Seq(S) /\ more \in Seq(S)
    BY <1>1, <1>15 DEF StoredInv
  <2>2. t = stored \o more
    BY <1>4, <1>9, <1>13, <1>17
  <2>3. /\ t \in Seq(S)
        /\ Len(t) = m + n
        /\ \A i \in 1..m : t[i] = stored[i]
        /\ \A i \in 1..n : t[m + i] = more[i]
    <3>1. PICK u : u = stored
      OBVIOUS
    <3>2. /\ u \o more \in Seq(S)
          /\ Len(u \o more) = Len(u) + Len(more)
          /\ \A i \in 1..(Len(u) + Len(more)) :
                (u \o more)[i] = IF i <= Len(u) THEN u[i] ELSE more[i - Len(u)]
      BY ONLY <2>1, <3>1, ConcatProperties
    <3>3. Len(u) = m /\ Len(more) = n /\ t = u \o more
      BY <1>15, <1>16, <2>2, <3>1
    <3>4. \A i \in 1..m : i \in 1..(m + n) /\ i <= m
      OBVIOUS
    <3>5. \A i \in 1..n : m + i \in 1..(m + n) /\ ~ (m + i <= m) /\ (m + i) - m = i
      OBVIOUS
    <3> QED
      BY ONLY <3>1, <3>2, <3>3, <3>4, <3>5
  <2> QED
    BY <2>3
<1>19. t \in Seq(ToSet(t))
  <2>1. m + n \in Nat
    OBVIOUS
  <2> QED
    BY <1>18, <2>1, ListOfValues
<1>20. /\ \A i \in DOMAIN t : \/ i \in 1..m /\ t[i] = stored[i]
                            \/ \E k \in 1..n : i = m + k /\ t[i] = more[k]
       /\ \A k \in 1..n : m + k \in DOMAIN t
  <2>1. \A i \in 1..(m + n) : i \in 1..m \/ (i - m \in 1..n /\ i = m + (i - m))
    OBVIOUS
  <2>2. \A k \in 1..n : m + k \in 1..(m + n)
    OBVIOUS
  <2> QED
    BY <1>18, <2>1, <2>2
<1>21. \A i \in 1..n : /\ IsMade(new[i].strike)
                       /\ SelectedKey(Values(more[i])) = CreateStrikeKey(new[i].strike)
                       /\ CreateStrikeKey(new[i].strike) \notin Existing
  BY <1>5, <1>10, <1>12, <1>14, RowKey
<1>22. \A i \in DOMAIN t : \E s, r : IsMade(s) /\ t[i] = Row(s, r)
  <2>1. \A i \in 1..m : \E s, r : IsMade(s) /\ stored[i] = Row(s, r)
    BY <1>1, <1>16 DEF StoredInv
  <2>2. \A i \in 1..n : \E s, r : IsMade(s) /\ more[i] = Row(s, r)
    BY <1>14, <1>21
  <2> QED
    BY <1>16, <1>20, <2>1, <2>2
<1>23. ASSUME NEW i \in DOMAIN t, NEW j \in DOMAIN t, SelectedKey(Values(t[i])) = SelectedKey(Values(t[j]))
       PROVE  i = j
  <2>1. CASE i \in 1..m /\ j \in 1..m
    BY <1>1, <1>16, <1>18, <1>23, <2>1 DEF StoredInv
  <2>2. CASE i \in 1..m /\ j \notin 1..m
    <3>1. t[i] = stored[i] /\ i \in DOMAIN stored
      BY <1>16, <1>18, <2>2
    <3>2. PICK l \in 1..n : t[j] = more[l]
      BY <1>20, <2>2
    <3> QED
      BY <1>6, <1>21, <1>23, <3>1, <3>2
  <2>3. CASE i \notin 1..m /\ j \in 1..m
    <3>1. t[j] = stored[j] /\ j \in DOMAIN stored
      BY <1>16, <1>18, <2>3
    <3>2. PICK k \in 1..n : t[i] = more[k]
      BY <1>20, <2>3
    <3> QED
      BY <1>6, <1>21, <1>23, <3>1, <3>2
  <2>4. CASE i \notin 1..m /\ j \notin 1..m
    <3>1. PICK k \in 1..n : i = m + k /\ t[i] = more[k]
      BY <1>20, <2>4
    <3>2. PICK l \in 1..n : j = m + l /\ t[j] = more[l]
      BY <1>20, <2>4
    <3>3. CreateStrikeKey(new[k].strike) = CreateStrikeKey(new[l].strike)
      BY <1>21, <1>23, <3>1, <3>2
    <3>4. new[k] = new[l]
      BY <1>11, <1>12, <3>3
    <3>5. k = l
      BY <1>8, <1>9, <1>12, <3>4 DEF Once
    <3> QED
      BY <3>1, <3>2, <3>5
  <2> QED
    BY <2>1, <2>2, <2>3, <2>4
<1>24. StoredInv'
  BY <1>17, <1>19, <1>22, <1>23 DEF StoredInv
<1>25. ASSUME NEW i \in DOMAIN t
       PROVE  CreateStrikeKey(MapStrike(Values(t[i]))) = SelectedKey(Values(t[i]))
  <2>1. PICK s, r : IsMade(s) /\ t[i] = Row(s, r)
    BY <1>22
  <2> QED
    BY <2>1, RowKey
<1>26. ASSUME NEW i \in DOMAIN strikes
       PROVE  \E j \in DOMAIN t :
                 CreateStrikeKey(MapStrike(Values(t[j]))) = CreateStrikeKey(strikes[i].strike)
  <2>1. PICK s : s = strikes[i]
    OBVIOUS
  <2>2. s \in ToSet(strikes)
    BY <2>1 DEF ToSet
  <2>3. CASE CreateStrikeKey(s.strike) \in Existing
    <3>1. PICK j \in 1..m : CreateStrikeKey(s.strike) = SelectedKey(Values(stored[j]))
      BY <1>6, <1>16, <2>3
    <3>2. j \in DOMAIN t /\ t[j] = stored[j]
      BY <1>18, <3>1
    <3> QED
      BY <1>25, <2>1, <3>1, <3>2
  <2>4. CASE CreateStrikeKey(s.strike) \notin Existing
    <3>1. s \in ToSet(new)
      BY <1>5, <1>8, <2>2, <2>4
    <3>2. PICK k \in 1..n : s = new[k]
      BY <1>9, <3>1 DEF ToSet
    <3>3. m + k \in DOMAIN t /\ t[m + k] = more[k]
      BY <1>18, <1>20, <3>2
    <3>4. SelectedKey(Values(t[m + k])) = CreateStrikeKey(s.strike)
      BY <1>21, <3>2, <3>3
    <3> QED
      BY <1>25, <2>1, <3>3, <3>4
  <2> QED
    BY <2>3, <2>4
<1>27. Found'
  BY <1>2, <1>17, <1>26 DEF Found
<1>28. StrikesInv' /\ StillOthers'
  BY <1>1, <1>2 DEF StrikesInv, StillOthers
<1> QED
  BY <1>1, <1>2, <1>24, <1>27, <1>28 DEF RecordInv

\* No step breaks it.
LEMMA RecordKeeps == RecordInv /\ [RecordStep]_recordVars => RecordInv'
<1> SUFFICES ASSUME RecordInv, [RecordStep]_recordVars PROVE RecordInv'
  OBVIOUS
<1>1. ASSUME feed' = feed, builder' = builder, strikes' = strikes, stored' = stored,
             taking' = taking \/ taking' \notin {"download", "done"}
      PROVE  RecordInv'
  <2>1. Expected' = Expected
    BY <1>1 DEF Expected, Newer, Mark, LatestTime, StartTime
  <2> QED
    BY <1>1, <2>1 DEF RecordInv, StrikesInv, StoredInv, StillOthers, Imported, Found
<1>2. CASE BadStart
  BY <1>1, <1>2 DEF BadStart
<1>3. CASE GoodStart
  BY <1>1, <1>3 DEF GoodStart
<1>4. CASE ImportLog
  BY <1>4, ImportKeeps
<1>5. CASE ParseObject
  BY <1>5, ParseKeeps
<1>6. CASE InsertNew
  BY <1>6, InsertKeeps
<1>7. CASE UNCHANGED recordVars
  BY <1>1, <1>7 DEF recordVars
<1> QED
  BY <1>2, <1>3, <1>4, <1>5, <1>6, <1>7 DEF RecordStep

\* And it shows what is claimed.
LEMMA RecordShows == RecordInv => FoundAgain
<1> SUFFICES ASSUME RecordInv PROVE FoundAgain
  OBVIOUS
<1>1. \A i \in DOMAIN strikes : strikes[i].strike = Build(FromJson(NewBuilder, strikes[i].json))
  BY DEF RecordInv, StrikesInv
<1>2. \A i \in DOMAIN stored : \E s, r : IsMade(s) /\ stored[i] = Row(s, r)
  BY DEF RecordInv, StoredInv
<1>3. ASSUME NEW i \in DOMAIN stored
      PROVE  ConvertRow(stored[i]).is = "row"
  <2>1. PICK s, r : IsMade(s) /\ stored[i] = Row(s, r)
    BY <1>2
  <2> QED
    BY <2>1, RowReads
<1>4. ASSUME NEW i \in DOMAIN stored, NEW j \in DOMAIN stored,
             Spot(stored[i]) = Spot(stored[j]), stored[i].error2d = stored[j].error2d
      PROVE  i = j
  <2>1. PICK s, r : IsMade(s) /\ stored[i] = Row(s, r)
    BY <1>2
  <2>2. PICK t, q : IsMade(t) /\ stored[j] = Row(t, q)
    BY <1>2
  <2>3. SelectedKey(Values(stored[i])) = SelectedKey(Values(stored[j]))
    BY <1>4, <2>1, <2>2, SpotTellsKey
  <2> QED
    BY <2>3 DEF RecordInv, StoredInv
<1>5. taking = "download" =>
        /\ Len(stored) = Cardinality(Expected)
        /\ \A i \in Expected : \E j \in DOMAIN stored :
              stored[j] = Row(BuildStrikeFromLine(feed.log[i]), <<ImportRegion>>)
  BY DEF RecordInv, Imported
<1>6. taking = "done" =>
        \A i \in DOMAIN strikes : \E j \in DOMAIN stored :
            CreateStrikeKey(MapStrike(Values(stored[j]))) = CreateStrikeKey(strikes[i].strike)
  BY DEF RecordInv, Found
<1> QED
  BY <1>1, <1>3, <1>4, <1>5, <1>6 DEF FoundAgain

\* A strike that bo-import has stored from its log is found again by bo-update,
\* whatever the logs and the download hold, if neither tells of a strike twice:
\* all the log's newer strikes are stored, a row read back is the same strike, and
\* the table has no two rows of one spot and deviation.
THEOREM StrikesAreFound == RecordSpec => []FoundAgain
<1>1. RecordSpec => []RecordInv
  BY RecordsBegin, RecordKeeps, PTL DEF RecordSpec
<1> QED
  BY <1>1, RecordShows, PTL
==============================================================================
