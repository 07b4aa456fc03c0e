--------------------------- MODULE TransportProofs ---------------------------
(***************************************************************************)
(* Proofs about Transport for whatever clients send on a connection, and   *)
(* any limits: the requests of one connection do not mix, and what reads   *)
(* them piece by piece reads the frames that a decoder finds in the whole. *)
(***************************************************************************)
EXTENDS Transport, Lemmas

------------------------------------------------------------------------------
(* Parts of sequences *)

\* What comes next is added to what was read from a sequence.
LEMMA OneMore ==
    ASSUME NEW S, NEW s \in Seq(S), NEW a \in Nat, NEW b \in Nat, a <= b, b < Len(s)
    PROVE  Append(SubSeq(s, a + 1, b), s[b + 1]) = SubSeq(s, a + 1, b + 1)
<1> DEFINE t == SubSeq(s, a + 1, b)
           u == SubSeq(s, a + 1, b + 1)
<1>1. t \in Seq(S) /\ Len(t) = b - a /\ \A i \in 1..(b - a) : t[i] = s[a + i]
  OBVIOUS
<1>2. u \in Seq(S) /\ Len(u) = b + 1 - a /\ \A i \in 1..(b + 1 - a) : u[i] = s[a + i]
  OBVIOUS
<1>3. s[b + 1] \in S
  OBVIOUS
<1> HIDE DEF t, u
<1>4. /\ Append(t, s[b + 1]) \in Seq(S) /\ Len(Append(t, s[b + 1])) = b + 1 - a
      /\ \A i \in 1..(b + 1 - a) : Append(t, s[b + 1])[i] = s[a + i]
  <2>1. Append(t, s[b + 1]) \in Seq(S) /\ Len(Append(t, s[b + 1])) = Len(t) + 1
    BY <1>1, <1>3
  <2>2. \A i \in 1..(b - a) : Append(t, s[b + 1])[i] = t[i]
    BY <1>1, <1>3, AppendProperties
  <2>3. Append(t, s[b + 1])[Len(t) + 1] = s[b + 1]
    BY <1>1, <1>3, AppendProperties
  <2>4. \A i \in 1..(b + 1 - a) : i \in 1..(b - a) \/ i = b - a + 1
    OBVIOUS
  <2>5. b - a + 1 = b + 1 - a /\ a + (b - a + 1) = b + 1
    OBVIOUS
  <2> QED
    BY <1>1, <2>1, <2>2, <2>3, <2>4, <2>5
<1>5. Append(t, s[b + 1]) = u
  BY <1>2, <1>4, SeqEqual
<1> QED
  BY <1>5 DEF t, u

\* The front of a sequence of sequences is flattened to that before its last
\* part, and this.
LEMMA FlattenFronts ==
    ASSUME NEW S, NEW seqs \in Seq(Seq(S))
    PROVE  /\ FlattenSeq(SubSeq(seqs, 1, 0)) = << >>
           /\ \A n \in 0..Len(seqs) : FlattenSeq(SubSeq(seqs, 1, n)) \in Seq(S)
           /\ \A n \in 1..Len(seqs) :
                 FlattenSeq(SubSeq(seqs, 1, n)) = FlattenSeq(SubSeq(seqs, 1, n - 1)) \o seqs[n]
<1> PICK N \in Nat : N = Len(seqs)
  OBVIOUS
<1> DEFINE Start(n) == SubSeq(seqs, 1, n)
<1>1. \A n \in 0..N : Start(n) \in Seq(Seq(S)) /\ Len(Start(n)) = n /\ \A i \in 1..n : Start(n)[i] = seqs[i]
  OBVIOUS
<1>2. \A i \in 1..N : seqs[i] \in Seq(S)
  OBVIOUS
<1> HIDE DEF Start
<1>3. FlattenSeq(Start(0)) = << >>
  <2>1. 0 \in 0..N
    OBVIOUS
  <2>2. Len(Start(0)) = 0 /\ Start(0) \in Seq(Seq(S))
    BY <1>1, <2>1
  <2>3. Start(0) = << >>
    BY <2>2
  <2> QED
    BY <2>2, <2>3 DEF FlattenSeq
<1>4. \A n \in 0..N : FlattenSeq(Start(n)) \in Seq(S)
  <2> TAKE n \in 0..N
  <2>1. Len(Start(n)) \in Nat /\ DOMAIN Start(n) = 1..Len(Start(n)) /\ (Len(Start(n)) = 0 => Start(n) = << >>)
    BY <1>1
  <2>2. \A i \in 1..Len(Start(n)) : Start(n)[i] \in Seq(S)
    BY <1>1
  <2> QED
    BY <2>1, <2>2, FlattenFacts
\* What the prefixes of a front are flattened to does not depend on the front.
<1>5. ASSUME NEW n \in 1..N
      PROVE  FlattenSeq(Start(n)) = FlattenSeq(Start(n - 1)) \o seqs[n]
  <2>1. n \in 0..N /\ Len(Start(n)) = n /\ n \in Nat \ {0} /\ \A i \in 1..n : Start(n)[i] = seqs[i]
    BY <1>1
  <2>2. PICK F : /\ FlattenSeq(Start(n)) = F[n]
                 /\ F[1] = Start(n)[1]
                 /\ \A i \in 2..n : F[i] = F[i - 1] \o Start(n)[i]
    <3>1. \E F : /\ FlattenSeq(Start(n)) = F[Len(Start(n))]
                 /\ F[1] = Start(n)[1]
                 /\ \A i \in 2..Len(Start(n)) : F[i] = F[i - 1] \o Start(n)[i]
      <4>1. Len(Start(n)) \in Nat \ {0}
        BY <2>1
      <4> QED
        BY <4>1, FlattenSteps, Zenon
    <3> QED
      BY <2>1, <3>1
  <2>3. CASE n = 1
    <3>1. F[1] = seqs[1] /\ seqs[1] \in Seq(S)
      BY <1>2, <2>1, <2>2, <2>3
    <3>2. << >> \o seqs[1] = seqs[1]
      BY <3>1, ConcatEmptySeq
    <3> QED
      BY <1>3, <2>2, <2>3, <3>1, <3>2
  <2>4. CASE n # 1
    <3>0. n - 1 \in 0..N /\ n - 1 \in Nat \ {0}
      BY <2>4
    <3>1. Len(Start(n - 1)) = n - 1 /\ \A i \in 1..(n - 1) : Start(n - 1)[i] = seqs[i]
      BY <1>1, <3>0
    <3>2. PICK G : /\ FlattenSeq(Start(n - 1)) = G[n - 1]
                   /\ G[1] = Start(n - 1)[1]
                   /\ \A i \in 2..(n - 1) : G[i] = G[i - 1] \o Start(n - 1)[i]
      <4>1. \E G : /\ FlattenSeq(Start(n - 1)) = G[Len(Start(n - 1))]
                   /\ G[1] = Start(n - 1)[1]
                   /\ \A i \in 2..Len(Start(n - 1)) : G[i] = G[i - 1] \o Start(n - 1)[i]
        <5>1. Len(Start(n - 1)) \in Nat \ {0}
          BY <3>0, <3>1
        <5> QED
          BY <5>1, FlattenSteps, Zenon
      <4> QED
        BY <3>1, <4>1
    <3> DEFINE Wrong == {i \in 0..(n - 1) : i # 0 /\ F[i] # G[i]}
    <3>3. ASSUME NEW i \in 1..(n - 1), i - 1 \in 0..(n - 1), i - 1 \notin Wrong
          PROVE  i \notin Wrong
      <4>1. CASE i = 1
        <5>1. 1 \in 1..n /\ 1 \in 1..(n - 1)
          BY <4>1
        <5> QED
          BY <2>1, <2>2, <3>1, <3>2, <4>1, <5>1
      <4>2. CASE i # 1
        <5>1. i \in 2..n /\ i \in 2..(n - 1) /\ i \in 1..n /\ i - 1 # 0
          BY <4>2
        <5>2. F[i - 1] = G[i - 1]
          BY <3>3, <5>1
        <5>3. F[i] = F[i - 1] \o seqs[i] /\ G[i] = G[i - 1] \o seqs[i]
          BY <2>1, <2>2, <3>1, <3>2, <5>1
        <5> QED
          BY <5>2, <5>3
      <4> QED
        BY <4>1, <4>2
    <3>4. Wrong = {}
      <4>1. 0 \notin Wrong /\ Wrong \in SUBSET (0..(n - 1)) /\ n - 1 \in Nat
        BY <3>0
      <4> HIDE DEF Wrong
      <4> QED
        BY <3>3, <4>1, FirstFailure
    <3>5. F[n - 1] = G[n - 1]
      <4>1. n - 1 \in 0..(n - 1) /\ n - 1 # 0
        BY <3>0
      <4> QED
        BY <3>4, <4>1
    <3>6. F[n] = F[n - 1] \o seqs[n]
      <4>1. n \in 2..n /\ n \in 1..n
        BY <2>4
      <4> QED
        BY <2>1, <2>2, <4>1
    <3> QED
      BY <2>2, <3>2, <3>5, <3>6
  <2> QED
    BY <2>3, <2>4
<1> QED
  BY <1>3, <1>4, <1>5 DEF Start

\* Each part is found where the parts before it end.
LEMMA FlattenPlaces ==
    ASSUME NEW S, NEW seqs \in Seq(Seq(S)), NEW n \in 1..Len(seqs)
    PROVE  LET before == Len(FlattenSeq(SubSeq(seqs, 1, n - 1)))
               upto == Len(FlattenSeq(SubSeq(seqs, 1, n)))
           IN  /\ before \in Nat /\ upto = before + Len(seqs[n]) /\ upto <= Len(FlattenSeq(seqs))
               /\ \A k \in 1..Len(seqs[n]) : FlattenSeq(seqs)[before + k] = seqs[n][k]
<1> PICK N \in Nat : N = Len(seqs)
  OBVIOUS
<1> DEFINE X(i) == FlattenSeq(SubSeq(seqs, 1, i))
           before == Len(X(n - 1))
           upto == Len(X(n))
           Right(i) == /\ upto <= Len(X(i))
                       /\ \A k \in 1..Len(seqs[n]) : X(i)[before + k] = seqs[n][k]
           Wrong == {i \in 0..N : i >= n /\ ~Right(i)}
<1>1. \A i \in 0..N : X(i) \in Seq(S)
  BY FlattenFronts
<1>2. \A i \in 1..N : X(i) = X(i - 1) \o seqs[i]
  BY FlattenFronts
<1>3. \A i \in 1..N : seqs[i] \in Seq(S) /\ i - 1 \in 0..N /\ i \in 0..N
  OBVIOUS
<1>4. n \in 1..N /\ N \in 0..N /\ N >= n
  OBVIOUS
<1> HIDE DEF X
<1>5. \A i \in 1..N :
         /\ Len(X(i - 1)) \in Nat /\ Len(seqs[i]) \in Nat
         /\ Len(X(i)) = Len(X(i - 1)) + Len(seqs[i])
         /\ \A k \in 1..Len(X(i - 1)) : X(i)[k] = X(i - 1)[k]
         /\ \A k \in 1..Len(seqs[i]) : X(i)[Len(X(i - 1)) + k] = seqs[i][k]
  <2> TAKE i \in 1..N
  <2>1. X(i - 1) \in Seq(S) /\ seqs[i] \in Seq(S) /\ X(i) = X(i - 1) \o seqs[i]
    BY <1>1, <1>2, <1>3
  <2> QED
    BY <2>1
<1>6. ASSUME NEW i \in 1..N, i - 1 \in 0..N, i - 1 \notin Wrong
      PROVE  i \notin Wrong
  <2>1. CASE i < n
    BY <2>1
  <2>2. CASE i = n
    <3>1. \A k \in 1..Len(seqs[n]) : X(n)[before + k] = seqs[n][k]
      BY <1>4, <1>5
    <3>2. upto <= Len(X(n))
      <4>1. Len(X(n)) \in Nat
        BY <1>1, <1>4
      <4> QED
        BY <4>1
    <3>3. Right(n)
      BY <3>1, <3>2
    <3> QED
      BY <2>2, <3>3
  <2>3. CASE i > n
    <3>1. Right(i - 1)
      BY <1>6, <2>3
    <3>2. \A k \in 1..Len(seqs[n]) : before + k \in 1..Len(X(i - 1))
      <4>1. before \in Nat /\ Len(seqs[n]) \in Nat /\ upto = before + Len(seqs[n])
        BY <1>4, <1>5
      <4>2. Len(X(i - 1)) \in Nat /\ upto <= Len(X(i - 1))
        BY <1>5, <3>1
      <4> HIDE DEF before, upto
      <4> QED
        BY <4>1, <4>2
    <3>3. upto <= Len(X(i))
      <4>2. Len(X(i - 1)) \in Nat /\ Len(seqs[i]) \in Nat /\ Len(X(i)) = Len(X(i - 1)) + Len(seqs[i])
        BY <1>5
      <4>3. upto <= Len(X(i - 1))
        BY <3>1
      <4>4. \A a, b, c \in Nat : a <= b => a <= b + c
        OBVIOUS
      <4>5. upto \in Nat
        BY <1>1, <1>4
      <4> HIDE DEF before, upto
      <4> QED
        BY <4>2, <4>3, <4>4, <4>5
    <3>4. \A k \in 1..Len(X(i - 1)) : X(i)[k] = X(i - 1)[k]
      BY <1>5
    <3> QED
      BY <3>1, <3>2, <3>3, <3>4
  <2> QED
    BY <2>1, <2>2, <2>3
<1>7. Right(N)
  <2>1. 0 \notin Wrong /\ Wrong \in SUBSET (0..N)
    BY <1>4
  <2>2. Wrong = {}
    <3> HIDE DEF Wrong
    <3> QED
      BY <1>6, <2>1, FirstFailure
  <2> HIDE DEF Right
  <2> QED
    BY <1>4, <2>2
<1>8. X(N) = FlattenSeq(seqs)
  BY SubSeqFull DEF X
<1> QED
  BY <1>4, <1>5, <1>7, <1>8 DEF X

------------------------------------------------------------------------------
(* Where messages lie in the stream *)

Sent ==
    /\ protocol \in {"http", "lsp"}
    /\ Units(messages) /\ \A m \in Range(messages) : IsMessage(m)
    /\ stream = StreamOf(protocol, messages)

\* How many units come before the headers of a message.
Ahead(p, m) == IF p = "http" /\ m.line # << >> THEN 1 ELSE 0

\* A sequence of units as the provers' library has it.
LEMMA UnitsOfSeq ==
    ASSUME NEW s, Units(s)
    PROVE  /\ Len(s) \in Nat /\ DOMAIN s = 1..Len(s)
           /\ \A i \in 1..Len(s) : s[i] \in Range(s)
           /\ (Len(s) = 0 => s = << >>)
           /\ SubSeq(s, 1, Len(s)) = s
<1>1. s \in Seq(Range(s))
  BY DEF Units
<1>2. Len(s) \in Nat /\ DOMAIN s = 1..Len(s) /\ \A i \in 1..Len(s) : s[i] \in Range(s)
  BY <1>1, LenProperties, ElementOfSeq
<1>3. Len(s) = 0 => s = << >>
  BY <1>1, EmptySeq
<1>4. SubSeq(s, 1, Len(s)) = s
  BY <1>1, SubSeqFull
<1> QED
  BY <1>2, <1>3, <1>4

\* What the units of a message are.
LEMMA UnitsOfFacts ==
    ASSUME NEW p, NEW m, IsMessage(m)
    PROVE  LET u == UnitsOf(p, m)
               a == Ahead(p, m)
               h == Len(m.headers)
               b == Len(m.body)
           IN  /\ a \in Nat /\ h \in Nat /\ b \in Nat
               /\ Units(u) /\ Len(u) = a + h + 1 + b
               /\ a = 1 => u[1] = [name |-> "line", value |-> m.line[1]]
               /\ \A k \in 1..h : u[a + k] = m.headers[k]
               /\ u[a + h + 1] = End
               /\ \A k \in 1..b : u[a + h + 1 + k] = m.body[k]
<1> DEFINE u == UnitsOf(p, m)
           line == IF p = "http" /\ m.line # << >> THEN << [name |-> "line", value |-> m.line[1]] >> ELSE << >>
           S == Range(line) \cup Range(m.headers) \cup {End} \cup Range(m.body)
<1>1. u = ((line \o m.headers) \o << End >>) \o m.body
  BY DEF UnitsOf
<1>2. line \in Seq(S) /\ Len(line) = Ahead(p, m) /\ Ahead(p, m) \in {0, 1}
  <2>1. CASE p = "http" /\ m.line # << >>
    <3> DEFINE x == [name |-> "line", value |-> m.line[1]]
    <3>1. line = << x >> /\ Ahead(p, m) = 1
      BY <2>1 DEF Ahead
    <3> HIDE DEF x, line
    <3>2. Range(line) = {x}
      BY <3>1 DEF Range
    <3>3. x \in S
      BY <3>2 DEF S
    <3> HIDE DEF S
    <3> QED
      BY <3>1, <3>3
  <2>2. CASE ~(p = "http" /\ m.line # << >>)
    <3>1. line = << >> /\ Ahead(p, m) = 0
      BY <2>2 DEF Ahead
    <3> HIDE DEF line, S
    <3> QED
      BY <3>1
  <2> QED
    BY <2>1, <2>2
<1>3. m.headers \in Seq(S) /\ m.body \in Seq(S) /\ << End >> \in Seq(S) /\ Len(<< End >>) = 1 /\ << End >>[1] = End
  <2>1. m.headers \in Seq(Range(m.headers)) /\ m.body \in Seq(Range(m.body))
    BY DEF IsMessage, Units
  <2>2. Range(m.headers) \subseteq S /\ Range(m.body) \subseteq S /\ End \in S
    OBVIOUS
  <2> HIDE DEF S
  <2> QED
    BY <2>1, <2>2, SeqMonotonic
<1> HIDE DEF S
<1>4. PICK a \in {0, 1} : a = Len(line)
  BY <1>2
<1>5. PICK h \in Nat : h = Len(m.headers)
  BY <1>3, LenProperties
<1>6. PICK b \in Nat : b = Len(m.body)
  BY <1>3, LenProperties
<1>7. a = 1 => line[1] = [name |-> "line", value |-> m.line[1]]
  BY <1>2, <1>4 DEF Ahead
<1> HIDE DEF line, u
<1> DEFINE x == line \o m.headers
           y == x \o << End >>
<1>8. x \in Seq(S) /\ Len(x) = a + h /\ \A i \in 1..(a + h) : x[i] = IF i <= a THEN line[i] ELSE m.headers[i - a]
  BY <1>2, <1>3, <1>4, <1>5, ConcatProperties
<1> HIDE DEF x
<1>9. y \in Seq(S) /\ Len(y) = a + h + 1
      /\ \A i \in 1..(a + h + 1) : y[i] = IF i <= a + h THEN x[i] ELSE << End >>[i - (a + h)]
  BY <1>3, <1>8, ConcatProperties
<1> HIDE DEF y
<1>10. u \in Seq(S) /\ Len(u) = a + h + 1 + b
       /\ \A i \in 1..(a + h + 1 + b) : u[i] = IF i <= a + h + 1 THEN y[i] ELSE m.body[i - (a + h + 1)]
  <2>1. u = y \o m.body
    BY <1>1 DEF x, y
  <2>2. y \o m.body \in Seq(S) /\ Len(y \o m.body) = a + h + 1 + b
        /\ \A i \in 1..(a + h + 1 + b) : (y \o m.body)[i] = IF i <= a + h + 1 THEN y[i] ELSE m.body[i - (a + h + 1)]
    <3>1. PICK d \in Nat : d = a + h + 1
      OBVIOUS
    <3>2. y \in Seq(S) /\ Len(y) = d /\ m.body \in Seq(S) /\ Len(m.body) = b
      BY <1>3, <1>6, <1>9, <3>1
    <3>3. y \o m.body \in Seq(S) /\ Len(y \o m.body) = d + b
          /\ \A i \in 1..(d + b) : (y \o m.body)[i] = IF i <= d THEN y[i] ELSE m.body[i - d]
      BY <3>2, ConcatProperties
    <3> QED
      BY <3>1, <3>3
  <2> QED
    BY <2>1, <2>2
<1>11. a = 1 => u[1] = line[1]
  BY <1>8, <1>9, <1>10
<1>12. ASSUME NEW k \in 1..h PROVE u[a + k] = m.headers[k]
  <2>1. a + k \in 1..(a + h) /\ a + k \in 1..(a + h + 1) /\ a + k \in 1..(a + h + 1 + b) /\ ~(a + k <= a) /\ a + k - a = k
    OBVIOUS
  <2> QED
    BY <1>8, <1>9, <1>10, <2>1
<1>13. u[a + h + 1] = End
  <2>1. /\ a + h + 1 \in 1..(a + h + 1) /\ a + h + 1 \in 1..(a + h + 1 + b)
        /\ ~(a + h + 1 <= a + h) /\ a + h + 1 - (a + h) = 1 /\ a + h + 1 <= a + h + 1
    OBVIOUS
  <2>2. u[a + h + 1] = y[a + h + 1]
    BY <1>10, <2>1
  <2>3. y[a + h + 1] = << End >>[a + h + 1 - (a + h)]
    BY <1>9, <2>1
  <2> QED
    BY <2>1, <2>2, <2>3
<1>14. ASSUME NEW k \in 1..b PROVE u[a + h + 1 + k] = m.body[k]
  <2>1. /\ a + h + 1 + k \in 1..(a + h + 1 + b) /\ ~(a + h + 1 + k <= a + h + 1)
        /\ a + h + 1 + k - (a + h + 1) = k
    OBVIOUS
  <2> QED
    BY <1>10, <2>1
<1>15. Units(u)
  <2>1. DOMAIN u = 1..Len(u)
    BY <1>10
  <2>2. Len(u) \in Nat
    BY <1>10
  <2>3. u = [i \in DOMAIN u |-> u[i]]
    BY <1>10
  <2>4. \A i \in 1..Len(u) : u[i] \in Range(u)
    BY <2>1 DEF Range
  <2> QED
    BY <2>1, <2>2, <2>3, <2>4 DEF Units
<1> QED
  BY <1>2, <1>4, <1>5, <1>6, <1>7, <1>10, <1>11, <1>12, <1>13, <1>14, <1>15 DEF u

\* Where a message begins in the stream, and what it has there.
LEMMA SentFacts ==
    ASSUME Sent
    PROVE  /\ Upto(0) = 0
           /\ Units(stream)
           /\ \A i \in 1..Len(stream) : \E m \in Range(messages) :
                 IsMessage(m) /\ stream[i] \in Range(UnitsOf(protocol, m))
           /\ \A n \in 1..Len(messages) :
                 /\ IsMessage(messages[n])
                 /\ Upto(n - 1) \in Nat /\ Upto(n) \in Nat
                 /\ Upto(n) = Upto(n - 1) + Len(UnitsOf(protocol, messages[n]))
                 /\ Upto(n) <= Len(stream)
                 /\ \A k \in 1..Len(UnitsOf(protocol, messages[n])) :
                       stream[Upto(n - 1) + k] = UnitsOf(protocol, messages[n])[k]
<1> DEFINE u(m) == UnitsOf(protocol, m)
           seqs == [i \in DOMAIN messages |-> u(messages[i])]
           S == UNION {Range(u(m)) : m \in Range(messages)}
<1>1. PICK N \in Nat : N = Len(messages) /\ DOMAIN messages = 1..N /\ \A i \in 1..N : messages[i] \in Range(messages)
  BY UnitsOfSeq DEF Sent
<1>2. \A m \in Range(messages) : IsMessage(m) /\ Units(u(m))
  BY UnitsOfFacts DEF Sent
<1>3. \A m \in Range(messages) : u(m) \in Seq(S)
  <2> TAKE m \in Range(messages)
  <2>1. u(m) \in Seq(Range(u(m)))
    BY <1>2 DEF Units
  <2>2. Range(u(m)) \subseteq S
    OBVIOUS
  <2> HIDE DEF S, u
  <2> QED
    BY <2>1, <2>2, SeqMonotonic
<1> HIDE DEF S, u
<1>4. /\ seqs \in Seq(Seq(S)) /\ Len(seqs) = N
      /\ \A i \in 1..N : seqs[i] = u(messages[i])
  BY <1>1, <1>3
<1>5. \A n \in 0..N : StreamOf(protocol, SubSeq(messages, 1, n)) = FlattenSeq(SubSeq(seqs, 1, n))
  <2> TAKE n \in 0..N
  <2> DEFINE t == SubSeq(messages, 1, n)
             v == [i \in DOMAIN t |-> UnitsOf(protocol, t[i])]
  <2>1. messages \in Seq(Range(messages))
    BY DEF Sent, Units
  <2>2. t \in Seq(Range(messages)) /\ Len(t) = n /\ DOMAIN t = 1..n /\ \A i \in 1..n : t[i] = messages[i]
    BY <1>1, <2>1
  <2>3. SubSeq(seqs, 1, n) \in Seq(Seq(S)) /\ Len(SubSeq(seqs, 1, n)) = n /\ \A i \in 1..n : SubSeq(seqs, 1, n)[i] = seqs[i]
    <3> HIDE DEF seqs
    <3> QED
      BY <1>4
  <2>4. \A i \in 1..n : i \in 1..N
    OBVIOUS
  <2> HIDE DEF t, seqs
  <2>5. v \in Seq(Seq(S)) /\ Len(v) = n /\ \A i \in 1..n : v[i] = u(messages[i])
    <3>1. \A i \in 1..n : UnitsOf(protocol, t[i]) = u(messages[i]) /\ u(messages[i]) \in Seq(S)
      BY <1>1, <1>3, <2>2, <2>4 DEF u
    <3> QED
      BY <2>2, <3>1
  <2> HIDE DEF v
  <2>6. v = SubSeq(seqs, 1, n)
    BY <1>4, <2>3, <2>4, <2>5, SeqEqual
  <2> QED
    BY <2>6 DEF t, v, StreamOf
<1>6. stream = FlattenSeq(seqs)
  BY DEF Sent, StreamOf, u
<1> HIDE DEF seqs
<1>7. \A n \in 0..N : Upto(n) = Len(FlattenSeq(SubSeq(seqs, 1, n)))
  BY <1>5 DEF Upto
<1>8. Upto(0) = 0
  <2>1. FlattenSeq(SubSeq(seqs, 1, 0)) = << >>
    BY <1>4, FlattenFronts
  <2>2. 0 \in 0..N
    OBVIOUS
  <2> QED
    BY <1>7, <2>1, <2>2
<1>9. /\ Units(stream)
      /\ \A i \in 1..Len(stream) : \E m \in Range(messages) :
            IsMessage(m) /\ stream[i] \in Range(UnitsOf(protocol, m))
  <2>1. FlattenSeq(SubSeq(seqs, 1, N)) \in Seq(S)
    <3>1. N \in 0..Len(seqs)
      BY <1>4
    <3> QED
      BY <1>4, <3>1, FlattenFronts
  <2>2. SubSeq(seqs, 1, N) = seqs
    BY <1>4, SubSeqFull
  <2>3. stream \in Seq(S)
    BY <1>6, <2>1, <2>2
  <2>4. DOMAIN stream = 1..Len(stream) /\ Len(stream) \in Nat /\ stream = [i \in DOMAIN stream |-> stream[i]]
    BY <2>3
  <2>5. \A i \in 1..Len(stream) : stream[i] \in Range(stream)
    BY <2>4 DEF Range
  <2>6. \A i \in 1..Len(stream) : stream[i] \in S
    BY <2>3, ElementOfSeq
  <2>7. \A i \in 1..Len(stream) : \E m \in Range(messages) :
            IsMessage(m) /\ stream[i] \in Range(UnitsOf(protocol, m))
    BY <1>2, <2>6 DEF S, u
  <2> QED
    BY <2>4, <2>5, <2>7 DEF Units
<1>10. ASSUME NEW n \in 1..N
       PROVE  /\ IsMessage(messages[n])
              /\ Upto(n - 1) \in Nat /\ Upto(n) \in Nat
              /\ Upto(n) = Upto(n - 1) + Len(UnitsOf(protocol, messages[n]))
              /\ Upto(n) <= Len(stream)
              /\ \A k \in 1..Len(UnitsOf(protocol, messages[n])) :
                    stream[Upto(n - 1) + k] = UnitsOf(protocol, messages[n])[k]
  <2>1. n - 1 \in 0..N /\ n \in 0..N /\ n \in 1..Len(seqs)
    BY <1>4
  <2>2. seqs[n] = UnitsOf(protocol, messages[n])
    BY <1>4 DEF u
  <2>3. Upto(n - 1) = Len(FlattenSeq(SubSeq(seqs, 1, n - 1))) /\ Upto(n) = Len(FlattenSeq(SubSeq(seqs, 1, n)))
    BY <1>7, <2>1
  <2>4. /\ Upto(n - 1) \in Nat /\ Upto(n) = Upto(n - 1) + Len(seqs[n]) /\ Upto(n) <= Len(FlattenSeq(seqs))
        /\ \A k \in 1..Len(seqs[n]) : FlattenSeq(seqs)[Upto(n - 1) + k] = seqs[n][k]
    <3>1. LET before == Len(FlattenSeq(SubSeq(seqs, 1, n - 1)))
              upto == Len(FlattenSeq(SubSeq(seqs, 1, n)))
          IN  /\ before \in Nat /\ upto = before + Len(seqs[n]) /\ upto <= Len(FlattenSeq(seqs))
              /\ \A k \in 1..Len(seqs[n]) : FlattenSeq(seqs)[before + k] = seqs[n][k]
      BY <1>4, <2>1, FlattenPlaces, Zenon
    <3> QED
      BY <2>3, <3>1, Zenon
  <2>5. IsMessage(messages[n])
    BY <1>1, <1>2
  <2>6. Len(seqs[n]) \in Nat
    <3>1. Units(UnitsOf(protocol, messages[n]))
      BY <2>5, UnitsOfFacts
    <3> QED
      BY <2>2, <3>1, UnitsOfSeq
  <2>7. \A x, y \in Nat : x + y \in Nat
    OBVIOUS
  <2> QED
    BY <1>6, <2>2, <2>4, <2>5, <2>6, <2>7
<1> QED
  BY <1>1, <1>8, <1>9, <1>10

\* Later messages end later.
LEMMA UptoGrows ==
    ASSUME Sent, NEW i \in 0..Len(messages), NEW j \in 0..Len(messages), i <= j
    PROVE  Upto(i) \in Nat /\ Upto(j) \in Nat /\ Upto(i) <= Upto(j)
<1>0. PICK N \in Nat : N = Len(messages)
  BY UnitsOfSeq DEF Sent
<1>1. \A n \in 0..N : Upto(n) \in Nat
  <2> TAKE n \in 0..N
  <2>1. n = 0 \/ n \in 1..N
    OBVIOUS
  <2> QED
    BY <1>0, <2>1, SentFacts
<1>2. \A n \in 1..N : Upto(n - 1) <= Upto(n)
  <2> TAKE n \in 1..N
  <2>1. /\ IsMessage(messages[n]) /\ Upto(n - 1) \in Nat
        /\ Upto(n) = Upto(n - 1) + Len(UnitsOf(protocol, messages[n]))
    BY <1>0, SentFacts
  <2>2. Len(UnitsOf(protocol, messages[n])) \in Nat
    <3>1. Units(UnitsOf(protocol, messages[n]))
      BY <2>1, UnitsOfFacts
    <3> QED
      BY <3>1, UnitsOfSeq
  <2>3. \A x, y \in Nat : x <= x + y
    OBVIOUS
  <2> QED
    BY <2>1, <2>2, <2>3
<1> DEFINE Wrong == {n \in 0..N : i <= n /\ ~(Upto(i) <= Upto(n))}
<1>3. ASSUME NEW n \in 1..N, n - 1 \in 0..N, n - 1 \notin Wrong
      PROVE  n \notin Wrong
  <2>1. Upto(n - 1) \in Nat /\ Upto(n) \in Nat /\ Upto(i) \in Nat /\ Upto(n - 1) <= Upto(n)
    BY <1>0, <1>1, <1>2, <1>3
  <2>2. i = n \/ i <= n - 1 \/ ~(i <= n)
    BY <1>0
  <2>3. \A x, y, z \in Nat : x <= x /\ (x <= y /\ y <= z => x <= z)
    OBVIOUS
  <2> QED
    BY <1>3, <2>1, <2>2, <2>3
<1>4. Wrong = {}
  <2>1. Wrong \in SUBSET (0..N) /\ 0 \notin Wrong
    <3>1. i <= 0 => i = 0
      BY <1>0
    <3>2. Upto(0) <= Upto(0)
      <4>1. Upto(0) \in Nat
        BY <1>1
      <4> QED
        BY <4>1
    <3> QED
      BY <3>1, <3>2
  <2> HIDE DEF Wrong
  <2> QED
    BY <1>3, <2>1, FirstFailure
<1> QED
  BY <1>0, <1>1, <1>4

------------------------------------------------------------------------------
(* One message *)

\* Nothing is left over of a body where no unit is one.
LEMMA JoinedWhole ==
    ASSUME NEW S, NEW units \in Seq(S), \A i \in 1..Len(units) : units[i].name # "body"
    PROVE  Joined(units) = units
<1>1. DOMAIN units = 1..Len(units)
  OBVIOUS
<1>2. [i \in DOMAIN units |-> IF units[i].name = "body" THEN << >> ELSE << units[i] >>]
        = [i \in DOMAIN units |-> << units[i] >>]
  BY <1>1
<1>3. Lines(units) = units
  BY <1>2, FlattenSingles DEF Lines
<1> QED
  BY <1>3 DEF Joined

\* A request of which h headers and b units of the body have been read.
FirstLine(m) == IF protocol = "http" THEN m.line ELSE << >>
ReadOf(m, h, b, need) ==
    [line |-> FirstLine(m), headers |-> SubSeq(m.headers, 1, h), body |-> SubSeq(m.body, 1, b), need |-> need]

\* Where the reader is in message n, and what it has of it.
AtLine(n) == reading = "line" /\ protocol = "http" /\ pos = Upto(n - 1) /\ part = NothingRead
AtHeader(n, h) ==
    /\ reading = "headers"
    /\ pos = Upto(n - 1) + Ahead(protocol, messages[n]) + h
    /\ part = ReadOf(messages[n], h, 0, 0)
AtBody(n, b) ==
    LET m == messages[n]
    IN  /\ reading = "body"
        /\ pos = Upto(n - 1) + Ahead(protocol, m) + Len(m.headers) + 1 + b
        /\ part = ReadOf(m, Len(m.headers), b, Len(m.body))
AtAnswer(n) ==
    LET m == messages[n]
    IN  /\ reading = "answer"
        /\ pos = Upto(n)
        /\ part = ReadOf(m, Len(m.headers), Len(m.body), Len(m.body))
InMessage(n) ==
    \/ AtLine(n)
    \/ \E h \in 0..Len(messages[n].headers) : AtHeader(n, h)
    \/ \E b \in 0..(Len(messages[n].body) - 1) : AtBody(n, b)
    \/ AtAnswer(n)

\* An honest message lies in the stream, unit by unit.
Placed(n) ==
    LET m == messages[n]
        at == Upto(n - 1)
        a == Ahead(protocol, m)
        h == Len(m.headers)
        b == Len(m.body)
    IN  /\ at \in Nat /\ a \in Nat /\ h \in Nat /\ b \in Nat /\ Len(stream) \in Nat
        /\ Units(m.headers) /\ Units(m.body)
        /\ \A k \in 1..h : m.headers[k].name \notin {"line", "end", "body"}
        /\ \A k \in 1..b : m.body[k].name = "body"
        /\ protocol = "http" => a = 1 /\ m.line = << m.line[1] >>
        /\ protocol # "http" => a = 0
        /\ Upto(n) = at + a + h + 1 + b /\ Upto(n) <= Len(stream)
        /\ a = 1 => stream[at + 1] = [name |-> "line", value |-> m.line[1]]
        /\ \A k \in 1..h : stream[at + a + k] = m.headers[k]
        /\ stream[at + a + h + 1] = End
        /\ \A k \in 1..b : stream[at + a + h + 1 + k] = m.body[k]

\* Where the reader is, is where the message lies.
LEMMA InStream ==
    ASSUME Sent, NEW n \in 1..Len(messages), Honest(messages[n])
    PROVE  Placed(n)
<1> DEFINE m == messages[n]
           u == UnitsOf(protocol, m)
<1>1. /\ IsMessage(m) /\ Units(stream)
      /\ Upto(n - 1) \in Nat /\ Upto(n) = Upto(n - 1) + Len(u) /\ Upto(n) <= Len(stream)
      /\ \A k \in 1..Len(u) : stream[Upto(n - 1) + k] = u[k]
  BY SentFacts
<1>2. LET a == Ahead(protocol, m)
          h == Len(m.headers)
          b == Len(m.body)
      IN  /\ a \in Nat /\ h \in Nat /\ b \in Nat
          /\ Units(u) /\ Len(u) = a + h + 1 + b
          /\ a = 1 => u[1] = [name |-> "line", value |-> m.line[1]]
          /\ \A k \in 1..h : u[a + k] = m.headers[k]
          /\ u[a + h + 1] = End
          /\ \A k \in 1..b : u[a + h + 1 + k] = m.body[k]
  <2>1. IsMessage(m)
    BY <1>1
  <2> HIDE DEF m
  <2> QED
    BY <2>1, UnitsOfFacts
<1>3. PICK at \in Nat, a \in Nat, h \in Nat, b \in Nat :
         at = Upto(n - 1) /\ a = Ahead(protocol, m) /\ h = Len(m.headers) /\ b = Len(m.body)
  BY <1>1, <1>2
<1>12. Len(u) \in Nat /\ Len(u) = a + h + 1 + b
  <2> HIDE DEF m, u
  <2> QED
    BY <1>2, <1>3
<1>4. Len(stream) \in Nat
  BY <1>1, UnitsOfSeq
<1>5. /\ Units(m.headers) /\ Units(m.body)
      /\ \A k \in 1..h : m.headers[k].name \notin {"line", "end", "body"}
      /\ \A k \in 1..b : m.body[k].name = "body"
  <2>1. Units(m.headers) /\ Units(m.body)
    BY <1>1 DEF IsMessage
  <2>2. \A k \in 1..h : m.headers[k] \in Range(m.headers)
    BY <1>3, <2>1, UnitsOfSeq
  <2>3. \A k \in 1..b : m.body[k] \in Range(m.body)
    BY <1>3, <2>1, UnitsOfSeq
  <2> QED
    BY <1>1, <2>1, <2>2, <2>3 DEF IsMessage
<1>6. /\ protocol = "http" => a = 1 /\ m.line = << m.line[1] >>
      /\ protocol # "http" => a = 0
  <2>1. protocol = "http" => m.line # << >>
    BY DEF Honest
  <2>2. m.line = << >> \/ m.line = << m.line[1] >>
    BY <1>1 DEF IsMessage
  <2> HIDE DEF m
  <2>3. a = IF protocol = "http" /\ m.line # << >> THEN 1 ELSE 0
    BY <1>3 DEF Ahead
  <2> QED
    BY <2>1, <2>2, <2>3
<1> HIDE DEF m, u
<1>7. a = 1 => stream[at + 1] = [name |-> "line", value |-> m.line[1]]
  <2>1. 1 \in 1..Len(u)
    BY <1>12
  <2> QED
    BY <1>1, <1>2, <1>3, <2>1
<1>8. ASSUME NEW k \in 1..h PROVE stream[at + a + k] = m.headers[k]
  <2>1. a + k \in 1..Len(u) /\ at + (a + k) = at + a + k
    BY <1>12
  <2>2. stream[at + (a + k)] = u[a + k]
    BY <1>1, <1>3, <2>1
  <2> QED
    BY <1>2, <1>3, <2>1, <2>2
<1>9. stream[at + a + h + 1] = End
  <2>1. a + h + 1 \in 1..Len(u) /\ at + (a + h + 1) = at + a + h + 1
    BY <1>12
  <2>2. stream[at + (a + h + 1)] = u[a + h + 1]
    BY <1>1, <1>3, <2>1
  <2> QED
    BY <1>2, <1>3, <2>1, <2>2
<1>10. ASSUME NEW k \in 1..b PROVE stream[at + a + h + 1 + k] = m.body[k]
  <2>1. a + h + 1 + k \in 1..Len(u) /\ at + (a + h + 1 + k) = at + a + h + 1 + k
    BY <1>12
  <2>2. stream[at + (a + h + 1 + k)] = u[a + h + 1 + k]
    BY <1>1, <1>3, <2>1
  <2> QED
    BY <1>2, <1>3, <2>1, <2>2
<1>11. Upto(n) = at + a + h + 1 + b
  <2>1. at + (a + h + 1 + b) = at + a + h + 1 + b
    OBVIOUS
  <2> QED
    BY <1>1, <1>2, <1>3, <2>1
<1> QED
  BY <1>1, <1>3, <1>4, <1>5, <1>6, <1>7, <1>8, <1>9, <1>10, <1>11 DEF m, Placed

\* A step that reads changes nothing of what there is to read.
LEMMA SameMessage ==
    ASSUME UNCHANGED <<protocol, messages, stream>>
    PROVE  /\ \A n : Upto(n)' = Upto(n)
           /\ \A m : FirstLine(m)' = FirstLine(m)
           /\ \A m : Honest(m)' = Honest(m)
           /\ Clean' = Clean
           /\ Sent' = Sent
<1>1. \A n : Upto(n)' = Upto(n)
  BY DEF Upto, StreamOf, UnitsOf
<1>2. \A m : Honest(m)' = Honest(m)
  BY DEF Honest, BodyLength, ContentLength
<1>3. Clean' = Clean
  BY <1>2 DEF Clean
<1>4. Sent' = Sent
  BY DEF Sent, StreamOf, Units, IsMessage
<1> QED
  BY <1>1, <1>2, <1>3, <1>4 DEF FirstLine

\* The first line of an honest message is read for what it is.
LEMMA LineIsRead ==
    ASSUME Sent, NEW n \in 1..Len(messages), Honest(messages[n]), AtLine(n), ReadLine
    PROVE  AtHeader(n, 0)' /\ answers' = answers
<1> DEFINE m == messages[n]
<1>1. /\ Upto(n - 1) \in Nat /\ Ahead(protocol, m) = 1 /\ m.line = << m.line[1] >>
      /\ stream[Upto(n - 1) + 1] = [name |-> "line", value |-> m.line[1]]
  BY InStream DEF AtLine, Placed
<1>2. pos = Upto(n - 1) /\ part = NothingRead /\ protocol = "http"
  BY DEF AtLine
<1>3. Unit = [name |-> "line", value |-> m.line[1]]
  BY <1>1, <1>2 DEF Unit
<1>4. Append(part.line, Unit) = << Unit >>
  <2>1. part.line = << >>
    BY <1>2 DEF NothingRead
  <2> QED
    BY <2>1
<1>5. LineOf(<< Unit >>) = m.line
  <2>1. << Unit >> \in Seq({Unit}) /\ Len(<< Unit >>) = 1 /\ << Unit >>[1] = Unit
    OBVIOUS
  <2>2. \A i \in 1..Len(<< Unit >>) : << Unit >>[i].name # "body"
    <3>1. Unit.name = "line"
      BY <1>3
    <3> QED
      BY <2>1, <3>1
  <2>3. Joined(<< Unit >>) = << Unit >>
    BY <2>1, <2>2, JoinedWhole
  <2>4. Unit.name = "line" /\ Unit.value = m.line[1]
    BY <1>3
  <2> QED
    BY <1>1, <2>1, <2>3, <2>4 DEF LineOf
<1>6. m.line # << >>
  BY <1>1
<1>7. Unit.name # "body"
  BY <1>3
<1>8. /\ reading' = "headers" /\ part' = [part EXCEPT !.line = m.line] /\ answers' = answers
      /\ pos' = pos + 1 /\ UNCHANGED <<protocol, messages, stream>>
  BY <1>4, <1>5, <1>6, <1>7 DEF ReadLine
<1>9. part' = [line |-> m.line, headers |-> << >>, body |-> << >>, need |-> 0]
  BY <1>2, <1>8 DEF NothingRead
<1>10. SubSeq(m.headers, 1, 0) = << >> /\ SubSeq(m.body, 1, 0) = << >>
  BY SubSeqEmpty
<1>11. pos' = Upto(n - 1) + Ahead(protocol, m) + 0
  BY <1>1, <1>2, <1>8
<1>12. Upto(n - 1)' = Upto(n - 1) /\ FirstLine(m)' = m.line
  BY <1>2, <1>8, SameMessage DEF FirstLine
<1> QED
  BY <1>8, <1>9, <1>10, <1>11, <1>12 DEF AtHeader, ReadOf

\* A header of an honest message is read as it stands, and the empty line ends
\* the headers.
LEMMA HeaderIsRead ==
    ASSUME Sent, LimitsAssumption, NEW n \in 1..Len(messages), Honest(messages[n]),
           NEW h \in 0..Len(messages[n].headers), AtHeader(n, h), ReadHeader
    PROVE  answers' = answers /\ InMessage(n)'
<1> DEFINE m == messages[n]
<1>20. Placed(n)
  BY InStream
<1>21. PICK at \in Nat, a \in Nat, H \in Nat, B \in Nat :
         at = Upto(n - 1) /\ a = Ahead(protocol, m) /\ H = Len(m.headers) /\ B = Len(m.body)
  BY <1>20 DEF Placed
<1>0. /\ at = Upto(n - 1) /\ a = Ahead(protocol, m) /\ H = Len(m.headers) /\ B = Len(m.body)
      /\ Upto(n) = at + a + H + 1 + B
      /\ Units(m.headers) /\ Units(m.body)
      /\ \A k \in 1..H : m.headers[k].name \notin {"line", "end", "body"} /\ stream[at + a + k] = m.headers[k]
      /\ stream[at + a + H + 1] = End
      /\ \A k \in 1..B : stream[at + a + H + 1 + k] = m.body[k]
  BY <1>20, <1>21 DEF Placed
<1>1. /\ reading = "headers" /\ pos = at + a + h
      /\ part = ReadOf(m, h, 0, 0)
  BY <1>0 DEF AtHeader
<1>2. pos' = pos + 1 /\ UNCHANGED <<protocol, messages, stream>>
  BY DEF ReadHeader
<1>3. h \in 0..H /\ pos \in Nat /\ MAX_HEADER_BYTES \in Nat /\ MAX_BODY_BYTES \in Nat /\ H < MAX_HEADER_BYTES
  <2>1. Len(m.headers) < MAX_HEADER_BYTES
    BY DEF Honest
  <2>2. h \in 0..Len(m.headers)
    OBVIOUS
  <2> HIDE DEF m
  <2>3. h \in 0..H
    BY <1>21, <2>2
  <2>4. H < MAX_HEADER_BYTES
    BY <1>21, <2>1
  <2>5. \A x, y, z \in Nat : x + y + z \in Nat
    OBVIOUS
  <2>6. pos \in Nat
    BY <1>1, <2>3, <2>5
  <2> QED
    BY <2>3, <2>4, <2>6 DEF LimitsAssumption
<1>4. /\ \A i : Upto(i)' = Upto(i)
      /\ \A x : FirstLine(x)' = FirstLine(x)
      /\ m' = m
  BY <1>2, SameMessage
<1>5. m.headers \in Seq(Range(m.headers)) /\ m.body \in Seq(Range(m.body))
  BY <1>0 DEF Units
<1>6. Len(part.headers) = h /\ part.headers = SubSeq(m.headers, 1, h)
  <2>1. part.headers = SubSeq(m.headers, 1, h)
    BY <1>1 DEF ReadOf
  <2>2. Len(SubSeq(m.headers, 1, h)) = h
    BY <1>0, <1>3, <1>5
  <2> QED
    BY <2>1, <2>2
<1>7. ~(Len(part.headers) + 1 > MAX_HEADER_BYTES)
  BY <1>3, <1>6
<1>8. CASE h < H
  <2>1. h + 1 \in 1..H /\ pos + 1 = at + a + (h + 1)
    <3> HIDE DEF m
    <3> QED
      BY <1>1, <1>3, <1>8
  <2>2. Unit = m.headers[h + 1] /\ Unit.name \notin {"line", "end", "body"}
    BY <1>0, <2>1 DEF Unit
  <2>3. Unit # End
    <3>1. End.name = "end"
      BY DEF End
    <3> QED
      BY <2>2, <3>1
  <2>4. part' = [part EXCEPT !.headers = Append(@, Unit)] /\ UNCHANGED <<reading, answers>>
    BY <1>7, <2>3 DEF ReadHeader
  <2>5. Append(part.headers, Unit) = SubSeq(m.headers, 1, h + 1)
    <3>1. Append(SubSeq(m.headers, 0 + 1, h), m.headers[h + 1]) = SubSeq(m.headers, 0 + 1, h + 1)
      <4>1. 0 <= h /\ h < Len(m.headers) /\ h \in Nat /\ 0 \in Nat
        BY <1>0, <1>3, <1>8
      <4> QED
        BY <1>5, <4>1, OneMore
    <3>2. 0 + 1 = 1
      OBVIOUS
    <3> QED
      BY <1>6, <2>2, <3>1, <3>2
  <2>6. part' = ReadOf(m, h + 1, 0, 0)
    BY <1>1, <2>4, <2>5 DEF ReadOf
  <2>7. ReadOf(m, h + 1, 0, 0)' = ReadOf(m, h + 1, 0, 0)
    BY <1>4 DEF ReadOf
  <2>8. pos' = at + a + (h + 1)
    BY <1>2, <2>1
  <2>9. AtHeader(n, h + 1)'
    BY <1>0, <1>1, <1>2, <1>4, <2>4, <2>6, <2>7, <2>8 DEF AtHeader
  <2>10. h + 1 \in 0..Len(m.headers)
    BY <1>0, <2>1
  <2> QED
    BY <1>4, <2>4, <2>9, <2>10 DEF InMessage
<1>9. CASE h = H
  <2>1. Unit = End
    BY <1>0, <1>1, <1>9 DEF Unit
  <2>2. HeadersRead
    BY <1>7, <2>1 DEF ReadHeader
  <2>3. part.headers = m.headers
    BY <1>0, <1>5, <1>6, <1>9, SubSeqFull
  <2>4. Joined(part.headers) = m.headers
    <3>1. \A i \in 1..Len(m.headers) : m.headers[i].name # "body"
      BY <1>0
    <3> QED
      BY <1>5, <2>3, <3>1, JoinedWhole
  <2>5. BodyLength(protocol, m.headers) = << B >> /\ B <= MAX_BODY_BYTES
    BY <1>0 DEF Honest
  <2>6. ~(\A x \in Range(<< B >>) : x > MAX_BODY_BYTES)
    <3>1. B \in Range(<< B >>)
      BY DEF Range
    <3>2. ~(B > MAX_BODY_BYTES)
      BY <1>3, <2>5
    <3> QED
      BY <3>1, <3>2
  <2>7. /\ reading' = IF B = 0 THEN "answer" ELSE "body"
        /\ part' = [part EXCEPT !.headers = m.headers, !.need = B]
        /\ UNCHANGED answers
    <3>1. << B >>[1] = B
      OBVIOUS
    <3> QED
      BY <2>2, <2>4, <2>5, <2>6, <3>1 DEF HeadersRead
  <2>8. part' = ReadOf(m, H, 0, B)
    <3>1. m.headers = SubSeq(m.headers, 1, H)
      BY <1>6, <1>9, <2>3
    <3> QED
      BY <1>1, <2>7, <3>1 DEF ReadOf
  <2>9. \A x, y : ReadOf(m, x, y, B)' = ReadOf(m, x, y, B)
    BY <1>4 DEF ReadOf
  <2>10. pos' = at + a + H + 1 + 0
    BY <1>0, <1>1, <1>2, <1>9
  <2>11. CASE B = 0
    <3>1. AtAnswer(n)'
      <4>1. pos' = Upto(n)
        BY <1>0, <2>10, <2>11
      <4>2. reading' = "answer"
        BY <2>7, <2>11
      <4>3. part' = ReadOf(m, Len(m.headers), Len(m.body), Len(m.body))'
        <5>1. part' = ReadOf(m, H, B, B)
          BY <2>8, <2>11
        <5> QED
          BY <1>4, <1>21, <5>1 DEF ReadOf
      <4> QED
        BY <1>4, <4>1, <4>2, <4>3 DEF AtAnswer
    <3> QED
      BY <2>7, <3>1 DEF InMessage
  <2>12. CASE B # 0
    <3>1. AtBody(n, 0)'
      <4>1. reading' = "body"
        BY <2>7, <2>12
      <4> QED
        BY <1>0, <1>2, <1>4, <2>8, <2>9, <2>10, <4>1 DEF AtBody
    <3>2. 0 \in 0..(Len(m.body) - 1)
      BY <1>0, <2>12
    <3> QED
      BY <1>4, <2>7, <3>1, <3>2 DEF InMessage
  <2> QED
    BY <2>11, <2>12
<1> QED
  BY <1>3, <1>8, <1>9

\* The body of an honest message is read as it stands.
LEMMA BodyIsRead ==
    ASSUME Sent, NEW n \in 1..Len(messages), Honest(messages[n]),
           NEW b \in 0..(Len(messages[n].body) - 1), AtBody(n, b), ReadBody
    PROVE  answers' = answers /\ InMessage(n)'
<1> DEFINE m == messages[n]
<1>20. Placed(n)
  BY InStream
<1>21. PICK at \in Nat, a \in Nat, H \in Nat, B \in Nat :
         at = Upto(n - 1) /\ a = Ahead(protocol, m) /\ H = Len(m.headers) /\ B = Len(m.body)
  BY <1>20 DEF Placed
<1>0. /\ at = Upto(n - 1) /\ a = Ahead(protocol, m) /\ H = Len(m.headers) /\ B = Len(m.body)
      /\ Upto(n) = at + a + H + 1 + B
      /\ Units(m.headers) /\ Units(m.body)
      /\ \A k \in 1..H : m.headers[k].name \notin {"line", "end", "body"} /\ stream[at + a + k] = m.headers[k]
      /\ stream[at + a + H + 1] = End
      /\ \A k \in 1..B : stream[at + a + H + 1 + k] = m.body[k]
  BY <1>20, <1>21 DEF Placed
<1>1. /\ reading = "body" /\ pos = at + a + H + 1 + b
      /\ part = ReadOf(m, H, b, B)
  BY <1>0 DEF AtBody
<1>2. /\ pos' = pos + 1 /\ UNCHANGED <<protocol, messages, stream, answers>>
      /\ part' = [part EXCEPT !.body = Append(@, Unit)]
      /\ reading' = IF Len(part.body) + 1 = part.need THEN "answer" ELSE "body"
  BY DEF ReadBody
<1>3. b \in 0..(B - 1) /\ b + 1 \in 1..B /\ b \in Nat
  <2>1. b \in 0..(Len(m.body) - 1)
    OBVIOUS
  <2> HIDE DEF m
  <2>2. b \in 0..(B - 1)
    BY <1>0, <2>1
  <2> QED
    BY <2>2
<1>4. /\ \A i : Upto(i)' = Upto(i)
      /\ \A x : FirstLine(x)' = FirstLine(x)
      /\ m' = m
  BY <1>2, SameMessage
<1>5. m.body \in Seq(Range(m.body))
  BY <1>0 DEF Units
<1>6. Unit = m.body[b + 1]
  <2>1. pos + 1 = at + a + H + 1 + (b + 1)
    BY <1>1, <1>3
  <2> HIDE DEF m
  <2> QED
    BY <1>0, <1>3, <2>1 DEF Unit
<1>7. part.body = SubSeq(m.body, 1, b) /\ part.need = B /\ Len(part.body) = b
  <2>1. part.body = SubSeq(m.body, 1, b) /\ part.need = B
    BY <1>1 DEF ReadOf
  <2>2. Len(SubSeq(m.body, 1, b)) = b
    <3> HIDE DEF m
    <3> QED
      BY <1>0, <1>3, <1>5
  <2> QED
    BY <2>1, <2>2
<1>8. Append(part.body, Unit) = SubSeq(m.body, 1, b + 1)
  <2>1. Append(SubSeq(m.body, 0 + 1, b), m.body[b + 1]) = SubSeq(m.body, 0 + 1, b + 1)
    <3>1. 0 <= b /\ b < Len(m.body) /\ b \in Nat /\ 0 \in Nat
      BY <1>0, <1>3
    <3> QED
      BY <1>5, <3>1, OneMore
  <2>2. 0 + 1 = 1
    OBVIOUS
  <2> QED
    BY <1>6, <1>7, <2>1, <2>2
<1>9. part' = ReadOf(m, H, b + 1, B)
  BY <1>1, <1>2, <1>8 DEF ReadOf
<1>10. ReadOf(m, H, b + 1, B)' = ReadOf(m, H, b + 1, B)
  BY <1>4 DEF ReadOf
<1>11. pos' = at + a + H + 1 + (b + 1)
  BY <1>1, <1>2, <1>3
<1>12. CASE b + 1 = B
  <2>1. reading' = "answer"
    BY <1>2, <1>7, <1>12
  <2>2. pos' = Upto(n)
    BY <1>0, <1>11, <1>12
  <2>3. AtAnswer(n)'
    BY <1>0, <1>4, <1>9, <1>10, <1>12, <2>1, <2>2 DEF AtAnswer
  <2> QED
    BY <1>2, <2>3 DEF InMessage
<1>13. CASE b + 1 # B
  <2>1. reading' = "body"
    BY <1>2, <1>7, <1>13
  <2>2. AtBody(n, b + 1)'
    <3>1. AtBody(n, b + 1)' <=>
             /\ reading' = "body"
             /\ pos' = at + a + H + 1 + (b + 1)
             /\ part' = ReadOf(m, H, b + 1, B)'
      BY <1>0, <1>2, <1>4 DEF AtBody
    <3> QED
      BY <1>9, <1>10, <1>11, <2>1, <3>1
  <2>3. b + 1 \in 0..(Len(m.body) - 1)
    <3> HIDE DEF m
    <3> QED
      BY <1>3, <1>13, <1>21
  <2> QED
    BY <1>2, <1>4, <2>2, <2>3 DEF InMessage
<1> QED
  BY <1>12, <1>13

\* The next message begins where the one before ends.
Beginning(n) ==
    /\ reading = FirstPart(protocol)
    /\ part = NothingRead
    /\ pos = Upto(n - 1)

\* A whole request is answered as it should be, unless the client is gone; the
\* connection is kept only where both sides want it.
LEMMA RequestIsAnswered ==
    ASSUME Sent, NEW n \in 1..Len(messages), Honest(messages[n]), AtAnswer(n),
           AnswerWrong \/ AnswerRequest
    PROVE  /\ \/ answers' = answers /\ reading' = "closed"
              \/ answers' = Append(answers, Due(messages[n]))
           /\ reading' # "closed" =>
                 reading' = FirstPart(protocol) /\ part' = NothingRead /\ pos' = Upto(n)
           /\ pos' = pos
<1> DEFINE m == messages[n]
<1>0. /\ Units(m.headers) /\ Units(m.body)
      /\ protocol = "http" => m.line = << m.line[1] >>
  BY InStream DEF Placed
<1>1. /\ part.line = FirstLine(m) /\ part.headers = m.headers /\ part.body = m.body
      /\ pos = Upto(n)
  <2>1. /\ part.line = FirstLine(m)
        /\ part.headers = SubSeq(m.headers, 1, Len(m.headers))
        /\ part.body = SubSeq(m.body, 1, Len(m.body))
        /\ pos = Upto(n)
    BY DEF AtAnswer, ReadOf
  <2> QED
    BY <1>0, <2>1, UnitsOfSeq
<1>2. Unsupported(part) <=> protocol = "http" /\ m.line[1].verb \notin {"POST", "GET", "HEAD"}
  BY <1>1 DEF Unsupported, FirstLine
<1>3. RequestOfPart(part) = [headers |-> RequestFromHeaders(m.headers, "peer"), body |-> m.body]
  BY <1>1 DEF RequestOfPart
<1>4. pos' = pos
  BY DEF AnswerWrong, AnswerRequest
<1>5. CASE AnswerWrong
  <2>1. answers' = Append(answers, [status |-> 405]) /\ Continue /\ Unsupported(part)
    BY <1>5 DEF AnswerWrong
  <2>2. Due(m) = [status |-> 405]
    BY <1>2, <2>1 DEF Due
  <2> QED
    BY <1>1, <1>4, <2>1, <2>2 DEF Continue
<1>6. CASE AnswerRequest
  <2>1. Due(m) = [status |-> 200, request |-> RequestOfPart(part)]
    BY <1>2, <1>3, <1>6 DEF Due, AnswerRequest
  <2>2. CASE answers' = Append(answers, [status |-> 200, request |-> RequestOfPart(part)]) /\ Continue
    BY <1>1, <1>4, <2>1, <2>2 DEF Continue
  <2>3. CASE UNCHANGED answers /\ Close
    BY <1>4, <2>3 DEF Close
  <2> QED
    BY <1>6, <2>2, <2>3 DEF AnswerRequest
<1> QED
  BY <1>5, <1>6

------------------------------------------------------------------------------
(* Messages one after the other *)

WireTypes ==
    /\ reading \in {"line", "headers", "body", "answer", "closed"}
    /\ protocol = "lsp" => reading # "line"
    /\ pos \in Nat /\ pos <= Len(stream)
    /\ Units(answers) /\ Units(accessed)

\* What was answered to clean messages, and where the reader is in the next.
RightSoFar ==
    \A n \in Clean \ {0} :
        n <= Len(answers) =>
            IF WholeBy(n) THEN answers[n] = Due(messages[n])
            ELSE reading = "closed" /\ answers[n] = [status |-> 400]
NextIsRead == \A n \in Clean : reading # "closed" /\ n = Len(answers) + 1 => InMessage(n)

AllLogged ==
    \A i \in DOMAIN answers :
        answers[i].status = 200 => \E j \in DOMAIN accessed : accessed[j] = answers[i].request

\* Whatever is added to a sequence of units, it is one again.
LEMMA UnitsAppend ==
    ASSUME NEW s, Units(s), NEW x
    PROVE  /\ Units(Append(s, x)) /\ Len(Append(s, x)) = Len(s) + 1
           /\ DOMAIN Append(s, x) = 1..(Len(s) + 1)
           /\ \A i \in 1..Len(s) : Append(s, x)[i] = s[i]
           /\ Append(s, x)[Len(s) + 1] = x
<1> DEFINE S == Range(s) \cup {x}
           t == Append(s, x)
<1>1. s \in Seq(S) /\ x \in S
  <2>1. s \in Seq(Range(s))
    BY DEF Units
  <2>2. Range(s) \subseteq S
    OBVIOUS
  <2> HIDE DEF S
  <2>3. s \in Seq(S)
    BY <2>1, <2>2, SeqMonotonic
  <2> QED
    BY <2>3 DEF S
<1> HIDE DEF S
<1>2. /\ t \in Seq(S) /\ Len(t) = Len(s) + 1 /\ \A i \in 1..Len(s) : t[i] = s[i]
      /\ t[Len(s) + 1] = x
  BY <1>1, AppendProperties
<1> HIDE DEF t
<1>3. DOMAIN t = 1..Len(t) /\ Len(t) \in Nat /\ t = [i \in DOMAIN t |-> t[i]]
  BY <1>2
<1>4. \A i \in 1..Len(t) : t[i] \in Range(t)
  BY <1>3 DEF Range
<1>5. Units(t)
  BY <1>3, <1>4 DEF Units
<1> QED
  BY <1>2, <1>3, <1>5 DEF t

\* A clean message is honest, and those before it are clean.
LEMMA CleanFacts ==
    ASSUME Sent, NEW n \in Clean, n # 0
    PROVE  /\ n \in 1..Len(messages) /\ n \in Nat /\ Len(messages) \in Nat
           /\ Honest(messages[n])
           /\ \A i \in 0..n : i \in Clean
<1>0. PICK N \in Nat : N = Len(messages)
  BY UnitsOfSeq DEF Sent
<1>1. n \in 1..N
  BY <1>0 DEF Clean
<1>2. \A i \in 1..n : Honest(messages[i])
        /\ (i < n /\ protocol = "http" =>
              WantsKeepAlive([headers |-> messages[i].headers, version |-> messages[i].line[1].version]))
  BY DEF Clean
<1>3. n \in 1..n
  BY <1>1
<1>4. ASSUME NEW i \in 0..n PROVE i \in Clean
  <2>1. i \in 0..N
    BY <1>1
  <2>2. \A j \in 1..i : j \in 1..n /\ (j < i => j < n)
    BY <1>1
  <2> QED
    BY <1>0, <1>2, <2>1, <2>2 DEF Clean
<1>5. n \in Nat /\ n \in 1..Len(messages) /\ Len(messages) \in Nat
  BY <1>0, <1>1
<1>6. Honest(messages[n])
  BY <1>2, <1>3
<1> QED
  BY <1>4, <1>5, <1>6

\* Before all of a message is read it is not read.
LEMMA NotYetWhole ==
    ASSUME Sent, NEW n \in 1..Len(messages), Honest(messages[n]), InMessage(n), reading # "answer"
    PROVE  pos \in Nat /\ Upto(n) \in Nat /\ pos < Upto(n)
<1> DEFINE m == messages[n]
<1>1. Placed(n)
  BY InStream
<1>2. PICK at \in Nat, a \in Nat, H \in Nat, B \in Nat :
         at = Upto(n - 1) /\ a = Ahead(protocol, m) /\ H = Len(m.headers) /\ B = Len(m.body)
  BY <1>1 DEF Placed
<1>3. Upto(n) = at + a + H + 1 + B
  BY <1>1, <1>2 DEF Placed
<1>4. CASE AtLine(n)
  <2>1. pos = at
    BY <1>2, <1>4 DEF AtLine
  <2> QED
    BY <1>3, <2>1
<1>5. CASE \E h \in 0..Len(m.headers) : AtHeader(n, h)
  <2>1. PICK h \in 0..Len(m.headers) : AtHeader(n, h)
    BY <1>5
  <2>2. pos = at + a + h
    BY <1>2, <2>1 DEF AtHeader
  <2> HIDE DEF m
  <2>3. h \in 0..H
    BY <1>2
  <2> QED
    BY <1>3, <2>2, <2>3
<1>6. CASE \E b \in 0..(Len(m.body) - 1) : AtBody(n, b)
  <2>1. PICK b \in 0..(Len(m.body) - 1) : AtBody(n, b)
    BY <1>6
  <2>2. pos = at + a + H + 1 + b
    BY <1>2, <2>1 DEF AtBody
  <2> HIDE DEF m
  <2>3. b \in 0..(B - 1)
    BY <1>2
  <2> QED
    BY <1>3, <2>2, <2>3
<1>7. CASE AtAnswer(n)
  BY <1>7 DEF AtAnswer
<1> QED
  BY <1>4, <1>5, <1>6, <1>7 DEF InMessage

\* At the start of a message the reader is in it.
LEMMA InAtStart ==
    ASSUME Sent, NEW n \in 1..Len(messages), Honest(messages[n]), Beginning(n)
    PROVE  InMessage(n)
<1>1. Placed(n)
  BY InStream
<1>2. CASE protocol = "http"
  BY <1>2 DEF Beginning, FirstPart, AtLine, InMessage
<1>3. CASE protocol # "http"
  <2>1. Ahead(protocol, messages[n]) = 0 /\ Upto(n - 1) \in Nat /\ Len(messages[n].headers) \in Nat
    BY <1>1, <1>3 DEF Placed, Ahead
  <2>2. part = ReadOf(messages[n], 0, 0, 0)
    <3>1. SubSeq(messages[n].headers, 1, 0) = << >> /\ SubSeq(messages[n].body, 1, 0) = << >>
      BY SubSeqEmpty
    <3> QED
      BY <1>3, <3>1 DEF Beginning, NothingRead, ReadOf, FirstLine
  <2>3. pos = Upto(n - 1) + Ahead(protocol, messages[n]) + 0
    BY <2>1 DEF Beginning
  <2>4. AtHeader(n, 0)
    BY <1>3, <2>2, <2>3 DEF Beginning, FirstPart, AtHeader
  <2>5. 0 \in 0..Len(messages[n].headers)
    BY <2>1
  <2> QED
    BY <2>4, <2>5 DEF InMessage
<1> QED
  BY <1>2, <1>3

\* The same of the state that follows a step.
LEMMA InAtStartNext ==
    ASSUME Sent, NEW n \in 1..Len(messages), Honest(messages[n]),
           UNCHANGED <<protocol, messages, stream>>,
           reading' = FirstPart(protocol), part' = NothingRead, pos' = Upto(n - 1)
    PROVE  InMessage(n)'
<1>1. Placed(n)
  BY InStream
<1>2. /\ \A i : Upto(i)' = Upto(i)
      /\ \A x : FirstLine(x)' = FirstLine(x)
  BY SameMessage
<1>3. CASE protocol = "http"
  <2>1. AtLine(n)'
    BY <1>2, <1>3 DEF FirstPart, AtLine
  <2> QED
    BY <2>1 DEF InMessage
<1>4. CASE protocol # "http"
  <2>1. Ahead(protocol, messages[n]) = 0 /\ Upto(n - 1) \in Nat /\ Len(messages[n].headers) \in Nat
    BY <1>1, <1>4 DEF Placed, Ahead
  <2>2. part' = ReadOf(messages[n], 0, 0, 0)
    <3>1. SubSeq(messages[n].headers, 1, 0) = << >> /\ SubSeq(messages[n].body, 1, 0) = << >>
      BY SubSeqEmpty
    <3> QED
      BY <1>4, <3>1 DEF NothingRead, ReadOf, FirstLine
  <2>3. pos' = Upto(n - 1) + Ahead(protocol, messages[n]) + 0
    BY <2>1
  <2>4. ReadOf(messages[n], 0, 0, 0)' = ReadOf(messages[n], 0, 0, 0)
    BY <1>2 DEF ReadOf
  <2>5. AtHeader(n, 0)'
    BY <1>2, <1>4, <2>2, <2>3, <2>4 DEF FirstPart, AtHeader
  <2>6. 0 \in 0..Len(messages[n].headers)
    BY <2>1
  <2> QED
    BY <2>5, <2>6 DEF InMessage
<1> QED
  BY <1>3, <1>4

\* A step reads on in the same stream; it may add one answer, and one line to
\* the access log.
LEMMA Steps ==
    ASSUME Sent, WireTypes, WireStep
    PROVE  /\ WireTypes'
           /\ UNCHANGED <<protocol, messages, stream>>
           /\ pos <= pos' /\ reading # "closed"
           /\ answers' = answers \/ \E x : answers' = Append(answers, x)
           /\ accessed' = accessed \/ accessed' = Append(accessed, RequestOfPart(part))
<1>1. Units(stream) /\ Len(stream) \in Nat
  <2>1. Units(stream)
    BY SentFacts
  <2> QED
    BY <2>1, UnitsOfSeq
<1>2. pos \in Nat /\ pos <= Len(stream) /\ Units(answers) /\ Units(accessed)
  BY DEF WireTypes
<1>3. \A x : Units(Append(answers, x)) /\ Units(Append(accessed, x))
  BY <1>2, UnitsAppend
<1>4. protocol \in {"http", "lsp"} /\ FirstPart(protocol) \in {"line", "headers"} /\ (protocol = "lsp" => FirstPart(protocol) # "line")
  BY DEF Sent, FirstPart
<1>5. More => pos + 1 \in Nat /\ pos + 1 <= Len(stream) /\ pos <= pos + 1
  BY <1>1, <1>2 DEF More
<1>6. pos <= pos
  BY <1>2
<1> DEFINE Result(x) == answers' = Append(answers, x)
<1>7. Bad => reading' = "closed" /\ (answers' = answers \/ Result([status |-> 400]))
  BY DEF Bad, Close
<1>14. answers' = answers \/ Result([status |-> 400]) \/ Result([status |-> 405])
         \/ Result([status |-> 200, request |-> RequestOfPart(part)]) => Units(answers')
  <2>1. \A x : Result(x) => Units(answers')
    BY <1>3
  <2> HIDE DEF Result
  <2> QED
    BY <1>2, <2>1
<1>15. accessed' = accessed \/ accessed' = Append(accessed, RequestOfPart(part)) => Units(accessed')
  BY <1>2, <1>3
<1>8. CASE ReadLine
  <2>1. reading = "line" /\ More /\ pos' = pos + 1 /\ UNCHANGED <<protocol, messages, stream, accessed>>
    BY <1>8 DEF ReadLine
  <2>2. /\ reading' \in {"line", "headers", "closed"} /\ (reading' = "line" => reading = "line")
        /\ answers' = answers \/ Result([status |-> 400])
    BY <1>7, <1>8, <2>1 DEF ReadLine
  <2>3. Units(answers') /\ Units(accessed')
    BY <1>14, <1>15, <2>1, <2>2
  <2> QED
    BY <1>2, <1>5, <2>1, <2>2, <2>3 DEF WireTypes, Units
<1>9. CASE ReadHeader
  <2>1. reading = "headers" /\ More /\ pos' = pos + 1 /\ UNCHANGED <<protocol, messages, stream, accessed>>
    BY <1>9 DEF ReadHeader
  <2>2. HeadersRead => Bad \/ (reading' \in {"answer", "body"} /\ answers' = answers)
    <3> DEFINE need == BodyLength(protocol, Joined(part.headers))
               refused == \A n \in Range(need) : n > MAX_BODY_BYTES
    <3>1. HeadersRead => IF refused THEN Bad
                         ELSE reading' = (IF need[1] = 0 THEN "answer" ELSE "body") /\ answers' = answers
      BY Zenon DEF HeadersRead
    <3> HIDE DEF need, refused
    <3> QED
      BY <3>1
  <2>3. /\ reading' \in {"headers", "body", "answer", "closed"}
        /\ answers' = answers \/ Result([status |-> 400])
    BY <1>7, <1>9, <2>1, <2>2 DEF ReadHeader
  <2>4. Units(answers') /\ Units(accessed')
    BY <1>14, <1>15, <2>1, <2>3
  <2> QED
    BY <1>2, <1>5, <2>1, <2>3, <2>4 DEF WireTypes, Units
<1>10. CASE ReadBody
  <2>1. /\ reading = "body" /\ More /\ pos' = pos + 1
        /\ UNCHANGED <<protocol, messages, stream, accessed, answers>>
        /\ reading' \in {"answer", "body"}
    BY <1>10 DEF ReadBody
  <2> QED
    BY <1>2, <1>5, <2>1 DEF WireTypes, Units
<1>11. CASE Hangup
  <2>1. /\ reading \in {"line", "headers", "body"} /\ pos' = pos
        /\ UNCHANGED <<protocol, messages, stream, accessed>>
    BY <1>11 DEF Hangup
  <2>2. reading' = "closed" /\ (answers' = answers \/ Result([status |-> 400]))
    BY <1>7, <1>11 DEF Hangup, Close
  <2>3. Units(answers') /\ Units(accessed')
    BY <1>14, <1>15, <2>1, <2>2
  <2> QED
    BY <1>2, <1>6, <2>1, <2>2, <2>3 DEF WireTypes, Units
<1>12. CASE AnswerWrong
  <2>1. /\ reading = "answer" /\ pos' = pos /\ UNCHANGED <<protocol, messages, stream, accessed>>
        /\ Result([status |-> 405]) /\ Continue
    BY <1>12 DEF AnswerWrong
  <2>2. reading' \in {FirstPart(protocol), "closed"}
    BY <2>1 DEF Continue
  <2>3. Units(answers') /\ Units(accessed')
    BY <1>14, <1>15, <2>1
  <2> QED
    BY <1>2, <1>4, <1>6, <2>1, <2>2, <2>3 DEF WireTypes, Units
<1>13. CASE AnswerRequest
  <2>1. /\ reading = "answer" /\ pos' = pos /\ UNCHANGED <<protocol, messages, stream>>
        /\ accessed' = Append(accessed, RequestOfPart(part))
        /\ answers' = answers \/ Result([status |-> 200, request |-> RequestOfPart(part)])
    BY <1>13 DEF AnswerRequest
  <2>2. reading' \in {FirstPart(protocol), "closed"}
    BY <1>13 DEF AnswerRequest, Continue, Close
  <2>3. Units(answers') /\ Units(accessed')
    BY <1>14, <1>15, <2>1
  <2> QED
    BY <1>2, <1>4, <1>6, <2>1, <2>2, <2>3 DEF WireTypes, Units
<1> QED
  BY <1>8, <1>9, <1>10, <1>11, <1>12, <1>13 DEF WireStep

\* In a clean message a step reads on, answers it, or breaks off.
LEMMA InClean ==
    ASSUME Sent, LimitsAssumption, WireTypes, NEW n \in 1..Len(messages), Honest(messages[n]),
           InMessage(n), WireStep
    PROVE  \/ answers' = answers /\ (reading' = "closed" \/ InMessage(n)')
           \/ /\ answers' = Append(answers, Due(messages[n]))
              /\ pos' = Upto(n)
              /\ reading' # "closed" => reading' = FirstPart(protocol) /\ part' = NothingRead
           \/ /\ answers' = Append(answers, [status |-> 400])
              /\ reading' = "closed" /\ pos' < Upto(n)
<1>1. /\ AtLine(n) => reading = "line"
      /\ \A h : AtHeader(n, h) => reading = "headers"
      /\ \A b : AtBody(n, b) => reading = "body"
      /\ AtAnswer(n) => reading = "answer"
  BY DEF AtLine, AtHeader, AtBody, AtAnswer
<1>2. CASE ReadLine
  <2>1. AtLine(n)
    BY <1>1, <1>2 DEF ReadLine, InMessage
  <2>2. AtHeader(n, 0)' /\ answers' = answers
    BY <1>2, <2>1, LineIsRead
  <2>3. 0 \in 0..Len(messages[n].headers) /\ messages' = messages
    <3>1. Len(messages[n].headers) \in Nat
      BY InStream DEF Placed
    <3> QED
      BY <1>2, <3>1 DEF ReadLine
  <2> QED
    BY <2>2, <2>3 DEF InMessage
<1>3. CASE ReadHeader
  <2>1. PICK h \in 0..Len(messages[n].headers) : AtHeader(n, h)
    BY <1>1, <1>3 DEF ReadHeader, InMessage
  <2> QED
    BY <1>3, <2>1, HeaderIsRead
<1>4. CASE ReadBody
  <2>1. PICK b \in 0..(Len(messages[n].body) - 1) : AtBody(n, b)
    BY <1>1, <1>4 DEF ReadBody, InMessage
  <2> QED
    BY <1>4, <2>1, BodyIsRead
<1>5. CASE Hangup
  <2>1. reading # "answer" /\ pos' = pos
    BY <1>5 DEF Hangup
  <2>2. pos < Upto(n)
    BY <2>1, NotYetWhole
  <2>3. reading' = "closed" /\ (answers' = answers \/ answers' = Append(answers, [status |-> 400]))
    BY <1>5 DEF Hangup, Bad, Close
  <2> QED
    BY <2>1, <2>2, <2>3
<1>6. CASE AnswerWrong \/ AnswerRequest
  <2>1. AtAnswer(n)
    BY <1>1, <1>6 DEF AnswerWrong, AnswerRequest, InMessage
  <2>2. pos = Upto(n)
    BY <2>1 DEF AtAnswer
  <2>3. /\ \/ answers' = answers /\ reading' = "closed"
           \/ answers' = Append(answers, Due(messages[n]))
        /\ reading' # "closed" =>
              reading' = FirstPart(protocol) /\ part' = NothingRead /\ pos' = Upto(n)
        /\ pos' = pos
    BY <1>6, <2>1, RequestIsAnswered
  <2> QED
    BY <2>2, <2>3
<1> QED
  BY <1>2, <1>3, <1>4, <1>5, <1>6 DEF WireStep

\* Whether a message was read, and what it is to be answered, stays.
LEMMA StaysRight ==
    ASSUME Sent, WireTypes, WireStep, RightSoFar, NEW n \in Clean \ {0}, n <= Len(answers)
    PROVE  WholeBy(n)' /\ answers'[n] = Due(messages[n]) /\ Due(messages[n])' = Due(messages[n])
<1>1. /\ UNCHANGED <<protocol, messages, stream>> /\ pos <= pos' /\ reading # "closed"
      /\ answers' = answers \/ \E x : answers' = Append(answers, x)
  BY Steps
<1>2. WholeBy(n) /\ answers[n] = Due(messages[n])
  BY <1>1 DEF RightSoFar
<1>3. pos \in Nat /\ pos' \in Nat /\ Units(answers)
  BY Steps DEF WireTypes
<1>4. n \in Nat /\ n # 0 /\ Upto(n) \in Nat
  <2>1. n \in 1..Len(messages) /\ n \in Nat
    BY CleanFacts
  <2> QED
    BY <2>1, SentFacts
<1>5. Upto(n)' = Upto(n)
  BY <1>1, SameMessage
<1>6. WholeBy(n)'
  <2>1. Upto(n) <= pos
    BY <1>2 DEF WholeBy
  <2>2. Upto(n) <= pos'
    BY <1>1, <1>3, <1>4, <2>1
  <2> QED
    BY <1>5, <2>2 DEF WholeBy
<1>7. answers'[n] = answers[n]
  <2>1. n \in 1..Len(answers)
    <3>1. Len(answers) \in Nat
      BY <1>3, UnitsOfSeq
    <3> QED
      BY <1>4, <3>1
  <2>2. ASSUME NEW x PROVE Append(answers, x)[n] = answers[n]
    BY <1>3, <2>1, UnitsAppend
  <2> QED
    BY <1>1, <2>2
<1>8. Due(messages[n])' = Due(messages[n])
  BY <1>1 DEF Due
<1> QED
  BY <1>2, <1>6, <1>7, <1>8

\* The answers are right after every step.
LEMMA StepKeepsRight ==
    ASSUME LimitsAssumption, Sent, WireTypes, WireStep, RightSoFar, NextIsRead
    PROVE  RightSoFar' /\ NextIsRead'
<1>1. /\ UNCHANGED <<protocol, messages, stream>> /\ pos <= pos' /\ reading # "closed"
      /\ answers' = answers \/ \E x : answers' = Append(answers, x)
  BY Steps
<1>2. PICK A \in Nat : A = Len(answers)
  <2>1. Units(answers)
    BY DEF WireTypes
  <2> QED
    BY <2>1, UnitsOfSeq
<1>3. \A x : Len(Append(answers, x)) = A + 1 /\ Append(answers, x)[A + 1] = x
  <2>1. Units(answers)
    BY DEF WireTypes
  <2> QED
    BY <1>2, <2>1, UnitsAppend
<1>4. Clean' = Clean /\ messages' = messages /\ \A i : Upto(i)' = Upto(i)
  BY <1>1, SameMessage
<1>5. /\ \A n \in Clean : n # 0 => n \in 1..Len(messages) /\ n \in Nat /\ Honest(messages[n])
      /\ \A n \in Clean : n # 0 => \A i \in 0..n : i \in Clean
  BY CleanFacts
<1>6. ASSUME A + 1 \in Clean
      PROVE  \/ answers' = answers /\ (reading' = "closed" \/ InMessage(A + 1)')
             \/ /\ answers' = Append(answers, Due(messages[A + 1]))
                /\ pos' = Upto(A + 1)
                /\ reading' # "closed" => reading' = FirstPart(protocol) /\ part' = NothingRead
             \/ /\ answers' = Append(answers, [status |-> 400])
                /\ reading' = "closed" /\ pos' < Upto(A + 1)
  <2>1. A + 1 # 0
    OBVIOUS
  <2>2. A + 1 \in 1..Len(messages) /\ Honest(messages[A + 1])
    BY <1>5, <1>6, <2>1
  <2>3. InMessage(A + 1)
    BY <1>1, <1>2, <1>6 DEF NextIsRead
  <2> QED
    BY <2>2, <2>3, InClean
<1>7. pos \in Nat /\ pos' \in Nat /\ \A n \in Clean : n # 0 => Upto(n) \in Nat
  <2>1. pos \in Nat /\ pos' \in Nat
    BY Steps DEF WireTypes
  <2> QED
    BY <1>5, <2>1, SentFacts
<1>8. RightSoFar'
  <2> SUFFICES ASSUME NEW n \in Clean \ {0}, n <= Len(answers')
               PROVE  IF WholeBy(n)' THEN answers'[n] = Due(messages[n])'
                      ELSE reading' = "closed" /\ answers'[n] = [status |-> 400]
    BY <1>4 DEF RightSoFar
  <2>1. CASE n <= A
    <3>1. WholeBy(n)' /\ answers'[n] = Due(messages[n]) /\ Due(messages[n])' = Due(messages[n])
      BY <1>2, <2>1, StaysRight
    <3> QED
      BY <3>1
  <2>2. CASE ~(n <= A)
    <3>1. n \in Nat /\ n # 0
      BY <1>5
    <3>2. n = A + 1 /\ answers' # answers
      BY <1>1, <1>2, <1>3, <2>2, <3>1
    <3>3. A + 1 \in Clean
      BY <3>2
    <3>4. Due(messages[n])' = Due(messages[n])
      BY <1>1 DEF Due
    <3>5. WholeBy(n)' <=> Upto(n) <= pos'
      BY <1>4 DEF WholeBy
    <3>6. CASE answers' = Append(answers, Due(messages[A + 1])) /\ pos' = Upto(A + 1)
      <4>1. answers'[n] = Due(messages[n])
        BY <1>3, <3>2, <3>6
      <4>2. WholeBy(n)'
        BY <1>7, <3>2, <3>3, <3>5, <3>6
      <4> QED
        BY <3>4, <4>1, <4>2
    <3>7. CASE /\ answers' = Append(answers, [status |-> 400])
               /\ reading' = "closed" /\ pos' < Upto(A + 1)
      <4>1. answers'[n] = [status |-> 400]
        BY <1>3, <3>2, <3>7
      <4>2. ~WholeBy(n)'
        BY <1>7, <3>1, <3>2, <3>3, <3>5, <3>7
      <4> QED
        BY <3>7, <4>1, <4>2
    <3> QED
      BY <1>6, <3>2, <3>3, <3>6, <3>7
  <2> QED
    BY <2>1, <2>2
<1>9. NextIsRead'
  <2> SUFFICES ASSUME NEW n \in Clean, reading' # "closed", n = Len(answers') + 1
               PROVE  InMessage(n)'
    BY <1>4 DEF NextIsRead
  <2>1. CASE answers' = answers
    <3>1. n = A + 1 /\ A + 1 \in Clean
      BY <1>2, <2>1
    <3>2. \A x : answers # Append(answers, x)
      BY <1>2, <1>3
    <3>3. InMessage(A + 1)'
      BY <1>6, <2>1, <3>1, <3>2
    <3> QED
      BY <3>1, <3>3
  <2>2. CASE answers' # answers
    <3>1. n = A + 1 + 1
      BY <1>1, <1>3, <2>2
    <3>2. A + 1 + 1 \in Clean /\ A + 1 + 1 # 0 /\ A + 1 \in 0..(A + 1 + 1)
      BY <3>1
    <3>3. /\ A + 1 \in Clean /\ A + 1 + 1 \in 1..Len(messages) /\ Honest(messages[A + 1 + 1])
      BY <1>5, <3>2
    <3>4. reading' = FirstPart(protocol) /\ part' = NothingRead /\ pos' = Upto(A + 1)
      BY <1>6, <2>2, <3>3
    <3>5. A + 1 + 1 - 1 = A + 1
      OBVIOUS
    <3>6. InMessage(A + 1 + 1)'
      BY <1>1, <3>3, <3>4, <3>5, InAtStartNext
    <3> QED
      BY <3>1, <3>6
  <2> QED
    BY <2>1, <2>2
<1> QED
  BY <1>8, <1>9

\* What is answered with data is in the access log.
LEMMA StepKeepsLog ==
    ASSUME Sent, WireTypes, WireStep, AllLogged
    PROVE  AllLogged'
<1>1. /\ Units(answers) /\ Units(accessed)
      /\ \A x : Units(Append(answers, x)) /\ Units(Append(accessed, x))
  BY UnitsAppend DEF WireTypes
<1>2. /\ DOMAIN answers = 1..Len(answers) /\ Len(answers) \in Nat
      /\ DOMAIN accessed = 1..Len(accessed) /\ Len(accessed) \in Nat
  BY <1>1, UnitsOfSeq
<1>3. accessed' = accessed \/ accessed' = Append(accessed, RequestOfPart(part))
  BY Steps
<1>4. \A j \in DOMAIN accessed : j \in DOMAIN accessed' /\ accessed'[j] = accessed[j]
  BY <1>1, <1>2, <1>3, UnitsAppend
<1>5. \/ answers' = answers
      \/ \E x : answers' = Append(answers, x) /\ x.status # 200
      \/ /\ answers' = Append(answers, [status |-> 200, request |-> RequestOfPart(part)])
         /\ accessed' = Append(accessed, RequestOfPart(part))
  <2>1. Bad => answers' = answers \/ answers' = Append(answers, [status |-> 400])
    BY DEF Bad
  <2>2. [status |-> 400].status # 200 /\ [status |-> 405].status # 200
    OBVIOUS
  <2>3. CASE ReadLine
    BY <2>1, <2>2, <2>3 DEF ReadLine
  <2>4. CASE ReadHeader
    <3>1. HeadersRead => Bad \/ answers' = answers
      <4> DEFINE need == BodyLength(protocol, Joined(part.headers))
                 refused == \A n \in Range(need) : n > MAX_BODY_BYTES
      <4>1. HeadersRead => IF refused THEN Bad ELSE answers' = answers
        BY Zenon DEF HeadersRead
      <4> HIDE DEF need, refused
      <4> QED
        BY <4>1
    <3> QED
      BY <2>1, <2>2, <2>4, <3>1 DEF ReadHeader
  <2>5. CASE ReadBody
    BY <2>5 DEF ReadBody
  <2>6. CASE Hangup
    BY <2>1, <2>2, <2>6 DEF Hangup
  <2>7. CASE AnswerWrong
    BY <2>2, <2>7 DEF AnswerWrong
  <2>8. CASE AnswerRequest
    BY <2>8 DEF AnswerRequest
  <2> QED
    BY <2>3, <2>4, <2>5, <2>6, <2>7, <2>8 DEF WireStep
<1>6. SUFFICES ASSUME NEW i \in DOMAIN answers', answers'[i].status = 200
               PROVE  \E j \in DOMAIN accessed' : accessed'[j] = answers'[i].request
  BY DEF AllLogged
<1>7. CASE i \in DOMAIN answers /\ answers'[i] = answers[i]
  BY <1>4, <1>6, <1>7 DEF AllLogged
<1>8. ASSUME NEW x, answers' = Append(answers, x)
      PROVE  (i \in DOMAIN answers /\ answers'[i] = answers[i]) \/ answers'[i] = x
  <2>1. i \in 1..(Len(answers) + 1)
    BY <1>1, <1>6, <1>8, UnitsAppend
  <2>2. i \in 1..Len(answers) \/ i = Len(answers) + 1
    BY <1>2, <2>1
  <2> QED
    BY <1>1, <1>2, <1>8, <2>2, UnitsAppend
<1>9. CASE \E x : answers' = Append(answers, x) /\ x.status # 200
  BY <1>6, <1>7, <1>8, <1>9
<1>10. CASE /\ answers' = Append(answers, [status |-> 200, request |-> RequestOfPart(part)])
            /\ accessed' = Append(accessed, RequestOfPart(part))
  <2>1. \E j \in DOMAIN accessed' : accessed'[j] = RequestOfPart(part)
    <3>1. Len(accessed) + 1 \in 1..(Len(accessed) + 1)
      BY <1>2
    <3> QED
      BY <1>1, <1>10, <3>1, UnitsAppend
  <2>2. [status |-> 200, request |-> RequestOfPart(part)].request = RequestOfPart(part)
    OBVIOUS
  <2> QED
    BY <1>7, <1>8, <1>10, <2>1, <2>2
<1> QED
  BY <1>5, <1>6, <1>7, <1>9, <1>10

------------------------------------------------------------------------------
(* Frames, and what decode_frame makes of them *)

\* A text that is a number, or none.
IsLength(v) == v = << >> \/ \E l \in Nat : v = << l >>

\* The units of frames: no first line, and lengths that are.
Framed(u) ==
    /\ u = [name |-> u.name, value |-> u.value]
    /\ u.name # "line"
    /\ u.name = "content-length" => IsLength(u.value)

\* What clients send in frames are such units, and pieces of bodies.
LEMMA StreamFramed ==
    ASSUME Sent, protocol = "lsp"
    PROVE  \A i \in 1..Len(stream) : stream[i].name # "body" => Framed(stream[i])
<1> SUFFICES ASSUME NEW i \in 1..Len(stream), stream[i].name # "body"
             PROVE  Framed(stream[i])
  OBVIOUS
<1>1. PICK m \in Range(messages) : IsMessage(m) /\ stream[i] \in Range(UnitsOf(protocol, m))
  BY SentFacts
<1> DEFINE u == UnitsOf(protocol, m)
<1>2. LET a == Ahead(protocol, m)
          h == Len(m.headers)
          b == Len(m.body)
      IN  /\ a \in Nat /\ h \in Nat /\ b \in Nat
          /\ Units(u) /\ Len(u) = a + h + 1 + b
          /\ a = 1 => u[1] = [name |-> "line", value |-> m.line[1]]
          /\ \A k \in 1..h : u[a + k] = m.headers[k]
          /\ u[a + h + 1] = End
          /\ \A k \in 1..b : u[a + h + 1 + k] = m.body[k]
  BY <1>1, UnitsOfFacts, SMTT(20)
<1>3. Ahead(protocol, m) = 0
  BY DEF Ahead
<1> HIDE DEF u
<1>4. PICK h \in Nat, b \in Nat : h = Len(m.headers) /\ b = Len(m.body)
  BY <1>2
<1>5. /\ Units(u) /\ Len(u) = h + 1 + b
      /\ \A k \in 1..h : u[k] = m.headers[k]
      /\ u[h + 1] = End
      /\ \A k \in 1..b : u[h + 1 + k] = m.body[k]
  <2>1. \A x \in Nat : 0 + x = x
    OBVIOUS
  <2>2. /\ Units(u) /\ Len(u) = 0 + h + 1 + b
        /\ \A k \in 1..h : u[0 + k] = m.headers[k]
        /\ u[0 + h + 1] = End
        /\ \A k \in 1..b : u[0 + h + 1 + k] = m.body[k]
    BY <1>2, <1>3, <1>4, Zenon
  <2>3. \A k \in 1..h : k \in Nat
    OBVIOUS
  <2> QED
    BY <2>1, <2>2, <2>3
<1>6. PICK k \in 1..(h + 1 + b) : stream[i] = u[k]
  <2>1. DOMAIN u = 1..(h + 1 + b)
    BY <1>5, UnitsOfSeq
  <2> QED
    BY <1>1, <2>1 DEF Range, u
<1>7. CASE k <= h
  <2>1. u[k] = m.headers[k] /\ k \in 1..h
    BY <1>5, <1>7
  <2>2. m.headers[k] \in Range(m.headers)
    <3>1. Units(m.headers)
      BY <1>1 DEF IsMessage
    <3> QED
      BY <1>4, <2>1, <3>1, UnitsOfSeq
  <2>3. /\ stream[i] = [name |-> stream[i].name, value |-> stream[i].value]
        /\ stream[i].name # "line"
        /\ stream[i].name = "content-length" => Len(stream[i].value) <= 1 /\ stream[i].value \in Seq(Nat)
    BY <1>1, <1>6, <2>1, <2>2 DEF IsMessage
  <2>4. ASSUME NEW v \in Seq(Nat), Len(v) <= 1 PROVE IsLength(v)
    <3>1. CASE Len(v) = 0
      <4>1. v = << >>
        BY <3>1
      <4> QED
        BY <4>1 DEF IsLength
    <3>2. CASE Len(v) = 1
      <4>1. v[1] \in Nat
        <5>1. 1 \in 1..Len(v)
          BY <3>2
        <5> QED
          BY <5>1, ElementOfSeq
      <4>2. << v[1] >> \in Seq(Nat) /\ Len(<< v[1] >>) = 1 /\ << v[1] >>[1] = v[1]
        BY <4>1
      <4>3. \A x \in 1..1 : x = 1
        OBVIOUS
      <4>4. v = << v[1] >>
        BY <3>2, <4>2, <4>3, SeqEqual
      <4> QED
        BY <4>1, <4>4 DEF IsLength
    <3>3. PICK l \in Nat : l = Len(v)
      OBVIOUS
    <3>4. l = 0 \/ l = 1
      BY <2>4, <3>3
    <3> QED
      BY <3>1, <3>2, <3>3, <3>4
  <2> QED
    BY <2>3, <2>4 DEF Framed
<1>8. CASE k = h + 1
  BY <1>5, <1>6, <1>8 DEF Framed, End
<1>9. CASE k > h + 1
  <2>1. PICK j \in 1..b : k = h + 1 + j
    <3>1. k - (h + 1) \in 1..b /\ k = h + 1 + (k - (h + 1))
      BY <1>9
    <3> QED
      BY <3>1
  <2>2. m.body[j] \in Range(m.body)
    <3>1. Units(m.body)
      BY <1>1 DEF IsMessage
    <3> QED
      BY <1>4, <3>1, UnitsOfSeq
  <2>3. stream[i].name = "body"
    BY <1>1, <1>5, <1>6, <2>1, <2>2 DEF IsMessage
  <2> QED
    BY <2>3
<1> QED
  BY <1>7, <1>8, <1>9

\* The length that headers tell, joined with what was left of a body or not,
\* is a number or none.
LEMMA LengthIsNumber ==
    ASSUME NEW S, NEW units \in Seq(S), \A i \in 1..Len(units) : units[i].name # "body" => Framed(units[i])
    PROVE  IsLength(ContentLength(Joined(units)))
<1> DEFINE parts == [i \in DOMAIN units |-> IF units[i].name = "body" THEN << >> ELSE << units[i] >>]
           F == {u \in S : Framed(u)}
           lines == Lines(units)
<1>0. PICK N \in Nat : N = Len(units) /\ DOMAIN units = 1..N /\ \A i \in 1..N : units[i] \in S
  OBVIOUS
<1>1. lines \in Seq(F)
  <2>1. Len(parts) = N /\ DOMAIN parts = 1..N
    BY <1>0
  <2>2. \A i \in 1..N : parts[i] \in Seq(F)
    <3> TAKE i \in 1..N
    <3>1. CASE units[i].name = "body"
      <4>1. parts[i] = << >>
        BY <1>0, <3>1
      <4> HIDE DEF parts, F
      <4> QED
        BY <4>1
    <3>2. CASE units[i].name # "body"
      <4>1. parts[i] = << units[i] >> /\ units[i] \in F
        BY <1>0, <3>2
      <4> HIDE DEF parts, F
      <4> QED
        BY <4>1
    <3> QED
      BY <3>1, <3>2
  <2>3. Len(parts) = 0 => parts = << >>
    BY <2>1
  <2> HIDE DEF parts, F
  <2>4. FlattenSeq(parts) \in Seq(F)
    BY <2>1, <2>2, <2>3, FlattenFacts
  <2> QED
    BY <2>4 DEF Lines, parts
<1>2. \A i \in DOMAIN lines : Framed(lines[i]) /\ i \in Nat /\ i >= 1
  BY <1>1
<1> HIDE DEF lines
<1> DEFINE headers == Joined(units)
<1>3. \A i \in DOMAIN headers :
         i \in Int /\ 1 <= i /\ (headers[i].name = "content-length" => IsLength(headers[i].value))
  <2>1. CASE lines \in {units, << >>}
    <3>1. headers = lines
      BY <2>1 DEF Joined, lines
    <3> QED
      BY <1>2, <3>1 DEF Framed
  <2>2. CASE lines \notin {units, << >>}
    <3>1. lines[1].name # "line" /\ lines[1] = [name |-> lines[1].name, value |-> lines[1].value]
      <4>1. 1 \in DOMAIN lines
        BY <1>1, <2>2
      <4> QED
        BY <1>2, <4>1 DEF Framed
    <3>2. headers = [lines EXCEPT ![1] = [@ EXCEPT !.name = "garbled"]]
      BY <2>2, <3>1 DEF Joined, lines
    <3>3. [lines[1] EXCEPT !.name = "garbled"].name = "garbled"
      <4> DEFINE n == lines[1].name
                 v == lines[1].value
      <4>1. lines[1] = [name |-> n, value |-> v]
        BY <3>1
      <4> HIDE DEF n, v
      <4> QED
        BY <4>1
    <3>4. DOMAIN headers = DOMAIN lines
      BY <3>2
    <3>5. \A i \in DOMAIN lines : headers[i] = IF i = 1 THEN [lines[1] EXCEPT !.name = "garbled"] ELSE lines[i]
      BY <3>2
    <3> HIDE DEF headers
    <3> QED
      BY <1>2, <3>3, <3>4, <3>5 DEF Framed
  <2> QED
    BY <2>1, <2>2
<1> HIDE DEF headers
<1> DEFINE at == Places(headers, "content-length")
<1>4. CASE at = {}
  <2>1. HeaderValue(headers, "content-length") = << >>
    BY <1>4 DEF HeaderValue
  <2> QED
    BY <2>1 DEF ContentLength, IsLength, headers
<1>5. CASE at # {}
  <2>1. at \in SUBSET Int /\ \A x \in at : 1 <= x
    BY <1>3 DEF Places
  <2>2. Min(at) \in at
    <3> HIDE DEF at
    <3> QED
      BY <1>5, <2>1, MinOfBounded
  <2>3. IsLength(headers[Min(at)].value)
    BY <1>3, <2>2 DEF Places
  <2>4. HeaderValue(headers, "content-length") = << headers[Min(at)].value >>
    BY <1>5 DEF HeaderValue
  <2>5. ContentLength(headers) = headers[Min(at)].value
    BY <2>4 DEF ContentLength
  <2> QED
    BY <2>3, <2>5 DEF headers
<1> QED
  BY <1>4, <1>5

\* What a part of a part of a sequence is.
LEMMA PartOfPart ==
    ASSUME NEW S, NEW s \in Seq(S), NEW a \in Nat, NEW q \in Nat, a <= q, q <= Len(s),
           NEW i \in Nat, NEW j \in Nat, 1 <= i, i <= j + 1, j <= q - a
    PROVE  SubSeq(SubSeq(s, a + 1, q), i, j) = SubSeq(s, a + i, a + j)
<1> DEFINE t == SubSeq(s, a + 1, q)
           u == SubSeq(t, i, j)
           v == SubSeq(s, a + i, a + j)
<1>1. t \in Seq(S) /\ Len(t) = q - a /\ \A k \in 1..(q - a) : t[k] = s[a + k]
  OBVIOUS
<1> HIDE DEF t
<1>2. u \in Seq(S) /\ Len(u) = j + 1 - i /\ \A k \in 1..(j + 1 - i) : u[k] = t[i + k - 1]
  BY <1>1
<1>3. v \in Seq(S) /\ Len(v) = j + 1 - i /\ \A k \in 1..(j + 1 - i) : v[k] = s[a + i + k - 1]
  OBVIOUS
<1> HIDE DEF u, v
<1>4. \A k \in 1..(j + 1 - i) : i + k - 1 \in 1..(q - a) /\ a + (i + k - 1) = a + i + k - 1
  OBVIOUS
<1>5. \A k \in 1..(j + 1 - i) : u[k] = v[k]
  BY <1>1, <1>2, <1>3, <1>4
<1>6. u = v
  BY <1>2, <1>3, <1>5, SeqEqual
<1> QED
  BY <1>6 DEF t, u, v

\* After place a come h units, of which none ends the headers, and the empty line.
HeadAt(a, h) ==
    /\ h \in Nat
    /\ stream[a + h + 1] = End
    /\ \A k \in 1..h : stream[a + k] # End
LengthAt(a, h) == ContentLength(Joined(SubSeq(stream, a + 1, a + h)))

\* A frame with this body goes from place a to place b.
IsFrame(a, body, b) ==
    \E h \in Nat, l \in Nat :
        /\ HeadAt(a, h) /\ h < MAX_HEADER_BYTES
        /\ LengthAt(a, h) = << l >> /\ l <= MAX_BODY_BYTES
        /\ b = a + h + 1 + l
        /\ body = SubSeq(stream, a + h + 2, b)

\* The frame at the start of what comes between a and q.
FrameAt(a, q) == DecodeFrame(SubSeq(stream, a + 1, q))

\* Without an empty line there is none yet.
LEMMA NoHead ==
    ASSUME Sent, NEW a \in Nat, NEW q \in Nat, a <= q, q <= Len(stream),
           \A k \in 1..(q - a) : stream[a + k] # End
    PROVE  FrameAt(a, q).is = "more"
<1> DEFINE buf == SubSeq(stream, a + 1, q)
<1>0. stream \in Seq(Range(stream))
  BY SentFacts DEF Units
<1>1. buf \in Seq(Range(stream)) /\ Len(buf) = q - a /\ \A k \in 1..(q - a) : buf[k] = stream[a + k]
  BY <1>0
<1> HIDE DEF buf
<1>2. {i \in DOMAIN buf : buf[i] = End} = {}
  BY <1>1
<1>3. DecodeFrame(buf) = [is |-> "more"]
  BY <1>2 DEF DecodeFrame
<1> QED
  BY <1>3 DEF FrameAt, buf

\* With one, decode_frame goes by the headers before it.
LEMMA HeadFound ==
    ASSUME Sent, protocol = "lsp", NEW a \in Nat, NEW q \in Nat, q <= Len(stream),
           NEW h \in Nat, HeadAt(a, h), a + h + 1 <= q
    PROVE  /\ LengthAt(a, h) = << >> => FrameAt(a, q).is # "frame"
           /\ \A l \in Nat : LengthAt(a, h) = << l >> =>
                 /\ h > MAX_HEADER_BYTES \/ l > MAX_BODY_BYTES \/ q < a + h + 1 + l
                       => FrameAt(a, q).is # "frame"
                 /\ ~(h > MAX_HEADER_BYTES \/ l > MAX_BODY_BYTES \/ q < a + h + 1 + l)
                       => FrameAt(a, q) = [is |-> "frame", body |-> SubSeq(stream, a + h + 2, a + h + 1 + l),
                                           size |-> h + 1 + l, headers |-> h]
           /\ IsLength(LengthAt(a, h))
<1> DEFINE buf == SubSeq(stream, a + 1, q)
           ends == {i \in DOMAIN buf : buf[i] = End}
           len == LengthAt(a, h)
<1>0. stream \in Seq(Range(stream))
  BY SentFacts DEF Units
<1>1. buf \in Seq(Range(stream)) /\ Len(buf) = q - a /\ DOMAIN buf = 1..(q - a)
      /\ \A k \in 1..(q - a) : buf[k] = stream[a + k]
  BY <1>0
<1>2. h + 1 \in 1..(q - a) /\ a + (h + 1) = a + h + 1
  OBVIOUS
<1> HIDE DEF buf
<1>3. Min(ends) = h + 1
  <2>1. h + 1 \in ends
    BY <1>1, <1>2 DEF HeadAt
  <2>2. \A i \in ends : i \in Int /\ h + 1 <= i
    <3> SUFFICES ASSUME NEW i \in 1..(q - a), buf[i] = End, ~(h + 1 <= i)
                 PROVE  FALSE
      BY <1>1
    <3>1. i \in 1..h /\ stream[a + i] = End
      BY <1>1
    <3> QED
      BY <3>1 DEF HeadAt
  <2> HIDE DEF ends
  <2>3. ends \in SUBSET Int /\ h + 1 \in Int
    BY <2>2
  <2>4. Min(ends) \in ends /\ \A y \in ends : Min(ends) <= y
    BY <2>1, <2>2, <2>3, MinOfBounded
  <2>5. Min(ends) <= h + 1 /\ h + 1 <= Min(ends) /\ Min(ends) \in Int
    BY <2>1, <2>2, <2>4
  <2> QED
    BY <2>5
<1>4. ends # {}
  BY <1>1, <1>2 DEF HeadAt
<1>5. ContentLength(Joined(SubSeq(buf, 1, Min(ends) - 1))) = len
  <2>1. Min(ends) - 1 = h
    BY <1>3
  <2>2. SubSeq(SubSeq(stream, a + 1, q), 1, h) = SubSeq(stream, a + 1, a + h)
    <3>1. a <= q /\ 1 <= h + 1 /\ h <= q - a
      OBVIOUS
    <3> QED
      BY <1>0, <3>1, PartOfPart
  <2> QED
    BY <2>1, <2>2 DEF LengthAt, buf
<1>6. IsLength(len)
  <2> DEFINE units == SubSeq(stream, a + 1, a + h)
  <2>1. units \in Seq(Range(stream)) /\ Len(units) = h /\ \A i \in 1..h : units[i] = stream[a + i] /\ a + i \in 1..Len(stream)
    BY <1>0
  <2>2. \A i \in 1..Len(units) : units[i].name # "body" => Framed(units[i])
    <3> HIDE DEF units
    <3> QED
      BY <2>1, StreamFramed
  <2> HIDE DEF units
  <2>3. IsLength(ContentLength(Joined(units)))
    BY <2>1, <2>2, LengthIsNumber
  <2> QED
    BY <2>3 DEF LengthAt, units
<1>7. DecodeFrame(buf) =
        IF h > MAX_HEADER_BYTES \/ len = << >> THEN [is |-> "error"]
        ELSE IF len[1] > MAX_BODY_BYTES THEN [is |-> "error"]
        ELSE IF q - a < h + 1 + len[1] THEN [is |-> "more"]
        ELSE [is |-> "frame", body |-> SubSeq(buf, h + 1 + 1, h + 1 + len[1]), size |-> h + 1 + len[1],
              headers |-> h]
  <2> DEFINE at == Min(ends)
             before == at - 1
             told == ContentLength(Joined(SubSeq(buf, 1, before)))
  <2>1. DecodeFrame(buf) =
          IF ends = {} THEN [is |-> "more"]
          ELSE IF before > MAX_HEADER_BYTES \/ told = << >> THEN [is |-> "error"]
          ELSE IF told[1] > MAX_BODY_BYTES THEN [is |-> "error"]
          ELSE IF Len(buf) < at + told[1] THEN [is |-> "more"]
          ELSE [is |-> "frame", body |-> SubSeq(buf, at + 1, at + told[1]), size |-> at + told[1],
                headers |-> before]
    BY Zenon DEF DecodeFrame
  <2>2. at = h + 1 /\ before = h /\ told = len /\ Len(buf) = q - a
    BY <1>1, <1>3, <1>5
  <2> HIDE DEF ends, len, at, before, told
  <2> QED
    BY <1>4, <2>1, <2>2
<1>8. ASSUME len = << >> PROVE DecodeFrame(buf).is # "frame"
  BY <1>7, <1>8
<1>9. ASSUME NEW l \in Nat, len = << l >>
      PROVE  /\ h > MAX_HEADER_BYTES \/ l > MAX_BODY_BYTES \/ q < a + h + 1 + l
                   => DecodeFrame(buf).is # "frame"
             /\ ~(h > MAX_HEADER_BYTES \/ l > MAX_BODY_BYTES \/ q < a + h + 1 + l)
                   => DecodeFrame(buf) = [is |-> "frame", body |-> SubSeq(stream, a + h + 2, a + h + 1 + l),
                                          size |-> h + 1 + l, headers |-> h]
  <2>1. len[1] = l /\ len # << >>
    BY <1>9
  <2> HIDE DEF len
  <2>2. q - a < h + 1 + l <=> q < a + h + 1 + l
    OBVIOUS
  <2>3. DecodeFrame(buf) =
          IF h > MAX_HEADER_BYTES THEN [is |-> "error"]
          ELSE IF l > MAX_BODY_BYTES THEN [is |-> "error"]
          ELSE IF q < a + h + 1 + l THEN [is |-> "more"]
          ELSE [is |-> "frame", body |-> SubSeq(buf, h + 1 + 1, h + 1 + l), size |-> h + 1 + l, headers |-> h]
    BY <1>7, <2>1, <2>2
  <2>4. CASE h > MAX_HEADER_BYTES \/ l > MAX_BODY_BYTES \/ q < a + h + 1 + l
    <3>1. DecodeFrame(buf) \in {[is |-> "error"], [is |-> "more"]}
      BY <2>3, <2>4
    <3> QED
      BY <2>4, <3>1
  <2>5. CASE ~(h > MAX_HEADER_BYTES \/ l > MAX_BODY_BYTES \/ q < a + h + 1 + l)
    <3>1. SubSeq(SubSeq(stream, a + 1, q), h + 1 + 1, h + 1 + l) = SubSeq(stream, a + (h + 1 + 1), a + (h + 1 + l))
      <4>1. a <= q /\ 1 <= h + 1 + 1 /\ h + 1 + 1 <= h + 1 + l + 1 /\ h + 1 + l <= q - a
            /\ h + 1 + 1 \in Nat /\ h + 1 + l \in Nat
        BY <2>5
      <4> QED
        BY <1>0, <4>1, PartOfPart
    <3>2. a + (h + 1 + 1) = a + h + 2 /\ a + (h + 1 + l) = a + h + 1 + l
      OBVIOUS
    <3>3. SubSeq(buf, h + 1 + 1, h + 1 + l) = SubSeq(stream, a + h + 2, a + h + 1 + l)
      BY <3>1, <3>2 DEF buf
    <3> QED
      BY <2>3, <2>5, <3>3
  <2> QED
    BY <2>4, <2>5
<1> QED
  BY <1>6, <1>8, <1>9 DEF FrameAt, buf

\* No frame follows after place a.
Stops(a) == FrameAt(a, pos).is # "frame" \/ FrameAt(a, pos).headers = MAX_HEADER_BYTES

PartOf(headers, body, need) == [line |-> << >>, headers |-> headers, body |-> body, need |-> need]

\* What the reader has of a frame that begins after place a.
InHeaders(a) ==
    /\ reading = "headers"
    /\ pos - a <= MAX_HEADER_BYTES
    /\ \A k \in 1..(pos - a) : stream[a + k] # End
    /\ part = PartOf(SubSeq(stream, a + 1, pos), << >>, 0)
InBody(a) ==
    \E h \in Nat, l \in Nat :
        /\ reading = "body"
        /\ HeadAt(a, h) /\ h < MAX_HEADER_BYTES
        /\ LengthAt(a, h) = << l >> /\ l <= MAX_BODY_BYTES
        /\ a + h + 1 <= pos /\ pos < a + h + 1 + l
        /\ part = PartOf(Joined(SubSeq(stream, a + 1, a + h)), SubSeq(stream, a + h + 2, pos), l)
InAnswer(a) == reading = "answer" /\ IsFrame(a, part.body, pos)
FrameState(a) ==
    /\ a <= pos
    /\ InHeaders(a) \/ InBody(a) \/ InAnswer(a) \/ (reading = "closed" /\ Stops(a))

\* A whole frame is found as what it is, however much follows.
LEMMA FrameFound ==
    ASSUME Sent, protocol = "lsp", LimitsAssumption, NEW a \in Nat, NEW b, NEW body, NEW q \in Nat,
           IsFrame(a, body, b), b <= q, q <= Len(stream)
    PROVE  /\ b \in Nat /\ a < b
           /\ FrameAt(a, q).is = "frame" /\ FrameAt(a, q).body = body
           /\ FrameAt(a, q).size = b - a
           /\ FrameAt(a, q).headers # MAX_HEADER_BYTES
<1>1. PICK h \in Nat, l \in Nat :
        /\ HeadAt(a, h) /\ h < MAX_HEADER_BYTES
        /\ LengthAt(a, h) = << l >> /\ l <= MAX_BODY_BYTES
        /\ b = a + h + 1 + l
        /\ body = SubSeq(stream, a + h + 2, b)
  BY DEF IsFrame
<1>2. MAX_HEADER_BYTES \in Nat /\ MAX_BODY_BYTES \in Nat
  BY DEF LimitsAssumption
<1>3. a + h + 1 <= q /\ ~(h > MAX_HEADER_BYTES \/ l > MAX_BODY_BYTES \/ q < a + h + 1 + l)
  BY <1>1, <1>2
<1>4. FrameAt(a, q) = [is |-> "frame", body |-> SubSeq(stream, a + h + 2, a + h + 1 + l),
                       size |-> h + 1 + l, headers |-> h]
  BY <1>1, <1>3, HeadFound
<1>5. b - a = h + 1 + l /\ h # MAX_HEADER_BYTES /\ b \in Nat /\ a < b
  BY <1>1, <1>2
<1> QED
  BY <1>1, <1>4, <1>5

\* Headers that are too many, or tell no length there is room for, are no frame's.
LEMMA HeadStops ==
    ASSUME Sent, protocol = "lsp", LimitsAssumption, NEW a \in Nat, NEW q \in Nat, q <= Len(stream),
           NEW h \in Nat, HeadAt(a, h), a + h + 1 <= q,
           \/ h = MAX_HEADER_BYTES
           \/ \A l \in Nat : LengthAt(a, h) = << l >> => l > MAX_BODY_BYTES \/ q < a + h + 1 + l
    PROVE  FrameAt(a, q).is # "frame" \/ FrameAt(a, q).headers = MAX_HEADER_BYTES
<1>1. IsLength(LengthAt(a, h))
  BY HeadFound
<1>2. CASE LengthAt(a, h) = << >>
  BY <1>2, HeadFound
<1>3. CASE \E l \in Nat : LengthAt(a, h) = << l >>
  <2>1. PICK l \in Nat : LengthAt(a, h) = << l >>
    BY <1>3
  <2>2. CASE h > MAX_HEADER_BYTES \/ l > MAX_BODY_BYTES \/ q < a + h + 1 + l
    BY <2>1, <2>2, HeadFound
  <2>3. CASE ~(h > MAX_HEADER_BYTES \/ l > MAX_BODY_BYTES \/ q < a + h + 1 + l)
    <3>1. FrameAt(a, q) = [is |-> "frame", body |-> SubSeq(stream, a + h + 2, a + h + 1 + l),
                           size |-> h + 1 + l, headers |-> h]
      BY <2>1, <2>3, HeadFound
    <3>2. h = MAX_HEADER_BYTES
      BY <2>1, <2>3
    <3> QED
      BY <3>1, <3>2
  <2> QED
    BY <2>2, <2>3
<1> QED
  BY <1>1, <1>2, <1>3 DEF IsLength

\* While a frame is read, and after the last, there is none.
LEMMA UnreadStops ==
    ASSUME Sent, protocol = "lsp", LimitsAssumption, WireTypes, NEW a \in Nat, FrameState(a), reading # "answer"
    PROVE  Stops(a)
<1>1. pos \in Nat /\ pos <= Len(stream) /\ a <= pos
  BY DEF WireTypes, FrameState
<1>2. CASE InHeaders(a)
  <2>1. FrameAt(a, pos).is = "more"
    BY <1>1, <1>2, NoHead DEF InHeaders
  <2> QED
    BY <2>1 DEF Stops
<1>3. CASE InBody(a)
  <2>1. PICK h \in Nat, l \in Nat :
          /\ HeadAt(a, h) /\ LengthAt(a, h) = << l >>
          /\ a + h + 1 <= pos /\ pos < a + h + 1 + l
    BY <1>3 DEF InBody
  <2>2. \A x \in Nat : LengthAt(a, h) = << x >> => x = l
    BY <2>1
  <2>3. \A x \in Nat : LengthAt(a, h) = << x >> => x > MAX_BODY_BYTES \/ pos < a + h + 1 + x
    BY <2>1, <2>2
  <2> QED
    BY <1>1, <2>1, <2>3, HeadStops DEF Stops
<1> QED
  BY <1>2, <1>3 DEF FrameState, InAnswer

\* A unit of the headers, or the empty line after them.
LEMMA FrameHeader ==
    ASSUME Sent, protocol = "lsp", LimitsAssumption, WireTypes, NEW a \in Nat, a <= pos, InHeaders(a), ReadHeader
    PROVE  FrameState(a)'
<1>1. /\ More /\ pos' = pos + 1 /\ UNCHANGED <<protocol, messages, stream, accessed>>
      /\ IF Len(part.headers) + 1 > MAX_HEADER_BYTES THEN Bad
         ELSE IF Unit = End THEN HeadersRead
         ELSE /\ part' = [part EXCEPT !.headers = Append(@, Unit)]
              /\ UNCHANGED <<reading, answers>>
  BY DEF ReadHeader
<1>2. pos \in Nat /\ Len(stream) \in Nat /\ pos < Len(stream) /\ stream \in Seq(Range(stream))
      /\ MAX_HEADER_BYTES \in Nat /\ MAX_BODY_BYTES \in Nat
  <2>1. Units(stream)
    BY SentFacts
  <2> QED
    BY <1>1, <2>1, UnitsOfSeq DEF WireTypes, More, Units, LimitsAssumption
<1>3. PICK h \in Nat : h = pos - a
  BY <1>2
<1>4. /\ pos = a + h /\ h <= MAX_HEADER_BYTES /\ \A k \in 1..h : stream[a + k] # End
      /\ part = PartOf(SubSeq(stream, a + 1, pos), << >>, 0) /\ reading = "headers"
  BY <1>2, <1>3 DEF InHeaders
<1>5. /\ part.headers = SubSeq(stream, a + 1, pos) /\ part.body = << >> /\ Len(part.headers) = h
  <2>1. part.headers = SubSeq(stream, a + 1, pos) /\ part.body = << >>
    BY <1>4 DEF PartOf
  <2>2. Len(SubSeq(stream, a + 1, pos)) = h
    BY <1>2, <1>3
  <2> QED
    BY <2>1, <2>2
<1>6. Unit = stream[a + h + 1] /\ pos + 1 = a + h + 1 /\ a + h + 1 \in Nat /\ a + h + 1 <= Len(stream)
  BY <1>2, <1>4 DEF Unit
<1>7. Unit = End => HeadAt(a, h)
  BY <1>4, <1>6 DEF HeadAt
<1>8. a <= pos'
  BY <1>1, <1>2
<1>9. ASSUME reading' = "closed",
             \/ FrameAt(a, pos + 1).is # "frame"
             \/ FrameAt(a, pos + 1).headers = MAX_HEADER_BYTES
      PROVE  FrameState(a)'
  <2>1. FrameAt(a, pos)' = FrameAt(a, pos + 1)
    BY <1>1 DEF FrameAt, DecodeFrame, ContentLength
  <2>2. Stops(a)'
    BY <1>9, <2>1 DEF Stops
  <2> QED
    BY <1>8, <1>9, <2>2 DEF FrameState
<1>10. CASE Len(part.headers) + 1 > MAX_HEADER_BYTES
  <2>1. h = MAX_HEADER_BYTES /\ reading' = "closed"
    BY <1>1, <1>2, <1>4, <1>5, <1>10 DEF Bad, Close
  <2>2. CASE Unit = End
    <3>1. FrameAt(a, a + h + 1).is # "frame" \/ FrameAt(a, a + h + 1).headers = MAX_HEADER_BYTES
      BY <1>6, <1>7, <2>1, <2>2, HeadStops
    <3> QED
      BY <1>6, <1>9, <2>1, <3>1
  <2>3. CASE Unit # End
    <3>1. \A k \in 1..(a + h + 1 - a) : k \in 1..h \/ k = h + 1
      OBVIOUS
    <3>2. a + (h + 1) = a + h + 1 /\ a <= a + h + 1
      OBVIOUS
    <3>3. \A k \in 1..(a + h + 1 - a) : stream[a + k] # End
      BY <1>4, <1>6, <2>3, <3>1, <3>2
    <3>4. FrameAt(a, a + h + 1).is = "more"
      <4> DEFINE q == a + h + 1
      <4>1. q \in Nat /\ a <= q /\ q <= Len(stream)
        BY <1>6, <3>2
      <4>2. \A k \in 1..(q - a) : stream[a + k] # End
        BY <3>3
      <4> HIDE DEF q
      <4>3. FrameAt(a, q).is = "more"
        BY <4>1, <4>2, NoHead
      <4> QED
        BY <4>3 DEF q
    <3> QED
      BY <1>6, <1>9, <2>1, <3>4
  <2> QED
    BY <2>2, <2>3
<1>11. CASE ~(Len(part.headers) + 1 > MAX_HEADER_BYTES) /\ Unit = End
  <2>0. HeadersRead /\ HeadAt(a, h) /\ h < MAX_HEADER_BYTES
    BY <1>1, <1>2, <1>5, <1>7, <1>11
  <2>1. BodyLength(protocol, Joined(part.headers)) = LengthAt(a, h)
    BY <1>4, <1>5 DEF BodyLength, LengthAt
  <2> DEFINE need == LengthAt(a, h)
             refused == \A n \in Range(need) : n > MAX_BODY_BYTES
  <2>2. IF refused THEN Bad
        ELSE /\ reading' = IF need[1] = 0 THEN "answer" ELSE "body"
             /\ part' = [part EXCEPT !.headers = Joined(part.headers), !.need = need[1]]
             /\ UNCHANGED answers
    BY <2>0, <2>1, Zenon DEF HeadersRead
  <2>3. IsLength(need)
    BY <1>6, <2>0, HeadFound
  <2>4. CASE refused
    <3>1. reading' = "closed"
      BY <2>2, <2>4 DEF Bad, Close
    <3>2. ASSUME NEW l \in Nat, need = << l >> PROVE l > MAX_BODY_BYTES
      <4>1. l \in Range(need)
        BY <3>2 DEF Range
      <4> QED
        BY <2>4, <4>1
    <3>3. FrameAt(a, a + h + 1).is # "frame" \/ FrameAt(a, a + h + 1).headers = MAX_HEADER_BYTES
      BY <1>6, <2>0, <3>2, HeadStops
    <3> QED
      BY <1>6, <1>9, <3>1, <3>3
  <2>5. CASE ~refused
    <3>1. PICK l \in Nat : need = << l >> /\ l <= MAX_BODY_BYTES
      <4>1. PICK n \in Range(need) : ~(n > MAX_BODY_BYTES)
        BY <2>5
      <4>2. need # << >>
        BY <4>1 DEF Range
      <4>3. PICK l \in Nat : need = << l >>
        BY <2>3, <4>2 DEF IsLength
      <4>4. n = l
        BY <4>1, <4>3 DEF Range
      <4>5. l <= MAX_BODY_BYTES
        BY <1>2, <4>1, <4>4
      <4> QED
        BY <4>3, <4>5
    <3> HIDE DEF need, refused
    <3>2. need[1] = l
      BY <3>1
    <3>3. /\ reading' = IF l = 0 THEN "answer" ELSE "body"
          /\ part' = [part EXCEPT !.headers = Joined(part.headers), !.need = l]
      BY <2>2, <2>5, <3>2
    <3>4. part' = PartOf(Joined(SubSeq(stream, a + 1, a + h)), << >>, l)
      BY <1>4, <1>5, <3>3 DEF PartOf
    <3>5. SubSeq(stream, a + h + 2, a + h + 1) = << >>
      <4>1. a + h + 1 < a + h + 2 /\ a + h + 1 \in Int /\ a + h + 2 \in Int
        OBVIOUS
      <4> QED
        BY <4>1, SubSeqEmpty
    <3>6. HeadAt(a, h)' = HeadAt(a, h) /\ LengthAt(a, h)' = LengthAt(a, h)
      BY <1>1 DEF HeadAt, LengthAt, ContentLength
    <3>7. LengthAt(a, h) = << l >>
      BY <3>1 DEF need
    <3>8. CASE l = 0
      <4>1. reading' = "answer" /\ part'.body = << >> /\ pos' = a + h + 1 + l
        <5>1. reading' = "answer"
          BY <3>3, <3>8
        <5>2. part'.body = << >>
          BY <3>4 DEF PartOf
        <5>3. pos' = a + h + 1 + l
          BY <1>1, <1>2, <1>4, <3>8
        <5> QED
          BY <5>1, <5>2, <5>3
      <4>2. part'.body = SubSeq(stream', a + h + 2, pos')
        BY <1>1, <1>6, <3>5, <4>1
      <4>3. InAnswer(a)'
        BY <2>0, <3>1, <3>6, <3>7, <4>1, <4>2 DEF InAnswer, IsFrame
      <4> QED
        BY <1>8, <4>3 DEF FrameState
    <3>9. CASE l # 0
      <4>1. reading' = "body"
        BY <3>3, <3>9
      <4>2. a + h + 1 <= pos' /\ pos' < a + h + 1 + l
        BY <1>1, <1>6, <3>9
      <4>3. part' = PartOf(Joined(SubSeq(stream', a + 1, a + h)), SubSeq(stream', a + h + 2, pos'), l)
        BY <1>1, <1>6, <3>4, <3>5
      <4>4. PartOf(Joined(SubSeq(stream, a + 1, a + h)), SubSeq(stream, a + h + 2, pos), l)'
              = PartOf(Joined(SubSeq(stream', a + 1, a + h)), SubSeq(stream', a + h + 2, pos'), l)
        BY DEF PartOf
      <4>5. InBody(a)'
        BY <2>0, <3>1, <3>6, <3>7, <4>1, <4>2, <4>3, <4>4 DEF InBody
      <4> QED
        BY <1>8, <4>5 DEF FrameState
    <3> QED
      BY <3>8, <3>9
  <2> QED
    BY <2>4, <2>5
<1>12. CASE ~(Len(part.headers) + 1 > MAX_HEADER_BYTES) /\ Unit # End
  <2>1. part' = [part EXCEPT !.headers = Append(@, Unit)] /\ reading' = "headers"
    BY <1>1, <1>4, <1>12
  <2>2. Append(SubSeq(stream, a + 1, pos), stream[pos + 1]) = SubSeq(stream, a + 1, pos + 1)
    BY <1>2, OneMore
  <2>3. part' = PartOf(SubSeq(stream, a + 1, pos + 1), << >>, 0)
    BY <1>4, <1>5, <2>1, <2>2 DEF PartOf, Unit
  <2>4. pos' - a = h + 1 /\ h + 1 <= MAX_HEADER_BYTES
    BY <1>1, <1>2, <1>4, <1>5, <1>12
  <2>5. \A k \in 1..(pos' - a) : stream'[a + k] # End
    <3>1. \A k \in 1..(h + 1) : k \in 1..h \/ k = h + 1
      OBVIOUS
    <3>2. a + (h + 1) = a + h + 1
      OBVIOUS
    <3> QED
      BY <1>1, <1>4, <1>6, <1>12, <2>4, <3>1, <3>2
  <2>6. part' = PartOf(SubSeq(stream', a + 1, pos'), << >>, 0)
    BY <1>1, <2>3
  <2>7. PartOf(SubSeq(stream, a + 1, pos), << >>, 0)' = PartOf(SubSeq(stream', a + 1, pos'), << >>, 0)
    BY DEF PartOf
  <2>8. pos' - a <= MAX_HEADER_BYTES
    BY <2>4
  <2>9. InHeaders(a)'
    BY <2>1, <2>5, <2>6, <2>7, <2>8 DEF InHeaders
  <2> QED
    BY <1>8, <2>9 DEF FrameState
<1> QED
  BY <1>10, <1>11, <1>12

\* A unit of the body, the last or not.
LEMMA FrameBody ==
    ASSUME Sent, protocol = "lsp", WireTypes, NEW a \in Nat, a <= pos, InBody(a), ReadBody
    PROVE  FrameState(a)'
<1>1. /\ pos < Len(stream) /\ pos' = pos + 1 /\ stream' = stream
      /\ part' = [part EXCEPT !.body = Append(@, stream[pos + 1])]
      /\ reading' = IF Len(part.body) + 1 = part.need THEN "answer" ELSE "body"
  BY DEF ReadBody, More, Unit
<1>2. pos \in Nat /\ stream \in Seq(Range(stream))
  BY SentFacts DEF WireTypes, Units
<1>3. PICK h \in Nat, l \in Nat :
        /\ HeadAt(a, h) /\ h < MAX_HEADER_BYTES
        /\ LengthAt(a, h) = << l >> /\ l <= MAX_BODY_BYTES
        /\ a + h + 1 <= pos /\ pos < a + h + 1 + l
        /\ part = PartOf(Joined(SubSeq(stream, a + 1, a + h)), SubSeq(stream, a + h + 2, pos), l)
  BY DEF InBody
<1> DEFINE headers == Joined(SubSeq(stream, a + 1, a + h))
<1>4. PICK d \in Nat : d = a + h + 1
  BY <1>3
<1>5. d + 1 = a + h + 2 /\ d <= pos /\ pos < d + l
  BY <1>3, <1>4
<1>6. /\ SubSeq(stream, d + 1, pos) \in Seq(Range(stream)) /\ Len(SubSeq(stream, d + 1, pos)) = pos - d
      /\ Append(SubSeq(stream, d + 1, pos), stream[pos + 1]) = SubSeq(stream, d + 1, pos + 1)
  <2>1. d <= pos /\ pos < Len(stream) /\ d \in Nat
    BY <1>1, <1>5
  <2>2. Append(SubSeq(stream, d + 1, pos), stream[pos + 1]) = SubSeq(stream, d + 1, pos + 1)
    BY <1>2, <2>1, OneMore
  <2>3. SubSeq(stream, d + 1, pos) \in Seq(Range(stream)) /\ Len(SubSeq(stream, d + 1, pos)) = pos - d
    BY <1>2, <2>1
  <2> QED
    BY <2>2, <2>3
<1>7. part = PartOf(headers, SubSeq(stream, d + 1, pos), l)
  BY <1>3, <1>5
<1> HIDE DEF headers
<1>8. part' = PartOf(headers, SubSeq(stream, d + 1, pos + 1), l)
  BY <1>1, <1>6, <1>7 DEF PartOf
<1>9. reading' = IF pos + 1 = d + l THEN "answer" ELSE "body"
  <2>1. Len(part.body) = pos - d /\ part.need = l
    BY <1>6, <1>7 DEF PartOf
  <2>2. pos - d + 1 = l <=> pos + 1 = d + l
    BY <1>2
  <2> QED
    BY <1>1, <2>1, <2>2
<1>10. HeadAt(a, h)' = HeadAt(a, h) /\ LengthAt(a, h)' = LengthAt(a, h)
  BY <1>1 DEF HeadAt, LengthAt, ContentLength
<1>11. a <= pos'
  BY <1>1, <1>2
<1>12. CASE pos + 1 = d + l
  <2>1. reading' = "answer" /\ pos' = a + h + 1 + l
    <3>1. reading' = "answer"
      BY <1>9, <1>12
    <3>2. pos' = d + l /\ d + l = a + h + 1 + l
      BY <1>1, <1>4, <1>12
    <3> QED
      BY <3>1, <3>2
  <2>2. part'.body = SubSeq(stream', a + h + 2, pos')
    <3>1. part'.body = SubSeq(stream, d + 1, pos + 1)
      BY <1>8 DEF PartOf
    <3> QED
      BY <1>1, <1>5, <3>1
  <2>3. InAnswer(a)'
    BY <1>3, <1>10, <2>1, <2>2 DEF InAnswer, IsFrame
  <2> QED
    BY <1>11, <2>3 DEF FrameState
<1>13. CASE pos + 1 # d + l
  <2>1. reading' = "body"
    BY <1>9, <1>13
  <2>2. a + h + 1 <= pos' /\ pos' < a + h + 1 + l
    <3>1. d <= pos + 1 /\ pos + 1 < d + l
      BY <1>2, <1>5, <1>13
    <3> QED
      BY <1>1, <1>4, <3>1
  <2>3. part' = PartOf(Joined(SubSeq(stream', a + 1, a + h)), SubSeq(stream', a + h + 2, pos'), l)
    BY <1>1, <1>5, <1>8 DEF headers
  <2>4. PartOf(Joined(SubSeq(stream, a + 1, a + h)), SubSeq(stream, a + h + 2, pos), l)'
          = PartOf(Joined(SubSeq(stream', a + 1, a + h)), SubSeq(stream', a + h + 2, pos'), l)
    BY DEF PartOf
  <2>5. InBody(a)'
    BY <1>3, <1>10, <2>1, <2>2, <2>3, <2>4 DEF InBody
  <2> QED
    BY <1>11, <2>5 DEF FrameState
<1> QED
  BY <1>12, <1>13

\* A client that closes leaves what it began unread.
LEMMA FrameBreaksOff ==
    ASSUME Sent, protocol = "lsp", LimitsAssumption, WireTypes, NEW a \in Nat, FrameState(a), Hangup
    PROVE  FrameState(a)'
<1>1. /\ reading \in {"line", "headers", "body"} /\ reading' = "closed"
      /\ pos' = pos /\ stream' = stream
  BY DEF Hangup, Bad, Close
<1>2. Stops(a)
  BY <1>1, UnreadStops
<1>3. Stops(a)'
  BY <1>1, <1>2 DEF Stops, FrameAt, DecodeFrame, ContentLength
<1> QED
  BY <1>1, <1>3 DEF FrameState

\* Nothing follows the end.
LEMMA NothingStops ==
    ASSUME NEW n \in Nat
    PROVE  SubSeq(stream, n + 1, n) = << >> /\ DecodeFrame(<< >>).is = "more"
<1>1. n < n + 1 /\ n \in Int /\ n + 1 \in Int
  OBVIOUS
<1>2. SubSeq(stream, n + 1, n) = << >>
  BY <1>1, SubSeqEmpty
<1>3. {i \in DOMAIN << >> : << >>[i] = End} = {}
  OBVIOUS
<1>4. DecodeFrame(<< >>) = [is |-> "more"]
  BY <1>3 DEF DecodeFrame
<1> QED
  BY <1>2, <1>4

\* The first frame begins where the connection does.
LEMMA FrameFirst ==
    ASSUME LimitsAssumption, pos = 0, reading = "headers", part = NothingRead
    PROVE  FrameState(0)
<1>1. pos - 0 = 0 /\ 0 <= MAX_HEADER_BYTES /\ 1..0 = {} /\ 0 <= pos
  BY DEF LimitsAssumption
<1>2. SubSeq(stream, 0 + 1, pos) = << >>
  BY NothingStops
<1>3. InHeaders(0)
  BY <1>1, <1>2 DEF InHeaders, NothingRead, PartOf
<1> QED
  BY <1>1, <1>3 DEF FrameState

\* After a frame the next begins, unless the connection has ended.
LEMMA FrameBegins ==
    ASSUME LimitsAssumption, NEW n \in Nat, pos' = n, stream' = stream,
           (reading' = "headers" /\ part' = NothingRead) \/ reading' = "closed"
    PROVE  FrameState(n)'
<1>1. SubSeq(stream', n + 1, pos') = << >> /\ DecodeFrame(<< >>).is = "more"
  BY NothingStops
<1>2. n <= pos' /\ pos' - n = 0 /\ 0 <= MAX_HEADER_BYTES
  BY DEF LimitsAssumption
<1>3. CASE reading' = "headers" /\ part' = NothingRead
  <2>1. \A k \in 1..(pos' - n) : stream'[n + k] # End
    BY <1>2
  <2>2. part' = PartOf(SubSeq(stream', n + 1, pos'), << >>, 0)
    BY <1>1, <1>3 DEF NothingRead, PartOf
  <2>3. PartOf(SubSeq(stream, n + 1, pos), << >>, 0)' = PartOf(SubSeq(stream', n + 1, pos'), << >>, 0)
    BY DEF PartOf
  <2>4. pos' - n <= MAX_HEADER_BYTES
    BY <1>2
  <2>5. InHeaders(n)'
    BY <1>3, <2>1, <2>2, <2>3, <2>4 DEF InHeaders
  <2> QED
    BY <1>2, <2>5 DEF FrameState
<1>4. CASE reading' = "closed"
  <2>1. FrameAt(n, pos)' = DecodeFrame(SubSeq(stream', n + 1, pos'))
    BY DEF FrameAt, DecodeFrame, ContentLength
  <2>2. Stops(n)'
    BY <1>1, <2>1 DEF Stops
  <2> QED
    BY <1>2, <1>4, <2>2 DEF FrameState
<1> QED
  BY <1>3, <1>4

\* What a step does to the frame that is read: it goes on, or was read and is
\* logged, and the next begins.
LEMMA FrameStep ==
    ASSUME Sent, protocol = "lsp", LimitsAssumption, WireTypes, NEW a \in Nat, FrameState(a), WireStep
    PROVE  \/ accessed' = accessed /\ FrameState(a)'
           \/ /\ accessed' = Append(accessed, RequestOfPart(part))
              /\ IsFrame(a, RequestOfPart(part).body, pos) /\ pos' = pos
              /\ \A n \in Nat : n = pos => FrameState(n)'
<1>1. /\ InHeaders(a) => reading = "headers"
      /\ InBody(a) => reading = "body"
      /\ InAnswer(a) => reading = "answer"
  BY DEF InHeaders, InBody, InAnswer
<1>2. a <= pos /\ pos \in Nat /\ reading # "line"
  BY DEF FrameState, WireTypes
<1>3. CASE ReadLine
  BY <1>2, <1>3 DEF ReadLine
<1>4. CASE ReadHeader
  <2>1. reading = "headers" /\ accessed' = accessed
    BY <1>4 DEF ReadHeader
  <2>2. InHeaders(a)
    BY <1>1, <2>1 DEF FrameState
  <2> QED
    BY <1>2, <1>4, <2>1, <2>2, FrameHeader
<1>5. CASE ReadBody
  <2>1. reading = "body" /\ accessed' = accessed
    BY <1>5 DEF ReadBody
  <2>2. InBody(a)
    BY <1>1, <2>1 DEF FrameState
  <2> QED
    BY <1>2, <1>5, <2>1, <2>2, FrameBody
<1>6. CASE Hangup
  <2>1. accessed' = accessed
    BY <1>6 DEF Hangup
  <2> QED
    BY <1>6, <2>1, FrameBreaksOff
<1>7. CASE AnswerWrong
  BY <1>7 DEF AnswerWrong, Unsupported
<1>8. CASE AnswerRequest
  <2>1. /\ reading = "answer" /\ accessed' = Append(accessed, RequestOfPart(part))
        /\ pos' = pos /\ stream' = stream /\ (Continue \/ Close)
    BY <1>8 DEF AnswerRequest
  <2>2. (reading' = "headers" /\ part' = NothingRead) \/ reading' = "closed"
    BY <2>1 DEF Continue, Close, KeepAlive, FirstPart
  <2>3. IsFrame(a, part.body, pos)
    BY <1>1, <2>1 DEF FrameState, InAnswer
  <2>4. RequestOfPart(part).body = part.body
    BY DEF RequestOfPart
  <2>5. \A n \in Nat : n = pos => FrameState(n)'
    BY <2>1, <2>2, FrameBegins
  <2> QED
    BY <1>2, <2>1, <2>3, <2>4, <2>5
<1> QED
  BY <1>3, <1>4, <1>5, <1>6, <1>7, <1>8 DEF WireStep

------------------------------------------------------------------------------
(* The frames in what was read, all together *)

\* A sequence collected by leaps forward from each place up to N, until one
\* where it stops, is defined by where they lead.
Leaps(F, N, stops, found, next) ==
    F = [x \in 0..N |-> IF x \in stops THEN << >> ELSE << found[x] >> \o F[next[x]]]

\* There is such a sequence for each place.
LEMMA LeapsExist ==
    ASSUME NEW N \in Nat, NEW stops, NEW found, NEW next,
           \A x \in 0..N : x \notin stops => next[x] \in (x + 1)..N
    PROVE  \E F : Leaps(F, N, stops, found, next)
<1> DEFINE From(F, k) ==
               F = [x \in k..N |-> IF x \in stops THEN << >> ELSE << found[x] >> \o F[next[x]]]
           Wrong == {j \in 0..(N + 1) : ~\E F : From(F, N + 1 - j)}
<1>1. ASSUME NEW j \in 1..(N + 1), j - 1 \in 0..(N + 1), j - 1 \notin Wrong
      PROVE  j \notin Wrong
  <2>1. PICK k \in 0..N : k = N + 1 - j /\ N + 1 - (j - 1) = k + 1
    <3>1. N + 1 - j \in 0..N /\ N + 1 - (j - 1) = N + 1 - j + 1
      OBVIOUS
    <3> QED
      BY <3>1
  <2>2. PICK F : From(F, k + 1)
    BY <1>1, <2>1
  <2> DEFINE H == [x \in k..N |-> IF x \in stops THEN << >> ELSE << found[x] >> \o F[next[x]]]
  <2>3. \A x \in k..N : x \in 0..N
    OBVIOUS
  <2>4. \A x \in (k + 1)..N : x \in k..N /\ H[x] = F[x]
    <3> TAKE x \in (k + 1)..N
    <3>1. x \in k..N
      OBVIOUS
    <3>2. F[x] = IF x \in stops THEN << >> ELSE << found[x] >> \o F[next[x]]
      BY <2>2
    <3>3. H[x] = IF x \in stops THEN << >> ELSE << found[x] >> \o F[next[x]]
      BY <3>1
    <3> QED
      BY <3>1, <3>2, <3>3
  <2>5. ASSUME NEW x \in k..N
        PROVE  H[x] = IF x \in stops THEN << >> ELSE << found[x] >> \o H[next[x]]
    <3>1. H[x] = IF x \in stops THEN << >> ELSE << found[x] >> \o F[next[x]]
      OBVIOUS
    <3> HIDE DEF H
    <3>2. CASE x \in stops
      BY <3>1, <3>2
    <3>3. CASE x \notin stops
      <4>1. PICK y \in (x + 1)..N : y = next[x]
        BY <2>3, <3>3
      <4>2. y \in (k + 1)..N
        OBVIOUS
      <4>3. H[y] = F[y]
        BY <2>4, <4>2
      <4> QED
        BY <3>1, <3>3, <4>1, <4>3
    <3> QED
      BY <3>2, <3>3
  <2>6. H = [x \in k..N |-> H[x]]
    OBVIOUS
  <2> HIDE DEF H
  <2>7. From(H, k)
    BY <2>5, <2>6
  <2> QED
    BY <2>1, <2>7
<1>2. 0 \notin Wrong
  <2>1. N + 1 - 0 = N + 1 /\ (N + 1)..N = {}
    OBVIOUS
  <2> DEFINE H == [x \in {} |-> << >>]
  <2>2. H = [x \in {} |-> IF x \in stops THEN << >> ELSE << found[x] >> \o H[next[x]]]
    OBVIOUS
  <2> HIDE DEF H
  <2>3. From(H, N + 1 - 0)
    BY <2>1, <2>2
  <2> QED
    BY <2>3
<1>3. Wrong = {}
  <2>1. Wrong \in SUBSET (0..(N + 1)) /\ N + 1 \in Nat
    OBVIOUS
  <2> HIDE DEF Wrong
  <2> QED
    BY <1>1, <1>2, <2>1, FirstFailure
<1>4. \E F : From(F, 0)
  <2> HIDE DEF From
  <2>1. N + 1 \in 0..(N + 1) /\ N + 1 - (N + 1) = 0
    OBVIOUS
  <2>2. \E F : From(F, N + 1 - (N + 1))
    BY <1>3, <2>1
  <2> QED
    BY <2>1, <2>2
<1> QED
  BY <1>4 DEF Leaps

\* A frame that decode_frame finds is some units long, all of them there.
LEMMA FrameFits ==
    ASSUME Sent, protocol = "lsp", NEW a \in Nat, NEW q \in Nat, a <= q, q <= Len(stream),
           FrameAt(a, q).is = "frame"
    PROVE  a + FrameAt(a, q).size \in (a + 1)..q
<1> DEFINE ends == {k \in 1..(q - a) : stream[a + k] = End}
<1>1. ends # {}
  <2>1. CASE \A k \in 1..(q - a) : stream[a + k] # End
    <3>1. FrameAt(a, q).is = "more"
      BY <2>1, NoHead
    <3> QED
      BY <3>1
  <2> QED
    BY <2>1
<1>2. PICK k \in ends : \A j \in ends : k <= j
  <2>1. ends \in SUBSET Nat
    OBVIOUS
  <2> HIDE DEF ends
  <2> QED
    BY <1>1, <2>1, LeastOfNaturals
<1>3. PICK h \in Nat : k = h + 1
  <2>1. k - 1 \in Nat /\ k = k - 1 + 1
    OBVIOUS
  <2> QED
    BY <2>1
<1>4. a + h + 1 <= q /\ stream[a + h + 1] = End
  <2>1. a + k = a + h + 1 /\ a + k <= q
    BY <1>3
  <2>2. stream[a + k] = End
    BY <1>2
  <2> QED
    BY <2>1, <2>2
<1>5. HeadAt(a, h)
  <2>1. \A j \in 1..h : j \in 1..(q - a) /\ ~(k <= j)
    BY <1>3, <1>4
  <2>2. \A j \in 1..h : stream[a + j] # End
    BY <1>2, <2>1
  <2> QED
    BY <1>4, <2>2 DEF HeadAt
<1>6. PICK l \in Nat : LengthAt(a, h) = << l >>
  <2>1. /\ LengthAt(a, h) = << >> => FrameAt(a, q).is # "frame"
        /\ IsLength(LengthAt(a, h))
    BY <1>4, <1>5, HeadFound
  <2> QED
    BY <2>1 DEF IsLength
<1>7. ~(h > MAX_HEADER_BYTES \/ l > MAX_BODY_BYTES \/ q < a + h + 1 + l)
  <2>1. h > MAX_HEADER_BYTES \/ l > MAX_BODY_BYTES \/ q < a + h + 1 + l => FrameAt(a, q).is # "frame"
    BY <1>4, <1>5, <1>6, HeadFound
  <2> QED
    BY <2>1
<1>8. FrameAt(a, q).size = h + 1 + l
  <2>1. FrameAt(a, q) = [is |-> "frame", body |-> SubSeq(stream, a + h + 2, a + h + 1 + l),
                         size |-> h + 1 + l, headers |-> h]
    BY <1>4, <1>5, <1>6, <1>7, HeadFound
  <2> QED
    BY <2>1
<1>9. a + (h + 1 + l) \in (a + 1)..q
  BY <1>7
<1> QED
  BY <1>8, <1>9

\* The frames at the start of what was read.
FramesFrom(F) ==
    F = [x \in 0..pos |-> IF Stops(x) THEN << >> ELSE << FrameAt(x, pos).body >> \o F[x + FrameAt(x, pos).size]]

\* What Frames is defined by is computed.
LEMMA FramesDefined ==
    ASSUME Sent, protocol = "lsp", WireTypes
    PROVE  \E F : FramesFrom(F) /\ Frames(SubSeq(stream, 1, pos)) = F[0]
<1>1. pos \in Nat /\ pos <= Len(stream) /\ stream \in Seq(Range(stream))
  BY SentFacts DEF WireTypes, Units
<1> DEFINE buf == SubSeq(stream, 1, pos)
           frame(x) == DecodeFrame(SubSeq(buf, x + 1, Len(buf)))
           from == CHOOSE F : F = [x \in 0..Len(buf) |->
                                      IF frame(x).is # "frame" THEN << >>
                                      ELSE IF frame(x).headers = MAX_HEADER_BYTES THEN << >>
                                      ELSE << frame(x).body >> \o F[x + frame(x).size]]
<1>2. Frames(buf) = from[0]
  BY Zenon DEF Frames
<1>3. Len(buf) = pos
  BY <1>1
<1>4. \A x \in 0..pos : frame(x) = FrameAt(x, pos)
  <2> TAKE x \in 0..pos
  <2>1. SubSeq(SubSeq(stream, 0 + 1, pos), x + 1, pos) = SubSeq(stream, 0 + (x + 1), 0 + pos)
    <3>1. x + 1 \in Nat /\ 0 \in Nat /\ 0 <= pos /\ 1 <= x + 1 /\ x + 1 <= pos + 1 /\ pos <= pos - 0
      BY <1>1
    <3> QED
      BY <1>1, <3>1, PartOfPart
  <2>2. 0 + 1 = 1 /\ 0 + (x + 1) = x + 1 /\ 0 + pos = pos
    BY <1>1
  <2>3. SubSeq(buf, x + 1, Len(buf)) = SubSeq(stream, x + 1, pos)
    BY <1>3, <2>1, <2>2
  <2> QED
    BY <2>3 DEF FrameAt
<1> HIDE DEF buf, frame
<1> DEFINE stops == {x \in 0..pos : Stops(x)}
           found == [x \in 0..pos |-> FrameAt(x, pos).body]
           next == [x \in 0..pos |-> x + FrameAt(x, pos).size]
<1>5. PICK G : Leaps(G, pos, stops, found, next)
  <2>1. ASSUME NEW x \in 0..pos, x \notin stops PROVE next[x] \in (x + 1)..pos
    <3>1. FrameAt(x, pos).is = "frame"
      BY <2>1 DEF Stops
    <3>2. x + FrameAt(x, pos).size \in (x + 1)..pos
      BY <1>1, <3>1, FrameFits
    <3> QED
      BY <3>2
  <2> HIDE DEF stops, found, next
  <2> QED
    BY <1>1, <2>1, LeapsExist
<1>6. \A F : Leaps(F, pos, stops, found, next) <=> FramesFrom(F)
  <2> TAKE F
  <2>1. \A x \in 0..pos : /\ x \in stops <=> Stops(x)
                          /\ found[x] = FrameAt(x, pos).body
                          /\ next[x] = x + FrameAt(x, pos).size
    OBVIOUS
  <2> HIDE DEF stops, found, next
  <2>2. [x \in 0..pos |-> IF x \in stops THEN << >> ELSE << found[x] >> \o F[next[x]]]
          = [x \in 0..pos |-> IF Stops(x) THEN << >> ELSE << FrameAt(x, pos).body >> \o F[x + FrameAt(x, pos).size]]
    BY <2>1
  <2> QED
    BY <2>2 DEF Leaps, FramesFrom
<1>7. \A F : FramesFrom(F) <=>
               F = [x \in 0..Len(buf) |->
                       IF frame(x).is # "frame" THEN << >>
                       ELSE IF frame(x).headers = MAX_HEADER_BYTES THEN << >>
                       ELSE << frame(x).body >> \o F[x + frame(x).size]]
  <2> TAKE F
  <2>1. \A x \in 0..pos : Stops(x) <=> frame(x).is # "frame" \/ frame(x).headers = MAX_HEADER_BYTES
    BY <1>4 DEF Stops
  <2>2. [x \in 0..Len(buf) |->
            IF frame(x).is # "frame" THEN << >>
            ELSE IF frame(x).headers = MAX_HEADER_BYTES THEN << >>
            ELSE << frame(x).body >> \o F[x + frame(x).size]]
          = [x \in 0..pos |-> IF Stops(x) THEN << >> ELSE << FrameAt(x, pos).body >> \o F[x + FrameAt(x, pos).size]]
    BY <1>3, <1>4, <2>1
  <2> QED
    BY <2>2 DEF FramesFrom
<1>8. FramesFrom(from)
  <2>1. FramesFrom(G)
    BY <1>5, <1>6
  <2> QED
    BY <1>7, <2>1
<1> QED
  BY <1>2, <1>8 DEF buf

\* Where each logged frame ends and the next begins.
FramesRead(at) ==
    /\ at[0] = 0
    /\ \A i \in 0..Len(accessed) : at[i] \in Nat
    /\ \A i \in 1..Len(accessed) : IsFrame(at[i - 1], accessed[i].body, at[i])
    /\ FrameState(at[Len(accessed)])

FrameInv == protocol = "lsp" => \E at : FramesRead(at)

FoundSoFar ==
    [i \in DOMAIN accessed |-> accessed[i].body]
        \o (IF reading = "answer" THEN << part.body >> ELSE << >>)

\* Sequences put together one after the other.
LEMMA Regrouped ==
    ASSUME NEW S, NEW p \in Seq(S), NEW q \in Seq(S), NEW r \in Seq(S)
    PROVE  p \o (q \o r) = (p \o q) \o r
BY ConcatAssociative, SMTT(20)

\* The bodies from one place on are the next, and those after it.
LEMMA NextBody ==
    ASSUME NEW S, NEW s \in Seq(S), NEW t \in Seq(S), NEW i \in 1..Len(s)
    PROVE  << s[i] >> \o (SubSeq(s, i + 1, Len(s)) \o t) = SubSeq(s, i, Len(s)) \o t
<1> DEFINE u == SubSeq(s, i + 1, Len(s))
           v == SubSeq(s, i, Len(s))
<1>0. PICK N \in Nat : N = Len(s)
  OBVIOUS
<1>1. u \in Seq(S) /\ Len(u) = N - i /\ \A k \in 1..(N - i) : u[k] = s[i + k]
  BY <1>0
<1>2. v \in Seq(S) /\ Len(v) = N + 1 - i /\ \A k \in 1..(N + 1 - i) : v[k] = s[i + k - 1]
  BY <1>0
<1>3. s[i] \in S
  OBVIOUS
<1> HIDE DEF u, v
<1>4. << s[i] >> \o u = v
  <2> DEFINE w == << s[i] >> \o u
  <2>1. w \in Seq(S) /\ Len(w) = N + 1 - i /\ w[1] = s[i] /\ \A k \in 2..(N + 1 - i) : w[k] = u[k - 1]
    <3>1. << s[i] >> \in Seq(S) /\ Len(<< s[i] >>) = 1 /\ << s[i] >>[1] = s[i]
      BY <1>3
    <3>2. /\ w \in Seq(S) /\ Len(w) = 1 + Len(u)
          /\ \A k \in 1..(1 + Len(u)) : w[k] = IF k <= 1 THEN << s[i] >>[k] ELSE u[k - 1]
      BY <1>1, <3>1, ConcatProperties
    <3>3. 1 + (N - i) = N + 1 - i /\ 1 \in 1..(N + 1 - i)
          /\ \A k \in 2..(N + 1 - i) : k \in 1..(N + 1 - i) /\ ~(k <= 1)
      BY <1>0
    <3> HIDE DEF w
    <3> QED
      BY <1>1, <3>1, <3>2, <3>3
  <2> HIDE DEF w
  <2>2. \A k \in 1..(N + 1 - i) : w[k] = v[k]
    <3> TAKE k \in 1..(N + 1 - i)
    <3>1. CASE k = 1
      <4>1. v[k] = s[i + k - 1] /\ i + k - 1 = i
        BY <1>2, <3>1
      <4> QED
        BY <2>1, <3>1, <4>1
    <3>2. CASE k # 1
      <4>1. k \in 2..(N + 1 - i) /\ k - 1 \in 1..(N - i) /\ i + (k - 1) = i + k - 1
        BY <1>0, <3>2
      <4>2. w[k] = u[k - 1] /\ u[k - 1] = s[i + (k - 1)] /\ v[k] = s[i + k - 1]
        BY <1>1, <1>2, <2>1, <4>1
      <4> QED
        BY <4>1, <4>2
    <3> QED
      BY <3>1, <3>2
  <2>3. w = v
    BY <1>2, <2>1, <2>2, SeqEqual
  <2> QED
    BY <2>3 DEF w
<1>5. << s[i] >> \in Seq(S)
  BY <1>3
<1>6. << s[i] >> \o (u \o t) = (<< s[i] >> \o u) \o t
  <2> DEFINE x == << s[i] >>
  <2>1. x \in Seq(S) /\ u \in Seq(S) /\ t \in Seq(S)
    BY <1>1, <1>5
  <2> HIDE DEF x
  <2>2. x \o (u \o t) = (x \o u) \o t
    BY <2>1, Regrouped, SMTT(20)
  <2> QED
    BY <2>2 DEF x
<1> QED
  BY <1>4, <1>6 DEF u, v

\* The frames found in what was read are those the connection read.
LEMMA FramesAgree ==
    ASSUME Sent, protocol = "lsp", LimitsAssumption, WireTypes, NEW at, FramesRead(at)
    PROVE  Frames(SubSeq(stream, 1, pos)) = FoundSoFar
<1> DEFINE bodies == [i \in DOMAIN accessed |-> accessed[i].body]
           last == IF reading = "answer" THEN << part.body >> ELSE << >>
           S == Range(bodies) \cup {part.body}
<1>1. PICK N \in Nat : N = Len(accessed) /\ DOMAIN accessed = 1..N
  BY UnitsOfSeq DEF WireTypes
<1>2. pos \in Nat /\ pos <= Len(stream)
  BY DEF WireTypes
<1>3. bodies \in Seq(S) /\ Len(bodies) = N /\ \A i \in 1..N : bodies[i] = accessed[i].body
  <2>1. \A i \in 1..N : accessed[i].body \in S
    BY <1>1 DEF Range
  <2> HIDE DEF S
  <2> QED
    BY <1>1, <2>1
<1>4. last \in Seq(S)
  <2>1. part.body \in S
    OBVIOUS
  <2> HIDE DEF S
  <2> QED
    BY <2>1
<1> HIDE DEF S, bodies
<1>5. PICK F : FramesFrom(F) /\ Frames(SubSeq(stream, 1, pos)) = F[0]
  BY FramesDefined
<1>6. \A x \in 0..pos :
         F[x] = IF Stops(x) THEN << >> ELSE << FrameAt(x, pos).body >> \o F[x + FrameAt(x, pos).size]
  BY <1>5 DEF FramesFrom
<1>7. ASSUME NEW a \in Nat, NEW b \in Nat, NEW body, IsFrame(a, body, b), b <= pos
      PROVE  a \in 0..pos /\ a < b /\ F[a] = << body >> \o F[b]
  <2>1. /\ a < b
        /\ FrameAt(a, pos).is = "frame" /\ FrameAt(a, pos).body = body
        /\ FrameAt(a, pos).size = b - a
        /\ FrameAt(a, pos).headers # MAX_HEADER_BYTES
    BY <1>2, <1>7, FrameFound
  <2>2. ~Stops(a)
    BY <2>1 DEF Stops
  <2>3. a \in 0..pos /\ a + (b - a) = b
    BY <1>2, <1>7, <2>1
  <2>4. F[a] = << FrameAt(a, pos).body >> \o F[a + FrameAt(a, pos).size]
    BY <1>6, <2>2, <2>3
  <2> QED
    BY <2>1, <2>3, <2>4
<1>8. PICK z \in Nat : z = at[N] /\ z <= pos /\ FrameState(z)
  <2>1. at[N] \in Nat /\ FrameState(at[N])
    BY <1>1 DEF FramesRead
  <2> QED
    BY <2>1 DEF FrameState
<1>9. F[z] = last
  <2>1. CASE reading = "answer"
    <3>1. IsFrame(z, part.body, pos)
      BY <1>8, <2>1 DEF FrameState, InHeaders, InBody, InAnswer
    <3>2. F[z] = << part.body >> \o F[pos]
      BY <1>2, <1>7, <3>1
    <3>3. F[pos] = << >>
      <4>1. FrameAt(pos, pos).is = "more"
        BY <1>2, NothingStops DEF FrameAt
      <4>2. Stops(pos) /\ pos \in 0..pos
        BY <1>2, <4>1 DEF Stops
      <4> QED
        BY <1>6, <4>2
    <3>4. last = << part.body >>
      BY <2>1
    <3>5. last \o << >> = last
      BY <1>4, ConcatEmptySeq
    <3> QED
      BY <3>2, <3>3, <3>4, <3>5
  <2>2. CASE reading # "answer"
    <3>1. Stops(z)
      BY <1>8, <2>2, UnreadStops
    <3>2. z \in 0..pos
      BY <1>2, <1>8
    <3> QED
      BY <1>6, <2>2, <3>1, <3>2
  <2> QED
    BY <2>1, <2>2
<1> HIDE DEF last
<1> DEFINE Right(i) == at[i] <= pos /\ F[at[i]] = SubSeq(bodies, i + 1, N) \o last
           Wrong == {j \in 0..N : ~Right(N - j)}
<1>10. 0 \notin Wrong
  <2>1. SubSeq(bodies, N + 1, N) = << >>
    <3>1. N < N + 1 /\ N \in Int /\ N + 1 \in Int
      OBVIOUS
    <3> QED
      BY <3>1, SubSeqEmpty
  <2>2. << >> \o last = last
    BY <1>4, ConcatEmptySeq
  <2>3. at[N] <= pos /\ F[at[N]] = SubSeq(bodies, N + 1, N) \o last
    BY <1>8, <1>9, <2>1, <2>2, Zenon
  <2>4. Right(N)
    BY <2>3
  <2>5. N - 0 = N
    OBVIOUS
  <2> HIDE DEF Right
  <2> QED
    BY <2>4, <2>5
<1>11. ASSUME NEW j \in 1..N, j - 1 \in 0..N, j - 1 \notin Wrong
       PROVE  j \notin Wrong
  <2>1. PICK i \in 1..N : i = N - (j - 1) /\ i - 1 = N - j /\ i - 1 \in 0..N /\ i \in 0..N
    <3>1. N - (j - 1) \in 1..N /\ N - (j - 1) - 1 = N - j /\ N - j \in 0..N /\ N - (j - 1) \in 0..N
      OBVIOUS
    <3> QED
      BY <3>1
  <2>2. Right(i)
    BY <1>11, <2>1
  <2>3. IsFrame(at[i - 1], accessed[i].body, at[i]) /\ at[i - 1] \in Nat /\ at[i] \in Nat
    BY <1>1, <2>1 DEF FramesRead
  <2>4. at[i - 1] \in 0..pos /\ F[at[i - 1]] = << accessed[i].body >> \o F[at[i]]
    <3>1. at[i] <= pos
      BY <2>2
    <3> HIDE DEF Right, Wrong
    <3> QED
      BY <1>7, <2>3, <3>1, ZenonT(30)
  <2>5. << bodies[i] >> \o (SubSeq(bodies, i + 1, N) \o last) = SubSeq(bodies, i, N) \o last
    BY <1>3, <1>4, NextBody
  <2>6. i - 1 + 1 = i /\ at[i - 1] <= pos
    BY <2>4
  <2>7. Right(i - 1)
    BY <1>3, <2>2, <2>4, <2>5, <2>6
  <2> HIDE DEF Right
  <2> QED
    BY <2>1, <2>7
<1>12. Wrong = {}
  <2>1. Wrong \in SUBSET (0..N)
    OBVIOUS
  <2> HIDE DEF Wrong
  <2> QED
    BY <1>10, <1>11, <2>1, FirstFailure
<1>13. Right(0)
  <2> HIDE DEF Right
  <2>1. N \in 0..N /\ N - N = 0
    OBVIOUS
  <2>2. Right(N - N)
    BY <1>12, <2>1
  <2> QED
    BY <2>1, <2>2
<1>14. SubSeq(bodies, 0 + 1, N) = bodies
  BY <1>3, SubSeqFull
<1>15. at[0] = 0
  BY DEF FramesRead
<1> QED
  BY <1>5, <1>13, <1>14, <1>15 DEF FoundSoFar, bodies, last

\* The places where frames begin stay, and a frame that is logged adds one.
LEMMA StepKeepsFrames ==
    ASSUME Sent, LimitsAssumption, WireTypes, FrameInv, WireStep
    PROVE  FrameInv'
<1> SUFFICES ASSUME protocol' = "lsp" PROVE \E at : FramesRead(at)'
  BY DEF FrameInv
<1>1. UNCHANGED <<protocol, messages, stream>> /\ protocol = "lsp"
  BY Steps
<1>2. PICK at : FramesRead(at)
  BY <1>1 DEF FrameInv
<1>3. PICK N \in Nat : N = Len(accessed)
  BY UnitsOfSeq DEF WireTypes
<1>4. PICK z \in Nat : z = at[N] /\ FrameState(z)
  BY <1>2, <1>3 DEF FramesRead
<1>5. \A a, b, body : IsFrame(a, body, b)' <=> IsFrame(a, body, b)
  BY <1>1 DEF IsFrame, HeadAt, LengthAt, ContentLength
<1>6. \/ accessed' = accessed /\ FrameState(z)'
      \/ /\ accessed' = Append(accessed, RequestOfPart(part))
         /\ IsFrame(z, RequestOfPart(part).body, pos) /\ pos' = pos
         /\ \A n \in Nat : n = pos => FrameState(n)'
  BY <1>1, <1>4, FrameStep
<1>7. CASE accessed' = accessed /\ FrameState(z)'
  <2>1. FrameState(at[N])'
    BY <1>4, <1>7
  <2> QED
    BY <1>2, <1>3, <1>5, <1>7, <2>1 DEF FramesRead
<1>8. CASE /\ accessed' = Append(accessed, RequestOfPart(part))
           /\ IsFrame(z, RequestOfPart(part).body, pos) /\ pos' = pos
           /\ \A n \in Nat : n = pos => FrameState(n)'
  <2>1. PICK q \in Nat : q = pos
    BY DEF WireTypes
  <2>2. /\ Len(accessed') = N + 1 /\ accessed'[N + 1] = RequestOfPart(part)
        /\ \A i \in 1..N : accessed'[i] = accessed[i]
    BY <1>3, <1>8, UnitsAppend DEF WireTypes
  <2>3. PICK to : /\ to[N + 1] = q /\ to[N] = z /\ to[0] = at[0]
                  /\ \A i \in 0..N : to[i] = at[i] /\ i \in 0..(N + 1)
    <3> DEFINE t == [i \in 0..(N + 1) |-> IF i = N + 1 THEN q ELSE at[i]]
    <3>1. /\ t[N + 1] = q /\ t[N] = z /\ t[0] = at[0]
          /\ \A i \in 0..N : t[i] = at[i] /\ i \in 0..(N + 1)
      BY <1>4
    <3> HIDE DEF t
    <3> QED
      BY <3>1
  <2>4. to[0] = 0 /\ \A i \in 0..(N + 1) : to[i] \in Nat
    <3>1. \A i \in 0..(N + 1) : i = N + 1 \/ i \in 0..N
      OBVIOUS
    <3> QED
      BY <1>2, <1>3, <2>1, <2>3, <3>1 DEF FramesRead
  <2>5. ASSUME NEW i \in 1..(N + 1) PROVE (IsFrame(to[i - 1], accessed[i].body, to[i]))'
    <3>1. CASE i = N + 1
      <4>1. to[i - 1] = z /\ to[i] = pos
        BY <2>1, <2>3, <3>1
      <4> QED
        BY <1>5, <1>8, <2>2, <3>1, <4>1
    <3>2. CASE i # N + 1
      <4>1. i \in 1..N /\ i \in 0..N /\ i - 1 \in 0..N
        BY <3>2
      <4> QED
        BY <1>2, <1>3, <1>5, <2>2, <2>3, <4>1 DEF FramesRead
    <3> QED
      BY <3>1, <3>2
  <2>6. FrameState(to[N + 1])'
    <3>1. \A n \in Nat : n = pos => FrameState(n)'
      BY <1>8
    <3> QED
      BY <2>1, <2>3, <3>1
  <2>7. FramesRead(to)'
    BY <2>2, <2>4, <2>5, <2>6 DEF FramesRead
  <2> QED
    BY <2>7
<1> QED
  BY <1>6, <1>7, <1>8

------------------------------------------------------------------------------
(* The theorem *)

\* What every step keeps.
WireInv == Sent /\ WireTypes /\ RightSoFar /\ NextIsRead /\ AllLogged /\ FrameInv

\* What clients may send is what is sent.
LEMMA SentAtFirst ==
    ASSUME ExchangesAssumption, WireInit
    PROVE  Sent /\ WireTypes /\ reading = FirstPart(protocol) /\ part = NothingRead /\ pos = 0
           /\ answers = << >> /\ accessed = << >>
<1>1. PICK x \in Exchanges :
        /\ protocol = x.protocol /\ messages = x.messages
        /\ stream = StreamOf(x.protocol, x.messages)
        /\ reading = FirstPart(x.protocol)
  BY DEF WireInit
<1>2. pos = 0 /\ part = NothingRead /\ answers = << >> /\ accessed = << >>
  BY DEF WireInit
<1>3. Sent /\ reading = FirstPart(protocol)
  BY <1>1 DEF ExchangesAssumption, Sent
<1>4. Units(answers) /\ Units(accessed)
  BY <1>2 DEF Units
<1>5. Len(stream) \in Nat
  BY <1>3, SentFacts, UnitsOfSeq
<1>6. WireTypes
  BY <1>2, <1>3, <1>4, <1>5 DEF WireTypes, Sent, FirstPart
<1> QED
  BY <1>2, <1>3, <1>6

\* It holds when a connection is made, whatever will come in on it.
LEMMA WireInvAtFirst == LimitsAssumption /\ ExchangesAssumption /\ WireInit => WireInv
<1> SUFFICES ASSUME LimitsAssumption, ExchangesAssumption, WireInit PROVE WireInv
  OBVIOUS
<1>1. Sent /\ WireTypes /\ reading = FirstPart(protocol) /\ part = NothingRead /\ pos = 0
      /\ answers = << >> /\ accessed = << >>
  BY SentAtFirst
<1>2. RightSoFar /\ AllLogged
  <2>1. Len(answers) = 0 /\ DOMAIN answers = {}
    BY <1>1
  <2>2. \A n \in Clean \ {0} : ~(n <= 0)
    BY <1>1, CleanFacts
  <2> QED
    BY <2>1, <2>2 DEF RightSoFar, AllLogged
<1>3. NextIsRead
  <2> SUFFICES ASSUME NEW n \in Clean, n = Len(answers) + 1 PROVE InMessage(n)
    BY DEF NextIsRead
  <2>1. n = 1
    BY <1>1
  <2>2. n \in 1..Len(messages) /\ Honest(messages[n])
    BY <1>1, <2>1, CleanFacts
  <2>3. Upto(n - 1) = 0
    BY <1>1, <2>1, SentFacts
  <2>4. Beginning(n)
    BY <1>1, <2>3 DEF Beginning
  <2> QED
    BY <1>1, <2>2, <2>4, InAtStart
<1>4. FrameInv
  <2> SUFFICES ASSUME protocol = "lsp" PROVE \E at : FramesRead(at)
    BY DEF FrameInv
  <2>1. FrameState(0)
    BY <1>1, FrameFirst DEF FirstPart
  <2>2. Len(accessed) = 0
    BY <1>1
  <2> DEFINE at == [i \in 0..0 |-> 0]
  <2>3. at[0] = 0 /\ \A i \in 0..0 : at[i] \in Nat
    OBVIOUS
  <2>4. 1..0 = {}
    OBVIOUS
  <2> HIDE DEF at
  <2>5. FramesRead(at)
    BY <2>1, <2>2, <2>3, <2>4 DEF FramesRead
  <2> QED
    BY <2>5
<1> QED
  BY <1>1, <1>2, <1>3, <1>4 DEF WireInv

\* A step keeps it.
LEMMA WireInvStays == LimitsAssumption /\ WireInv /\ [WireStep \/ WireClosed]_wireVars => WireInv'
<1> SUFFICES ASSUME LimitsAssumption, WireInv, [WireStep \/ WireClosed]_wireVars PROVE WireInv'
  OBVIOUS
<1>1. Sent /\ WireTypes /\ RightSoFar /\ NextIsRead /\ AllLogged /\ FrameInv
  BY DEF WireInv
<1>2. CASE WireStep
  <2>1. WireTypes' /\ UNCHANGED <<protocol, messages, stream>>
    BY <1>1, <1>2, Steps
  <2>2. Sent'
    BY <1>1, <2>1 DEF Sent
  <2>3. RightSoFar' /\ NextIsRead'
    BY <1>1, <1>2, StepKeepsRight
  <2>4. AllLogged'
    BY <1>1, <1>2, StepKeepsLog
  <2>5. FrameInv'
    BY <1>1, <1>2, StepKeepsFrames
  <2> QED
    BY <2>1, <2>2, <2>3, <2>4, <2>5 DEF WireInv
<1>3. CASE UNCHANGED wireVars
  <2>1. /\ protocol' = protocol /\ messages' = messages /\ stream' = stream /\ pos' = pos
        /\ reading' = reading /\ part' = part /\ answers' = answers /\ accessed' = accessed
    BY <1>3 DEF wireVars
  <2>2. Sent' /\ WireTypes'
    BY <1>1, <2>1 DEF Sent, WireTypes
  <2>3. Clean' = Clean
    BY <2>1 DEF Clean, Honest, BodyLength, ContentLength
  <2>4. \A n : (WholeBy(n)' <=> WholeBy(n)) /\ Due(messages[n])' = Due(messages[n])
    BY <2>1 DEF WholeBy, Upto, Due
  <2>5. RightSoFar'
    BY <1>1, <2>1, <2>3, <2>4 DEF RightSoFar
  <2>6. \A n : InMessage(n)' <=> InMessage(n)
    BY <2>1 DEF InMessage, AtLine, AtHeader, AtBody, AtAnswer, Ahead, ReadOf, FirstLine, Upto
  <2>7. NextIsRead'
    BY <1>1, <2>1, <2>3, <2>6 DEF NextIsRead
  <2>8. AllLogged'
    BY <1>1, <2>1 DEF AllLogged
  <2>9. /\ \A a, b, body : IsFrame(a, body, b)' <=> IsFrame(a, body, b)
        /\ \A a : Stops(a)' <=> Stops(a)
    BY <2>1 DEF IsFrame, HeadAt, LengthAt, ContentLength, Stops, FrameAt, DecodeFrame
  <2>10. \A a : /\ InHeaders(a)' <=> InHeaders(a)
                /\ InBody(a)' <=> InBody(a)
                /\ InAnswer(a)' <=> InAnswer(a)
    BY <2>1 DEF InHeaders, InBody, InAnswer, IsFrame, HeadAt, LengthAt, ContentLength, PartOf
  <2>11. \A a : FrameState(a)' <=> FrameState(a)
    BY <2>1, <2>9, <2>10 DEF FrameState
  <2>12. \A at : FramesRead(at)' <=> FramesRead(at)
    <3> TAKE at
    <3>1. \A i : IsFrame(at[i - 1], accessed[i].body, at[i])' <=> IsFrame(at[i - 1], accessed[i].body, at[i])
      BY <2>1 DEF IsFrame, HeadAt, LengthAt, ContentLength
    <3>2. FrameState(at[Len(accessed)])' <=> FrameState(at[Len(accessed)])
      BY <2>1, <2>11
    <3> QED
      BY <2>1, <3>1, <3>2 DEF FramesRead
  <2>13. FrameInv'
    BY <1>1, <2>1, <2>12 DEF FrameInv
  <2> QED
    BY <2>2, <2>5, <2>7, <2>8, <2>13 DEF WireInv
<1> QED
  BY <1>2, <1>3 DEF WireClosed

\* Where it holds, the requests read so far have not mixed.
LEMMA ReadApart == LimitsAssumption /\ WireInv => FramesApart
<1> SUFFICES ASSUME LimitsAssumption, WireInv PROVE FramesApart
  OBVIOUS
<1>1. Sent /\ WireTypes /\ RightSoFar /\ NextIsRead /\ AllLogged /\ FrameInv
  BY DEF WireInv
<1>2. PICK A \in Nat : A = Len(answers)
  BY <1>1, UnitsOfSeq DEF WireTypes
<1>3. ASSUME NEW n \in Clean \ {0}
      PROVE  /\ Len(answers) >= n =>
                    answers[n] = IF WholeBy(n) THEN Due(messages[n]) ELSE [status |-> 400]
             /\ WholeBy(n) /\ reading \in {"line", "headers", "body"} => Len(answers) >= n
  <2>1. n \in 1..Len(messages) /\ n \in Nat /\ \A i \in 0..n : i \in Clean
    BY <1>1, CleanFacts
  <2>2. A >= n <=> n <= A
    BY <2>1
  <2>3. Len(answers) >= n => answers[n] = IF WholeBy(n) THEN Due(messages[n]) ELSE [status |-> 400]
    BY <1>1, <1>2, <2>2 DEF RightSoFar
  <2>4. ASSUME WholeBy(n), reading \in {"line", "headers", "body"}, ~(A >= n) PROVE FALSE
    <3>1. PICK k \in 1..n : k = A + 1
      <4>1. A + 1 \in 1..n
        BY <2>1, <2>4
      <4> QED
        BY <4>1
    <3>2. k \in Clean /\ k # 0
      BY <2>1
    <3>3. InMessage(k)
      BY <1>1, <1>2, <2>4, <3>1, <3>2 DEF NextIsRead
    <3>4. k \in 1..Len(messages) /\ Honest(messages[k])
      BY <1>1, <3>2, CleanFacts
    <3>5. pos < Upto(k)
      BY <1>1, <2>4, <3>3, <3>4, NotYetWhole
    <3>6. Upto(k) \in Nat /\ Upto(n) \in Nat /\ Upto(k) <= Upto(n)
      <4>1. n \in 0..Len(messages) /\ k \in 0..Len(messages) /\ k <= n
        BY <2>1, <3>4
      <4> QED
        BY <1>1, <4>1, UptoGrows
    <3>7. pos \in Nat
      BY <1>1 DEF WireTypes
    <3>8. Upto(n) <= pos
      BY <2>4 DEF WholeBy
    <3> QED
      BY <3>5, <3>6, <3>7, <3>8
  <2> QED
    BY <1>2, <2>3, <2>4
<1>4. ASSUME NEW i \in DOMAIN answers, answers[i].status = 200
      PROVE  \E j \in DOMAIN accessed : accessed[j] = answers[i].request
  BY <1>1, <1>4 DEF AllLogged
<1>5. ASSUME protocol = "lsp"
      PROVE  Frames(SubSeq(stream, 1, pos)) = FoundSoFar
  <2>1. PICK at : FramesRead(at)
    BY <1>1, <1>5 DEF FrameInv
  <2> QED
    BY <1>1, <1>5, <2>1, FramesAgree
<1> QED
  BY <1>3, <1>4, <1>5 DEF FramesApart, FoundSoFar

\* Whatever clients send on their connections, however it comes in and where it
\* breaks off: their requests do not mix (http.rs, transport.rs).
THEOREM RequestsDoNotMix == WireSpec => []FramesApart
<1>1. WireInit => WireInv
  BY WireInvAtFirst, LimitsAssumption, ExchangesAssumption
<1>2. WireInv /\ [WireStep \/ WireClosed]_wireVars => WireInv'
  BY WireInvStays, LimitsAssumption
<1>3. WireInv => FramesApart
  BY ReadApart, LimitsAssumption
<1> QED
  BY <1>1, <1>2, <1>3, PTL DEF WireSpec
==============================================================================
