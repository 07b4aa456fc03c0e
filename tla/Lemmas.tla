------------------------------- MODULE Lemmas -------------------------------
(***************************************************************************)
(* Facts that several proof modules rest on: about the largest and the     *)
(* smallest element of a set of integers, which need not be finite, only   *)
(* bounded on the side in question, about parts of sequences, sequences    *)
(* flattened, and division. What is proved along a sequence is proved by   *)
(* its first failure, for there is no induction on a formula here.         *)
(***************************************************************************)
EXTENDS Integers, SequencesExt, FiniteSetTheorems, SequenceTheorems,
        WellFoundedInduction, TLAPS
-----------------------------------------------------------------------------
(* Extrema *)

\* A non-empty set of natural numbers has a smallest element.
LEMMA LeastOfNaturals ==
    ASSUME NEW S \in SUBSET Nat, S # {}
    PROVE  \E x \in S : \A y \in S : x <= y
<1>1. PICK x \in S : \A y \in S : ~ (<<y, x>> \in OpToRel(<, Nat))
    BY NatLessThanWellFounded, WFMin, Zenon
<1>2. \A y \in S : ~ (y < x)
    BY <1>1 DEF OpToRel
<1>3. QED
    BY <1>2

\* Where something fails for a number up to N, it fails for 0 or fails first
\* for the successor of a number for which it holds.
LEMMA FirstFailure ==
    ASSUME NEW N \in Nat, NEW B \in SUBSET (0..N), B # {}
    PROVE  0 \in B \/ \E n \in 1..N : n \in B /\ n - 1 \in 0..N /\ n - 1 \notin B
<1>1. PICK n \in B : \A m \in B : n <= m
  <2>1. B \in SUBSET Nat
    OBVIOUS
  <2>2. QED
    BY <2>1, LeastOfNaturals
<1>2. CASE n = 0
  BY <1>2
<1>3. CASE n # 0
  <2>1. n \in 1..N /\ n - 1 \in 0..N /\ ~ (n <= n - 1)
    BY <1>3
  <2>2. QED
    BY <1>1, <2>1
<1>4. QED
  BY <1>2, <1>3

\* Min of a non-empty set of integers with a lower bound is its least element.
LEMMA MinOfBounded ==
    ASSUME NEW S \in SUBSET Int, S # {}, NEW b \in Int, \A x \in S : b <= x
    PROVE  /\ Min(S) \in S
           /\ \A y \in S : Min(S) <= y
<1> DEFINE T == {x - b : x \in S}
<1>1. T \in SUBSET Nat /\ T # {}
  <2>1. \A x \in S : x - b \in Nat
    OBVIOUS
  <2>2. PICK x \in S : TRUE
    OBVIOUS
  <2>3. x - b \in T
    BY <2>2
  <2>4. QED
    BY <2>1, <2>3, Zenon
<1>2. PICK t \in T : \A y \in T : t <= y
    BY <1>1, LeastOfNaturals
<1>3. \E x \in S : \A y \in S : x <= y
  <2>1. PICK x \in S : t = x - b
    BY <1>2
  <2>2. \A y \in S : x - b <= y - b
    BY <1>2, <2>1
  <2>3. QED
    BY <2>2
<1>4. QED
    BY <1>3 DEF Min

\* Max of a non-empty set of integers with an upper bound is its greatest
\* element.
LEMMA MaxOfBounded ==
    ASSUME NEW S \in SUBSET Int, S # {}, NEW b \in Int, \A x \in S : x <= b
    PROVE  /\ Max(S) \in S
           /\ \A y \in S : Max(S) >= y
<1> DEFINE T == {b - x : x \in S}
<1>1. T \in SUBSET Nat /\ T # {}
  <2>1. \A x \in S : b - x \in Nat
    OBVIOUS
  <2>2. PICK x \in S : TRUE
    OBVIOUS
  <2>3. b - x \in T
    BY <2>2
  <2>4. QED
    BY <2>1, <2>3, Zenon
<1>2. PICK t \in T : \A y \in T : t <= y
    BY <1>1, LeastOfNaturals
<1>3. \E x \in S : \A y \in S : x >= y
  <2>1. PICK x \in S : t = b - x
    BY <1>2
  <2>2. \A y \in S : b - x <= b - y
    BY <1>2, <2>1
  <2>3. QED
    BY <2>2
<1>4. QED
    BY <1>3 DEF Max

\* The smaller of two integers.
LEMMA MinOfTwo ==
    ASSUME NEW a \in Int, NEW b \in Int
    PROVE  Min({a, b}) = IF a <= b THEN a ELSE b
<1> DEFINE S == {a, b}
<1>1. S \in SUBSET Int /\ S # {} /\ (IF a <= b THEN a ELSE b) \in Int
      /\ \A x \in S : (IF a <= b THEN a ELSE b) <= x
  OBVIOUS
<1>2. Min(S) \in S /\ \A y \in S : Min(S) <= y
  <2> HIDE DEF S
  <2> QED BY <1>1, MinOfBounded
<1>3. QED
  BY <1>2

\* The larger of two integers is one, and no smaller than either.
LEMMA MaxOfTwo ==
    ASSUME NEW a \in Int, NEW b \in Int
    PROVE  Max({a, b}) \in Int /\ a <= Max({a, b}) /\ b <= Max({a, b})
<1> DEFINE S == {a, b}
           c == IF a <= b THEN b ELSE a
<1>1. S \in SUBSET Int /\ S # {} /\ c \in Int /\ \A x \in S : x <= c
  OBVIOUS
<1>2. Max(S) \in S /\ \A y \in S : Max(S) >= y
  <2> HIDE DEF S, c
  <2> QED BY <1>1, MaxOfBounded
<1>3. QED
  BY <1>2
-----------------------------------------------------------------------------
(* Sequences *)

\* A sequence has no more elements than its length.
LEMMA ElementsOfSeq ==
    ASSUME NEW S, NEW s \in Seq(S)
    PROVE  /\ IsFiniteSet({s[i] : i \in DOMAIN s})
           /\ Cardinality({s[i] : i \in DOMAIN s}) <= Len(s)
<1> DEFINE T == {s[i] : i \in DOMAIN s}
<1>1. Len(s) \in Nat /\ DOMAIN s = 1..Len(s)
  OBVIOUS
<1>2. IsFiniteSet(1..Len(s)) /\ Cardinality(1..Len(s)) = Len(s)
  <2>1. Len(s) \in Int /\ (1 > Len(s) => Len(s) = 0)
    BY <1>1
  <2>2. QED
    BY <2>1, FS_Interval
<1>3. s \in Surjection(1..Len(s), T)
  <2>1. s \in [1..Len(s) -> T]
    BY <1>1
  <2>2. QED
    BY <1>1, <2>1 DEF Surjection
<1>4. IsFiniteSet(T) /\ Cardinality(T) <= Cardinality(1..Len(s))
  <2> HIDE DEF T
  <2> QED BY <1>2, <1>3, FS_Surjection
<1>5. QED
  BY <1>2, <1>4

\* RemoveAt keeps every other element.
LEMMA RemoveAtFacts ==
    ASSUME NEW S, NEW s \in Seq(S), NEW i \in DOMAIN s
    PROVE  /\ RemoveAt(s, i) \in Seq(S)
           /\ \A j \in DOMAIN s \ {i} : \E k \in DOMAIN RemoveAt(s, i) : RemoveAt(s, i)[k] = s[j]
<1> DEFINE a == SubSeq(s, 1, i - 1)
           b == SubSeq(s, i + 1, Len(s))
<1>1. i \in 1..Len(s) /\ Len(s) \in Nat
  OBVIOUS
<1>2. /\ a \in Seq(S) /\ Len(a) = i - 1
      /\ \A j \in 1..(i - 1) : a[j] = s[j]
  BY <1>1
<1>3. /\ b \in Seq(S) /\ Len(b) = Len(s) - i
      /\ \A j \in 1..(Len(s) - i) : b[j] = s[i + j]
  BY <1>1
<1>4. RemoveAt(s, i) = a \o b
  BY DEF RemoveAt
<1> HIDE DEF a, b
<1>5. /\ a \o b \in Seq(S) /\ Len(a \o b) = Len(s) - 1
      /\ \A k \in 1..(Len(s) - 1) : (a \o b)[k] = IF k <= i - 1 THEN a[k] ELSE b[k - (i - 1)]
  <2>1. /\ a \o b \in Seq(S) /\ Len(a \o b) = Len(a) + Len(b)
        /\ \A k \in 1..(Len(a) + Len(b)) :
              (a \o b)[k] = IF k <= Len(a) THEN a[k] ELSE b[k - Len(a)]
    BY <1>2, <1>3, ConcatProperties
  <2>2. Len(a) + Len(b) = Len(s) - 1
    BY <1>1, <1>2, <1>3
  <2> QED
    BY <2>1, <2>2, <1>2
<1>6. ASSUME NEW j \in DOMAIN s \ {i}
      PROVE  \E k \in DOMAIN RemoveAt(s, i) : RemoveAt(s, i)[k] = s[j]
  <2>1. CASE j < i
    <3>1. j \in 1..(i - 1) /\ j \in 1..(Len(s) - 1)
      BY <1>1, <1>6, <2>1
    <3>2. (a \o b)[j] = s[j] /\ j \in DOMAIN (a \o b)
      BY <1>2, <1>5, <3>1
    <3>3. QED
      BY <1>4, <3>2
  <2>2. CASE j > i
    <3>1. j - 1 \in 1..(Len(s) - 1) /\ j - i \in 1..(Len(s) - i) /\ ~(j - 1 <= i - 1)
      BY <1>1, <1>6, <2>2
    <3>2. (a \o b)[j - 1] = b[(j - 1) - (i - 1)] /\ j - 1 \in DOMAIN (a \o b)
      <4>1. \A k \in 1..(Len(s) - 1) : ~(k <= i - 1) => (a \o b)[k] = b[k - (i - 1)]
        BY <1>5
      <4>2. DOMAIN (a \o b) = 1..(Len(s) - 1)
        BY <1>5
      <4>3. QED
        BY <3>1, <4>1, <4>2
    <3>3. b[j - i] = s[j]
      BY <1>1, <1>3, <3>1, SMTT(20)
    <3>4. (j - 1) - (i - 1) = j - i
      BY <1>1, <1>6
    <3>5. QED
      BY <1>4, <3>2, <3>3, <3>4
  <2>3. QED
    BY <1>1, <1>6, <2>1, <2>2
<1>7. QED
  BY <1>4, <1>5, <1>6

\* What is left of a sequence without its first i elements.
LEMMA DropFirst ==
    ASSUME NEW S, NEW s \in Seq(S), NEW i \in 0..Len(s)
    PROVE  LET t == SubSeq(s, i + 1, Len(s))
               n == Len(s) - i
           IN  /\ t \in Seq(S) /\ Len(t) = n /\ DOMAIN t = 1..n
               /\ \A j \in 1..n : t[j] = s[i + j] /\ i + j \in 1..Len(s)
               /\ n \in Nat
<1>1. Len(s) \in Nat /\ i \in Int /\ 0 <= i /\ i <= Len(s)
  OBVIOUS
<1>2. \A j \in (i + 1)..Len(s) : s[j] \in S
  BY <1>1
<1> DEFINE t == SubSeq(s, i + 1, Len(s))
           n == Len(s) - i
<1>3. n \in Nat /\ \A j \in 1..n : i + j \in 1..Len(s)
  BY <1>1
<1>4. t \in Seq(S) /\ Len(t) = n
  BY <1>1, <1>2
<1>5. \A j \in 1..n : t[j] = s[i + j]
  BY <1>1, <1>2
<1>6. DOMAIN t = 1..n
  BY <1>3, <1>4
<1> HIDE DEF t, n
<1> QED
  BY <1>3, <1>4, <1>5, <1>6 DEF t, n

\* Appending an element: what the new sequence holds.
LEMMA AppendFacts ==
    ASSUME NEW S, NEW t \in Seq(S), NEW x \in S
    PROVE  /\ Append(t, x) \in Seq(S)
           /\ ToSet(Append(t, x)) = ToSet(t) \cup {x}
           /\ IsInjective(t) /\ x \notin ToSet(t) => IsInjective(Append(t, x))
<1> DEFINE u == Append(t, x)
<1>1. /\ Len(t) \in Nat /\ DOMAIN t = 1..Len(t)
      /\ u \in Seq(S) /\ DOMAIN u = 1..(Len(t) + 1)
      /\ \A i \in 1..Len(t) : u[i] = t[i]
      /\ u[Len(t) + 1] = x
  BY AppendProperties
<1> HIDE DEF u
<1>2. /\ \A i \in DOMAIN u : i \in DOMAIN t \/ i = Len(t) + 1
      /\ \A i \in DOMAIN t : i \in DOMAIN u
      /\ Len(t) + 1 \in DOMAIN u
  BY <1>1
<1>3. ToSet(u) = ToSet(t) \cup {x}
  BY <1>1, <1>2 DEF ToSet
<1>4. ASSUME IsInjective(t), x \notin ToSet(t)
      PROVE  IsInjective(u)
  <2>1. \A i \in DOMAIN t : t[i] # x
    BY <1>4 DEF ToSet
  <2>2. QED
    BY <1>1, <1>2, <1>4, <2>1 DEF IsInjective
<1>5. QED
  BY <1>1, <1>3, <1>4 DEF u

\* A sequence in two parts.
LEMMA SplitFacts ==
    ASSUME NEW S, NEW t \in Seq(S), NEW n \in 0..Len(t)
    PROVE  LET a == SubSeq(t, 1, n)
               b == SubSeq(t, n + 1, Len(t))
           IN  /\ b \in Seq(S)
               /\ ToSet(t) = ToSet(a) \cup ToSet(b)
               /\ ToSet(a) \subseteq S
               /\ IsInjective(t) => IsInjective(b) /\ ToSet(a) \cap ToSet(b) = {}
<1> DEFINE a == SubSeq(t, 1, n)
           b == SubSeq(t, n + 1, Len(t))
           m == Len(t) - n
<1>1. Len(t) \in Nat /\ n \in Nat /\ n <= Len(t) /\ DOMAIN t = 1..Len(t) /\ \A i \in 1..Len(t) : t[i] \in S
  OBVIOUS
<1>2. a \in Seq(S) /\ Len(a) = n /\ DOMAIN a = 1..n /\ \A i \in 1..n : a[i] = t[i] /\ i \in 1..Len(t)
  BY <1>1
<1>4. b \in Seq(S) /\ Len(b) = m /\ DOMAIN b = 1..m /\ m \in Nat
      /\ \A i \in 1..m : b[i] = t[n + i] /\ n + i \in 1..Len(t)
  BY DropFirst
<1>5. \A i \in 1..Len(t) : i \in 1..n \/ (i - n \in 1..m /\ n + (i - n) = i)
  BY <1>1
<1> HIDE DEF a, b, m
<1>6. ToSet(t) = ToSet(a) \cup ToSet(b)
  <2>1. ASSUME NEW i \in DOMAIN t PROVE t[i] \in ToSet(a) \cup ToSet(b)
    <3>1. CASE i \in 1..n
      BY <1>2, <3>1 DEF ToSet
    <3>2. CASE i \notin 1..n
      <4>1. i - n \in 1..m /\ n + (i - n) = i
        BY <1>1, <1>5, <3>2
      <4>2. b[i - n] = t[i]
        BY <1>4, <4>1
      <4>3. QED
        BY <1>4, <4>1, <4>2 DEF ToSet
    <3>3. QED
      BY <3>1, <3>2
  <2>2. ToSet(a) \subseteq ToSet(t)
    BY <1>1, <1>2 DEF ToSet
  <2>3. ToSet(b) \subseteq ToSet(t)
    BY <1>1, <1>4 DEF ToSet
  <2>4. ToSet(t) \subseteq ToSet(a) \cup ToSet(b)
    BY <2>1 DEF ToSet
  <2>5. QED
    BY <2>2, <2>3, <2>4
<1>7. ToSet(a) \subseteq S
  BY <1>1, <1>2 DEF ToSet
<1>8. ASSUME IsInjective(t)
      PROVE  IsInjective(b) /\ ToSet(a) \cap ToSet(b) = {}
  <2>1. \A i, j \in 1..m : b[i] = b[j] => n + i = n + j
    <3>1. \A i, j \in 1..m : n + i \in DOMAIN t /\ n + j \in DOMAIN t
                              /\ b[i] = t[n + i] /\ b[j] = t[n + j]
      BY <1>1, <1>4
    <3>2. QED
      BY <1>8, <3>1 DEF IsInjective
  <2>2. \A i, j \in 1..m : n + i = n + j => i = j
    BY <1>1, <1>4
  <2>3. IsInjective(b)
    BY <1>4, <2>1, <2>2 DEF IsInjective
  <2>4. ASSUME NEW i \in 1..n, NEW j \in 1..m, a[i] = b[j]
        PROVE  i = n + j
    <3>1. i \in DOMAIN t /\ n + j \in DOMAIN t
      BY <1>1, <1>2, <1>4
    <3>2. t[i] = t[n + j]
      BY <1>2, <1>4, <2>4
    <3> QED
      BY <1>8, <3>1, <3>2 DEF IsInjective
  <2>5. \A i \in 1..n, j \in 1..m : i # n + j
    BY <1>1, <1>4
  <2>6. \A i \in 1..n, j \in 1..m : a[i] # b[j]
    BY <2>4, <2>5
  <2>7. QED
    BY <1>2, <1>4, <2>3, <2>6 DEF ToSet
<1>9. QED
  BY <1>4, <1>6, <1>7, <1>8 DEF a, b

\* Two sequences in one.
LEMMA ConcatFacts ==
    ASSUME NEW S, NEW a \in Seq(S), NEW b \in Seq(S)
    PROVE  /\ a \o b \in Seq(S)
           /\ ToSet(a \o b) = ToSet(a) \cup ToSet(b)
           /\ IsInjective(a) /\ IsInjective(b) /\ ToSet(a) \cap ToSet(b) = {}
                => IsInjective(a \o b)
<1> DEFINE c == a \o b
           m == Len(a)
           n == Len(b)
<1>1. /\ m \in Nat /\ n \in Nat /\ DOMAIN a = 1..m /\ DOMAIN b = 1..n
      /\ c \in Seq(S) /\ DOMAIN c = 1..(m + n)
      /\ \A i \in 1..m : c[i] = a[i]
      /\ \A i \in 1..n : c[m + i] = b[i]
  <2>1. /\ Len(a) \in Nat /\ Len(b) \in Nat /\ c \in Seq(S) /\ Len(c) = Len(a) + Len(b)
        /\ \A i \in 1..(Len(a) + Len(b)) : c[i] = IF i <= Len(a) THEN a[i] ELSE b[i - Len(a)]
    BY ConcatProperties
  <2> HIDE DEF c
  <2>2. \A i \in 1..m : c[i] = a[i]
    <3>1. \A i \in 1..m : i \in 1..(m + n) /\ i <= m
      BY <2>1
    <3>2. QED
      BY <2>1, <3>1
  <2>3. \A i \in 1..n : c[m + i] = b[i]
    <3>1. \A i \in 1..n : m + i \in 1..(m + n) /\ ~(m + i <= m) /\ (m + i) - m = i
      BY <2>1
    <3>2. QED
      BY <2>1, <3>1
  <2>4. QED
    BY <2>1, <2>2, <2>3
<1> HIDE DEF c, m, n
<1>2. /\ \A i \in 1..m : i \in 1..(m + n)
      /\ \A i \in 1..n : m + i \in 1..(m + n)
      /\ \A i \in 1..(m + n) : i \in 1..m \/ \E j \in 1..n : i = m + j
  <2>1. \A i \in 1..(m + n) : i \in 1..m \/ (i - m \in 1..n /\ i = m + (i - m))
    BY <1>1
  <2>2. \A i \in 1..(m + n) : i \in 1..m \/ \E j \in 1..n : i = m + j
    BY <2>1
  <2>3. (\A i \in 1..m : i \in 1..(m + n)) /\ (\A i \in 1..n : m + i \in 1..(m + n))
    BY <1>1
  <2>4. QED
    BY <2>2, <2>3
<1>3. ToSet(c) = ToSet(a) \cup ToSet(b)
  <2>1. ASSUME NEW i \in DOMAIN c PROVE c[i] \in ToSet(a) \cup ToSet(b)
    <3>1. CASE i \in 1..m
      BY <1>1, <3>1 DEF ToSet
    <3>2. ASSUME NEW j \in 1..n, i = m + j PROVE c[i] \in ToSet(b)
      BY <1>1, <3>2 DEF ToSet
    <3>3. QED
      BY <1>1, <1>2, <3>1, <3>2
  <2>2. ToSet(a) \subseteq ToSet(c)
    BY <1>1, <1>2 DEF ToSet
  <2>3. ToSet(b) \subseteq ToSet(c)
    BY <1>1, <1>2 DEF ToSet
  <2>4. ToSet(c) \subseteq ToSet(a) \cup ToSet(b)
    BY <2>1 DEF ToSet
  <2>5. QED
    BY <2>2, <2>3, <2>4
<1>4. ASSUME IsInjective(a), IsInjective(b), ToSet(a) \cap ToSet(b) = {}
      PROVE  IsInjective(c)
  <2>1. \A i \in 1..m, j \in 1..n : a[i] # b[j]
    BY <1>1, <1>4 DEF ToSet
  <2>2. \A i, j \in 1..m : a[i] = a[j] => i = j
    BY <1>1, <1>4 DEF IsInjective
  <2>3. \A i, j \in 1..n : b[i] = b[j] => i = j
    BY <1>1, <1>4 DEF IsInjective
  <2> SUFFICES ASSUME NEW i \in 1..(m + n), NEW j \in 1..(m + n), c[i] = c[j]
               PROVE  i = j
    BY <1>1 DEF IsInjective
  <2>4. CASE i \in 1..m /\ j \in 1..m
    BY <1>1, <2>2, <2>4
  <2>5. ASSUME NEW k \in 1..n, i = m + k
        PROVE  i = j
    <3>1. c[i] = b[k]
      BY <1>1, <2>5
    <3>2. j \notin 1..m
      BY <1>1, <2>1, <2>5, <3>1
    <3>3. PICK l \in 1..n : j = m + l
      BY <1>2, <3>2
    <3>4. c[j] = b[l]
      BY <1>1, <3>3
    <3>5. k = l
      BY <2>3, <3>1, <3>4
    <3>6. QED
      BY <2>5, <3>3, <3>5
  <2>6. ASSUME NEW k \in 1..n, j = m + k
        PROVE  i = j
    <3>1. c[j] = b[k]
      BY <1>1, <2>6
    <3>2. i \notin 1..m
      BY <1>1, <2>1, <2>6, <3>1
    <3>3. PICK l \in 1..n : i = m + l
      BY <1>2, <3>2
    <3>4. c[i] = b[l]
      BY <1>1, <3>3
    <3>5. k = l
      BY <2>3, <3>1, <3>4
    <3>6. QED
      BY <2>6, <3>3, <3>5
  <2>7. QED
    BY <1>2, <2>4, <2>5, <2>6
<1>5. QED
  BY <1>1, <1>3, <1>4 DEF c

\* What FlattenSeq computes: the prefix of every length, each from the one before.
LEMMA FlattenSteps ==
    ASSUME NEW seqs, Len(seqs) \in Nat \ {0}
    PROVE  \E F : /\ FlattenSeq(seqs) = F[Len(seqs)]
                  /\ F[1] = seqs[1]
                  /\ \A i \in 2..Len(seqs) : F[i] = F[i - 1] \o seqs[i]
<1> PICK N \in Nat \ {0} : N = Len(seqs)
  OBVIOUS
<1> DEFINE Body(F, n) == [i \in 1..n |-> IF i = 1 THEN seqs[i] ELSE F[i - 1] \o seqs[i]]
           Stuck == {n \in 0..N : ~ \E F : F = Body(F, n)}
<1>1. 0 \notin Stuck
  <2>1. 1..0 = {}
    OBVIOUS
  <2>2. [i \in {} |-> i] = Body([i \in {} |-> i], 0)
    BY <2>1
  <2> QED
    BY <2>2
<1>2. ASSUME NEW n \in 1..N, n - 1 \in 0..N, n - 1 \notin Stuck
      PROVE  n \notin Stuck
  <2>1. PICK F : F = Body(F, n - 1)
    BY <1>2
  <2> DEFINE G == [i \in 1..n |-> IF i = 1 THEN seqs[i] ELSE F[i - 1] \o seqs[i]]
  <2>2. \A i \in 1..n - 1 : G[i] = F[i] /\ i \in 1..n
    <3>1. \A i \in 1..n - 1 : F[i] = IF i = 1 THEN seqs[i] ELSE F[i - 1] \o seqs[i]
      BY <2>1
    <3>2. 1..n - 1 \subseteq 1..n
      OBVIOUS
    <3> QED
      BY <3>1, <3>2
  <2>3. \A i \in 1..n : i # 1 => i - 1 \in 1..n - 1
    OBVIOUS
  <2>4. \A i \in 1..n : i # 1 => G[i - 1] = F[i - 1]
    <3> HIDE DEF G
    <3> QED
      BY <2>2, <2>3
  <2>5. \A i \in 1..n : (IF i = 1 THEN seqs[i] ELSE F[i - 1] \o seqs[i])
                          = (IF i = 1 THEN seqs[i] ELSE G[i - 1] \o seqs[i])
    <3> HIDE DEF G
    <3> QED
      BY <2>4
  <2> DEFINE H == G
  <2> HIDE DEF H
  <2>6. H = Body(H, n)
    <3>1. \A i \in 1..n : (IF i = 1 THEN seqs[i] ELSE F[i - 1] \o seqs[i])
                            = (IF i = 1 THEN seqs[i] ELSE H[i - 1] \o seqs[i])
      BY <2>5 DEF H
    <3>2. H = [i \in 1..n |-> IF i = 1 THEN seqs[i] ELSE F[i - 1] \o seqs[i]]
      BY DEF H
    <3> QED
      BY <3>1, <3>2
  <2> QED
    BY <2>6
<1>3. \E F : F = Body(F, N)
  <2>1. Stuck = {}
    <3> HIDE DEF Stuck
    <3>1. Stuck \in SUBSET (0..N)
      BY DEF Stuck
    <3> QED
      BY <1>1, <1>2, <3>1, FirstFailure
  <2>2. N \in 0..N /\ N \notin Stuck
    <3>1. N \in 0..N
      OBVIOUS
    <3> HIDE DEF Stuck
    <3> QED
      BY <2>1, <3>1
  <2> HIDE DEF Body
  <2> QED
    BY <2>2
<1> DEFINE F == CHOOSE F : F = Body(F, N)
<1>4. F = Body(F, N)
  BY <1>3
<1>5. FlattenSeq(seqs) = F[N]
  BY DEF FlattenSeq
<1> HIDE DEF F
<1>6. F[1] = seqs[1] /\ \A i \in 2..N : F[i] = F[i - 1] \o seqs[i]
  <2>1. \A i \in 1..N : F[i] = IF i = 1 THEN seqs[i] ELSE F[i - 1] \o seqs[i]
    BY <1>4
  <2>2. 1 \in 1..N /\ \A i \in 2..N : i \in 1..N /\ i # 1
    OBVIOUS
  <2> QED
    BY <2>1, <2>2
<1> QED
  BY <1>5, <1>6

\* A flattened sequence has the elements of its parts.
LEMMA FlattenFacts ==
    ASSUME NEW S, NEW seqs, Len(seqs) \in Nat,
           DOMAIN seqs = 1..Len(seqs), \A i \in 1..Len(seqs) : seqs[i] \in Seq(S),
           Len(seqs) = 0 => seqs = << >>
    PROVE  /\ FlattenSeq(seqs) \in Seq(S)
           /\ \A i \in DOMAIN seqs : ToSet(seqs[i]) \subseteq ToSet(FlattenSeq(seqs))
           /\ \A x \in ToSet(FlattenSeq(seqs)) : \E i \in DOMAIN seqs : x \in ToSet(seqs[i])
<1> PICK N \in Nat : N = Len(seqs)
  OBVIOUS
<1>1. CASE N = 0
  <2>1. FlattenSeq(seqs) = << >>
    BY <1>1 DEF FlattenSeq
  <2> QED
    BY <1>1, <2>1 DEF ToSet
<1>2. CASE N # 0
  <2>1. PICK F : /\ FlattenSeq(seqs) = F[N]
                 /\ F[1] = seqs[1]
                 /\ \A i \in 2..N : F[i] = F[i - 1] \o seqs[i]
    BY <1>2, FlattenSteps
  <2> DEFINE Right(n) == /\ F[n] \in Seq(S)
                         /\ \A i \in 1..n : ToSet(seqs[i]) \subseteq ToSet(F[n])
                         /\ \A x \in ToSet(F[n]) : \E i \in 1..n : x \in ToSet(seqs[i])
             Wrong == {n \in 0..N : n # 0 /\ ~Right(n)}
  <2>2. ASSUME NEW n \in 1..N, n - 1 \in 0..N, n - 1 \notin Wrong
        PROVE  n \notin Wrong
    <3>1. CASE n = 1
      <4>1. 1..1 = {1}
        OBVIOUS
      <4> QED
        BY <1>2, <2>1, <3>1, <4>1
    <3>2. CASE n # 1
      <4>1. n - 1 \in 1..N /\ Right(n - 1) /\ n \in 2..N
        BY <2>2, <3>2
      <4>2. F[n] = F[n - 1] \o seqs[n] /\ F[n - 1] \in Seq(S) /\ seqs[n] \in Seq(S)
        BY <2>1, <4>1
      <4>3. F[n] \in Seq(S) /\ ToSet(F[n]) = ToSet(F[n - 1]) \cup ToSet(seqs[n])
        BY <4>2, ConcatFacts
      <4>4. \A i \in 1..n : i = n \/ i \in 1..n - 1
        OBVIOUS
      <4>5. \A i \in 1..n - 1 : i \in 1..n
        OBVIOUS
      <4>6. n \in 1..n
        OBVIOUS
      <4> QED
        BY <4>1, <4>3, <4>4, <4>5, <4>6
    <3> QED
      BY <3>1, <3>2
  <2>3. Wrong = {}
    <3>1. 0 \notin Wrong /\ Wrong \in SUBSET (0..N)
      OBVIOUS
    <3> HIDE DEF Wrong
    <3> QED
      BY <2>2, <3>1, FirstFailure
  <2>4. Right(N)
    <3>1. N \in 0..N
      OBVIOUS
    <3> QED
      BY <1>2, <2>3, <3>1
  <2> QED
    BY <2>1, <2>4
<1> QED
  BY <1>1, <1>2

\* Parts of one element each make the sequence of these.
LEMMA FlattenSingles ==
    ASSUME NEW S, NEW s \in Seq(S)
    PROVE  FlattenSeq([i \in DOMAIN s |-> << s[i] >>]) = s
<1> PICK N \in Nat : N = Len(s)
  OBVIOUS
<1> DEFINE seqs == [i \in DOMAIN s |-> << s[i] >>]
<1>0. DOMAIN s = 1..N /\ \A i \in 1..N : s[i] \in S
  OBVIOUS
<1>1. seqs \in Seq(Seq(S)) /\ Len(seqs) = N /\ Len(seqs) \in Nat /\ \A i \in 1..N : seqs[i] = << s[i] >>
  BY <1>0
<1> HIDE DEF seqs
<1>2. CASE N = 0
  <2>1. seqs = << >> /\ s = << >>
    BY <1>1, <1>2, EmptySeq
  <2> QED
    BY <2>1 DEF FlattenSeq, seqs
<1>3. CASE N # 0
  <2>1. PICK F : /\ FlattenSeq(seqs) = F[N]
                 /\ F[1] = seqs[1]
                 /\ \A i \in 2..N : F[i] = F[i - 1] \o seqs[i]
    <3>1. Len(seqs) \in Nat \ {0} /\ Len(seqs) = N
      BY <1>1, <1>3
    <3>2. \E F : /\ FlattenSeq(seqs) = F[Len(seqs)]
                 /\ F[1] = seqs[1]
                 /\ \A i \in 2..Len(seqs) : F[i] = F[i - 1] \o seqs[i]
      BY <3>1, FlattenSteps, Zenon
    <3> QED
      BY <3>1, <3>2, Zenon
  <2> DEFINE Right(n) == F[n] = SubSeq(s, 1, n)
             Wrong == {n \in 0..N : n # 0 /\ ~Right(n)}
  <2>2. ASSUME NEW n \in 1..N, n - 1 \in 0..N, n - 1 \notin Wrong
        PROVE  n \notin Wrong
    <3>1. CASE n = 1
      <4>1. SubSeq(s, 1, 1) = << s[1] >>
        <5> PICK e \in Int : e = 1
          OBVIOUS
        <5>7. \A i \in e .. e : i = 1
          OBVIOUS
        <5>8. s[1] \in S
          <6>1. 1 \in 1..N
            BY <1>3
          <6> QED
            BY <1>0, <6>1
        <5>0. \A i \in e .. e : s[i] \in S
          BY <5>7, <5>8, Zenon
        <5>6. /\ SubSeq(s, e, e) \in Seq(S) /\ Len(SubSeq(s, e, e)) = IF e <= e THEN e - e + 1 ELSE 0
              /\ \A i \in 1 .. e - e + 1 : SubSeq(s, e, e)[i] = s[e + i - 1]
          BY <5>0, SubSeqProperties
        <5>1. /\ SubSeq(s, 1, 1) \in Seq(S) /\ Len(SubSeq(s, 1, 1)) = 1
              /\ SubSeq(s, 1, 1)[1] = s[1]
          BY <5>6
        <5>2. << s[1] >> \in Seq(S) /\ Len(<< s[1] >>) = 1 /\ << s[1] >>[1] = s[1]
          BY <1>0, <1>3
        <5> PICK t : t = SubSeq(s, 1, 1)
          OBVIOUS
        <5> PICK u : u = << s[1] >>
          OBVIOUS
        <5>3. t \in Seq(S) /\ u \in Seq(S) /\ Len(t) = Len(u) /\ \A i \in 1..Len(t) : t[i] = u[i]
          BY <5>1, <5>2
        <5>4. t = u
          BY <5>3, SeqEqual
        <5> QED
          BY <5>4
      <4> QED
        BY <1>1, <1>3, <2>1, <3>1, <4>1
    <3>2. CASE n # 1
      <4>1. n \in 2..N /\ F[n - 1] = SubSeq(s, 1, n - 1)
        BY <2>2, <3>2
      <4>2. F[n] = SubSeq(s, 1, n - 1) \o << s[n] >>
        BY <1>1, <2>1, <4>1
      <4>3. SubSeq(s, 1, n - 1) \o << s[n] >> = SubSeq(s, 1, n)
        BY <1>0
      <4> QED
        BY <4>2, <4>3
    <3> QED
      BY <3>1, <3>2
  <2>3. Wrong = {}
    <3>1. 0 \notin Wrong /\ Wrong \in SUBSET (0..N)
      OBVIOUS
    <3> HIDE DEF Wrong
    <3> QED
      BY <2>2, <3>1, FirstFailure
  <2>4. F[N] = SubSeq(s, 1, N)
    <3>1. N \in 0..N
      OBVIOUS
    <3> QED
      BY <1>3, <2>3, <3>1
  <2>5. SubSeq(s, 1, N) = s
    BY <1>0
  <2> QED
    BY <2>1, <2>4, <2>5 DEF seqs
<1> QED
  BY <1>2, <1>3

\* What list has of U it has once.
Once(list, U) == \A i, j \in DOMAIN list : list[i] = list[j] /\ list[i] \in U => i = j

\* One more element, or another list, changes that only if they share some of U.
LEMMA OnceAppend ==
    ASSUME NEW S, NEW t \in Seq(S), NEW x \in S, NEW U, Once(t, U), x \in U => x \notin ToSet(t)
    PROVE  Once(Append(t, x), U)
<1> DEFINE u == Append(t, x)
<1>1. /\ Len(t) \in Nat /\ DOMAIN t = 1..Len(t)
      /\ DOMAIN u = 1..(Len(t) + 1)
      /\ \A i \in 1..Len(t) : u[i] = t[i]
      /\ u[Len(t) + 1] = x
  BY AppendProperties
<1> HIDE DEF u
<1>2. /\ \A i \in DOMAIN u : i \in DOMAIN t \/ i = Len(t) + 1
      /\ \A i \in DOMAIN t : u[i] = t[i] /\ t[i] \in ToSet(t)
  BY <1>1 DEF ToSet
<1>3. Once(u, U)
  BY <1>1, <1>2, Zenon DEF Once
<1> QED
  BY <1>3 DEF u

LEMMA OnceConcat ==
    ASSUME NEW S, NEW a \in Seq(S), NEW b \in Seq(S), NEW U, Once(a, U), Once(b, U),
           ToSet(a) \cap ToSet(b) \cap U = {}
    PROVE  Once(a \o b, U)
<1> DEFINE c == a \o b
           m == Len(a)
           n == Len(b)
<1>1. /\ m \in Nat /\ n \in Nat /\ DOMAIN a = 1..m /\ DOMAIN b = 1..n
      /\ DOMAIN c = 1..(m + n)
      /\ \A i \in 1..m : c[i] = a[i]
      /\ \A i \in 1..n : c[m + i] = b[i]
  BY ConcatProperties
<1>2. \A i \in 1..(m + n) : i \in 1..m \/ (i - m \in 1..n /\ m + (i - m) = i)
  BY <1>1
<1> HIDE DEF c, m, n
<1>3. \A i \in DOMAIN c : \/ i \in DOMAIN a /\ c[i] = a[i] /\ c[i] \in ToSet(a)
                          \/ i - m \in DOMAIN b /\ c[i] = b[i - m] /\ c[i] \in ToSet(b)
  BY <1>1, <1>2 DEF ToSet
<1>4. \A i, j \in DOMAIN c : i - m = j - m => i = j
  BY <1>1
<1>5. ASSUME NEW i \in DOMAIN c, NEW j \in DOMAIN c, c[i] = c[j], c[i] \in U
      PROVE  i = j
  BY <1>3, <1>4, <1>5 DEF Once
<1> QED
  BY <1>5 DEF Once, c

\* Nor does flattening, of parts that share none of U.
LEMMA FlattenOnce ==
    ASSUME NEW S, NEW U, NEW seqs, Len(seqs) \in Nat,
           DOMAIN seqs = 1..Len(seqs), \A i \in 1..Len(seqs) : seqs[i] \in Seq(S),
           Len(seqs) = 0 => seqs = << >>,
           \A i \in 1..Len(seqs) : Once(seqs[i], U),
           \A i, j \in 1..Len(seqs) : \A x \in U : x \in ToSet(seqs[i]) /\ x \in ToSet(seqs[j]) => i = j
    PROVE  Once(FlattenSeq(seqs), U)
<1> PICK N \in Nat : N = Len(seqs)
  OBVIOUS
<1>1. CASE N = 0
  <2>1. FlattenSeq(seqs) = << >>
    BY <1>1 DEF FlattenSeq
  <2> QED
    BY <1>1, <2>1 DEF Once
<1>2. CASE N # 0
  <2>1. PICK F : /\ FlattenSeq(seqs) = F[N]
                 /\ F[1] = seqs[1]
                 /\ \A i \in 2..N : F[i] = F[i - 1] \o seqs[i]
    BY <1>2, FlattenSteps
  <2> DEFINE Right(n) == /\ F[n] \in Seq(S)
                         /\ Once(F[n], U)
                         /\ \A x \in ToSet(F[n]) : \E i \in 1..n : x \in ToSet(seqs[i])
             Wrong == {n \in 0..N : n # 0 /\ ~Right(n)}
  <2>2. ASSUME NEW n \in 1..N, n - 1 \in 0..N, n - 1 \notin Wrong
        PROVE  n \notin Wrong
    <3>1. CASE n = 1
      <4>1. 1..1 = {1}
        OBVIOUS
      <4> QED
        BY <1>2, <2>1, <3>1, <4>1
    <3>2. CASE n # 1
      <4>1. n - 1 \in 1..N /\ Right(n - 1) /\ n \in 2..N
        BY <2>2, <3>2
      <4>2. F[n] = F[n - 1] \o seqs[n] /\ F[n - 1] \in Seq(S) /\ seqs[n] \in Seq(S)
        BY <2>1, <4>1
      <4>3. F[n] \in Seq(S) /\ ToSet(F[n]) = ToSet(F[n - 1]) \cup ToSet(seqs[n])
        BY <4>2, ConcatFacts
      <4>4. \A i \in 1..n - 1 : i \in 1..n /\ i # n
        OBVIOUS
      <4>5. n \in 1..n
        OBVIOUS
      <4>6. ToSet(F[n - 1]) \cap ToSet(seqs[n]) \cap U = {}
        <5> SUFFICES ASSUME NEW x \in U, x \in ToSet(F[n - 1]), x \in ToSet(seqs[n])
                     PROVE  FALSE
          OBVIOUS
        <5>1. PICK i \in 1..n - 1 : x \in ToSet(seqs[i])
          BY <4>1
        <5>2. i \in 1..N /\ i # n
          OBVIOUS
        <5> QED
          BY <5>1, <5>2
      <4>7. Once(F[n], U)
        <5>1. Once(seqs[n], U) /\ Once(F[n - 1], U)
          BY <4>1
        <5> QED
          BY <4>2, <4>6, <5>1, OnceConcat
      <4>8. \A x \in ToSet(F[n]) : \E i \in 1..n : x \in ToSet(seqs[i])
        BY <4>1, <4>3, <4>4, <4>5
      <4> QED
        BY <4>3, <4>7, <4>8
    <3> QED
      BY <3>1, <3>2
  <2>3. Wrong = {}
    <3>1. 0 \notin Wrong /\ Wrong \in SUBSET (0..N)
      OBVIOUS
    <3> HIDE DEF Wrong
    <3> QED
      BY <2>2, <3>1, FirstFailure
  <2>4. Right(N)
    <3>1. N \in 0..N
      OBVIOUS
    <3> QED
      BY <1>2, <2>3, <3>1
  <2> QED
    BY <2>1, <2>4
<1> QED
  BY <1>1, <1>2

\* A function on the first numbers is a list of its values.
LEMMA ListOfValues ==
    ASSUME NEW n \in Nat, NEW f, f = [i \in 1..n |-> f[i]]
    PROVE  f \in Seq(ToSet(f)) /\ Len(f) = n /\ DOMAIN f = 1..n
<1>1. DOMAIN f = 1..n /\ \A i \in 1..n : f[i] \in ToSet(f)
  <2>1. DOMAIN f = 1..n
    OBVIOUS
  <2> QED BY <2>1 DEF ToSet
<1> QED
  BY <1>1
-----------------------------------------------------------------------------
(* Division *)

\* The quotient is the number of whole divisors.
LEMMA DivBounds ==
    ASSUME NEW a \in Int, NEW d \in Nat \ {0}
    PROVE  a \div d \in Int /\ (a \div d) * d <= a /\ a < (a \div d) * d + d
OBVIOUS

\* And no other number is.
LEMMA DivUnique ==
    ASSUME NEW a \in Int, NEW d \in Nat \ {0}, NEW q \in Int, q * d <= a, a < q * d + d
    PROVE  a \div d = q
<1> PICK k \in Int : k = a \div d /\ k * d <= a /\ a < k * d + d
  BY DivBounds
<1>1. CASE k < q
  <2>1. q = k + 1 + (q - k - 1) /\ q - k - 1 \in Nat
    BY <1>1
  <2> PICK e \in Nat : e = q - k - 1
    BY <2>1
  <2>2. q * d = k * d + d + e * d
    BY <2>1
  <2>3. e * d >= 0
    OBVIOUS
  <2> QED
    BY <2>2, <2>3
<1>2. CASE k > q
  <2> PICK e \in Nat : e = k - q - 1
    BY <1>2
  <2>2. k * d = q * d + d + e * d
    OBVIOUS
  <2>3. e * d >= 0
    OBVIOUS
  <2> QED
    BY <2>2, <2>3
<1> QED
  BY <1>1, <1>2

\* Rows counted from the top.
LEMMA FromTheTop ==
    ASSUME NEW a \in Int, NEW d \in Nat \ {0}, NEW n \in Int
    PROVE  (n * d + d - a - 1) \div d = n - (a \div d)
<1> PICK k \in Int : k = a \div d /\ k * d <= a /\ a < k * d + d
  BY DivBounds
<1> PICK e \in Int : e = n - k
  OBVIOUS
<1>1. n * d - k * d = e * d
  OBVIOUS
<1> PICK x \in Int : x = n * d
  OBVIOUS
<1> PICK y \in Int : y = k * d
  OBVIOUS
<1> PICK z \in Int : z = e * d
  OBVIOUS
<1>2. z <= x + d - a - 1 /\ x + d - a - 1 < z + d
  BY <1>1
<1> QED
  BY <1>2, DivUnique

\* A distance of n divisors is divided into n.
LEMMA WholeCells ==
    ASSUME NEW n \in Int, NEW d \in Nat \ {0}, NEW a \in Int
    PROVE  (a + n * d - a) \div d = n
<1> PICK x \in Int : x = n * d
  OBVIOUS
<1>1. a + x - a = x /\ n * d <= x /\ x < n * d + d
  OBVIOUS
<1>2. x \div d = n
  BY <1>1, DivUnique
<1> QED
  BY <1>1, <1>2

\* A division in two steps.
LEMMA TwoDivisions ==
    ASSUME NEW a \in Int, NEW d \in Nat \ {0}, NEW e \in Nat \ {0}
    PROVE  (a \div d) \div e = a \div (d * e)
<1> PICK k \in Int : k = a \div d /\ k * d <= a /\ a < k * d + d
  BY DivBounds
<1> PICK l \in Int : l = k \div e /\ l * e <= k /\ k < l * e + e
  BY DivBounds
<1>1. d * e \in Nat \ {0}
  OBVIOUS
<1>2. l * (d * e) <= k * d
  OBVIOUS
<1>3. (k + 1) * d <= (l * e + e) * d
  OBVIOUS
<1>4. (k + 1) * d = k * d + d /\ (l * e + e) * d = l * (d * e) + d * e
  OBVIOUS
<1>5. l * (d * e) <= a /\ a < l * (d * e) + d * e
  BY <1>2, <1>3, <1>4
<1> QED
  BY <1>1, <1>5, DivUnique

\* Of two neighbours one is even.
LEMMA Neighbours ==
    ASSUME NEW k \in Int
    PROVE  (k - 1) % 2 = 0 <=> k % 2 = 1
OBVIOUS

\* The negative of zero.
LEMMA MinusZero == ASSUME NEW z \in Int, 0 <= z, z <= 0 PROVE -z = 0
OBVIOUS

\* What is left over.
LEMMA Leftover ==
    ASSUME NEW t \in Int, NEW d \in Nat \ {0}
    PROVE  t % d = t - (t \div d) * d
OBVIOUS

\* A difference, times a number.
LEMMA Apart ==
    ASSUME NEW p \in Int, NEW q \in Int, NEW d \in Int
    PROVE  (q - p) * d = q * d - p * d
OBVIOUS

\* A number of whole divisors, and the part of a span as a number of its own parts.
LEMMA Multiple ==
    ASSUME NEW d \in Nat \ {0}, NEW e \in Nat \ {0}, e % d = 0
    PROVE  \E b \in Nat \ {0} : e = d * b
<1> PICK b \in Int : b = e \div d /\ b * d <= e /\ e < b * d + d
  BY DivBounds
<1>1. e = b * d
  BY Leftover
<1>2. b > 0
  <2>1. CASE b <= 0
    <3>1. b * d <= 0
      BY <2>1
    <3> QED
      BY <1>1, <3>1
  <2> QED
    BY <2>1
<1>3. b * d = d * b
  OBVIOUS
<1> QED
  BY <1>1, <1>2, <1>3

\* The remainder of a remainder.
LEMMA Nested ==
    ASSUME NEW t \in Int, NEW d \in Nat \ {0}, NEW b \in Nat \ {0}
    PROVE  /\ (t % (d * b)) \div d = (t \div d) - (t \div (d * b)) * b
           /\ (t % (d * b)) % d = t % d
<1> PICK e \in Nat \ {0} : e = d * b
  <2>1. d * b \in Nat \ {0}
    OBVIOUS
  <2> QED
    BY <2>1
<1>1. PICK q \in Int : q = t \div e /\ q * e <= t /\ t < q * e + e
  BY DivBounds
<1>2. PICK p \in Int : p = t \div d /\ p * d <= t /\ t < p * d + d
  BY DivBounds
<1>3. PICK x \in Int : x = q * e
  OBVIOUS
<1>4. PICK y \in Int : y = p * d
  OBVIOUS
<1>5. PICK m \in Int : m = q * b
  OBVIOUS
<1>6. x = m * d
  <2>1. q * (d * b) = (q * b) * d
    OBVIOUS
  <2> QED
    BY ONLY <1>3, <1>5, <2>1, e = d * b
<1>7. PICK k \in Int : k = p - m
  OBVIOUS
<1>8. PICK z \in Int : z = k * d
  OBVIOUS
<1>9. z = y - x
  <2>1. (p - m) * d = p * d - m * d
    OBVIOUS
  <2> QED
    BY <1>4, <1>6, <1>7, <1>8, <2>1
<1>10. PICK r \in Int : r = t % e /\ r = t - x
  <2>1. t % e = t - (t \div e) * e
    BY Leftover
  <2>2. t % e = t - x
    BY ONLY <1>1, <1>3, <2>1
  <2> QED
    BY <2>2
<1>11. r \div d = k
  <2>1. z <= r /\ r < z + d
    BY <1>2, <1>4, <1>9, <1>10
  <2> QED
    BY <1>8, <2>1, DivUnique
<1>12. r % d = r - z /\ t % d = t - y
  <2>1. r % d = r - (r \div d) * d /\ t % d = t - (t \div d) * d
    BY Leftover
  <2> QED
    BY ONLY <1>2, <1>4, <1>8, <1>11, <2>1
<1>13. r % d = t % d
  BY <1>9, <1>10, <1>12
<1> QED
  BY <1>1, <1>2, <1>5, <1>7, <1>10, <1>11, <1>13

\* A later time is in no earlier part.
LEMMA Monotone ==
    ASSUME NEW s \in Int, NEW t \in Int, s <= t, NEW d \in Nat \ {0}
    PROVE  s \div d <= t \div d
<1> PICK p \in Int : p = s \div d /\ p * d <= s /\ s < p * d + d
  BY DivBounds
<1> PICK q \in Int : q = t \div d /\ q * d <= t /\ t < q * d + d
  BY DivBounds
<1>1. CASE q < p
  <2> PICK e \in Nat : p = q + 1 + e
    <3>1. p = q + 1 + (p - q - 1) /\ p - q - 1 \in Nat
      BY <1>1
    <3> QED
      BY <3>1
  <2>1. p * d = q * d + d + e * d /\ e * d >= 0
    OBVIOUS
  <2> QED
    BY <2>1
<1> QED
  BY <1>1

------------------------------------------------------------------------------
(* Folds *)

\* F folds every set of numbers up to N, by its largest.
IsFold(F, State, base, N, op) ==
    /\ F \in [SUBSET (1..N) -> State]
    /\ F = [s \in SUBSET (1..N) |-> IF s = {} THEN base ELSE op[Max(s)][F[s \ {Max(s)}]]]

\* There is such a fold: what FoldLeft is defined by is computed.
LEMMA FoldExists ==
    ASSUME NEW State, NEW base \in State, NEW N \in Nat,
           NEW op \in [1..N -> [State -> State]]
    PROVE  \E F : IsFold(F, State, base, N, op)
<1> DEFINE Body(F, n) ==
               [s \in SUBSET (1..n) |-> IF s = {} THEN base ELSE op[Max(s)][F[s \ {Max(s)}]]]
           Good(F, n) == F \in [SUBSET (1..n) -> State] /\ F = Body(F, n)
           Stuck == {n \in 0..N : ~ \E F : Good(F, n)}
<1>0. \A n \in 0..N : \A s \in SUBSET (1..n) :
         s # {} => Max(s) \in s /\ \A y \in s : y <= Max(s)
  <2> TAKE n \in 0..N
  <2> TAKE s \in SUBSET (1..n)
  <2> HAVE s # {}
  <2>1. s \in SUBSET Int /\ \A x \in s : x <= n
    OBVIOUS
  <2>2. n \in Int
    OBVIOUS
  <2> QED
    BY <2>1, <2>2, MaxOfBounded
<1>1. 0 \notin Stuck
  <2>1. 1..0 = {}
    OBVIOUS
  <2> DEFINE F == [s \in SUBSET (1..0) |-> base]
  <2>2. SUBSET (1..0) = {{}}
    BY <2>1
  <2>3. F \in [SUBSET (1..0) -> State]
    OBVIOUS
  <2>4. F = Body(F, 0)
    BY <2>2
  <2> QED
    BY <2>3, <2>4
<1>2. ASSUME NEW n \in 1..N, n - 1 \in 0..N, n - 1 \notin Stuck
      PROVE  n \notin Stuck
  <2>1. PICK F : Good(F, n - 1)
    BY <1>2
  <2> DEFINE H == [s \in SUBSET (1..n) |->
                      IF n \in s THEN op[n][F[s \ {n}]] ELSE F[s]]
  <2>2. \A s \in SUBSET (1..n) : s \ {n} \in SUBSET (1..n - 1) /\ (n \notin s => s \in SUBSET (1..n - 1))
    OBVIOUS
  <2>3. H \in [SUBSET (1..n) -> State]
    <3>1. op[n] \in [State -> State]
      OBVIOUS
    <3>2. \A s \in SUBSET (1..n - 1) : F[s] \in State
      BY <2>1
    <3> QED
      BY <2>2, <3>1, <3>2
  <2>4. \A s \in SUBSET (1..n) : s # {} => H[s] = op[Max(s)][H[s \ {Max(s)}]]
    <3> TAKE s \in SUBSET (1..n)
    <3> HAVE s # {}
    <3> n \in 0..N /\ n \in 1..n
      OBVIOUS
    <3>1. Max(s) \in s /\ \A y \in s : y <= Max(s)
      BY <1>0
    <3>2. CASE n \in s
      <4>1. Max(s) = n
        <5>1. Max(s) \in 1..n /\ n <= Max(s)
          BY <3>1, <3>2
        <5> QED
          BY <5>1
      <4>2. s \ {n} \in SUBSET (1..n) /\ n \notin s \ {n}
        OBVIOUS
      <4>3. H[s] = op[n][F[s \ {n}]]
        BY <3>2
      <4>4. H[s \ {n}] = F[s \ {n}]
        BY <4>2
      <4> QED
        BY <4>1, <4>3, <4>4
    <3>3. CASE n \notin s
      <4>1. s \in SUBSET (1..n - 1) /\ s \ {Max(s)} \in SUBSET (1..n) /\ n \notin s \ {Max(s)}
        BY <2>2, <3>3
      <4>2. F[s] = op[Max(s)][F[s \ {Max(s)}]]
        <5>1. F = Body(F, n - 1)
          BY <2>1
        <5> QED
          BY <4>1, <5>1
      <4>3. H[s] = F[s] /\ H[s \ {Max(s)}] = F[s \ {Max(s)}]
        BY <3>3, <4>1
      <4> QED
        BY <4>2, <4>3
    <3> QED
      BY <3>2, <3>3
  <2>5. H[{}] = base
    <3>1. {} \in SUBSET (1..n) /\ {} \in SUBSET (1..n - 1) /\ n \notin {}
      OBVIOUS
    <3>2. F = Body(F, n - 1)
      BY <2>1
    <3>3. F[{}] = base
      BY <3>1, <3>2
    <3> QED
      BY <3>1, <3>3
  <2>6. H = Body(H, n)
    <3> DEFINE G == H
    <3>0. DOMAIN G = SUBSET (1..n) /\ G = [s \in SUBSET (1..n) |-> G[s]]
      OBVIOUS
    <3>1. \A s \in SUBSET (1..n) : G[s] = IF s = {} THEN base ELSE op[Max(s)][G[s \ {Max(s)}]]
      <4> HIDE DEF H
      <4> QED
        BY <2>4, <2>5
    <3>2. G = Body(G, n)
      <4> HIDE DEF G
      <4> QED
        BY <3>0, <3>1
    <3> QED
      BY <3>2
  <2> HIDE DEF H
  <2> QED
    BY <2>3, <2>6
<1>3. Stuck = {}
  <2>1. Stuck \in SUBSET (0..N)
    OBVIOUS
  <2> HIDE DEF Stuck
  <2> QED
    BY <1>1, <1>2, <2>1, FirstFailure
<1>4. N \in 0..N /\ N \notin Stuck
  <2>1. N \in 0..N
    OBVIOUS
  <2> HIDE DEF Stuck
  <2> QED
    BY <1>3, <2>1
<1> QED
  BY <1>4 DEF IsFold
==============================================================================
