----------------------------- MODULE ListLemmas ------------------------------
(***************************************************************************)
(* Facts about numbers and sequences that the proofs about queues and      *)
(* lists share: least elements, how many places satisfy a condition, which *)
(* elements a sequence, and a list without repetitions, has after an       *)
(* operation; and induction along a list, with the sums and folds that are *)
(* taken along it.                                                         *)
(***************************************************************************)
EXTENDS Integers, Sequences, FiniteSets, SequencesExt, TLAPS, FiniteSetTheorems,
        WellFoundedInduction

-----------------------------------------------------------------------------
(* Minima and maxima.                                                      *)

\* A non-empty set of numbers has a least element.
LEMMA WellFoundedMinimum ==
    ASSUME NEW S \in SUBSET Nat, S # {}, NEW R, IsWellFoundedOn(R, Nat)
    PROVE  \E x \in S : \A y \in S : ~(<< y, x >> \in R)
<1>1. S \subseteq Nat
  OBVIOUS
<1> QED BY <1>1, WFMin, Zenon

\* A non-empty set of naturals has a least element, which Min picks.
LEMMA MinOfNat ==
    ASSUME NEW S \in SUBSET Nat, S # {}
    PROVE  Min(S) \in S /\ \A y \in S : Min(S) <= y
<1> DEFINE R == OpToRel(<, Nat)
<1>1. IsWellFoundedOn(R, Nat)
  BY NatLessThanWellFounded
<1>2. R = {ss \in Nat \X Nat : ss[1] < ss[2]}
  BY Zenon DEF OpToRel
<1> HIDE DEF R
<1>3. PICK x \in S : \A y \in S : ~(<< y, x >> \in R)
  BY <1>1, WellFoundedMinimum
<1>4. \A y \in S : x <= y
  <2> SUFFICES ASSUME NEW y \in S, y < x PROVE FALSE
    OBVIOUS
  <2>1. << y, x >> \in R
    BY <1>2
  <2> QED BY <2>1, <1>3
<1> QED BY <1>4 DEF Min

\* A non-empty set of naturals below a bound has a greatest one, which Max picks.
LEMMA MaxOfBounded ==
    ASSUME NEW n \in Nat, NEW S \in SUBSET (0 .. n), S # {}
    PROVE  Max(S) \in S /\ \A y \in S : Max(S) >= y
<1> DEFINE T == {n - y : y \in S}
<1>1. T \in SUBSET Nat
  OBVIOUS
<1>2. T # {}
  OBVIOUS
<1>3. Min(T) \in T /\ \A z \in T : Min(T) <= z
  BY <1>1, <1>2, MinOfNat
<1>4. PICK x \in S : Min(T) = n - x
  BY <1>3
<1>5. \A y \in S : x >= y
  <2> SUFFICES ASSUME NEW y \in S PROVE x >= y
    OBVIOUS
  <2>1. n - y \in T
    OBVIOUS
  <2>2. n - x <= n - y
    BY <2>1, <1>3, <1>4
  <2> QED BY <2>2
<1> QED BY <1>5 DEF Max

-----------------------------------------------------------------------------
(* Counting in sequences.                                                  *)

\* A part of an interval of numbers is finite, and has a number of elements.
LEMMA PartOfInterval ==
    ASSUME NEW n \in Nat, NEW I \in SUBSET (1 .. n)
    PROVE  IsFiniteSet(I) /\ Cardinality(I) \in Nat
<1>1. IsFiniteSet(1 .. n) BY FS_Interval
<1> QED BY <1>1, FS_Subset, FS_CardinalityType

\* The places of a sequence without its first element, moved by one.
LEMMA PlacesShift ==
    ASSUME NEW n \in Nat \ {0}, NEW I \in SUBSET (1 .. n)
    PROVE  Cardinality({j \in 1 .. n - 1 : j + 1 \in I})
             = Cardinality(I) - (IF 1 \in I THEN 1 ELSE 0)
<1> DEFINE J == {j \in 1 .. n - 1 : j + 1 \in I}
           K == I \ {1}
           f == [j \in J |-> j + 1]
<1>1. IsFiniteSet(I) /\ IsFiniteSet(K) /\ IsFiniteSet(J)
  <2>1. K \in SUBSET (1 .. n) /\ J \in SUBSET (1 .. n - 1) /\ n - 1 \in Nat OBVIOUS
  <2> QED BY <2>1, PartOfInterval
<1>2. f \in Bijection(J, K)
  <2>1. f \in [J -> K]
    OBVIOUS
  <2>2. \A a, b \in J : f[a] = f[b] => a = b
    OBVIOUS
  <2>3. \A k \in K : \E j \in J : f[j] = k
    <3> TAKE k \in K
    <3>1. k - 1 \in J /\ (k - 1) + 1 = k OBVIOUS
    <3> QED BY <3>1
  <2> HIDE DEF f
  <2>4. f \in Injection(J, K) BY <2>1, <2>2 DEF Injection, IsInjective
  <2>5. f \in Surjection(J, K) BY <2>1, <2>3 DEF Surjection
  <2> QED BY <2>4, <2>5 DEF Bijection
<1>3. Cardinality(K) = Cardinality(J)
  <2>1. ExistsBijection(J, K) BY <1>2 DEF ExistsBijection
  <2> QED BY <2>1, <1>1, FS_Bijection
<1>4. Cardinality(K) = IF 1 \in I THEN Cardinality(I) - 1 ELSE Cardinality(I)
  BY <1>1, FS_RemoveElement
<1>5. Cardinality(I) \in Nat BY PartOfInterval
<1> QED BY <1>3, <1>4, <1>5

\* The elements of a sequence without its first one,
LEMMA TailElements ==
    ASSUME NEW T, NEW s \in Seq(T), s # << >>
    PROVE  /\ Tail(s) \in Seq(T)
           /\ Len(s) \in Nat \ {0} /\ Len(Tail(s)) = Len(s) - 1
           /\ DOMAIN Tail(s) = 1 .. Len(s) - 1
           /\ DOMAIN s = 1 .. Len(s)
           /\ \A i \in 1 .. Len(s) - 1 : Tail(s)[i] = s[i + 1] /\ i + 1 \in DOMAIN s
           /\ Head(s) = s[1] /\ Head(s) \in T
           /\ 1 \in DOMAIN s
OBVIOUS

\* with one more at its end,
LEMMA AppendElements ==
    ASSUME NEW T, NEW s \in Seq(T), NEW e \in T
    PROVE  /\ Append(s, e) \in Seq(T)
           /\ DOMAIN Append(s, e) = 1 .. Len(s) + 1
           /\ DOMAIN s = 1 .. Len(s) /\ Len(s) \in Nat
           /\ \A i \in 1 .. Len(s) : Append(s, e)[i] = s[i]
           /\ Append(s, e)[Len(s) + 1] = e
OBVIOUS

\* and of two sequences one after the other.
LEMMA ConcatElements ==
    ASSUME NEW T, NEW a \in Seq(T), NEW b \in Seq(T)
    PROVE  /\ a \o b \in Seq(T) /\ Len(a \o b) = Len(a) + Len(b)
           /\ \A i \in 1 .. Len(a) : (a \o b)[i] = a[i]
           /\ \A i \in Len(a) + 1 .. Len(a) + Len(b) : (a \o b)[i] = b[i - Len(a)]
OBVIOUS

\* A sequence without its last element,
LEMMA FrontElements ==
    ASSUME NEW T, NEW s \in Seq(T), s # << >>
    PROVE  /\ Front(s) \in Seq(T)
           /\ Len(Front(s)) = Len(s) - 1
           /\ \A i \in 1 .. Len(s) - 1 : Front(s)[i] = s[i]
           /\ Last(s) = s[Len(s)] /\ Last(s) \in T
           /\ Len(s) \in DOMAIN s
<1>1. Len(s) \in Nat /\ Len(s) >= 1
  OBVIOUS
<1>2. \A i \in 1 .. Len(s) : s[i] \in T
  OBVIOUS
<1>3. ASSUME NEW n \in 0 .. Len(s)
      PROVE  /\ SubSeq(s, 1, n) \in Seq(T) /\ Len(SubSeq(s, 1, n)) = n
             /\ \A i \in 1 .. n : SubSeq(s, 1, n)[i] = s[i]
  OBVIOUS
<1>4. Front(s) = SubSeq(s, 1, Len(s) - 1) /\ Last(s) = s[Len(s)]
  BY DEF Front, Last
<1>5. s[Len(s)] \in T /\ Len(s) \in DOMAIN s
  BY <1>1, <1>2
<1>6. Len(s) - 1 \in 0 .. Len(s)
  BY <1>1
<1> QED BY <1>3, <1>4, <1>5, <1>6

\* and with one inserted at place i.
LEMMA InsertElements ==
    ASSUME NEW T, NEW s \in Seq(T), NEW i \in 1 .. Len(s) + 1, NEW e \in T
    PROVE  /\ InsertAt(s, i, e) \in Seq(T)
           /\ Len(InsertAt(s, i, e)) = Len(s) + 1
           /\ InsertAt(s, i, e)[i] = e
           /\ \A j \in 1 .. i - 1 : InsertAt(s, i, e)[j] = s[j]
           /\ \A j \in i + 1 .. Len(s) + 1 : InsertAt(s, i, e)[j] = s[j - 1]
<1> DEFINE a == SubSeq(s, 1, i - 1)
           b == SubSeq(s, i, Len(s))
<1>1. a \in Seq(T) /\ Len(a) = i - 1 /\ \A j \in 1 .. i - 1 : a[j] = s[j]
  OBVIOUS
<1>2. /\ b \in Seq(T) /\ Len(b) = Len(s) - i + 1
      /\ \A j \in 1 .. Len(s) - i + 1 : b[j] = s[i + j - 1]
  OBVIOUS
<1> HIDE DEF a, b
<1>3. InsertAt(s, i, e) = a \o << e >> \o b
  BY DEF InsertAt, a, b
<1> DEFINE c == a \o << e >>
<1>4. /\ c \in Seq(T) /\ Len(c) = i /\ c[i] = e
      /\ \A j \in 1 .. i - 1 : c[j] = s[j]
  BY <1>1
<1> HIDE DEF c
<1>5. InsertAt(s, i, e) = c \o b
  BY <1>3 DEF c
<1>6. /\ c \o b \in Seq(T) /\ Len(c \o b) = Len(s) + 1
      /\ \A j \in 1 .. i : (c \o b)[j] = c[j]
      /\ \A j \in i + 1 .. Len(s) + 1 : (c \o b)[j] = b[j - i]
  <2>1. Len(c) + Len(b) = Len(s) + 1 BY <1>2, <1>4
  <2>2. /\ c \o b \in Seq(T) /\ Len(c \o b) = Len(c) + Len(b)
        /\ \A j \in 1 .. Len(c) : (c \o b)[j] = c[j]
        /\ \A j \in Len(c) + 1 .. Len(c) + Len(b) : (c \o b)[j] = b[j - Len(c)]
    BY <1>2, <1>4, ConcatElements
  <2> QED BY <1>4, <2>1, <2>2
<1>7. i \in 1 .. i /\ (\A j \in 1 .. i - 1 : j \in 1 .. i) OBVIOUS
<1>8. (c \o b)[i] = e /\ \A j \in 1 .. i - 1 : (c \o b)[j] = s[j] BY <1>4, <1>6, <1>7
<1>9. ASSUME NEW j \in i + 1 .. Len(s) + 1 PROVE (c \o b)[j] = s[j - 1]
  <2>1. j - i \in 1 .. Len(s) - i + 1 /\ i + (j - i) - 1 = j - 1 OBVIOUS
  <2> QED BY <2>1, <1>2, <1>6
<1> QED BY <1>5, <1>6, <1>8, <1>9

-----------------------------------------------------------------------------
(* Lists without repetitions.                                              *)

\* A list without repetitions, without its head,
LEMMA TailList ==
    ASSUME NEW T, NEW s \in Seq(T), s # << >>, IsInjective(s)
    PROVE  /\ Tail(s) \in Seq(T) /\ IsInjective(Tail(s)) /\ Head(s) \in T
           /\ Range(Tail(s)) = Range(s) \ {Head(s)} /\ Head(s) \in Range(s)
<1>1. /\ Len(s) \in Nat \ {0} /\ DOMAIN Tail(s) = 1 .. Len(s) - 1 /\ DOMAIN s = 1 .. Len(s)
      /\ \A i \in 1 .. Len(s) - 1 : Tail(s)[i] = s[i + 1] /\ i + 1 \in DOMAIN s
      /\ Head(s) = s[1] /\ 1 \in DOMAIN s /\ Head(s) \in T /\ Tail(s) \in Seq(T)
  BY TailElements
<1>2. IsInjective(Tail(s))
  <2> SUFFICES ASSUME NEW i \in 1 .. Len(s) - 1, NEW j \in 1 .. Len(s) - 1, s[i + 1] = s[j + 1]
               PROVE  i = j
    BY <1>1 DEF IsInjective
  <2>1. i + 1 = j + 1 BY <1>1 DEF IsInjective
  <2> QED BY <2>1
<1>3. Range(Tail(s)) \subseteq Range(s) \ {Head(s)}
  <2> SUFFICES ASSUME NEW i \in 1 .. Len(s) - 1 PROVE s[i + 1] \in Range(s) /\ s[i + 1] # s[1]
    BY <1>1 DEF Range
  <2>1. i + 1 # 1 OBVIOUS
  <2> QED BY <2>1, <1>1 DEF Range, IsInjective
<1>4. Range(s) \ {Head(s)} \subseteq Range(Tail(s))
  <2> SUFFICES ASSUME NEW j \in DOMAIN s, s[j] # s[1] PROVE s[j] \in Range(Tail(s))
    BY <1>1 DEF Range
  <2>1. j - 1 \in 1 .. Len(s) - 1 /\ (j - 1) + 1 = j BY <1>1
  <2>2. Tail(s)[j - 1] = s[j] BY <2>1, <1>1
  <2> QED BY <2>1, <2>2, <1>1 DEF Range
<1> QED BY <1>1, <1>2, <1>3, <1>4 DEF Range

\* with its head moved to its end,
LEMMA RequeueList ==
    ASSUME NEW T, NEW s \in Seq(T), s # << >>, IsInjective(s)
    PROVE  /\ Append(Tail(s), Head(s)) \in Seq(T) /\ IsInjective(Append(Tail(s), Head(s)))
           /\ Range(Append(Tail(s), Head(s))) = Range(s)
<1> DEFINE t == Tail(s)
           h == Head(s)
           u == Append(t, h)
<1>1. t \in Seq(T) /\ IsInjective(t) /\ h \in T /\ Range(t) = Range(s) \ {h} /\ h \in Range(s)
  BY TailList
<1> HIDE DEF t, h
<1>2. /\ u \in Seq(T) /\ DOMAIN u = 1 .. Len(t) + 1 /\ DOMAIN t = 1 .. Len(t) /\ Len(t) \in Nat
      /\ \A i \in 1 .. Len(t) : u[i] = t[i]
      /\ u[Len(t) + 1] = h
  BY <1>1, AppendElements
<1> HIDE DEF u
<1>3. \A i \in DOMAIN u : i \in 1 .. Len(t) \/ i = Len(t) + 1 BY <1>2
<1>4. \A i \in 1 .. Len(t) : t[i] # h BY <1>1, <1>2 DEF Range
<1>5. IsInjective(u) BY <1>1, <1>2, <1>3, <1>4 DEF IsInjective
<1>6. Range(u) = Range(t) \cup {h}
  <2>1. Range(u) \subseteq Range(t) \cup {h} BY <1>2, <1>3 DEF Range
  <2>2. 1 .. Len(t) \subseteq DOMAIN u /\ Len(t) + 1 \in DOMAIN u BY <1>2
  <2>3. Range(t) \subseteq Range(u) /\ h \in Range(u) BY <1>2, <2>2 DEF Range
  <2> QED BY <2>1, <2>3
<1> QED BY <1>1, <1>2, <1>5, <1>6 DEF t, h, u

\* with a new element before the others,
LEMMA PrependList ==
    ASSUME NEW T, NEW s \in Seq(T), NEW c \in T, c \notin Range(s), IsInjective(s)
    PROVE  /\ << c >> \o s \in Seq(T) /\ IsInjective(<< c >> \o s)
           /\ Range(<< c >> \o s) = Range(s) \cup {c}
<1> DEFINE t == << c >> \o s
           n == Len(s)
<1>1. /\ t \in Seq(T) /\ DOMAIN t = 1 .. n + 1 /\ n \in Nat /\ DOMAIN s = 1 .. n
      /\ t[1] = c /\ \A i \in 2 .. n + 1 : t[i] = s[i - 1] /\ i - 1 \in 1 .. n
      /\ \A i \in 1 .. n : t[i + 1] = s[i] /\ i + 1 \in 1 .. n + 1
  OBVIOUS
<1> HIDE DEF t, n
<1>2. \A i \in 1 .. n + 1 : i = 1 \/ i \in 2 .. n + 1 BY <1>1
<1>3. 1 \in 1 .. n + 1 BY <1>1
<1>4. \A i \in 2 .. n + 1 : t[i] # c
  BY <1>1 DEF Range
<1>5. IsInjective(t)
  <2> SUFFICES ASSUME NEW i \in 1 .. n + 1, NEW j \in 1 .. n + 1, t[i] = t[j] PROVE i = j
    BY <1>1 DEF IsInjective
  <2>1. CASE i = 1 \/ j = 1 BY <2>1, <1>1, <1>2, <1>4
  <2>2. CASE i \in 2 .. n + 1 /\ j \in 2 .. n + 1
    <3>1. i - 1 \in DOMAIN s /\ j - 1 \in DOMAIN s /\ s[i - 1] = s[j - 1] BY <2>2, <1>1
    <3>2. i - 1 = j - 1 BY <3>1 DEF IsInjective
    <3> QED BY <3>2, <1>1
  <2> QED BY <2>1, <2>2, <1>2
<1>6. Range(t) = Range(s) \cup {c}
  <2>1. \A i \in DOMAIN t : t[i] \in Range(s) \cup {c} BY <1>1, <1>2 DEF Range
  <2>2. \A i \in DOMAIN s : \E j \in DOMAIN t : t[j] = s[i] BY <1>1
  <2> QED BY <2>1, <2>2, <1>1, <1>3 DEF Range
<1> QED BY <1>1, <1>5, <1>6 DEF t

\* Without one of them, the others move up.
LEMMA RemovePlaces ==
    ASSUME NEW T, NEW s \in Seq(T), NEW c \in Range(s), IsInjective(s)
    PROVE  \E k \in 1 .. Len(s) :
             /\ Len(s) \in Nat /\ s[k] = c
             /\ RemoveFirst(s, c) \in Seq(T) /\ DOMAIN RemoveFirst(s, c) = 1 .. Len(s) - 1
             /\ \A i \in 1 .. Len(s) - 1 : RemoveFirst(s, c)[i] = s[IF i < k THEN i ELSE i + 1]
<1> DEFINE n == Len(s)
<1>1. DOMAIN s = 1 .. n /\ n \in Nat /\ \A i \in 1 .. n : s[i] \in T OBVIOUS
<1>2. PICK k \in 1 .. n : s[k] = c BY <1>1 DEF Range
<1>3. \A i \in 1 .. n : s[i] = c <=> i = k BY <1>1, <1>2 DEF IsInjective
<1>4. RemoveFirst(s, c) = RemoveAt(s, k)
  <2>1. {i \in 1 .. Len(s) : s[i] = c} = {k} BY <1>3
  <2>2. k \in Nat BY <1>1
  <2>3. Min({k}) = k BY <2>2 DEF Min
  <2>4. SelectInSeq(s, LAMBDA v : v = c) = k BY <2>1, <2>3 DEF SelectInSeq
  <2> QED BY <2>4, <1>2 DEF RemoveFirst
<1> DEFINE a == SubSeq(s, 1, k - 1)
           b == SubSeq(s, k + 1, n)
           t == a \o b
<1>5. /\ a \in Seq(T) /\ Len(a) = k - 1 /\ \A i \in 1 .. k - 1 : a[i] = s[i]
  BY <1>1
<1>6. /\ b \in Seq(T) /\ Len(b) = n - k /\ \A i \in 1 .. n - k : b[i] = s[k + i]
  <2>1. /\ b \in Seq(T) /\ Len(b) = n - (k + 1) + 1
        /\ \A i \in 1 .. n - (k + 1) + 1 : b[i] = s[(k + 1) + i - 1]
    OBVIOUS
  <2>2. n - (k + 1) + 1 = n - k /\ \A i \in 1 .. n - k : (k + 1) + i - 1 = k + i BY <1>1
  <2> HIDE DEF b, n
  <2> QED BY <2>1, <2>2
<1> HIDE DEF a, b
<1>7. /\ t \in Seq(T) /\ DOMAIN t = 1 .. n - 1
      /\ \A i \in 1 .. n - 1 : t[i] = s[IF i < k THEN i ELSE i + 1]
  <2>1. t \in Seq(T) /\ Len(t) = n - 1
    <3>1. t \in Seq(T) /\ Len(t) = Len(a) + Len(b) BY <1>5, <1>6, ConcatElements
    <3>2. (k - 1) + (n - k) = n - 1 BY <1>1
    <3> QED BY <3>1, <3>2, <1>5, <1>6
  <2>2. \A i \in 1 .. k - 1 : t[i] = a[i] BY <1>5, <1>6
  <2>3. \A i \in k .. n - 1 : t[i] = b[i - (k - 1)] BY <1>5, <1>6
  <2>4. \A i \in k .. n - 1 : i - (k - 1) \in 1 .. n - k /\ k + (i - (k - 1)) = i + 1 BY <1>1
  <2>5. ASSUME NEW i \in 1 .. n - 1 PROVE t[i] = s[IF i < k THEN i ELSE i + 1]
    <3>1. CASE i < k BY <3>1, <2>2, <1>5
    <3>2. CASE ~(i < k)
      <4>1. i \in k .. n - 1 BY <3>2
      <4>2. t[i] = s[i + 1] BY <4>1, <2>3, <2>4, <1>6
      <4> QED BY <4>2, <3>2
    <3> QED BY <3>1, <3>2
  <2>6. DOMAIN t = 1 .. n - 1 BY <2>1
  <2> QED BY <2>1, <2>5, <2>6
<1>8. RemoveFirst(s, c) = t BY <1>4 DEF RemoveAt, a, b
<1> HIDE DEF t
<1> QED BY <1>1, <1>2, <1>7, <1>8

\* and the others stay in the list.
LEMMA RemoveList ==
    ASSUME NEW T, NEW s \in Seq(T), NEW c \in Range(s), IsInjective(s)
    PROVE  /\ RemoveFirst(s, c) \in Seq(T) /\ IsInjective(RemoveFirst(s, c))
           /\ Range(RemoveFirst(s, c)) = Range(s) \ {c}
<1> DEFINE n == Len(s)
           t == RemoveFirst(s, c)
<1>1. DOMAIN s = 1 .. n /\ n \in Nat OBVIOUS
<1>2. PICK k \in 1 .. n :
        /\ s[k] = c /\ t \in Seq(T) /\ DOMAIN t = 1 .. n - 1
        /\ \A i \in 1 .. n - 1 : t[i] = s[IF i < k THEN i ELSE i + 1]
  BY RemovePlaces
<1>3. \A i \in 1 .. n : s[i] = c <=> i = k BY <1>1, <1>2 DEF IsInjective
<1> DEFINE p(i) == IF i < k THEN i ELSE i + 1
<1>9. \A i \in 1 .. n - 1 : p(i) \in 1 .. n /\ p(i) # k BY <1>1
<1>10. \A i, j \in 1 .. n - 1 : p(i) = p(j) => i = j BY <1>1
<1>11. \A i \in 1 .. n : i # k => \E j \in 1 .. n - 1 : p(j) = i
  <2> SUFFICES ASSUME NEW i \in 1 .. n, i # k PROVE \E j \in 1 .. n - 1 : p(j) = i
    OBVIOUS
  <2>1. CASE i < k
    <3>1. i \in 1 .. n - 1 /\ p(i) = i BY <2>1
    <3> QED BY <3>1
  <2>2. CASE i > k
    <3>1. i - 1 \in 1 .. n - 1 /\ p(i - 1) = i BY <2>2
    <3> QED BY <3>1
  <2> QED BY <2>1, <2>2, <1>1
<1>12. \A i \in 1 .. n - 1 : t[i] = s[p(i)] BY <1>2
<1> HIDE DEF p, t, n
<1>13. IsInjective(t)
  BY <1>1, <1>2, <1>9, <1>10, <1>12 DEF IsInjective
<1>14. Range(t) \subseteq Range(s) \ {c}
  BY <1>1, <1>3, <1>2, <1>9, <1>12 DEF Range
<1>15. Range(s) \ {c} \subseteq Range(t)
  <2> SUFFICES ASSUME NEW i \in 1 .. n, s[i] # c PROVE s[i] \in Range(t)
    BY <1>1 DEF Range
  <2>1. PICK j \in 1 .. n - 1 : p(j) = i BY <1>3, <1>11
  <2>2. t[j] = s[i] BY <2>1, <1>12
  <2> QED BY <2>2, <1>2 DEF Range
<1> QED BY <1>2, <1>13, <1>14, <1>15 DEF t

\* The elements of a set, in some order.
LEMMA OrderOfAll ==
    ASSUME NEW S, IsFiniteSet(S), NEW t \in SetToSeqs(S)
    PROVE  t \in Seq(S) /\ IsInjective(t) /\ Range(t) = S /\ Len(t) = Cardinality(S)
<1>1. Cardinality(S) \in Nat BY FS_CardinalityType
<1>2. t \in [1 .. Cardinality(S) -> S] /\ IsInjective(t) BY DEF SetToSeqs, IsInjective
<1>3. Range(t) = S
  <2> DEFINE n == Cardinality(S)
  <2>1. IsFiniteSet(1 .. n) /\ Cardinality(1 .. n) = n BY <1>1, FS_Interval
  <2>2. t \in Injection(1 .. n, S) BY <1>2 DEF Injection, IsInjective
  <2>3. t \in Surjection(1 .. n, S) BY <2>1, <2>2, FS_Injection
  <2> QED BY <2>3 DEF Surjection, Range
<1> QED BY <1>1, <1>2, <1>3

\* Some of the elements of a list, in some order.
LEMMA OrderOfSome ==
    ASSUME NEW T, NEW s \in Seq(T), NEW S \in SUBSET Range(s), NEW t \in SetToSeqs(S)
    PROVE  t \in Seq(T) /\ IsInjective(t) /\ Range(t) = S
<1>1. IsFiniteSet(S)
  <2>1. IsFiniteSet(1 .. Len(s)) BY FS_Interval
  <2>2. s \in Surjection(1 .. Len(s), Range(s)) BY DEF Surjection, Range
  <2>3. IsFiniteSet(Range(s)) BY <2>1, <2>2, FS_Surjection
  <2> QED BY <2>3, FS_Subset
<1>2. t \in Seq(S) /\ IsInjective(t) /\ Range(t) = S BY <1>1, OrderOfAll
<1>3. S \subseteq T BY DEF Range
<1> QED BY <1>2, <1>3

-----------------------------------------------------------------------------
(* Induction without operators: a set of numbers, or of sets, that holds   *)
(* the first of them and with each the next holds all of them.             *)

\* Numbers from 0 up to n.
LEMMA CountUp ==
    ASSUME NEW n \in Nat, NEW S, 0 \in S,
           \A k \in 0 .. n : k < n /\ k \in S => k + 1 \in S
    PROVE  \A k \in 0 .. n : k \in S
<1> DEFINE Out == {k \in 0 .. n : k \notin S}
<1> SUFFICES ASSUME Out # {} PROVE FALSE
  OBVIOUS
<1>1. Out \in SUBSET Nat
  OBVIOUS
<1>2. Min(Out) \in Out /\ \A y \in Out : Min(Out) <= y
  BY <1>1, MinOfNat
<1> DEFINE k == Min(Out)
<1>3. k \in 0 .. n /\ k \notin S /\ k # 0
  BY <1>2
<1> HIDE DEF k
<1>4. k - 1 \in 0 .. n /\ k - 1 \in S
  <2>1. k - 1 \in 0 .. n
    BY <1>3
  <2>2. k - 1 \notin Out
    BY <1>2, <1>3 DEF k
  <2> QED BY <2>1, <2>2
<1>5. (k - 1) + 1 = k
  BY <1>3
<1> QED BY <1>3, <1>4, <1>5

\* Subsets of a finite set, one element at a time.
LEMMA GrowSet ==
    ASSUME NEW S, IsFiniteSet(S), NEW Q, {} \in Q,
           \A T \in SUBSET S, x \in S : T \in Q /\ x \notin T => T \cup {x} \in Q
    PROVE  S \in Q
<1> DEFINE N == {k \in Nat : \A T \in SUBSET S : Cardinality(T) = k => T \in Q}
<1>1. \A T \in SUBSET S : IsFiniteSet(T) /\ Cardinality(T) \in Nat
  BY FS_Subset, FS_CardinalityType
<1>2. 0 \in N
  BY <1>1, FS_EmptySet
<1>3. \A k \in 0 .. Cardinality(S) : k < Cardinality(S) /\ k \in N => k + 1 \in N
  <2> SUFFICES ASSUME NEW k \in Nat, k \in N, NEW T \in SUBSET S, Cardinality(T) = k + 1
               PROVE  T \in Q
    BY <1>1
  <2>1. T # {}
    <3> HIDE DEF N
    <3>1. Cardinality({}) = 0
      BY FS_EmptySet
    <3>2. k + 1 # 0
      OBVIOUS
    <3> QED BY <3>1, <3>2, Zenon
  <2>2. PICK x \in T : TRUE
    BY <2>1
  <2>3. Cardinality(T \ {x}) = k
    BY <1>1, FS_RemoveElement
  <2>4. T \ {x} \in Q
    BY <2>3
  <2>5. (T \ {x}) \cup {x} = T
    OBVIOUS
  <2> QED BY <2>4, <2>5
<1>4. Cardinality(S) \in N
  <2> HIDE DEF N
  <2> QED BY <1>1, <1>2, <1>3, CountUp
<1> QED BY <1>4

-----------------------------------------------------------------------------
(* Folds.  The folds of the community modules are recursive functions on   *)
(* the subsets of a finite set: those functions exist, and their values    *)
(* are those of a walk along the elements.                                 *)

\* g folds F over the subsets of S, taking c[s] out of s.
FoldsUp(g, S, c, T, base, F) ==
    /\ g \in [SUBSET S -> T]
    /\ \A s \in SUBSET S : g[s] = IF s = {} THEN base ELSE F[<<c[s], g[s \ {c[s]}]>>]

\* A fold up a sequence has a value.
LEMMA FoldExists ==
    ASSUME NEW S, IsFiniteSet(S), NEW c, \A s \in SUBSET S : s # {} => c[s] \in s,
           NEW T, NEW base \in T, NEW F \in [S \X T -> T]
    PROVE  \E g : FoldsUp(g, S, c, T, base, F)
<1> DEFINE D(k) == {s \in SUBSET S : Cardinality(s) <= k}
           Ok(k, g) == /\ g \in [D(k) -> T]
                       /\ \A s \in D(k) : g[s] = IF s = {} THEN base ELSE F[<<c[s], g[s \ {c[s]}]>>]
           N == {k \in Nat : \E g : Ok(k, g)}
<1>1. \A s \in SUBSET S : IsFiniteSet(s) /\ Cardinality(s) \in Nat
  BY FS_Subset, FS_CardinalityType
<1>2. \A s \in SUBSET S : s # {} =>
         /\ c[s] \in S /\ s \ {c[s]} \in SUBSET S
         /\ Cardinality(s \ {c[s]}) = Cardinality(s) - 1
  BY <1>1, FS_RemoveElement
<1>3. 0 \in N
  <2>1. D(0) = {{}}
    BY <1>1, FS_EmptySet
  <2>2. Ok(0, [s \in D(0) |-> base])
    BY <2>1
  <2> QED BY <2>2
<1>4. \A k \in 0 .. Cardinality(S) : k < Cardinality(S) /\ k \in N => k + 1 \in N
  <2> SUFFICES ASSUME NEW k \in Nat, k \in N PROVE k + 1 \in N
    BY <1>1
  <2>1. PICK g : Ok(k, g)
    OBVIOUS
  <2> DEFINE h == [s \in D(k + 1) |-> IF s = {} THEN base ELSE F[<<c[s], g[s \ {c[s]}]>>]]
  <2>2. \A s \in D(k + 1) : s # {} => c[s] \in S /\ s \ {c[s]} \in D(k)
    BY <1>1, <1>2
  <2>3. \A s \in D(k) : s \in D(k + 1) /\ h[s] = g[s]
    <3> SUFFICES ASSUME NEW s \in D(k) PROVE s \in D(k + 1) /\ h[s] = g[s]
      OBVIOUS
    <3>1. s \in SUBSET S /\ Cardinality(s) \in Nat /\ Cardinality(s) <= k
      BY <1>1
    <3>2. s \in D(k + 1)
      BY <3>1
    <3>3. g[s] = IF s = {} THEN base ELSE F[<<c[s], g[s \ {c[s]}]>>]
      BY <2>1
    <3> HIDE DEF D
    <3> QED BY <3>2, <3>3
  <2>4. h \in [D(k + 1) -> T]
    <3> SUFFICES ASSUME NEW s \in D(k + 1), s # {} PROVE F[<<c[s], g[s \ {c[s]}]>>] \in T
      OBVIOUS
    <3>1. g[s \ {c[s]}] \in T
      BY <2>1, <2>2
    <3> HIDE DEF D
    <3> QED BY <2>2, <3>1
  <2>5. \A s \in D(k + 1) : h[s] = IF s = {} THEN base ELSE F[<<c[s], h[s \ {c[s]}]>>]
    BY <2>2, <2>3
  <2>6. Ok(k + 1, h)
    BY <2>4, <2>5
  <2>7. \E x : Ok(k + 1, x)
    <3> HIDE DEF h, Ok
    <3> QED BY <2>6
  <2> HIDE DEF Ok
  <2> QED BY <2>7
<1>5. Cardinality(S) \in N
  <2>1. Cardinality(S) \in Nat
    BY <1>1
  <2>2. \A k \in 0 .. Cardinality(S) : k \in N
    <3> HIDE DEF N
    <3> QED BY <2>1, <1>3, <1>4, CountUp
  <2> HIDE DEF N
  <2> QED BY <2>1, <2>2
<1>6. D(Cardinality(S)) = SUBSET S
  BY <1>1, FS_Subset
<1>7. PICK g : Ok(Cardinality(S), g)
  BY <1>5
<1>8. FoldsUp(g, S, c, T, base, F)
  BY <1>6, <1>7 DEF FoldsUp
<1> QED BY <1>8

\* The last number of an interval, and the interval without it.
LEMMA MaxOfInterval ==
    ASSUME NEW k \in Nat, k # 0
    PROVE  Max(1 .. k) = k /\ (1 .. k) \ {k} = 1 .. (k - 1) /\ 1 .. k # {}
<1>1. k \in 1 .. k
  OBVIOUS
<1>2. Max(1 .. k) \in 1 .. k /\ \A y \in 1 .. k : Max(1 .. k) >= y
  <2>1. 1 .. k \in SUBSET (0 .. k)
    OBVIOUS
  <2> QED BY <2>1, <1>1, MaxOfBounded
<1>3. Max(1 .. k) = k
  BY <1>1, <1>2
<1>4. (1 .. k) \ {k} = 1 .. (k - 1)
  OBVIOUS
<1> QED BY <1>1, <1>3, <1>4

-----------------------------------------------------------------------------
(* Sums over finite sets.                                                  *)

\* g sums h over the subsets of S, in the order in which they are walked.
SumsUp(g, S, h) ==
    \A s \in SUBSET S :
        g[s] = IF s = {} THEN 0
               ELSE LET x == CHOOSE x \in s : TRUE IN h[x] + g[s \ {x}]

\* Such a walk ends in the same sum whichever element is taken out.
LEMMA SumsUpAny ==
    ASSUME NEW S, IsFiniteSet(S), NEW h, \A x \in S : h[x] \in Nat, NEW g, SumsUp(g, S, h)
    PROVE  \A s \in SUBSET S : g[s] \in Nat /\ \A y \in s : g[s] = h[y] + g[s \ {y}]
<1> DEFINE Ok(s) == g[s] \in Nat /\ \A y \in s : g[s] = h[y] + g[s \ {y}]
           N == {k \in Nat : \A s \in SUBSET S : Cardinality(s) <= k => Ok(s)}
<1>1. \A s \in SUBSET S : IsFiniteSet(s) /\ Cardinality(s) \in Nat
  BY FS_Subset, FS_CardinalityType
<1>2. \A s \in SUBSET S : \A x \in s :
         s \ {x} \in SUBSET S /\ Cardinality(s \ {x}) = Cardinality(s) - 1
  BY <1>1, FS_RemoveElement
<1>3. 0 \in N
  <2> SUFFICES ASSUME NEW s \in SUBSET S, Cardinality(s) <= 0 PROVE Ok(s)
    OBVIOUS
  <2>1. s = {}
    BY <1>1, FS_EmptySet
  <2>2. g[s] = 0
    BY <2>1 DEF SumsUp
  <2> QED BY <2>1, <2>2
<1>4. \A k \in 0 .. Cardinality(S) : k < Cardinality(S) /\ k \in N => k + 1 \in N
  <2> HIDE DEF Ok
  <2> SUFFICES ASSUME NEW k \in Nat, k \in N, NEW s \in SUBSET S, Cardinality(s) <= k + 1
               PROVE  Ok(s)
    BY <1>1
  <2> USE DEF Ok
  <2>1. CASE s = {}
    <3>1. g[s] = 0
      BY <2>1 DEF SumsUp
    <3> QED BY <2>1, <3>1
  <2>2. CASE s # {}
    <3> DEFINE x == CHOOSE z \in s : TRUE
    <3>1. x \in s /\ g[s] = h[x] + g[s \ {x}]
      BY <2>2 DEF SumsUp
    <3> HIDE DEF x
    <3>2. \A z \in s : Cardinality(s \ {z}) <= k /\ s \ {z} \in SUBSET S
      BY <1>1, <1>2
    <3>3. \A z \in s : Ok(s \ {z})
      BY <3>2
    <3>4. g[s] \in Nat
      BY <3>1, <3>3
    <3>5. ASSUME NEW y \in s PROVE g[s] = h[y] + g[s \ {y}]
      <4>1. CASE y = x
        BY <4>1, <3>1
      <4>2. CASE y # x
        <5>1. g[s \ {x}] = h[y] + g[(s \ {x}) \ {y}]
          BY <4>2, <3>1, <3>3
        <5>2. g[s \ {y}] = h[x] + g[(s \ {y}) \ {x}]
          BY <4>2, <3>1, <3>3
        <5>3. (s \ {x}) \ {y} = (s \ {y}) \ {x}
          OBVIOUS
        <5>4. g[(s \ {x}) \ {y}] \in Nat
          <6>1. (s \ {x}) \ {y} \in SUBSET S /\ Cardinality((s \ {x}) \ {y}) <= k
            <7>1. s \ {x} \in SUBSET S /\ y \in s \ {x}
              BY <4>2
            <7>2. Cardinality(s \ {x}) \in Nat /\ Cardinality(s \ {x}) <= k
              BY <7>1, <3>1, <3>2, <1>1
            <7>3. /\ (s \ {x}) \ {y} \in SUBSET S
                  /\ Cardinality((s \ {x}) \ {y}) = Cardinality(s \ {x}) - 1
              <8> DEFINE t == s \ {x}
              <8>1. t \in SUBSET S /\ y \in t
                BY <7>1
              <8> HIDE DEF t
              <8>2. t \ {y} \in SUBSET S /\ Cardinality(t \ {y}) = Cardinality(t) - 1
                BY <8>1, <1>2
              <8> QED BY <8>2 DEF t
            <7> QED BY <7>2, <7>3
          <6> QED BY <6>1
        <5>5. h[x] \in Nat /\ h[y] \in Nat
          BY <3>1
        <5> DEFINE G == g[(s \ {x}) \ {y}]
        <5>6. g[s \ {x}] = h[y] + G /\ g[s \ {y}] = h[x] + G /\ G \in Nat
          BY <5>1, <5>2, <5>3, <5>4
        <5> HIDE DEF G
        <5> QED BY <3>1, <5>5, <5>6
      <4> QED BY <4>1, <4>2
    <3> QED BY <3>4, <3>5
  <2> QED BY <2>1, <2>2
<1>5. Cardinality(S) \in N
  <2>1. Cardinality(S) \in Nat
    BY <1>1
  <2>2. \A k \in 0 .. Cardinality(S) : k \in N
    <3> HIDE DEF N
    <3> QED BY <2>1, <1>3, <1>4, CountUp
  <2> HIDE DEF N
  <2> QED BY <2>1, <2>2
<1>6. \A s \in SUBSET S : Cardinality(s) <= Cardinality(S)
  BY FS_Subset
<1> QED BY <1>5, <1>6

\* Two such walks have the same sums.
LEMMA SumsUpOnce ==
    ASSUME NEW S, NEW S2, IsFiniteSet(S), IsFiniteSet(S2), NEW h, NEW h2, NEW g, NEW g2,
           \A x \in S : h[x] \in Nat, \A x \in S2 : h2[x] \in Nat,
           SumsUp(g, S, h), SumsUp(g2, S2, h2),
           NEW U, U \subseteq S, U \subseteq S2, \A x \in U : h[x] = h2[x]
    PROVE  g[U] = g2[U]
<1> DEFINE Q == {s \in SUBSET U : g[s] = g2[s]}
<1>1. IsFiniteSet(U)
  BY FS_Subset
<1>2. {} \in Q
  BY DEF SumsUp
<1>3. \A T \in SUBSET U, x \in U : T \in Q /\ x \notin T => T \cup {x} \in Q
  <2> SUFFICES ASSUME NEW T \in SUBSET U, NEW x \in U, T \in Q, x \notin T
               PROVE  g[T \cup {x}] = g2[T \cup {x}]
    OBVIOUS
  <2>1. (T \cup {x}) \ {x} = T
    OBVIOUS
  <2> DEFINE W == T \cup {x}
  <2>2. g[W] = h[x] + g[W \ {x}]
    <3>1. W \in SUBSET S /\ x \in W
      OBVIOUS
    <3> HIDE DEF W
    <3> QED BY <3>1, SumsUpAny
  <2>3. g2[W] = h2[x] + g2[W \ {x}]
    <3>1. W \in SUBSET S2 /\ x \in W
      OBVIOUS
    <3> HIDE DEF W
    <3> QED BY <3>1, SumsUpAny
  <2> QED BY <2>2, <2>3
<1>4. U \in Q
  <2> HIDE DEF Q
  <2> QED BY <1>1, <1>2, <1>3, GrowSet
<1> QED BY <1>4

\* The same, as a function.
SumWalk(g, S, h) ==
    g = [s \in SUBSET S |->
            IF s = {} THEN 0 ELSE LET x == CHOOSE x \in s : TRUE IN h[x] + g[s \ {x}]]

\* Sums up a list exist.
LEMMA SumsUpExists ==
    ASSUME NEW S, IsFiniteSet(S), NEW h, \A x \in S : h[x] \in Nat
    PROVE  \E g : SumWalk(g, S, h)
<1> DEFINE c == [s \in SUBSET S |-> CHOOSE x \in s : TRUE]
           F == [p \in S \X Nat |-> h[p[1]] + p[2]]
<1>1. \A s \in SUBSET S : s # {} => c[s] \in s
  OBVIOUS
<1>2. F \in [S \X Nat -> Nat]
  OBVIOUS
<1>3. PICK g : FoldsUp(g, S, c, Nat, 0, F)
  <2> HIDE DEF c, F
  <2>1. 0 \in Nat
    OBVIOUS
  <2> QED BY <1>1, <1>2, <2>1, FoldExists
<1>4. \A s \in SUBSET S : s # {} => 
          LET x == CHOOSE x \in s : TRUE IN F[<<c[s], g[s \ {c[s]}]>>] = h[x] + g[s \ {x}]
  <2> SUFFICES ASSUME NEW s \in SUBSET S, s # {}
               PROVE  LET x == CHOOSE x \in s : TRUE IN F[<<c[s], g[s \ {c[s]}]>>] = h[x] + g[s \ {x}]
    OBVIOUS
  <2> DEFINE x == CHOOSE x \in s : TRUE
  <2>1. c[s] = x
    OBVIOUS
  <2>2. x \in S
    BY <1>1, <2>1
  <2> HIDE DEF x, c
  <2>3. g[s \ {x}] \in Nat
    BY <1>3 DEF FoldsUp
  <2> QED BY <2>1, <2>2, <2>3 DEF x
<1>5. SumWalk(g, S, h)
  <2> HIDE DEF c, F
  <2> QED BY <1>3, <1>4 DEF FoldsUp, SumWalk
<1> QED BY <1>5

\* A sum over a set is where the walk over it ends.
LEMMA SumIsWalk ==
    ASSUME NEW S, IsFiniteSet(S), NEW h, \A x \in S : h[x] \in Nat
    PROVE  \E g : SumsUp(g, S, h) /\ SumFunctionOnSet(h, S) = g[S]
<1> DEFINE E(g) == SumWalk(g, S, h)
<1>1. SumFunctionOnSet(h, S) = (CHOOSE g : E(g))[S]
  BY Zenon DEF SumFunctionOnSet, FoldFunctionOnSet, MapThenFoldSet, SumWalk
<1>2. \E g : E(g)
  BY SumsUpExists
<1>3. E(CHOOSE g : E(g))
  <2> HIDE DEF E
  <2> QED BY <1>2
<1> DEFINE g == CHOOSE g : E(g)
<1>4. SumsUp(g, S, h)
  <2>1. E(g)
    BY <1>3
  <2> HIDE DEF g
  <2> QED BY <2>1 DEF SumsUp, SumWalk
<1> QED BY <1>1, <1>4

\* The sum over the list of a set is the sum over the set.
LEMMA SumsUpIsSum ==
    ASSUME NEW S, IsFiniteSet(S), NEW h, \A x \in S : h[x] \in Nat, NEW g, SumsUp(g, S, h)
    PROVE  g[S] = SumFunctionOnSet(h, S)
BY SumIsWalk, SumsUpOnce

\* The sum over no elements is 0.
LEMMA SumOfNone == ASSUME NEW h PROVE SumFunctionOnSet(h, {}) = 0
<1>1. IsFiniteSet({})
  BY FS_EmptySet
<1>2. PICK g : SumsUp(g, {}, h) /\ SumFunctionOnSet(h, {}) = g[{}]
  BY <1>1, SumIsWalk
<1> QED BY <1>2 DEF SumsUp

\* A sum of numbers is one.
LEMMA SumIsNat ==
    ASSUME NEW S, IsFiniteSet(S), NEW h, \A x \in S : h[x] \in Nat
    PROVE  SumFunctionOnSet(h, S) \in Nat
BY SumIsWalk, SumsUpAny

\* One element more, or taken out.
LEMMA SumAdd ==
    ASSUME NEW S, IsFiniteSet(S), NEW y \in S, NEW h, \A x \in S : h[x] \in Nat
    PROVE  SumFunctionOnSet(h, S) = h[y] + SumFunctionOnSet(h, S \ {y})
<1>1. PICK g : SumsUp(g, S, h) /\ SumFunctionOnSet(h, S) = g[S]
  BY SumIsWalk
<1>2. IsFiniteSet(S \ {y})
  BY FS_Subset
<1>3. PICK g2 : SumsUp(g2, S \ {y}, h) /\ SumFunctionOnSet(h, S \ {y}) = g2[S \ {y}]
  BY <1>2, SumIsWalk
<1>4. g[S \ {y}] = g2[S \ {y}]
  BY <1>1, <1>2, <1>3, SumsUpOnce
<1>5. g[S] = h[y] + g[S \ {y}]
  BY <1>1, SumsUpAny
<1> QED BY <1>1, <1>3, <1>4, <1>5

\* Sums of equal terms are equal.
LEMMA SumOfSame ==
    ASSUME NEW S, IsFiniteSet(S), NEW h, NEW h2, \A x \in S : h[x] \in Nat /\ h2[x] = h[x]
    PROVE  SumFunctionOnSet(h2, S) = SumFunctionOnSet(h, S)
<1>1. PICK g : SumsUp(g, S, h) /\ SumFunctionOnSet(h, S) = g[S]
  BY SumIsWalk
<1>2. PICK g2 : SumsUp(g2, S, h2) /\ SumFunctionOnSet(h2, S) = g2[S]
  BY SumIsWalk
<1> QED BY <1>1, <1>2, SumsUpOnce

\* The sum over one element.
LEMMA SumOfOne ==
    ASSUME NEW y, NEW h, h[y] \in Nat
    PROVE  SumFunctionOnSet(h, {y}) = h[y]
<1>1. IsFiniteSet({y})
  BY FS_Singleton
<1>2. {y} \ {y} = {}
  OBVIOUS
<1> QED BY <1>1, <1>2, SumAdd, SumOfNone

\* Where only one summand changes.
LEMMA SumChangesAt ==
    ASSUME NEW S, IsFiniteSet(S), NEW h, NEW h2, NEW y \in S,
           \A x \in S : h[x] \in Nat /\ h2[x] \in Nat,
           \A x \in S \ {y} : h2[x] = h[x]
    PROVE  SumFunctionOnSet(h2, S) + h[y] = SumFunctionOnSet(h, S) + h2[y]
<1>1. IsFiniteSet(S \ {y})
  BY FS_Subset
<1>2. SumFunctionOnSet(h2, S \ {y}) = SumFunctionOnSet(h, S \ {y})
  BY <1>1, SumOfSame
<1>3. SumFunctionOnSet(h, S \ {y}) \in Nat
  BY <1>1, SumIsNat
<1>4. SumFunctionOnSet(h, S) = h[y] + SumFunctionOnSet(h, S \ {y})
  BY SumAdd
<1>5. SumFunctionOnSet(h2, S) = h2[y] + SumFunctionOnSet(h2, S \ {y})
  BY SumAdd
<1> QED BY <1>2, <1>3, <1>4, <1>5

\* The sums of two disjoint sets.
LEMMA SumOfUnion ==
    ASSUME NEW S, NEW U, IsFiniteSet(S), IsFiniteSet(U), S \cap U = {},
           NEW h, \A x \in S \cup U : h[x] \in Nat
    PROVE  SumFunctionOnSet(h, S \cup U) = SumFunctionOnSet(h, S) + SumFunctionOnSet(h, U)
<1> DEFINE Q == {T \in SUBSET U : SumFunctionOnSet(h, S \cup T)
                                  = SumFunctionOnSet(h, S) + SumFunctionOnSet(h, T)}
<1>1. {} \in Q
  <2>1. S \cup {} = S
    OBVIOUS
  <2>2. SumFunctionOnSet(h, S) \in Nat
    BY SumIsNat
  <2> QED BY <2>1, <2>2, SumOfNone
<1>2. \A T \in SUBSET U, x \in U : T \in Q /\ x \notin T => T \cup {x} \in Q
  <2> SUFFICES ASSUME NEW T \in SUBSET U, NEW x \in U, T \in Q, x \notin T PROVE T \cup {x} \in Q
    OBVIOUS
  <2> DEFINE V == S \cup (T \cup {x})
  <2>1. IsFiniteSet(T) /\ IsFiniteSet(T \cup {x}) /\ IsFiniteSet(V)
    <3>1. IsFiniteSet(T) /\ IsFiniteSet(T \cup {x})
      BY FS_Subset
    <3> QED BY <3>1, FS_Union
  <2>2. V \ {x} = S \cup T /\ x \in V /\ (T \cup {x}) \ {x} = T
    OBVIOUS
  <2>3. \A z \in V : h[z] \in Nat
    OBVIOUS
  <2>4. SumFunctionOnSet(h, V) = h[x] + SumFunctionOnSet(h, S \cup T)
    <3> HIDE DEF V
    <3> QED BY <2>1, <2>2, <2>3, SumAdd
  <2>5. SumFunctionOnSet(h, T \cup {x}) = h[x] + SumFunctionOnSet(h, T)
    <3> DEFINE W == T \cup {x}
    <3>1. x \in W /\ W \ {x} = T /\ IsFiniteSet(W) /\ \A z \in W : h[z] \in Nat
      BY <2>1, <2>2
    <3> HIDE DEF W
    <3>2. SumFunctionOnSet(h, W) = h[x] + SumFunctionOnSet(h, T)
      BY <3>1, SumAdd
    <3> QED BY <3>2 DEF W
  <2>6. SumFunctionOnSet(h, T) \in Nat /\ SumFunctionOnSet(h, S) \in Nat /\ h[x] \in Nat
    BY <2>1, SumIsNat
  <2>7. SumFunctionOnSet(h, S \cup T) = SumFunctionOnSet(h, S) + SumFunctionOnSet(h, T)
    OBVIOUS
  <2> QED BY <2>4, <2>5, <2>6, <2>7
<1>3. U \in Q
  <2> HIDE DEF Q
  <2> QED BY <1>1, <1>2, GrowSet
<1> QED BY <1>3

-----------------------------------------------------------------------------
(* Functions that are defined from 0 up.                                   *)

\* g has the value base at 0, and each value up to n got from the one before.
StepsUp(g, n, base, F) == g[0] = base /\ \A i \in 1 .. n : g[i] = F[<<i, g[i - 1]>>]

\* There is a function whose value at each number is got from the one before.
LEMMA StepsExist ==
    ASSUME NEW n \in Nat, NEW T, NEW base \in T, NEW F \in [(1 .. n) \X T -> T]
    PROVE  \E g \in [0 .. n -> T] : StepsUp(g, n, base, F)
<1> DEFINE S == {k \in 0 .. n : \E g \in [0 .. k -> T] : StepsUp(g, k, base, F)}
<1>1. 0 \in S
  <2> DEFINE g == [i \in 0 .. 0 |-> base]
  <2>1. g \in [0 .. 0 -> T] /\ StepsUp(g, 0, base, F)
    BY DEF StepsUp
  <2> HIDE DEF g
  <2> QED BY <2>1
<1>2. \A k \in 0 .. n : k < n /\ k \in S => k + 1 \in S
  <2> SUFFICES ASSUME NEW k \in 0 .. n, k < n, k \in S PROVE k + 1 \in S
    OBVIOUS
  <2>1. PICK g \in [0 .. k -> T] : StepsUp(g, k, base, F)
    OBVIOUS
  <2> DEFINE h == [i \in 0 .. (k + 1) |-> IF i <= k THEN g[i] ELSE F[<<k + 1, g[k]>>]]
  <2>2. g[k] \in T /\ k + 1 \in 1 .. n
    BY <2>1
  <2>3. <<k + 1, g[k]>> \in (1 .. n) \X T
    BY <2>2
  <2>6. F[<<k + 1, g[k]>>] \in T
    BY <2>3
  <2>4. h \in [0 .. (k + 1) -> T]
    BY <2>1, <2>6
  <2>5. StepsUp(h, k + 1, base, F)
    <3>1. h[0] = base
      BY <2>1 DEF StepsUp
    <3>2. ASSUME NEW i \in 1 .. (k + 1) PROVE h[i] = F[<<i, h[i - 1]>>]
      <4>1. CASE i <= k
        BY <2>1, <4>1 DEF StepsUp
      <4>2. CASE i = k + 1
        BY <2>1, <4>2 DEF StepsUp
      <4> QED BY <4>1, <4>2
    <3> QED BY <3>1, <3>2 DEF StepsUp
  <2> HIDE DEF h
  <2> QED BY <2>2, <2>4, <2>5
<1>3. n \in S
  <2> HIDE DEF S
  <2> QED BY <1>1, <1>2, CountUp
<1> QED BY <1>3
=============================================================================
