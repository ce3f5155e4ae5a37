---------------------------- MODULE BasicProofs ----------------------------
(***************************************************************************)
(* Lemmas that the proofs about several components cite: induction up to a  *)
(* bound, least and greatest elements, functions and sequences defined by   *)
(* recursion, places in an order, counters that wrap around, and the words  *)
(* of the machine.                                                          *)
(***************************************************************************)
EXTENDS Pdp8Words, Ordering, Integers, Sequences, SequencesExt, SequenceTheorems,
        FiniteSetTheorems, WellFoundedInduction, TLAPS

-----------------------------------------------------------------------------
(* Induction.  A set stands for the predicate.                              *)

\* The least element of a set of naturals, as a well-founded order gives it.
LEMMA HasLeast ==
  ASSUME NEW S \in SUBSET Nat, S # {}
  PROVE  \E n \in S : \A m \in S : n <= m
<1> DEFINE R == OpToRel(<, Nat)
<1>1. \A a, b \in Nat : a < b => <<a, b>> \in R
  BY DEF OpToRel
<1>2. IsWellFoundedOn(R, Nat)
  BY NatLessThanWellFounded
<1> HIDE DEF R
<1>3. PICK n \in S : \A m \in S : <<m, n>> \notin R
  BY <1>2, WFMin
<1>4. \A m \in S : ~(m < n)
  BY <1>1, <1>3
<1> QED
  BY <1>4

\* What contains zero and every successor up to n contains all of 0 .. n.
LEMMA UpTo ==
  ASSUME NEW n \in Nat, NEW P, 0 \in P, \A k \in 0 .. n - 1 : k \in P => k + 1 \in P
  PROVE  0 .. n \subseteq P
<1> DEFINE T == {k \in 0 .. n : k \notin P}
<1> SUFFICES ASSUME T # {} PROVE FALSE
  OBVIOUS
<1>1. PICK k \in T : \A m \in T : k <= m
  <2>1. T \in SUBSET Nat
    OBVIOUS
  <2> HIDE DEF T
  <2> QED
    BY <2>1, HasLeast
<1>2. k # 0 /\ k - 1 \in 0 .. n - 1
  OBVIOUS
<1>3. k - 1 \notin T
  BY <1>1, <1>2
<1> QED
  BY <1>2, <1>3

LEMMA LeastOf ==
  ASSUME NEW S \in SUBSET Nat, S # {}
  PROVE  Min(S) \in S /\ \A y \in S : Min(S) <= y
  BY HasLeast DEF Min

\* A bounded set of naturals has a greatest element.
LEMMA GreatestOfBounded ==
  ASSUME NEW S \in SUBSET Nat, S # {}, NEW bound \in Nat, \A x \in S : x < bound
  PROVE  Max(S) \in S /\ \A y \in S : Max(S) >= y
<1> DEFINE T == {n \in Nat : bound - n \in S}
<1>1. T # {}
  <2>1. PICK x \in S : TRUE
    OBVIOUS
  <2>2. bound - x \in Nat /\ bound - (bound - x) = x
    BY <2>1
  <2> QED
    BY <2>1, <2>2
<1>2. PICK n \in T : \A m \in T : n <= m
  BY <1>1, HasLeast
<1>3. \A m \in T : ~(m < n)
  BY <1>2
<1>4. bound - n \in S
  OBVIOUS
<1>5. \A y \in S : bound - n >= y
  <2> TAKE y \in S
  <2>1. bound - y \in Nat /\ bound - (bound - y) = y
    OBVIOUS
  <2>2. bound - y \in T
    BY <2>1
  <2> QED
    BY <1>3, <2>1, <2>2
<1> QED
  BY <1>4, <1>5 DEF Max

-----------------------------------------------------------------------------
(* Functions defined by recursion.                                          *)

IsIterate(f, n, c, g) == f[0] = c /\ \A k \in 1 .. n : f[k] = g[k][f[k - 1]]

\* Starting from c, the k-th step taking s to g[k][s].
LEMMA IterateExists ==
  ASSUME NEW S, NEW c \in S, NEW n \in Nat, NEW g \in [1 .. n -> [S -> S]]
  PROVE  \E f \in [0 .. n -> S] : IsIterate(f, n, c, g)
<1> DEFINE P == {k \in 0 .. n : \E f \in [0 .. k -> S] : IsIterate(f, k, c, g)}
<1>1. 0 \in P
  <2>1. [k \in 0 .. 0 |-> c] \in [0 .. 0 -> S] /\ IsIterate([k \in 0 .. 0 |-> c], 0, c, g)
    BY DEF IsIterate
  <2> QED
    BY <2>1
<1>2. ASSUME NEW k \in 0 .. n - 1, k \in P PROVE k + 1 \in P
  <2>1. PICK f \in [0 .. k -> S] : IsIterate(f, k, c, g)
    BY <1>2
  <2>2. k \in Nat /\ k + 1 \in 1 .. n /\ k \in 0 .. k /\ g[k + 1] \in [S -> S]
    OBVIOUS
  <2> DEFINE h == [i \in 0 .. k + 1 |-> IF i = k + 1 THEN g[k + 1][f[k]] ELSE f[i]]
  <2>3. h \in [0 .. k + 1 -> S]
    <3>1. \A i \in 0 .. k + 1 : i # k + 1 => i \in 0 .. k
      BY <2>2
    <3> QED
      BY <2>2, <3>1
  <2>4. h[0] = c
    BY <2>1, <2>2 DEF IsIterate
  <2>5. ASSUME NEW i \in 1 .. k + 1 PROVE h[i] = g[i][h[i - 1]]
    <3>1. i \in 0 .. k + 1 /\ i - 1 \in 0 .. k + 1 /\ i - 1 # k + 1 /\ i - 1 \in 0 .. k
      BY <2>2
    <3>2. h[i - 1] = f[i - 1]
      BY <3>1
    <3>3. CASE i = k + 1
      <4>1. h[i] = g[k + 1][f[k]] /\ i - 1 = k
        BY <2>2, <3>1, <3>3
      <4> HIDE DEF h
      <4> QED
        BY <3>2, <3>3, <4>1
    <3>4. CASE i # k + 1
      <4>1. h[i] = f[i] /\ i \in 1 .. k
        BY <2>2, <3>1, <3>4
      <4> HIDE DEF h
      <4> QED
        BY <2>1, <3>2, <4>1 DEF IsIterate
    <3> QED
      BY <3>3, <3>4
  <2> HIDE DEF h
  <2>6. IsIterate(h, k + 1, c, g)
    BY <2>4, <2>5 DEF IsIterate
  <2> QED
    BY <2>2, <2>3, <2>6
<1> HIDE DEF P
<1>3. 0 .. n \subseteq P
  BY <1>1, <1>2, UpTo
<1>4. n \in P
  BY <1>3
<1> QED
  BY <1>4 DEF P

LEMMA IterateUnique ==
  ASSUME NEW n \in Nat, NEW c, NEW g, NEW f, NEW h, IsIterate(f, n, c, g), IsIterate(h, n, c, g)
  PROVE  \A k \in 0 .. n : f[k] = h[k]
<1> DEFINE P == {k \in 0 .. n : f[k] = h[k]}
<1>1. 0 \in P
  BY DEF IsIterate
<1>2. ASSUME NEW k \in 0 .. n - 1, k \in P PROVE k + 1 \in P
  <2>1. k + 1 \in 1 .. n /\ k + 1 \in 0 .. n /\ (k + 1) - 1 = k /\ f[k] = h[k]
    BY <1>2
  <2> QED
    BY <2>1 DEF IsIterate
<1> HIDE DEF P
<1>3. 0 .. n \subseteq P
  BY <1>1, <1>2, UpTo
<1> QED
  BY <1>3 DEF P

\* Sequences put one after the other: what the first k of them make.
Joins(f, s) ==
  /\ f[0] = <<>>
  /\ \A k \in 1 .. Len(s) : f[k] = f[k - 1] \o s[k]

LEMMA JoinsExists ==
  ASSUME NEW S, NEW s \in Seq(Seq(S))
  PROVE  \E f \in [0 .. Len(s) -> Seq(S)] : Joins(f, s)
<1> DEFINE n == Len(s)
           g == [k \in 1 .. n |-> [x \in Seq(S) |-> x \o s[k]]]
<1>1. n \in Nat /\ <<>> \in Seq(S)
  OBVIOUS
<1>2. g \in [1 .. n -> [Seq(S) -> Seq(S)]]
  OBVIOUS
<1>3. PICK f \in [0 .. n -> Seq(S)] : IsIterate(f, n, <<>>, g)
  <2> HIDE DEF n, g
  <2> QED
    BY <1>1, <1>2, IterateExists
<1>4. ASSUME NEW k \in 1 .. n PROVE f[k] = f[k - 1] \o s[k]
  <2>1. \A x \in Seq(S) : g[k][x] = x \o s[k]
    OBVIOUS
  <2> HIDE DEF n, g
  <2>2. f[k] = g[k][f[k - 1]] /\ k - 1 \in 0 .. n
    BY <1>1, <1>3 DEF IsIterate
  <2> QED
    BY <1>3, <2>1, <2>2
<1> QED
  BY <1>3, <1>4 DEF IsIterate, Joins

LEMMA FlattenJoins ==
  ASSUME NEW S, NEW s \in Seq(Seq(S)), NEW f \in [0 .. Len(s) -> Seq(S)], Joins(f, s)
  PROVE  FlattenSeq(s) = f[Len(s)]
<1> DEFINE n == Len(s)
           fl == CHOOSE h : h = [i \in 1 .. n |-> IF i = 1 THEN s[i] ELSE h[i - 1] \o s[i]]
<1>1. FlattenSeq(s) = IF n = 0 THEN s ELSE fl[n]
  BY DEF FlattenSeq
<1>2. PICK e \in [0 .. n -> Seq(S)] : Joins(e, s)
  BY JoinsExists
<1>3. fl = [i \in 1 .. n |-> IF i = 1 THEN s[i] ELSE fl[i - 1] \o s[i]]
  <2> DEFINE h == [i \in 1 .. n |-> e[i]]
  <2>1. ASSUME NEW i \in 1 .. n PROVE h[i] = IF i = 1 THEN s[i] ELSE h[i - 1] \o s[i]
    <3>1. CASE i = 1
      <4>1. 1 \in 1 .. Len(s) /\ 1 - 1 = 0 /\ s[1] \in Seq(S)
        BY <3>1
      <4>2. e[1] = <<>> \o s[1]
        BY <1>2, <4>1 DEF Joins
      <4> QED
        BY <3>1, <4>1, <4>2
    <3>2. CASE i # 1
      <4>1. i - 1 \in 1 .. n /\ h[i - 1] = e[i - 1]
        BY <3>2
      <4> QED
        BY <1>2, <3>2, <4>1 DEF Joins
    <3> QED
      BY <3>1, <3>2
  <2>2. h = [i \in 1 .. n |-> IF i = 1 THEN s[i] ELSE h[i - 1] \o s[i]]
    BY <2>1
  <2> HIDE DEF h
  <2> QED
    BY <2>2
<1>4. CASE n = 0
  BY <1>1, <1>4 DEF Joins
<1>5. CASE n # 0
  <2> DEFINE P == {k \in 0 .. n : k # 0 => fl[k] = f[k]}
  <2>1. ASSUME NEW k \in 1 .. n PROVE fl[k] = IF k = 1 THEN s[k] ELSE fl[k - 1] \o s[k]
    BY <1>3
  <2>2. n \in Nat /\ n \in 0 .. n
    OBVIOUS
  <2>3. ASSUME NEW k \in 1 .. n
        PROVE  /\ f[k] = f[k - 1] \o s[k] /\ f[0] = <<>>
               /\ s[k] \in Seq(S) /\ s[k] = <<>> \o s[k]
    <3>1. f[k] = f[k - 1] \o s[k] /\ f[0] = <<>>
      BY DEF Joins
    <3>2. s[k] \in Seq(S)
      OBVIOUS
    <3>3. s[k] = <<>> \o s[k]
      BY <3>2
    <3> QED
      BY <3>1, <3>2, <3>3
  <2> HIDE DEF fl, n
  <2>4. 0 \in P
    BY <2>2
  <2>5. ASSUME NEW k \in 0 .. n - 1, k \in P PROVE k + 1 \in P
    <3>1. k + 1 \in 1 .. n /\ k + 1 \in 0 .. n /\ (k + 1) - 1 = k
      BY <2>2
    <3>2. fl[k + 1] = IF k + 1 = 1 THEN s[k + 1] ELSE fl[k] \o s[k + 1]
      BY <2>1, <3>1
    <3>3. f[k + 1] = f[k] \o s[k + 1] /\ f[0] = <<>> /\ s[k + 1] = <<>> \o s[k + 1]
      BY <2>3, <3>1
    <3>4. fl[k + 1] = f[k + 1]
      <4>1. CASE k = 0
        <5>1. fl[k + 1] = s[k + 1]
          BY <3>2, <4>1
        <5> QED
          BY <3>3, <4>1, <5>1, Zenon
      <4>2. CASE k # 0
        <5>1. k + 1 # 1
          BY <4>2
        <5>2. fl[k + 1] = fl[k] \o s[k + 1]
          BY <3>2, <5>1, Zenon
        <5>3. fl[k] = f[k]
          BY <2>5, <4>2
        <5> QED
          BY <3>3, <5>2, <5>3, Zenon
      <4> QED
        BY <4>1, <4>2
    <3> QED
      BY <3>1, <3>4
  <2> HIDE DEF P
  <2>6. 0 .. n \subseteq P
    BY <2>2, <2>4, <2>5, UpTo
  <2>7. n \in P
    BY <2>2, <2>6
  <2> QED
    BY <1>1, <1>5, <2>7 DEF P, n
<1> QED
  BY <1>4, <1>5

LEMMA FlattenIsSeq ==
  ASSUME NEW S, NEW s \in Seq(Seq(S))
  PROVE  FlattenSeq(s) \in Seq(S)
<1>1. PICK f \in [0 .. Len(s) -> Seq(S)] : Joins(f, s)
  BY JoinsExists
<1>2. FlattenSeq(s) = f[Len(s)]
  BY <1>1, FlattenJoins
<1> QED
  BY <1>2

\* One more sequence at the end.
LEMMA FlattenExtended ==
  ASSUME NEW S, NEW s \in Seq(Seq(S)), NEW t \in Seq(Seq(S)), Len(t) = Len(s) + 1,
         \A i \in 1 .. Len(s) : t[i] = s[i]
  PROVE  FlattenSeq(t) = FlattenSeq(s) \o t[Len(t)]
<1>1. PICK f \in [0 .. Len(t) -> Seq(S)] : Joins(f, t)
  BY JoinsExists
<1> DEFINE h == [k \in 0 .. Len(s) |-> f[k]]
<1>2. Len(s) \in Nat /\ Len(t) \in Nat
  OBVIOUS
<1>3. h \in [0 .. Len(s) -> Seq(S)]
  BY <1>2
<1>4. Joins(h, s)
  <2>1. h[0] = <<>>
    BY <1>1, <1>2 DEF Joins
  <2>2. ASSUME NEW k \in 1 .. Len(s) PROVE h[k] = h[k - 1] \o s[k]
    <3>1. k \in 1 .. Len(t) /\ k \in 0 .. Len(s) /\ k - 1 \in 0 .. Len(s)
      BY <1>2
    <3>2. h[k] = f[k] /\ h[k - 1] = f[k - 1] /\ t[k] = s[k]
      BY <3>1
    <3> QED
      BY <1>1, <3>1, <3>2, Zenon DEF Joins
  <2> HIDE DEF h
  <2> QED
    BY <2>1, <2>2 DEF Joins
<1>5. FlattenSeq(t) = f[Len(t)]
  BY <1>1, FlattenJoins
<1>6. f[Len(t)] = f[Len(s)] \o t[Len(t)]
  <2>1. Len(t) \in 1 .. Len(t) /\ Len(t) - 1 = Len(s)
    BY <1>2
  <2> QED
    BY <1>1, <2>1 DEF Joins
<1>7. h[Len(s)] = f[Len(s)]
  BY <1>2
<1> HIDE DEF h
<1>8. FlattenSeq(s) = h[Len(s)]
  BY <1>3, <1>4, FlattenJoins
<1> QED
  BY <1>5, <1>6, <1>7, <1>8

\* Nothing is lost on the way.
LEMMA FlattenHolds ==
  ASSUME NEW S, NEW s \in Seq(Seq(S)), NEW i \in 1 .. Len(s), NEW j \in 1 .. Len(s[i])
  PROVE  \E m \in 1 .. Len(FlattenSeq(s)) : FlattenSeq(s)[m] = s[i][j]
<1>1. PICK f \in [0 .. Len(s) -> Seq(S)] : Joins(f, s)
  BY JoinsExists
<1> DEFINE n == Len(s)
           P == {k \in 0 .. n : k >= i => \E m \in 1 .. Len(f[k]) : f[k][m] = s[i][j]}
<1>2. n \in Nat /\ n >= i /\ i >= 1 /\ i \in Nat /\ n = Len(s)
  OBVIOUS
<1>3. s[i] \in Seq(S) /\ j \in Nat
  OBVIOUS
<1> HIDE DEF n
<1>4. 0 \in P
  BY <1>2
<1>5. ASSUME NEW k \in 0 .. n - 1, k \in P PROVE k + 1 \in P
  <2>1. k + 1 \in 1 .. n /\ k + 1 \in 0 .. n /\ (k + 1) - 1 = k /\ k \in Nat /\ k \in 0 .. n
    BY <1>2
  <2>2. PICK a \in Seq(S), b \in Seq(S) : a = f[k] /\ b = s[k + 1]
    <3>1. k \in 0 .. Len(s) /\ k + 1 \in 1 .. Len(s)
      BY <1>2, <2>1
    <3>2. f[k] \in Seq(S)
      BY <3>1
    <3>3. s[k + 1] \in Seq(S)
      BY <3>1
    <3> QED
      BY <3>2, <3>3
  <2>3. f[k + 1] = a \o b
    BY <1>1, <1>2, <2>1, <2>2 DEF Joins
  <2>4. CASE k >= i
    <3>1. PICK m \in 1 .. Len(a) : a[m] = s[i][j]
      BY <1>5, <2>2, <2>4
    <3>2. m \in 1 .. Len(a \o b) /\ (a \o b)[m] = a[m]
      OBVIOUS
    <3>3. \E x \in 1 .. Len(f[k + 1]) : f[k + 1][x] = s[i][j]
      BY <2>3, <3>1, <3>2
    <3> QED
      BY <2>1, <3>3
  <2>5. CASE k + 1 = i
    <3>1. b = s[i] /\ j \in 1 .. Len(b)
      BY <2>2, <2>5
    <3>2. Len(a) + j \in 1 .. Len(a \o b) /\ (a \o b)[Len(a) + j] = b[j]
      BY <3>1
    <3>3. \E x \in 1 .. Len(f[k + 1]) : f[k + 1][x] = s[i][j]
      BY <2>3, <3>1, <3>2
    <3> QED
      BY <2>1, <3>3
  <2>6. CASE k + 1 < i
    BY <1>2, <2>1, <2>6
  <2> QED
    BY <1>2, <2>1, <2>4, <2>5, <2>6
<1> HIDE DEF P
<1>6. 0 .. n \subseteq P
  BY <1>2, <1>4, <1>5, UpTo
<1>7. n \in P
  BY <1>2, <1>6
<1>8. FlattenSeq(s) = f[n]
  BY <1>1, <1>2, FlattenJoins
<1> QED
  BY <1>2, <1>7, <1>8 DEF P

-----------------------------------------------------------------------------
(* Places in an order.                                                      *)

StrictOrder(S, before) ==
  /\ \A x \in S : <<x, x>> \notin before
  /\ \A x, y, z \in S : <<x, y>> \in before /\ <<y, z>> \in before => <<x, z>> \in before
  /\ \A x, y \in S : x # y => <<x, y>> \in before \/ <<y, x>> \in before

LEMMA PlaceType ==
  ASSUME NEW S, IsFiniteSet(S), NEW R, StrictOrder(S, R), NEW x \in S
  PROVE  Place(S, R, x) \in 0 .. Cardinality(S) - 1
<1> DEFINE T == {y \in S : <<y, x>> \in R}
<1>1. T \in SUBSET S /\ T # S
  BY DEF StrictOrder
<1> HIDE DEF T
<1>2. Cardinality(T) <= Cardinality(S) /\ Cardinality(T) # Cardinality(S) /\ IsFiniteSet(T)
  BY <1>1, FS_Subset
<1>3. Cardinality(S) \in Nat /\ Cardinality(T) \in Nat
  BY <1>2, FS_CardinalityType
<1>4. Cardinality(T) \in 0 .. Cardinality(S) - 1
  BY <1>2, <1>3
<1> QED
  BY <1>4 DEF Place, T

LEMMA PlaceOrder ==
  ASSUME NEW S, IsFiniteSet(S), NEW R, StrictOrder(S, R), NEW x \in S, NEW y \in S,
         <<x, y>> \in R
  PROVE  Place(S, R, x) < Place(S, R, y)
<1> DEFINE T == {z \in S : <<z, x>> \in R}
           U == {z \in S : <<z, y>> \in R}
<1>1. T \in SUBSET U /\ U \in SUBSET S
  BY DEF StrictOrder
<1>2. x \in U /\ x \notin T
  BY DEF StrictOrder
<1> HIDE DEF T, U
<1>3. IsFiniteSet(U) /\ IsFiniteSet(T)
  BY <1>1, FS_Subset
<1>4. Cardinality(T) <= Cardinality(U) /\ Cardinality(T) # Cardinality(U)
  BY <1>1, <1>2, <1>3, FS_Subset
<1>5. Cardinality(U) \in Nat /\ Cardinality(T) \in Nat
  BY <1>3, FS_CardinalityType
<1>6. Cardinality(T) < Cardinality(U)
  BY <1>4, <1>5
<1> QED
  BY <1>6 DEF Place, T, U

LEMMA PlaceUnique ==
  ASSUME NEW S, IsFiniteSet(S), NEW R, StrictOrder(S, R), NEW x \in S, NEW y \in S,
         Place(S, R, x) = Place(S, R, y)
  PROVE  x = y
<1> SUFFICES ASSUME x # y PROVE FALSE
  OBVIOUS
<1>1. <<x, y>> \in R \/ <<y, x>> \in R
  BY DEF StrictOrder
<1>2. Place(S, R, x) \in Int /\ Place(S, R, y) \in Int
  BY PlaceType, FS_CardinalityType
<1> QED
  BY <1>1, <1>2, PlaceOrder

\* Every place is taken.
LEMMA PlaceTaken ==
  ASSUME NEW S, IsFiniteSet(S), NEW R, StrictOrder(S, R), NEW i \in 0 .. Cardinality(S) - 1
  PROVE  \E x \in S : Place(S, R, x) = i
<1> SUFFICES ASSUME \A x \in S : Place(S, R, x) # i PROVE FALSE
  OBVIOUS
<1> DEFINE n == Cardinality(S)
           T == (0 .. n - 1) \ {i}
           p == [x \in S |-> Place(S, R, x)]
<1>1. n \in Nat
  BY FS_CardinalityType
<1>2. p \in [S -> T]
  BY PlaceType
<1>3. IsFiniteSet(T) /\ Cardinality(T) < n
  <2>1. IsFiniteSet(0 .. n - 1) /\ Cardinality(0 .. n - 1) = n
    BY <1>1, FS_Interval
  <2>2. IsFiniteSet(T) /\ Cardinality(T) = Cardinality(0 .. n - 1) - 1
    BY <2>1, FS_RemoveElement
  <2> QED
    BY <1>1, <2>1, <2>2
<1>4. PICK x \in S, y \in S : x # y /\ p[x] = p[y]
  <2> HIDE DEF T, p
  <2> QED
    BY <1>2, <1>3, FS_PigeonHole
<1> QED
  BY <1>4, PlaceUnique

\* The sequence has every element once, and in order.
LEMMA InOrderSorts ==
  ASSUME NEW S, IsFiniteSet(S), NEW R, StrictOrder(S, R)
  PROVE  /\ Cardinality(S) \in Nat /\ InOrder(S, R) \in Seq(S)
         /\ Len(InOrder(S, R)) = Cardinality(S)
         /\ \A i \in 1 .. Cardinality(S) : Place(S, R, InOrder(S, R)[i]) = i - 1
         /\ \A x \in S : InOrder(S, R)[Place(S, R, x) + 1] = x
<1> DEFINE n == Cardinality(S)
           s == InOrder(S, R)
<1>1. n \in Nat
  BY FS_CardinalityType
<1>2. ASSUME NEW i \in 1 .. n
      PROVE  s[i] \in S /\ Place(S, R, s[i]) = i - 1
  <2>1. i - 1 \in 0 .. Cardinality(S) - 1
    BY <1>1
  <2>2. \E x \in S : Place(S, R, x) = i - 1
    BY <2>1, PlaceTaken
  <2>3. s[i] = CHOOSE x \in S : Place(S, R, x) = i - 1
    BY DEF InOrder
  <2> QED
    BY <2>2, <2>3
<1>3. s = [i \in 1 .. n |-> s[i]]
  BY DEF InOrder
<1>4. ASSUME NEW x \in S PROVE s[Place(S, R, x) + 1] = x
  <2>1. PICK i \in 1 .. n : i = Place(S, R, x) + 1
    BY <1>1, PlaceType
  <2>2. s[i] \in S /\ Place(S, R, s[i]) = i - 1
    BY <1>2
  <2>3. Place(S, R, x) \in Int
    BY <1>1, PlaceType
  <2>4. Place(S, R, s[i]) = Place(S, R, x)
    BY <2>1, <2>2, <2>3
  <2> QED
    BY <2>1, <2>2, <2>4, PlaceUnique
<1> HIDE DEF s, n
<1>5. s \in Seq(S) /\ Len(s) = n
  BY <1>1, <1>2, <1>3
<1> QED
  BY <1>1, <1>2, <1>4, <1>5 DEF s, n

-----------------------------------------------------------------------------
(* Arithmetic of a counter that wraps around.                               *)

LEMMA DivisionUnique ==
  ASSUME NEW m \in Nat \ {0}, NEW q \in Int, NEW r \in 0 .. m - 1
  PROVE  (m * q + r) % m = r
  OBVIOUS

LEMMA Division ==
  ASSUME NEW m \in Nat \ {0}, NEW n \in Int
  PROVE  n % m \in 0 .. m - 1 /\ n \div m \in Int /\ n = m * (n \div m) + (n % m)
  OBVIOUS

\* Reduced at every step or once at the end, a counter comes out the same.
LEMMA CounterWraps ==
  ASSUME NEW m \in Nat \ {0}, NEW n \in Nat, NEW k \in Nat
  PROVE  ((n % m) + k) % m = (n + k) % m
<1>1. PICK a \in Int, q \in Int : n % m = a /\ n = m * q + a
  <2>1. n % m \in Int /\ n \div m \in Int /\ n = m * (n \div m) + (n % m)
    BY Division
  <2> QED
    BY <2>1
<1>2. PICK r \in 0 .. m - 1, p \in Int : (a + k) % m = r /\ a + k = m * p + r
  <2>1. a + k \in Int
    BY <1>1
  <2> QED
    BY <2>1, Division
<1>3. PICK s \in Int : s = q + p
  OBVIOUS
<1>4. m * s = m * q + m * p
  BY <1>3
<1>5. n + k = m * s + r
  BY <1>1, <1>2, <1>4
<1>6. (m * s + r) % m = r
  BY DivisionUnique
<1> QED
  BY <1>1, <1>2, <1>5, <1>6

-----------------------------------------------------------------------------
(* Twelve-bit words: the bit operators stay within them, and zero is neutral *)
(* for the bitwise or.                                                      *)

LEMMA WordIsNat ==
  ASSUME NEW w \in Word
  PROVE  w \in Nat /\ w \in Int
  BY DEF Word

LEMMA WordIf ==
  ASSUME NEW w \in Nat, w <= 4095
  PROVE  w \in Word
  BY DEF Word

LEMMA LinkIsNat ==
  ASSUME NEW l \in LinkBit
  PROVE  l \in Nat /\ l \in Int
  BY DEF LinkBit

LEMMA CommonBound ==
  ASSUME NEW a, NEW b, NEW m \in Nat
  PROVE  Common(a, b, m) \in 0 .. m
  BY DEF Common

\* Bitwise and of two words is a word.
LEMMA AndIsWord ==
  ASSUME NEW a, NEW b
  PROVE  And(a, b) \in Word
<1> DEFINE c0 == Common(a, b, \o1)
           c1 == Common(a, b, \o2)
           c2 == Common(a, b, \o4)
           c3 == Common(a, b, \o10)
           c4 == Common(a, b, \o20)
           c5 == Common(a, b, \o40)
           c6 == Common(a, b, \o100)
           c7 == Common(a, b, \o200)
           c8 == Common(a, b, \o400)
           c9 == Common(a, b, \o1000)
           c10 == Common(a, b, \o2000)
           c11 == Common(a, b, \o4000)
<1>1. c0 \in 0 .. 1
  BY CommonBound
<1>2. c1 \in 0 .. 2
  BY CommonBound
<1>3. c2 \in 0 .. 4
  BY CommonBound
<1>4. c3 \in 0 .. 8
  BY CommonBound
<1>5. c4 \in 0 .. 16
  BY CommonBound
<1>6. c5 \in 0 .. 32
  BY CommonBound
<1>7. c6 \in 0 .. 64
  BY CommonBound
<1>8. c7 \in 0 .. 128
  BY CommonBound
<1>9. c8 \in 0 .. 256
  BY CommonBound
<1>10. c9 \in 0 .. 512
  BY CommonBound
<1>11. c10 \in 0 .. 1024
  BY CommonBound
<1>12. c11 \in 0 .. 2048
  BY CommonBound
<1> HIDE DEF c0, c1, c2, c3, c4, c5, c6, c7, c8, c9, c10, c11
<1>13. c0 + c1 + c2 + c3 + c4 + c5 + c6 + c7 + c8 + c9 + c10 + c11 \in Word
  BY <1>1, <1>2, <1>3, <1>4, <1>5, <1>6, <1>7, <1>8, <1>9, <1>10, <1>11, <1>12
     DEF Word
<1> QED
  BY <1>13 DEF And, c0, c1, c2, c3, c4, c5, c6, c7, c8, c9, c10, c11

LEMMA ComplementIsWord ==
  ASSUME NEW w \in Word
  PROVE  Complement(w) \in Word
  BY DEF Complement, Word

\* So is bitwise or.
LEMMA OrIsWord ==
  ASSUME NEW a, NEW b
  PROVE  Or(a, b) \in Word
  BY AndIsWord, ComplementIsWord DEF Or

LEMMA MaskIsWord ==
  ASSUME NEW n \in Int
  PROVE  MaskWord(n) \in Word
  BY DEF MaskWord, Word

-----------------------------------------------------------------------------
(* Zero is neutral for or: a word is the sum of its bits.                   *)

\* the bit of weight m of w & 07777
LEMMA CommonOnes ==
  ASSUME NEW w \in Nat, NEW m \in {1, 2, 4, 8, 16, 32, 64, 128, 256, 512, 1024, 2048}
  PROVE  Common(\o7777, w, m) = IF (w \div m) % 2 = 1 THEN m ELSE 0
<1>1. Has(\o7777, m)
  BY DEF Has
<1> QED
  BY <1>1 DEF Common, Has

\* One bit of a word taken off: what is below weight 2m is what is below m and
\* the bit of weight m.
LEMMA LowBits ==
  ASSUME NEW w \in Nat
  PROVE  /\ w % 2 = IF (w \div 1) % 2 = 1 THEN 1 ELSE 0
         /\ w % 4 = (w % 2) + (IF (w \div 2) % 2 = 1 THEN 2 ELSE 0)
         /\ w % 8 = (w % 4) + (IF (w \div 4) % 2 = 1 THEN 4 ELSE 0)
         /\ w % 16 = (w % 8) + (IF (w \div 8) % 2 = 1 THEN 8 ELSE 0)
         /\ w % 32 = (w % 16) + (IF (w \div 16) % 2 = 1 THEN 16 ELSE 0)
         /\ w % 64 = (w % 32) + (IF (w \div 32) % 2 = 1 THEN 32 ELSE 0)
         /\ w % 128 = (w % 64) + (IF (w \div 64) % 2 = 1 THEN 64 ELSE 0)
         /\ w % 256 = (w % 128) + (IF (w \div 128) % 2 = 1 THEN 128 ELSE 0)
         /\ w % 512 = (w % 256) + (IF (w \div 256) % 2 = 1 THEN 256 ELSE 0)
         /\ w % 1024 = (w % 512) + (IF (w \div 512) % 2 = 1 THEN 512 ELSE 0)
         /\ w % 2048 = (w % 1024) + (IF (w \div 1024) % 2 = 1 THEN 1024 ELSE 0)
         /\ w % 4096 = (w % 2048) + (IF (w \div 2048) % 2 = 1 THEN 2048 ELSE 0)
  OBVIOUS

LEMMA AndOnes ==
  ASSUME NEW w \in Word
  PROVE  And(\o7777, w) = w
<1>1. w \in Nat /\ w % 4096 = w
  BY DEF Word
<1>2. /\ Common(\o7777, w, \o1) = w % 2
      /\ Common(\o7777, w, \o2) = (w % 4) - (w % 2)
      /\ Common(\o7777, w, \o4) = (w % 8) - (w % 4)
      /\ Common(\o7777, w, \o10) = (w % 16) - (w % 8)
      /\ Common(\o7777, w, \o20) = (w % 32) - (w % 16)
      /\ Common(\o7777, w, \o40) = (w % 64) - (w % 32)
      /\ Common(\o7777, w, \o100) = (w % 128) - (w % 64)
      /\ Common(\o7777, w, \o200) = (w % 256) - (w % 128)
      /\ Common(\o7777, w, \o400) = (w % 512) - (w % 256)
      /\ Common(\o7777, w, \o1000) = (w % 1024) - (w % 512)
      /\ Common(\o7777, w, \o2000) = (w % 2048) - (w % 1024)
      /\ Common(\o7777, w, \o4000) = (w % 4096) - (w % 2048)
  BY <1>1, CommonOnes, LowBits
<1>3. PICK x1 \in Int, x2 \in Int, x3 \in Int, x4 \in Int, x5 \in Int, x6 \in Int,
           x7 \in Int, x8 \in Int, x9 \in Int, x10 \in Int, x11 \in Int, x12 \in Int :
        /\ x1 = w % 2 /\ x2 = w % 4 /\ x3 = w % 8 /\ x4 = w % 16
        /\ x5 = w % 32 /\ x6 = w % 64 /\ x7 = w % 128 /\ x8 = w % 256
        /\ x9 = w % 512 /\ x10 = w % 1024 /\ x11 = w % 2048 /\ x12 = w % 4096
  BY <1>1
<1>4. And(\o7777, w)
        = x1 + (x2 - x1) + (x3 - x2) + (x4 - x3) + (x5 - x4) + (x6 - x5) + (x7 - x6)
            + (x8 - x7) + (x9 - x8) + (x10 - x9) + (x11 - x10) + (x12 - x11)
  BY <1>2, <1>3 DEF And
<1>5. @ = x12
  OBVIOUS
<1> QED
  BY <1>1, <1>3, <1>4, <1>5

LEMMA OrZero ==
  ASSUME NEW w \in Word
  PROVE  Or(0, w) = w
<1>1. Complement(0) = \o7777 /\ Complement(w) \in Word
  BY ComplementIsWord DEF Complement
<1>2. And(\o7777, Complement(w)) = Complement(w)
  BY <1>1, AndOnes
<1>3. Complement(Complement(w)) = w
  BY DEF Complement, Word
<1> QED
  BY <1>1, <1>2, <1>3 DEF Or
=============================================================================
