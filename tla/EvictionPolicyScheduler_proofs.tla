---------------------- MODULE EvictionPolicyScheduler_proofs ----------------------
(***************************************************************************)
(* Proofs about EvictionPolicyScheduler, for every configuration allowed   *)
(* by SchedulerAssumption and DistanceAssumption.  The first lemmas show   *)
(* that the CHOOSEs of the model (Min, Max, LeastBy) have what they look   *)
(* for: a finite set has a least element in every total preorder.          *)
(***************************************************************************)
EXTENDS EvictionPolicyScheduler, Integers, FiniteSetTheorems, WellFoundedInduction,
        NaturalsInduction, TLAPS

\* Every non-empty set of naturals has a least element.
LEMMA LeastNatural ==
  ASSUME NEW S \in SUBSET Nat, S # {}
  PROVE  \E m \in S : \A k \in S : m <= k
<1>1. IsWellFoundedOn(OpToRel(<, Nat), Nat)
  BY NatLessThanWellFounded
<1>2. PICK m \in S : \A k \in S : <<k, m>> \notin OpToRel(<, Nat)
  BY <1>1, WFMin
<1>3. \A k \in S : ~ (k < m)
  BY <1>2 DEF OpToRel
<1>4. \A k \in S : k \in Int /\ m \in Int
  OBVIOUS
<1> QED BY <1>3, <1>4

\* Every finite non-empty set has an element that comes first in a total preorder.
LEMMA FirstInPreorder ==
  ASSUME NEW S, IsFiniteSet(S), S # {}, NEW R,
         \A x, y \in S : <<x, y>> \in R \/ <<y, x>> \in R,
         \A x, y, z \in S : <<x, y>> \in R /\ <<y, z>> \in R => <<x, z>> \in R
  PROVE  \E x \in S : \A y \in S : <<x, y>> \in R
<1> DEFINE First(T, x) == \A y \in T : <<x, y>> \in R
           Bad == {T \in SUBSET S : T # {} /\ ~ \E x \in T : First(T, x)}
           Sizes == {Cardinality(T) : T \in Bad}
<1> SUFFICES ASSUME S \in Bad
             PROVE  FALSE
  OBVIOUS
<1>1. \A T \in SUBSET S : IsFiniteSet(T) /\ Cardinality(T) \in Nat
  BY FS_Subset, FS_CardinalityType
<1>2. Sizes \in SUBSET Nat /\ Sizes # {}
  BY <1>1
<1>3. PICK m \in Sizes : \A k \in Sizes : m <= k
  <2> HIDE DEF Sizes
  <2> QED BY <1>2, LeastNatural
<1>4. PICK T \in Bad : Cardinality(T) = m
  BY <1>3
<1>5. PICK t : t \in T
  BY <1>4
<1> DEFINE U == T \ {t}
<1>6. IsFiniteSet(T) /\ Cardinality(U) = Cardinality(T) - 1 /\ Cardinality(T) \in Nat
  BY <1>1, <1>4, <1>5, FS_RemoveElement
<1>7. U \notin Bad
  <2>1. SUFFICES ASSUME U \in Bad
                 PROVE  FALSE
    OBVIOUS
  <2>2. Cardinality(U) \in Sizes
    BY <2>1
  <2>3. m <= Cardinality(U)
    BY <1>3, <2>2
  <2> QED BY <1>4, <1>6, <2>3
<1>8. CASE U = {}
  <2>1. \A y \in T : y = t
    BY <1>8
  <2>2. First(T, t)
    BY <1>4, <1>5, <2>1
  <2> QED BY <1>4, <1>5, <2>2
<1>9. CASE U # {}
  <2>1. PICK x \in U : First(U, x)
    BY <1>4, <1>7, <1>9
  <2>2. CASE <<x, t>> \in R
    BY <1>4, <1>5, <2>1, <2>2
  <2>3. CASE <<t, x>> \in R
    <3>1. ASSUME NEW y \in T
          PROVE  <<t, y>> \in R
      BY <1>4, <1>5, <2>1, <2>3, <3>1
    <3> QED BY <1>4, <1>5, <3>1
  <2> QED BY <1>4, <1>5, <2>1, <2>2, <2>3
<1> QED BY <1>8, <1>9

\* Min finds the least element of a finite non-empty set of integers.
LEMMA MinExists ==
  ASSUME NEW S \in SUBSET Int, IsFiniteSet(S), S # {}
  PROVE  Min(S) \in S /\ \A y \in S : Min(S) <= y
<1> DEFINE R == {p \in Int \X Int : p[1] <= p[2]}
<1>1. \A x, y \in S : <<x, y>> \in R <=> x <= y
  OBVIOUS
<1>2. \E x \in S : \A y \in S : <<x, y>> \in R
  <2> HIDE DEF R
  <2>1. ASSUME NEW x \in S, NEW y \in S
        PROVE  <<x, y>> \in R \/ <<y, x>> \in R
    <3>1. x \in Int /\ y \in Int
      OBVIOUS
    <3> QED BY <1>1, <3>1
  <2>2. ASSUME NEW x \in S, NEW y \in S, NEW z \in S, <<x, y>> \in R, <<y, z>> \in R
        PROVE  <<x, z>> \in R
    <3>1. x \in Int /\ y \in Int /\ z \in Int
      OBVIOUS
    <3> QED BY <1>1, <2>2, <3>1
  <2> QED BY <2>1, <2>2, FirstInPreorder
<1>3. \E x \in S : \A y \in S : x <= y
  BY <1>1, <1>2
<1> QED BY <1>3 DEF Min

\* Max finds the greatest element of a finite non-empty set of integers.
LEMMA MaxExists ==
  ASSUME NEW S \in SUBSET Int, IsFiniteSet(S), S # {}
  PROVE  Max(S) \in S /\ \A y \in S : Max(S) >= y
<1> DEFINE R == {p \in Int \X Int : p[1] >= p[2]}
<1>1. \A x, y \in S : <<x, y>> \in R <=> x >= y
  OBVIOUS
<1>2. \E x \in S : \A y \in S : <<x, y>> \in R
  <2> HIDE DEF R
  <2>1. ASSUME NEW x \in S, NEW y \in S
        PROVE  <<x, y>> \in R \/ <<y, x>> \in R
    <3>1. x \in Int /\ y \in Int
      OBVIOUS
    <3> QED BY <1>1, <3>1
  <2>2. ASSUME NEW x \in S, NEW y \in S, NEW z \in S, <<x, y>> \in R, <<y, z>> \in R
        PROVE  <<x, z>> \in R
    <3>1. x \in Int /\ y \in Int /\ z \in Int
      OBVIOUS
    <3> QED BY <1>1, <2>2, <3>1
  <2> QED BY <2>1, <2>2, FirstInPreorder
<1>3. \E x \in S : \A y \in S : x >= y
  BY <1>1, <1>2
<1> QED BY <1>3 DEF Max

\* The lexicographic order on keys of two numbers.
LEMMA BeforePair ==
  ASSUME NEW a \in Int, NEW h \in Int, NEW b \in Int, NEW g \in Int
  PROVE  Before(<<a, h>>, <<b, g>>) <=> a < b \/ (a = b /\ h < g)
<1> DEFINE x == <<a, h>>
           y == <<b, g>>
           At(i) == x[i] < y[i] /\ \A j \in 1 .. i - 1 : x[j] = y[j]
<1>1. DOMAIN x = 1 .. 2 /\ x[1] = a /\ x[2] = h /\ y[1] = b /\ y[2] = g
  OBVIOUS
<1>2. At(1) <=> a < b
  BY <1>1
<1>3. At(2) <=> h < g /\ a = b
  <2>1. \A j \in 1 .. 2 - 1 : j = 1
    OBVIOUS
  <2> QED BY <1>1, <2>1
<1>4. (\E i \in 1 .. 2 : At(i)) <=> At(1) \/ At(2)
  <2>1. \A i \in 1 .. 2 : i = 1 \/ i = 2
    OBVIOUS
  <2> HIDE DEF At
  <2> QED BY <2>1
<1>5. Before(x, y) <=> \E i \in 1 .. 2 : At(i)
  BY <1>1 DEF Before
<1> QED BY <1>2, <1>3, <1>4, <1>5

\* The lexicographic order on keys of four numbers.
LEMMA BeforeQuadruple ==
  ASSUME NEW x \in Int \X Int \X Int \X Int, NEW y \in Int \X Int \X Int \X Int
  PROVE  Before(x, y) <=>
           \/ x[1] < y[1]
           \/ x[1] = y[1] /\ x[2] < y[2]
           \/ x[1] = y[1] /\ x[2] = y[2] /\ x[3] < y[3]
           \/ x[1] = y[1] /\ x[2] = y[2] /\ x[3] = y[3] /\ x[4] < y[4]
<1> DEFINE At(i) == x[i] < y[i] /\ \A j \in 1 .. i - 1 : x[j] = y[j]
<1>1. DOMAIN x = 1 .. 4
  OBVIOUS
<1>2. At(1) <=> x[1] < y[1]
  OBVIOUS
<1>3. At(2) <=> x[1] = y[1] /\ x[2] < y[2]
  <2>1. \A j : j \in 1 .. 2 - 1 <=> j = 1
    OBVIOUS
  <2> QED BY <2>1
<1>4. At(3) <=> x[1] = y[1] /\ x[2] = y[2] /\ x[3] < y[3]
  <2>1. \A j : j \in 1 .. 3 - 1 <=> j = 1 \/ j = 2
    OBVIOUS
  <2> QED BY <2>1
<1>5. At(4) <=> x[1] = y[1] /\ x[2] = y[2] /\ x[3] = y[3] /\ x[4] < y[4]
  <2>1. \A j : j \in 1 .. 4 - 1 <=> j = 1 \/ j = 2 \/ j = 3
    OBVIOUS
  <2> QED BY <2>1
<1>6. (\E i \in 1 .. 4 : At(i)) <=> At(1) \/ At(2) \/ At(3) \/ At(4)
  <2>1. \A i \in 1 .. 4 : i = 1 \/ i = 2 \/ i = 3 \/ i = 4
    OBVIOUS
  <2>2. 1 \in 1 .. 4 /\ 2 \in 1 .. 4 /\ 3 \in 1 .. 4 /\ 4 \in 1 .. 4
    OBVIOUS
  <2> HIDE DEF At
  <2> QED BY <2>1, <2>2
<1>7. Before(x, y) <=> \E i \in 1 .. 4 : At(i)
  BY <1>1 DEF Before
<1> HIDE DEF At
<1> QED BY <1>2, <1>3, <1>4, <1>5, <1>6, <1>7

\* A finite set of keys of which one always comes before the other, transitively,
\* has a least one, and LeastBy names it.
LEMMA LeastByExists ==
  ASSUME NEW key, IsFiniteSet(DOMAIN key), DOMAIN key # {},
         \A g, h \in DOMAIN key :
           g # h => Before(key[g], key[h]) \/ Before(key[h], key[g]),
         \A f, g, h \in DOMAIN key :
           Before(key[f], key[g]) /\ Before(key[g], key[h]) => Before(key[f], key[h])
  PROVE  /\ LeastBy(key) \in DOMAIN key
         /\ \A g \in DOMAIN key \ {LeastBy(key)} : Before(key[LeastBy(key)], key[g])
<1> DEFINE S == DOMAIN key
           R == {p \in S \X S : p[1] = p[2] \/ Before(key[p[1]], key[p[2]])}
<1>1. \A x, y \in S : <<x, y>> \in R <=> x = y \/ Before(key[x], key[y])
  BY Zenon
<1>2. \E x \in S : \A y \in S : <<x, y>> \in R
  <2> HIDE DEF R
  <2>1. \A x, y \in S : <<x, y>> \in R \/ <<y, x>> \in R
    BY <1>1
  <2>2. \A x, y, z \in S : <<x, y>> \in R /\ <<y, z>> \in R => <<x, z>> \in R
    BY <1>1
  <2> QED BY <2>1, <2>2, FirstInPreorder
<1>3. \E x \in S : \A y \in S \ {x} : Before(key[x], key[y])
  BY <1>1, <1>2
<1> QED BY <1>3 DEF LeastBy

\* The victim by time: LeastBy finds the entry with the least time, the least hash
\* among several.
LEMMA LeastByTime ==
  ASSUME NEW S \in SUBSET Nat, IsFiniteSet(S), S # {}, NEW t \in [S -> Nat]
  PROVE  /\ LeastBy([h \in S |-> <<t[h], h>>]) \in S
         /\ \A g \in S : t[LeastBy([h \in S |-> <<t[h], h>>])] <= t[g]
<1> DEFINE key == [h \in S |-> <<t[h], h>>]
           v == LeastBy(key)
<1>1. DOMAIN key = S
  OBVIOUS
<1>2. \A g, h \in S : Before(key[g], key[h]) <=> t[g] < t[h] \/ (t[g] = t[h] /\ g < h)
  <2>1. TAKE g, h \in S
  <2>2. key[g] = <<t[g], g>> /\ key[h] = <<t[h], h>>
    OBVIOUS
  <2>3. t[g] \in Int /\ t[h] \in Int /\ g \in Int /\ h \in Int
    OBVIOUS
  <2> HIDE DEF key
  <2> QED BY <2>2, <2>3, BeforePair
<1>3. \A g \in S : t[g] \in Int /\ g \in Int
  OBVIOUS
<1> HIDE DEF key
<1>4. \A g, h \in S : g # h => Before(key[g], key[h]) \/ Before(key[h], key[g])
  BY <1>2, <1>3
<1>5. \A f, g, h \in S : Before(key[f], key[g]) /\ Before(key[g], key[h]) => Before(key[f], key[h])
  <2>1. TAKE f, g, h \in S
  <2>2. Before(key[f], key[g]) <=> t[f] < t[g] \/ (t[f] = t[g] /\ f < g)
    BY <1>2
  <2>3. Before(key[g], key[h]) <=> t[g] < t[h] \/ (t[g] = t[h] /\ g < h)
    BY <1>2
  <2>4. Before(key[f], key[h]) <=> t[f] < t[h] \/ (t[f] = t[h] /\ f < h)
    BY <1>2
  <2>5. t[f] \in Int /\ t[g] \in Int /\ t[h] \in Int /\ f \in Int /\ g \in Int /\ h \in Int
    BY <1>3
  <2> QED BY <2>2, <2>3, <2>4, <2>5
<1>6. v \in S /\ \A g \in S \ {v} : Before(key[v], key[g])
  BY <1>1, <1>4, <1>5, LeastByExists
<1>7. \A g \in S : t[v] <= t[g]
  <2> HIDE DEF v
  <2>1. TAKE g \in S
  <2>2. CASE g = v
    BY <1>3, <1>6, <2>2
  <2>3. CASE g # v
    <3>1. Before(key[v], key[g])
      BY <1>6, <2>3
    <3> QED BY <1>2, <1>3, <1>6, <3>1
  <2> QED BY <2>2, <2>3
<1> QED BY <1>6, <1>7 DEF key

\* The victim by a key of four numbers that ends in the hash.
LEMMA LeastByQuadruple ==
  ASSUME NEW S \in SUBSET Nat, IsFiniteSet(S), S # {},
         NEW key \in [S -> Int \X Int \X Int \X Int], \A h \in S : key[h][4] = h
  PROVE  LeastBy(key) \in S
<1> DEFINE k(h, i) == key[h][i]
<1>1. DOMAIN key = S
  OBVIOUS
<1>2. \A h \in S : k(h, 1) \in Int /\ k(h, 2) \in Int /\ k(h, 3) \in Int /\ k(h, 4) = h /\ h \in Int
  OBVIOUS
<1>3. \A g, h \in S : Before(key[g], key[h]) <=>
           \/ k(g, 1) < k(h, 1)
           \/ k(g, 1) = k(h, 1) /\ k(g, 2) < k(h, 2)
           \/ k(g, 1) = k(h, 1) /\ k(g, 2) = k(h, 2) /\ k(g, 3) < k(h, 3)
           \/ k(g, 1) = k(h, 1) /\ k(g, 2) = k(h, 2) /\ k(g, 3) = k(h, 3) /\ g < h
  <2>1. TAKE g, h \in S
  <2>2. key[g] \in Int \X Int \X Int \X Int /\ key[h] \in Int \X Int \X Int \X Int
    OBVIOUS
  <2>3. key[g][4] = g /\ key[h][4] = h
    OBVIOUS
  <2> QED BY <2>2, <2>3, BeforeQuadruple
<1> HIDE DEF k
<1>4. \A g, h \in S : g # h => Before(key[g], key[h]) \/ Before(key[h], key[g])
  <2>1. TAKE g, h \in S
  <2> QED BY <1>2, <1>3
<1>5. \A f, g, h \in S : Before(key[f], key[g]) /\ Before(key[g], key[h]) => Before(key[f], key[h])
  <2>1. TAKE f, g, h \in S
  <2> QED BY <1>2, <1>3
<1> QED BY <1>1, <1>4, <1>5, LeastByExists

-----------------------------------------------------------------------------
(* ProtectingDistance.                                                      *)

\* Min and Max of two numbers.
LEMMA OfTwo ==
  ASSUME NEW a \in Int, NEW b \in Int
  PROVE  /\ Min({a, b}) = IF a <= b THEN a ELSE b
         /\ Max({a, b}) = IF a <= b THEN b ELSE a
<1>1. IsFiniteSet({a, b}) /\ {a, b} \in SUBSET Int /\ {a, b} # {}
  <2>1. {a, b} = {a} \cup {b}
    OBVIOUS
  <2>2. IsFiniteSet({a}) /\ IsFiniteSet({b})
    BY FS_Singleton
  <2>3. IsFiniteSet({a, b})
    BY <2>1, <2>2, FS_Union
  <2> QED BY <2>3
<1>2. Min({a, b}) \in {a, b} /\ Min({a, b}) <= a /\ Min({a, b}) <= b
  BY <1>1, MinExists
<1>3. Max({a, b}) \in {a, b} /\ Max({a, b}) >= a /\ Max({a, b}) >= b
  BY <1>1, MaxExists
<1> QED BY <1>2, <1>3

\* A product of naturals is a natural, and not zero if neither factor is.
LEMMA Products ==
  ASSUME NEW a \in Nat, NEW b \in Nat
  PROVE  a * b \in Nat /\ (a > 0 /\ b > 0 => a * b > 0 /\ a * b >= b)
OBVIOUS

\* A positive factor can be cancelled.
LEMMA Cancel ==
  ASSUME NEW a \in Nat, NEW b \in Nat, NEW c \in Nat, c > 0
  PROVE  (a * c >= b * c) <=> (a >= b)
<1>1. ASSUME NEW x \in Nat, NEW y \in Nat, x >= y
      PROVE  x * c >= y * c
  <2>1. PICK k \in Nat : x = y + k
    <3>1. x - y \in Nat /\ x = y + (x - y)
      BY <1>1
    <3> QED BY <3>1
  <2>2. x * c = y * c + k * c
    BY <2>1
  <2> QED BY <2>2, Products
<1>2. ASSUME a < b
      PROVE  ~ (a * c >= b * c)
  <2>1. b * c >= (a + 1) * c
    BY <1>1, <1>2
  <2>2. (a + 1) * c = a * c + c
    OBVIOUS
  <2>3. a * c \in Nat /\ b * c \in Nat
    BY Products
  <2> QED BY <2>1, <2>2, <2>3
<1> QED BY <1>1, <1>2

\* _bucket_distance yields an index of the histogram for every distance.
LEMMA BucketTyped ==
  ASSUME NEW n \in Int
  PROVE  BucketDistance(n) \in Distances
<1> USE DistanceAssumption
<1> DEFINE d == Max({1, Min({n, MaxDistance})})
           q == (d + BucketSize - 1) \div BucketSize
<1>1. d \in 1 .. MaxDistance
  <2>1. Min({n, MaxDistance}) \in Int /\ Min({n, MaxDistance}) <= MaxDistance
    BY OfTwo
  <2> QED BY <2>1, OfTwo
<1> HIDE DEF d
<1>2. CASE BucketSize = 1
  BY <1>1, <1>2 DEF BucketDistance, Distances, d
<1>3. CASE BucketSize # 1
  <2>1. q \in Nat /\ q > 0
    BY <1>1
  <2> HIDE DEF q
  <2>2. q * BucketSize \in Nat /\ q * BucketSize > 0
    BY <2>1, Products
  <2>3. Min({MaxDistance, q * BucketSize}) \in 1 .. MaxDistance
    BY <2>2, OfTwo
  <2> QED BY <1>3, <2>3 DEF BucketDistance, Distances, d, q
<1> QED BY <1>2, <1>3

\* Induction over the indices of a finite sum.
LEMMA SumInduction ==
  ASSUME NEW n \in Nat, NEW G, 0 \in G, \A i \in 1 .. n : i - 1 \in G => i \in G
  PROVE  \A i \in 0 .. n : i \in G
<1> DEFINE Bad == {i \in Nat : i <= n /\ i \notin G}
<1> SUFFICES ASSUME Bad # {}
             PROVE  FALSE
  OBVIOUS
<1>1. PICK m \in Bad : \A k \in Bad : m <= k
  <2>1. Bad \in SUBSET Nat
    OBVIOUS
  <2> HIDE DEF Bad
  <2> QED BY <2>1, LeastNatural
<1>2. m \in Nat /\ m <= n /\ m \notin G
  BY <1>1
<1>3. m # 0 /\ m \in 1 .. n /\ m - 1 \in Nat /\ m - 1 < m /\ m - 1 <= n
  BY <1>2
<1>4. m - 1 \in Bad
  BY <1>2, <1>3
<1> QED BY <1>1, <1>3, <1>4

SumBody(f, w, n) == [r \in 0 .. n |-> IF r = 0 THEN 0 ELSE f[r - 1] + w[r]]

\* The partial sums of a histogram exist and are naturals.
LEMMA PartialSums ==
  ASSUME NEW n \in Nat, NEW w \in [1 .. n -> Nat]
  PROVE  /\ \E f : f = SumBody(f, w, n)
         /\ \A f : f = SumBody(f, w, n) => f[n] \in Nat
<1>1. \E f : f = SumBody(f, w, n)
  <2> DEFINE G == {k \in 0 .. n : \E f : f = SumBody(f, w, k)}
  <2>1. 0 \in G
    <3>1. [r \in 0 .. 0 |-> 0] = SumBody([r \in 0 .. 0 |-> 0], w, 0)
      BY DEF SumBody
    <3>2. 0 \in 0 .. n
      OBVIOUS
    <3> QED BY <3>1, <3>2
  <2>2. ASSUME NEW i \in 1 .. n, i - 1 \in G
        PROVE  i \in G
    <3>1. PICK f : f = SumBody(f, w, i - 1)
      BY <2>2
    <3> DEFINE g == [r \in 0 .. i |-> IF r = i THEN f[i - 1] + w[i] ELSE f[r]]
    <3>2. \A r \in 0 .. i - 1 : f[r] = IF r = 0 THEN 0 ELSE f[r - 1] + w[r]
      BY <3>1 DEF SumBody
    <3>3. \A r \in 0 .. i : g[r] = IF r = 0 THEN 0 ELSE g[r - 1] + w[r]
      <4>1. TAKE r \in 0 .. i
      <4>2. CASE r = i
        <5>1. i # 0 /\ i - 1 \in 0 .. i /\ i - 1 # i /\ i \in 0 .. i
          OBVIOUS
        <5>2. g[i] = f[i - 1] + w[i] /\ g[i - 1] = f[i - 1]
          BY <5>1
        <5> HIDE DEF g
        <5> QED BY <4>2, <5>1, <5>2
      <4>3. CASE r # i
        <5>1. r \in 0 .. i - 1 /\ (r # 0 => r - 1 \in 0 .. i /\ r - 1 # i)
          BY <4>3
        <5>2. g[r] = f[r] /\ (r # 0 => g[r - 1] = f[r - 1])
          BY <4>3, <5>1
        <5> HIDE DEF g
        <5> QED BY <3>2, <5>1, <5>2
      <4> QED BY <4>2, <4>3
    <3>4. g = SumBody(g, w, i)
      <4>1. g = [r \in 0 .. i |-> g[r]]
        OBVIOUS
      <4> HIDE DEF g
      <4> QED BY <3>3, <4>1 DEF SumBody
    <3>5. i \in 0 .. n
      OBVIOUS
    <3> HIDE DEF g
    <3> QED BY <3>4, <3>5
  <2>3. \A i \in 0 .. n : i \in G
    <3> HIDE DEF G
    <3> QED BY <2>1, <2>2, SumInduction
  <2>4. n \in G
    BY <2>3
  <2> QED BY <2>4
<1>2. ASSUME NEW f, f = SumBody(f, w, n)
      PROVE  f[n] \in Nat
  <2> DEFINE G == {k \in 0 .. n : f[k] \in Nat}
  <2>0. \A r \in 0 .. n : f[r] = IF r = 0 THEN 0 ELSE f[r - 1] + w[r]
    BY <1>2 DEF SumBody
  <2>1. 0 \in G
    BY <2>0
  <2>2. ASSUME NEW i \in 1 .. n, i - 1 \in G
        PROVE  i \in G
    <3>1. i \in 0 .. n /\ i # 0 /\ w[i] \in Nat /\ f[i - 1] \in Nat
      BY <2>2
    <3>2. f[i] = f[i - 1] + w[i]
      BY <2>0, <3>1
    <3> QED BY <3>1, <3>2
  <2>3. \A i \in 0 .. n : i \in G
    <3> HIDE DEF G
    <3> QED BY <2>1, <2>2, SumInduction
  <2> QED BY <2>3
<1> QED BY <1>1, <1>2

\* The cumulative hits and their cost are naturals.
LEMMA CumulativeTyped ==
  ASSUME NEW counts \in [Distances -> Nat], NEW d \in Distances
  PROVE  CumulativeHits(counts, d) \in Nat /\ CumulativeCost(counts, d) \in Nat
<1>0. d \in Nat /\ \A r \in 1 .. d : r \in Nat /\ counts[r] \in Nat
  BY DistanceAssumption DEF Distances
<1>1. CumulativeHits(counts, d) \in Nat
  <2> DEFINE w == [r \in 1 .. d |-> counts[r]]
             f == CHOOSE f : f = [r \in 0 .. d |-> IF r = 0 THEN 0 ELSE f[r - 1] + counts[r]]
  <2>1. w \in [1 .. d -> Nat] /\ \A r \in 1 .. d : w[r] = counts[r]
    BY <1>0
  <2> HIDE DEF w
  <2>2. ASSUME NEW g
        PROVE  SumBody(g, w, d) = [r \in 0 .. d |-> IF r = 0 THEN 0 ELSE g[r - 1] + counts[r]]
    <3>1. \A r \in 0 .. d : r # 0 => w[r] = counts[r]
      BY <2>1, <1>0
    <3> QED BY <3>1 DEF SumBody
  <2>3. \E g : g = [r \in 0 .. d |-> IF r = 0 THEN 0 ELSE g[r - 1] + counts[r]]
    <3>1. PICK g : g = SumBody(g, w, d)
      BY <1>0, <2>1, PartialSums
    <3> QED BY <2>2, <3>1
  <2>4. f = [r \in 0 .. d |-> IF r = 0 THEN 0 ELSE f[r - 1] + counts[r]]
    BY <2>3
  <2>5. CumulativeHits(counts, d) = f[d]
    BY DEF CumulativeHits
  <2> HIDE DEF f
  <2>6. f = SumBody(f, w, d)
    BY <2>2, <2>4
  <2> QED BY <1>0, <2>1, <2>5, <2>6, PartialSums
<1>2. CumulativeCost(counts, d) \in Nat
  <2> DEFINE w == [r \in 1 .. d |-> r * counts[r]]
             f == CHOOSE f : f = [r \in 0 .. d |-> IF r = 0 THEN 0 ELSE f[r - 1] + r * counts[r]]
  <2>1. w \in [1 .. d -> Nat] /\ \A r \in 1 .. d : w[r] = r * counts[r]
    <3>1. \A r \in 1 .. d : r * counts[r] \in Nat
      BY <1>0, Products
    <3> QED BY <3>1
  <2> HIDE DEF w
  <2>2. ASSUME NEW g
        PROVE  SumBody(g, w, d) = [r \in 0 .. d |-> IF r = 0 THEN 0 ELSE g[r - 1] + r * counts[r]]
    <3>1. \A r \in 0 .. d : r # 0 => w[r] = r * counts[r]
      BY <2>1, <1>0
    <3> QED BY <3>1 DEF SumBody
  <2>3. \E g : g = [r \in 0 .. d |-> IF r = 0 THEN 0 ELSE g[r - 1] + r * counts[r]]
    <3>1. PICK g : g = SumBody(g, w, d)
      BY <1>0, <2>1, PartialSums
    <3> QED BY <2>2, <3>1
  <2>4. f = [r \in 0 .. d |-> IF r = 0 THEN 0 ELSE f[r - 1] + r * counts[r]]
    BY <2>3
  <2>5. CumulativeCost(counts, d) = f[d]
    BY DEF CumulativeCost
  <2> HIDE DEF f
  <2>6. f = SumBody(f, w, d)
    BY <2>2, <2>4
  <2> QED BY <1>0, <2>1, <2>5, <2>6, PartialSums
<1> QED BY <1>1, <1>2

\* A score is a fraction with a positive denominator.
LEMMA ScoreTyped ==
  ASSUME NEW counts \in [Distances -> Nat], NEW total \in Nat, NEW d \in Distances
  PROVE  Score(counts, total, d) \in Nat \X (Nat \ {0})
<1> DEFINE hits == CumulativeHits(counts, d)
           cost == CumulativeCost(counts, d)
           misses == Max({0, total - hits})
           spent == misses * (d + EvictionDistance)
<1>1. hits \in Nat /\ cost \in Nat
  BY CumulativeTyped
<1> HIDE DEF hits, cost
<1>2. misses \in Nat
  <2>1. total - hits \in Int /\ 0 \in Int
    BY <1>1
  <2>2. misses = IF 0 <= total - hits THEN total - hits ELSE 0
    BY <2>1, OfTwo
  <2> QED BY <2>1, <2>2
<1> HIDE DEF misses
<1>3. d + EvictionDistance \in Nat
  BY DistanceAssumption DEF Distances
<1>4. spent \in Nat
  BY <1>2, <1>3, Products
<1> HIDE DEF spent
<1>5. Score(counts, total, d) = IF cost + spent > 0 THEN <<hits, cost + spent>> ELSE <<0, 1>>
  BY DEF Score, hits, cost, misses, spent
<1> QED BY <1>1, <1>4, <1>5

\* The order of fractions is transitive.
LEMMA FractionsTransitive ==
  ASSUME NEW a \in Nat, NEW b \in Nat, NEW c \in Nat, NEW d \in Nat,
         NEW e \in Nat, NEW f \in Nat, d > 0,
         a * d >= c * b, c * f >= e * d
  PROVE  a * f >= e * b
<1>1. \A x, y, z \in Nat : x * y \in Nat /\ x * y = y * x /\ (x * y) * z = x * (y * z)
  <2>1. ASSUME NEW x \in Nat, NEW y \in Nat, NEW z \in Nat
        PROVE  x * y \in Nat /\ x * y = y * x /\ (x * y) * z = x * (y * z)
    BY Products
  <2> QED BY <2>1
<1>2. ASSUME NEW x \in Nat, NEW y \in Nat, NEW z \in Nat, x >= y
      PROVE  x * z >= y * z
  <2>1. CASE z = 0
    BY <2>1
  <2>2. CASE z > 0
    BY <1>2, <2>2, Cancel
  <2> QED BY <2>1, <2>2
<1>3. (a * d) * f >= (c * b) * f /\ (c * f) * b >= (e * d) * b
  BY <1>1, <1>2
<1>4. (a * d) * f = (a * f) * d /\ (e * d) * b = (e * b) * d /\ (c * b) * f = (c * f) * b
  <2>1. ASSUME NEW x \in Nat, NEW y \in Nat, NEW z \in Nat
        PROVE  (x * y) * z = (x * z) * y
    OBVIOUS
  <2> QED BY <2>1
<1>5. (a * f) \in Nat /\ (e * b) \in Nat /\ (a * f) * d \in Nat /\ (e * b) * d \in Nat
      /\ (c * b) * f \in Nat
  BY <1>1
<1>6. (a * f) * d >= (e * b) * d
  BY <1>3, <1>4, <1>5
<1> QED BY <1>5, <1>6, Cancel

\* _recompute_protecting_distance keeps the distance positive: among the scores of
\* the candidates there is a highest one.
LEMMA RecomputedTyped ==
  ASSUME NEW counts \in [Distances -> Nat], NEW total \in Nat, NEW current \in Nat \ {0}
  PROVE  RecomputedDistance(counts, total, current) \in Nat \ {0}
<1> DEFINE score == [d \in Candidates |-> Score(counts, total, d)]
           R == {p \in Candidates \X Candidates : AtLeast(score[p[1]], score[p[2]])}
           Top == {d \in Candidates : \A e \in Candidates : AtLeast(score[d], score[e])}
<1>1. Candidates \in SUBSET Int /\ Candidates \subseteq Nat \ {0} /\ IsFiniteSet(Candidates)
  <2>1. Distances \subseteq Nat \ {0} /\ Candidates \subseteq Distances
    BY DEF Candidates, Distances
  <2>2. IsFiniteSet(Distances)
    BY DistanceAssumption, FS_Interval DEF Distances
  <2>3. IsFiniteSet(Candidates)
    BY <2>1, <2>2, FS_Subset
  <2> QED BY <2>1, <2>3
<1>2. Candidates # {}
  <2>1. 1 \in Distances
    BY DistanceAssumption DEF Distances
  <2>2. (1 - 1) % BucketSize = 0
    BY DistanceAssumption
  <2> QED BY <2>1, <2>2 DEF Candidates
<1>3. \A d \in Candidates : score[d] \in Nat \X (Nat \ {0})
  BY ScoreTyped DEF Candidates
<1> HIDE DEF score
<1>4. \A d \in Candidates : score[d][1] \in Nat /\ score[d][2] \in Nat /\ score[d][2] > 0
  BY <1>3
<1>5. \A x, y \in Candidates : <<x, y>> \in R <=> AtLeast(score[x], score[y])
  BY Zenon
<1> HIDE DEF R
<1>6. ASSUME NEW x \in Candidates, NEW y \in Candidates
      PROVE  <<x, y>> \in R \/ <<y, x>> \in R
  <2>1. score[x][1] * score[y][2] \in Nat /\ score[y][1] * score[x][2] \in Nat
    BY <1>4, Products
  <2> QED BY <1>5, <2>1 DEF AtLeast
<1>7. ASSUME NEW x \in Candidates, NEW y \in Candidates, NEW z \in Candidates,
             <<x, y>> \in R, <<y, z>> \in R
      PROVE  <<x, z>> \in R
  <2>1. AtLeast(score[x], score[y]) /\ AtLeast(score[y], score[z])
    BY <1>5, <1>7
  <2>2. score[x][1] * score[y][2] >= score[y][1] * score[x][2]
        /\ score[y][1] * score[z][2] >= score[z][1] * score[y][2]
    BY <2>1 DEF AtLeast
  <2>3. score[x][1] * score[z][2] >= score[z][1] * score[x][2]
    BY <1>4, <2>2, FractionsTransitive
  <2> QED BY <1>5, <2>3 DEF AtLeast
<1>8. \E x \in Candidates : \A y \in Candidates : <<x, y>> \in R
  BY <1>1, <1>2, <1>6, <1>7, FirstInPreorder
<1>9. Top # {} /\ Top \subseteq Candidates
  BY <1>5, <1>8
<1>10. IsFiniteSet(Top) /\ Top \in SUBSET Int
  BY <1>1, <1>9, FS_Subset
<1>11. Min(Top) \in Nat \ {0}
  <2> HIDE DEF Top
  <2>1. Min(Top) \in Top
    BY <1>9, <1>10, MinExists
  <2> QED BY <1>1, <1>9, <2>1
<1> QED BY <1>11 DEF RecomputedDistance, score

-----------------------------------------------------------------------------
(* Shadow caches.                                                           *)

Tables == UNION {[D -> Entry] : D \in SUBSET Hashes}
ShadowCache ==
  [table : Tables, hits : Nat, total : Nat, protecting : Nat \ {0},
   lastSeen : [Hashes -> Nat], counts : [Distances -> Nat]]

\* A shadow cache that fits on the device and has not hit more often than it was used.
GoodShadow(c) ==
  /\ c \in ShadowCache
  /\ IsFiniteSet(DOMAIN c.table)
  /\ c.hits <= c.total
  /\ Cardinality(DOMAIN c.table) <= Capacity

\* A table is a function on some of the hashes.
LEMMA TableFacts ==
  ASSUME NEW t \in Tables
  PROVE  /\ t = [h \in DOMAIN t |-> t[h]]
         /\ DOMAIN t \subseteq Hashes /\ DOMAIN t \in SUBSET Nat
         /\ \A h \in DOMAIN t : t[h] \in Entry
<1>1. PICK D \in SUBSET Hashes : t \in [D -> Entry]
  BY DEF Tables
<1>2. Hashes \subseteq Nat
  BY SchedulerAssumption
<1> QED BY <1>1, <1>2

\* A function from hashes to entries is a table.
LEMMA IsTable ==
  ASSUME NEW D \in SUBSET Hashes, NEW t, t = [h \in D |-> t[h]], \A h \in D : t[h] \in Entry
  PROVE  t \in Tables /\ DOMAIN t = D
<1>1. t \in [D -> Entry] /\ DOMAIN t = D
  OBVIOUS
<1> QED BY <1>1 DEF Tables

\* The aging loop of _rrip_victim ends as soon as some entry reaches RripMax, and
\* touches nothing but rrpv.
LEMMA AgedFacts ==
  ASSUME NEW t \in Tables, IsFiniteSet(DOMAIN t), DOMAIN t # {}
  PROVE  /\ Aged(t) \in Tables /\ DOMAIN Aged(t) = DOMAIN t
         /\ \A h \in DOMAIN t : Aged(t)[h].last = t[h].last
         /\ \E h \in DOMAIN t : Aged(t)[h].rrpv >= RripMax
<1> DEFINE D == DOMAIN t
           V == {t[h].rrpv : h \in D}
           steps == RripMax - Max(V)
           a == [h \in D |-> [t[h] EXCEPT !.rrpv = @ + steps]]
<1>1. \A h \in D : t[h] \in Entry /\ t[h].rrpv \in 0 .. RripMax
  BY TableFacts DEF Entry
<1>2. V \in SUBSET Int /\ V \subseteq 0 .. RripMax /\ V # {}
  BY <1>1 DEF RripMax
<1>3. IsFiniteSet(V)
  <2>1. IsFiniteSet(0 .. RripMax)
    <3>1. 0 \in Int /\ RripMax \in Int
      BY DEF RripMax
    <3> QED BY <3>1, FS_Interval
  <2> HIDE DEF V
  <2> QED BY <1>2, <2>1, FS_Subset
<1>4. Max(V) \in V /\ \A y \in V : Max(V) >= y
  <2> HIDE DEF V
  <2> QED BY <1>2, <1>3, MaxExists
<1> DEFINE m == Max(V)
<1>5. m \in 0 .. RripMax /\ \A h \in D : m >= t[h].rrpv
  BY <1>1, <1>4
<1>6. \E h \in D : m = t[h].rrpv
  BY <1>4
<1>7. steps = RripMax - m
  OBVIOUS
<1> HIDE DEF m, V
<1>8. \A h \in D : t[h].rrpv + steps \in 0 .. RripMax
  BY <1>1, <1>5, <1>7 DEF RripMax
<1>9. \E h \in D : t[h].rrpv + steps >= RripMax
  <2>1. PICK h \in D : m = t[h].rrpv
    BY <1>6
  <2>2. t[h].rrpv + steps = RripMax
    BY <1>5, <1>7, <2>1 DEF RripMax
  <2> QED BY <2>2 DEF RripMax
<1>10. Aged(t) = a
  BY DEF Aged, V
<1> HIDE DEF steps
<1>11. \A h \in D : a[h].rrpv = t[h].rrpv + steps /\ a[h].last = t[h].last /\ a[h] \in Entry
  <2>1. ASSUME NEW h \in D
        PROVE  a[h].rrpv = t[h].rrpv + steps /\ a[h].last = t[h].last /\ a[h] \in Entry
    <3>1. a[h] = [t[h] EXCEPT !.rrpv = t[h].rrpv + steps]
      OBVIOUS
    <3>2. t[h] \in Entry /\ t[h].rrpv + steps \in 0 .. RripMax
      BY <1>1, <1>8
    <3> HIDE DEF a
    <3> QED BY <3>1, <3>2 DEF Entry
  <2> QED BY <2>1
<1>12. a = [h \in D |-> a[h]] /\ D \in SUBSET Hashes
  BY TableFacts
<1> HIDE DEF a
<1>13. a \in Tables /\ DOMAIN a = D
  BY <1>11, <1>12, IsTable
<1> QED BY <1>9, <1>10, <1>11, <1>13

\* _evict removes exactly one entry, whatever the policy, and under lru one with the
\* oldest access; the other entries keep their access times.
LEMMA EvictFacts ==
  ASSUME NEW p \in Policies, NEW c \in ShadowCache,
         IsFiniteSet(DOMAIN c.table), DOMAIN c.table # {}
  PROVE  \E v \in DOMAIN c.table, t \in Tables :
           /\ ShadowEvict(p, c) = [c EXCEPT !.table = t]
           /\ DOMAIN t = DOMAIN c.table \ {v}
           /\ \A h \in DOMAIN t : t[h].last = c.table[h].last
           /\ p = "lru" => \A g \in DOMAIN c.table : c.table[v].last <= c.table[g].last
<1> DEFINE table == IF p = "rrip" THEN Aged(c.table) ELSE c.table
           D == DOMAIN c.table
           old == {g \in D : table[g].rrpv >= RripMax}
           victim ==
             CASE p = "fifo" -> LeastBy([h \in D |-> <<table[h].first, h>>])
               [] p = "rrip" -> LeastBy([h \in old |-> <<table[h].last, h>>])
               [] p = "pdp"  -> LeastBy([h \in D |-> PdpVictimKey(c, h)])
               [] p = "lru"  -> LeastBy([h \in D |-> <<table[h].last, h>>])
<1>1. c.table \in Tables
  BY DEF ShadowCache
<1>2. /\ table \in Tables /\ DOMAIN table = D
      /\ \A h \in D : table[h].last = c.table[h].last
      /\ p = "rrip" => \E h \in D : table[h].rrpv >= RripMax
      /\ p # "rrip" => table = c.table
  BY <1>1, AgedFacts
<1>3. ShadowEvict(p, c) = [c EXCEPT !.table = Restrict(table, D \ {victim})]
  BY <1>2 DEF ShadowEvict
<1> HIDE DEF table
<1>4. D \in SUBSET Hashes /\ D \in SUBSET Nat /\ \A h \in D : table[h] \in Entry /\ c.table[h] \in Entry
  BY <1>1, <1>2, TableFacts
<1>5. \A h \in D : table[h].first \in Nat /\ table[h].last \in Nat
  BY <1>4 DEF Entry
<1>6. victim \in D /\ (p = "lru" => \A g \in D : c.table[victim].last <= c.table[g].last)
  <2>1. CASE p = "fifo"
    <3> DEFINE t == [h \in D |-> table[h].first]
    <3>1. t \in [D -> Nat] /\ [h \in D |-> <<table[h].first, h>>] = [h \in D |-> <<t[h], h>>]
      BY <1>5
    <3> HIDE DEF t
    <3>2. LeastBy([h \in D |-> <<table[h].first, h>>]) \in D
      BY <1>4, <3>1, LeastByTime
    <3> QED BY <2>1, <3>2
  <2>2. CASE p = "rrip"
    <3> DEFINE t == [h \in old |-> table[h].last]
    <3>1. t \in [old -> Nat] /\ [h \in old |-> <<table[h].last, h>>] = [h \in old |-> <<t[h], h>>]
      BY <1>5
    <3>2. IsFiniteSet(old) /\ old # {} /\ old \subseteq D /\ old \in SUBSET Nat
      BY <1>2, <1>4, <2>2, FS_Subset
    <3> HIDE DEF t, old
    <3>3. LeastBy([h \in old |-> <<table[h].last, h>>]) \in old
      BY <3>1, <3>2, LeastByTime
    <3> QED BY <2>2, <3>2, <3>3
  <2>3. CASE p = "pdp"
    <3> DEFINE key == [h \in D |-> PdpVictimKey(c, h)]
    <3>1. ASSUME NEW h \in D
          PROVE  PdpVictimKey(c, h) \in Int \X Int \X Int \X Int /\ PdpVictimKey(c, h)[4] = h
      <4> DEFINE e == c.table[h]
                 big == c.total + c.protecting + MaxDistance + InitialPd
      <4>1. e.protectedUntil \in Int /\ e.lastEpoch \in Int /\ e.last \in Int /\ h \in Int
            /\ e.reused \in BOOLEAN
        BY <1>4 DEF Entry
      <4>2. c.total \in Int /\ big \in Int
        BY DistanceAssumption, SchedulerAssumption DEF ShadowCache
      <4>3. PdpVictimKey(c, h) =
              IF e.protectedUntil <= c.total
              THEN <<0, e.lastEpoch, e.last, h>>
              ELSE <<IF e.reused THEN 2 ELSE 1,
                     big - (e.protectedUntil - c.total), big - e.lastEpoch, h>>
        BY DEF PdpVictimKey
      <4>4. (IF e.reused THEN 2 ELSE 1) \in Int
        OBVIOUS
      <4> HIDE DEF e, big
      <4>5. big - (e.protectedUntil - c.total) \in Int /\ big - e.lastEpoch \in Int
        BY <4>1, <4>2
      <4> QED BY <4>1, <4>3, <4>4, <4>5
    <3>2. key \in [D -> Int \X Int \X Int \X Int] /\ \A h \in D : key[h][4] = h
      BY <3>1
    <3>3. LeastBy(key) \in D
      <4> HIDE DEF key
      <4> QED BY <1>4, <3>2, LeastByQuadruple
    <3> QED BY <2>3, <3>3
  <2>4. CASE p = "lru"
    <3> DEFINE t == [h \in D |-> table[h].last]
    <3>1. t \in [D -> Nat] /\ [h \in D |-> <<table[h].last, h>>] = [h \in D |-> <<t[h], h>>]
          /\ \A h \in D : t[h] = c.table[h].last
      BY <1>2, <1>5
    <3> HIDE DEF t
    <3>2. /\ LeastBy([h \in D |-> <<table[h].last, h>>]) \in D
          /\ \A g \in D : t[LeastBy([h \in D |-> <<table[h].last, h>>])] <= t[g]
      BY <1>4, <3>1, LeastByTime
    <3>3. victim = LeastBy([h \in D |-> <<table[h].last, h>>])
      BY <2>4
    <3> HIDE DEF victim
    <3> QED BY <3>1, <3>2, <3>3
  <2> QED BY <2>1, <2>2, <2>3, <2>4 DEF Policies
<1> HIDE DEF victim
<1> DEFINE t == Restrict(table, D \ {victim})
<1>7. t = [h \in D \ {victim} |-> table[h]]
  BY DEF Restrict
<1>8. t = [h \in D \ {victim} |-> t[h]] /\ \A h \in D \ {victim} : t[h] = table[h]
  BY <1>7
<1> HIDE DEF t
<1>9. t \in Tables /\ DOMAIN t = D \ {victim}
  <2>1. D \ {victim} \in SUBSET Hashes /\ \A h \in D \ {victim} : t[h] \in Entry
    BY <1>4, <1>8
  <2> QED BY <1>8, <2>1, IsTable
<1>10. \A h \in DOMAIN t : t[h].last = c.table[h].last
  BY <1>2, <1>8, <1>9
<1>11. ShadowEvict(p, c) = [c EXCEPT !.table = t]
  BY <1>3 DEF t
<1> QED BY <1>6, <1>9, <1>10, <1>11

\* The PDP bookkeeping changes neither the table nor the counters.
LEMMA RecordFacts ==
  ASSUME NEW c \in ShadowCache, NEW h \in Hashes
  PROVE  /\ PdpRecord(c, h) \in ShadowCache
         /\ PdpRecord(c, h).table = c.table
         /\ PdpRecord(c, h).hits = c.hits
         /\ PdpRecord(c, h).total = c.total
<1> DEFINE epoch == c.total + 1
           bucket == BucketDistance(epoch - c.lastSeen[h])
           counts == IF c.lastSeen[h] = 0 THEN c.counts
                     ELSE [c.counts EXCEPT ![bucket] = @ + 1]
           pd == IF epoch % RecomputeInterval = 0
                 THEN RecomputedDistance(counts, epoch, c.protecting) ELSE c.protecting
<1>1. /\ c.total \in Nat /\ c.lastSeen \in [Hashes -> Nat] /\ c.counts \in [Distances -> Nat]
      /\ c.protecting \in Nat \ {0}
  BY DEF ShadowCache
<1>2. epoch \in Nat /\ epoch - c.lastSeen[h] \in Int
  BY <1>1
<1>3. bucket \in Distances
  BY <1>2, BucketTyped
<1>4. PdpRecord(c, h) = [c EXCEPT !.lastSeen[h] = epoch, !.counts = counts, !.protecting = pd]
  BY DEF PdpRecord
<1> HIDE DEF epoch, bucket
<1>5. counts \in [Distances -> Nat]
  BY <1>1, <1>3
<1> HIDE DEF counts
<1>6. pd \in Nat \ {0}
  BY <1>1, <1>2, <1>5, RecomputedTyped
<1> HIDE DEF pd
<1>7. PdpRecord(c, h) =
        [c EXCEPT !.lastSeen = [c.lastSeen EXCEPT ![h] = epoch], !.counts = counts,
                  !.protecting = pd]
  BY <1>4
<1>8. [c.lastSeen EXCEPT ![h] = epoch] \in [Hashes -> Nat]
  BY <1>1, <1>2
<1> QED BY <1>5, <1>6, <1>7, <1>8 DEF ShadowCache

\* What an access does to a table: t is the table before and u the one after the
\* access of h at time now; v is the entry that made room.
Refreshed(t, u, h, time) ==
  /\ h \in DOMAIN t /\ DOMAIN u = DOMAIN t
  /\ u[h].last = time
  /\ \A g \in DOMAIN t \ {h} : u[g].last = t[g].last
Inserted(t, u, h, time) ==
  /\ h \notin DOMAIN t /\ Capacity > 0 /\ Cardinality(DOMAIN t) < Capacity
  /\ DOMAIN u = DOMAIN t \cup {h}
  /\ u[h].last = time
  /\ \A g \in DOMAIN t : u[g].last = t[g].last
Replaced(t, u, h, time, v) ==
  /\ h \notin DOMAIN t /\ Capacity > 0 /\ Cardinality(DOMAIN t) >= Capacity
  /\ v \in DOMAIN t
  /\ DOMAIN u = (DOMAIN t \ {v}) \cup {h}
  /\ u[h].last = time
  /\ \A g \in DOMAIN t \ {v} : u[g].last = t[g].last

\* The parts of a shadow that an access must keep in step with the sample.
Replayed(p, c, d, h, time) ==
  /\ d \in ShadowCache
  /\ d.total = c.total + 1
  /\ d.hits = c.hits + (IF h \in DOMAIN c.table THEN 1 ELSE 0)
  /\ \/ Refreshed(c.table, d.table, h, time)
     \/ Inserted(c.table, d.table, h, time)
     \/ \E v \in DOMAIN c.table :
          /\ Replaced(c.table, d.table, h, time, v)
          /\ p = "lru" => \A g \in DOMAIN c.table : c.table[v].last <= c.table[g].last
     \/ h \notin DOMAIN c.table /\ Capacity = 0 /\ d.table = c.table

\* A hit refreshes the entry.
LEMMA HitFacts ==
  ASSUME NEW c \in ShadowCache, NEW h \in DOMAIN c.table, NEW time \in Nat
  PROVE  /\ ShadowHit(c, h, time) \in ShadowCache
         /\ ShadowHit(c, h, time).total = c.total
         /\ ShadowHit(c, h, time).hits = c.hits
         /\ Refreshed(c.table, ShadowHit(c, h, time).table, h, time)
<1> DEFINE e == [c.table[h] EXCEPT !.last = time, !.rrpv = RripHit,
                    !.protectedUntil = c.total + c.protecting,
                    !.lastEpoch = c.total, !.reused = TRUE]
           t == [c.table EXCEPT ![h] = e]
<1>1. c.table \in Tables /\ c.total \in Nat /\ c.protecting \in Nat
  BY DEF ShadowCache
<1>2. DOMAIN c.table \in SUBSET Hashes /\ \A g \in DOMAIN c.table : c.table[g] \in Entry
  BY <1>1, TableFacts
<1>3. e \in Entry /\ e.last = time
  <2>1. c.table[h] \in Entry /\ c.total + c.protecting \in Nat /\ RripHit \in 0 .. RripMax
    BY <1>1, <1>2 DEF RripHit, RripMax
  <2> QED BY <1>1, <2>1 DEF Entry
<1>4. ShadowHit(c, h, time) = [c EXCEPT !.table = t]
  BY DEF ShadowHit
<1> HIDE DEF e
<1>5. t = [g \in DOMAIN c.table |-> t[g]] /\ t[h] = e
      /\ \A g \in DOMAIN c.table \ {h} : t[g] = c.table[g]
  <2>1. c.table = [g \in DOMAIN c.table |-> c.table[g]]
    BY <1>1, TableFacts
  <2> QED BY <2>1
<1> HIDE DEF t
<1>6. t \in Tables /\ DOMAIN t = DOMAIN c.table
  <2>1. \A g \in DOMAIN c.table : t[g] \in Entry
    BY <1>2, <1>3, <1>5
  <2> QED BY <1>2, <1>5, <2>1, IsTable
<1>7. [c EXCEPT !.table = t] \in ShadowCache /\ [c EXCEPT !.table = t].table = t
      /\ [c EXCEPT !.table = t].total = c.total /\ [c EXCEPT !.table = t].hits = c.hits
  BY <1>6 DEF ShadowCache
<1>8. Refreshed(c.table, t, h, time)
  BY <1>3, <1>5, <1>6 DEF Refreshed
<1> QED BY <1>4, <1>7, <1>8

\* A miss inserts the hash, after making room if the table is full.
LEMMA InsertFacts ==
  ASSUME NEW p \in Policies, NEW c \in ShadowCache, IsFiniteSet(DOMAIN c.table),
         NEW h \in Hashes, h \notin DOMAIN c.table, NEW time \in Nat
  PROVE  /\ ShadowInsert(p, c, h, time) \in ShadowCache
         /\ ShadowInsert(p, c, h, time).total = c.total
         /\ ShadowInsert(p, c, h, time).hits = c.hits
         /\ \/ Inserted(c.table, ShadowInsert(p, c, h, time).table, h, time)
            \/ \E v \in DOMAIN c.table :
                 /\ Replaced(c.table, ShadowInsert(p, c, h, time).table, h, time, v)
                 /\ p = "lru" => \A g \in DOMAIN c.table : c.table[v].last <= c.table[g].last
            \/ Capacity = 0 /\ ShadowInsert(p, c, h, time).table = c.table
<1> DEFINE D == DOMAIN c.table
           full == Cardinality(D) >= Capacity
           room == IF full THEN ShadowEvict(p, c) ELSE c
           new == [first |-> time, last |-> time, rrpv |-> RripInsert,
                   protectedUntil |-> c.total + c.protecting,
                   lastEpoch |-> c.total, reused |-> FALSE]
           with(t) == [g \in DOMAIN t \cup {h} |-> IF g = h THEN new ELSE t[g]]
<1>1. c.table \in Tables /\ c.total \in Nat /\ c.protecting \in Nat /\ Capacity \in Nat
      /\ Cardinality(D) \in Nat
  BY SchedulerAssumption, FS_CardinalityType DEF ShadowCache
<1>2. new \in Entry /\ new.last = time
  <2>1. c.total + c.protecting \in Nat /\ RripInsert \in 0 .. RripMax
    BY <1>1 DEF RripInsert, RripMax
  <2> QED BY <1>1, <2>1 DEF Entry
<1>3. CASE Capacity = 0
  <2>1. ShadowInsert(p, c, h, time) = c
    BY <1>3 DEF ShadowInsert
  <2> QED BY <1>3, <2>1
<1>4. CASE Capacity # 0
  <2>1. ShadowInsert(p, c, h, time) = [room EXCEPT !.table = with(room.table)]
    BY <1>4 DEF ShadowInsert
  <2> HIDE DEF new
  <2>2. ASSUME NEW t \in Tables
        PROVE  /\ with(t) \in Tables /\ DOMAIN with(t) = DOMAIN t \cup {h}
               /\ with(t)[h].last = time /\ \A g \in DOMAIN t \ {h} : with(t)[g] = t[g]
    <3> DEFINE w == with(t)
               E == DOMAIN t \cup {h}
    <3>1. E \in SUBSET Hashes /\ \A g \in DOMAIN t : t[g] \in Entry
      BY TableFacts
    <3>2. w = [g \in E |-> w[g]] /\ w[h] = new /\ \A g \in DOMAIN t \ {h} : w[g] = t[g]
      OBVIOUS
    <3> HIDE DEF w
    <3>3. \A g \in E : w[g] \in Entry
      BY <1>2, <3>1, <3>2
    <3>4. w \in Tables /\ DOMAIN w = E
      <4> HIDE DEF E
      <4> QED BY <3>1, <3>2, <3>3, IsTable
    <3> QED BY <1>2, <3>2, <3>4 DEF w
  <2> HIDE DEF with
  <2>3. ASSUME NEW t \in Tables, room = [c EXCEPT !.table = t]
        PROVE  /\ ShadowInsert(p, c, h, time) \in ShadowCache
               /\ ShadowInsert(p, c, h, time).total = c.total
               /\ ShadowInsert(p, c, h, time).hits = c.hits
               /\ ShadowInsert(p, c, h, time).table = with(t)
    <3>1. room.table = t
      BY <2>3 DEF ShadowCache
    <3>2. [room EXCEPT !.table = with(t)] = [c EXCEPT !.table = with(t)]
      BY <2>3 DEF ShadowCache
    <3>3. ShadowInsert(p, c, h, time) = [c EXCEPT !.table = with(t)]
      <4> HIDE DEF room
      <4> QED BY <2>1, <3>1, <3>2
    <3>4. with(t) \in Tables
      BY <2>2
    <3> HIDE DEF room
    <3> QED BY <3>3, <3>4 DEF ShadowCache
  <2>4. CASE ~ full
    <3>1. room = [c EXCEPT !.table = c.table]
      BY <2>4 DEF ShadowCache
    <3>2. /\ ShadowInsert(p, c, h, time) \in ShadowCache
          /\ ShadowInsert(p, c, h, time).total = c.total
          /\ ShadowInsert(p, c, h, time).hits = c.hits
          /\ ShadowInsert(p, c, h, time).table = with(c.table)
      <4> HIDE DEF room
      <4> QED BY <1>1, <2>3, <3>1
    <3>3. Inserted(c.table, with(c.table), h, time)
      <4>1. /\ DOMAIN with(c.table) = D \cup {h}
            /\ with(c.table)[h].last = time /\ \A g \in D : with(c.table)[g] = c.table[g]
        BY <1>1, <2>2
      <4>2. Capacity > 0 /\ Cardinality(D) < Capacity
        BY <1>1, <1>4, <2>4
      <4> QED BY <4>1, <4>2 DEF Inserted
    <3> QED BY <3>2, <3>3
  <2>5. CASE full
    <3>1. D # {}
      <4>1. SUFFICES ASSUME D = {}
                     PROVE  FALSE
        OBVIOUS
      <4>2. Cardinality(D) = 0
        BY <4>1, FS_EmptySet
      <4> QED BY <1>1, <1>4, <2>5, <4>2
    <3>2. PICK v \in D, t \in Tables :
            /\ ShadowEvict(p, c) = [c EXCEPT !.table = t]
            /\ DOMAIN t = D \ {v}
            /\ \A g \in DOMAIN t : t[g].last = c.table[g].last
            /\ p = "lru" => \A g \in D : c.table[v].last <= c.table[g].last
      BY <3>1, EvictFacts
    <3>3. room = [c EXCEPT !.table = t]
      BY <2>5, <3>2
    <3>4. /\ ShadowInsert(p, c, h, time) \in ShadowCache
          /\ ShadowInsert(p, c, h, time).total = c.total
          /\ ShadowInsert(p, c, h, time).hits = c.hits
          /\ ShadowInsert(p, c, h, time).table = with(t)
      <4> HIDE DEF room
      <4> QED BY <2>3, <3>3
    <3>5. Replaced(c.table, with(t), h, time, v)
      <4>1. /\ DOMAIN with(t) = (D \ {v}) \cup {h}
            /\ with(t)[h].last = time /\ \A g \in D \ {v} : with(t)[g] = t[g]
        BY <2>2, <3>2
      <4>2. \A g \in D \ {v} : with(t)[g].last = c.table[g].last
        BY <3>2, <4>1
      <4>3. Capacity > 0
        BY <1>1, <1>4
      <4> QED BY <2>5, <4>1, <4>2, <4>3 DEF Replaced
    <3> QED BY <3>2, <3>4, <3>5
  <2> QED BY <2>4, <2>5
<1> QED BY <1>3, <1>4

\* An access replays the sample on the shadow.
LEMMA AccessReplays ==
  ASSUME NEW p \in Policies, NEW c \in ShadowCache, IsFiniteSet(DOMAIN c.table),
         NEW h \in Hashes, NEW time \in Nat
  PROVE  Replayed(p, c, ShadowAccess(p, c, h, time), h, time)
<1> DEFINE hit == h \in DOMAIN c.table
           noted == IF p = "pdp" THEN PdpRecord(c, h) ELSE c
           counted == [noted EXCEPT !.total = @ + 1, !.hits = IF hit THEN @ + 1 ELSE @]
           d == ShadowAccess(p, c, h, time)
<1>1. noted \in ShadowCache /\ noted.table = c.table /\ noted.hits = c.hits
      /\ noted.total = c.total
  BY RecordFacts
<1>2. d = IF hit THEN ShadowHit(counted, h, time) ELSE ShadowInsert(p, counted, h, time)
  BY DEF ShadowAccess
<1> HIDE DEF noted
<1>3. counted \in ShadowCache /\ counted.table = c.table /\ counted.total = c.total + 1
      /\ counted.hits = c.hits + (IF hit THEN 1 ELSE 0)
  <2> DEFINE k == IF hit THEN noted.hits + 1 ELSE noted.hits
  <2>1. noted.hits \in Nat /\ noted.total \in Nat
    BY <1>1 DEF ShadowCache
  <2>2. k \in Nat /\ k = c.hits + (IF hit THEN 1 ELSE 0) /\ noted.total + 1 \in Nat
    BY <1>1, <2>1
  <2>3. counted = [noted EXCEPT !.total = noted.total + 1, !.hits = k]
    OBVIOUS
  <2> HIDE DEF k, counted, hit
  <2> QED BY <1>1, <2>2, <2>3 DEF ShadowCache
<1> HIDE DEF counted
<1>4. CASE hit
  <2>1. h \in DOMAIN counted.table /\ d = ShadowHit(counted, h, time)
    BY <1>2, <1>3, <1>4
  <2>2. d \in ShadowCache /\ d.total = counted.total /\ d.hits = counted.hits
        /\ Refreshed(counted.table, d.table, h, time)
    BY <1>3, <2>1, HitFacts
  <2> HIDE DEF d
  <2>3. Refreshed(c.table, d.table, h, time)
    BY <1>3, <2>2
  <2>4. Replayed(p, c, d, h, time)
    BY <1>3, <1>4, <2>2, <2>3 DEF Replayed
  <2> QED BY <2>4 DEF d
<1>5. CASE ~ hit
  <2>1. h \notin DOMAIN counted.table /\ d = ShadowInsert(p, counted, h, time)
        /\ IsFiniteSet(DOMAIN counted.table)
    BY <1>2, <1>3, <1>5
  <2>2. /\ d \in ShadowCache /\ d.total = counted.total /\ d.hits = counted.hits
        /\ \/ Inserted(counted.table, d.table, h, time)
           \/ \E v \in DOMAIN counted.table :
                /\ Replaced(counted.table, d.table, h, time, v)
                /\ p = "lru" => \A g \in DOMAIN counted.table :
                                   counted.table[v].last <= counted.table[g].last
           \/ Capacity = 0 /\ d.table = counted.table
    BY <1>3, <2>1, InsertFacts
  <2> HIDE DEF d
  <2>3. /\ d \in ShadowCache /\ d.total = c.total + 1
        /\ d.hits = c.hits + (IF hit THEN 1 ELSE 0)
    BY <1>3, <2>2
  <2>4. \/ Inserted(c.table, d.table, h, time)
        \/ \E v \in DOMAIN c.table :
             /\ Replaced(c.table, d.table, h, time, v)
             /\ p = "lru" => \A g \in DOMAIN c.table : c.table[v].last <= c.table[g].last
        \/ h \notin DOMAIN c.table /\ Capacity = 0 /\ d.table = c.table
    BY <1>3, <1>5, <2>2
  <2>5. Replayed(p, c, d, h, time)
    BY <2>3, <2>4 DEF Replayed
  <2> QED BY <2>5 DEF d
<1> QED BY <1>4, <1>5

\* An access keeps a shadow within the device and its hits within its accesses.
LEMMA AccessGood ==
  ASSUME NEW p \in Policies, NEW c, GoodShadow(c), NEW d, NEW h \in Hashes, NEW time \in Nat,
         Replayed(p, c, d, h, time)
  PROVE  GoodShadow(d)
<1> DEFINE C == DOMAIN c.table
           D == DOMAIN d.table
<1>1. /\ c \in ShadowCache /\ IsFiniteSet(C) /\ Cardinality(C) <= Capacity /\ c.hits <= c.total
      /\ c.hits \in Nat /\ c.total \in Nat /\ Cardinality(C) \in Nat /\ Capacity \in Nat
  BY SchedulerAssumption, FS_CardinalityType DEF GoodShadow, ShadowCache
<1>2. d \in ShadowCache /\ d.hits <= d.total
  BY <1>1 DEF Replayed
<1>3. IsFiniteSet(D) /\ Cardinality(D) <= Capacity
  <2>1. CASE Refreshed(c.table, d.table, h, time)
    BY <1>1, <2>1 DEF Refreshed
  <2>2. CASE Inserted(c.table, d.table, h, time)
    <3>1. D = C \cup {h} /\ h \notin C /\ Cardinality(C) < Capacity
      BY <2>2 DEF Inserted
    <3>2. IsFiniteSet(C \cup {h}) /\ Cardinality(C \cup {h}) = Cardinality(C) + 1
      BY <1>1, <3>1, FS_AddElement
    <3> QED BY <1>1, <3>1, <3>2
  <2>3. ASSUME NEW v \in C, Replaced(c.table, d.table, h, time, v)
        PROVE  IsFiniteSet(D) /\ Cardinality(D) <= Capacity
    <3> DEFINE B == C \ {v}
    <3>1. D = B \cup {h} /\ h \notin C
      BY <2>3 DEF Replaced
    <3>2. IsFiniteSet(B) /\ Cardinality(B) = Cardinality(C) - 1 /\ h \notin B
      BY <1>1, <3>1, FS_RemoveElement
    <3> HIDE DEF B
    <3>3. IsFiniteSet(B \cup {h}) /\ Cardinality(B \cup {h}) = Cardinality(B) + 1
      BY <3>2, FS_AddElement
    <3> QED BY <1>1, <3>1, <3>2, <3>3
  <2>4. CASE d.table = c.table
    BY <1>1, <2>4
  <2> QED BY <2>1, <2>2, <2>3, <2>4 DEF Replayed
<1> QED BY <1>2, <1>3 DEF GoodShadow

-----------------------------------------------------------------------------
(* The ideal LRU cache of a sequence of accesses, without state.            *)

Seen(s, m, n) == {s[k] : k \in m + 1 .. n}
Newest(s, n, h, i) == i \in 1 .. n /\ s[i] = h /\ h \notin Seen(s, i, n)
Ideal(s, n) ==
  {h \in Seen(s, 0, n) : \E i \in 1 .. n :
     s[i] = h /\ h \notin Seen(s, i, n) /\ Cardinality(Seen(s, i, n)) < Capacity}
HitsOf(s) == {n \in DOMAIN s : s[n] \in Ideal(s, n - 1)}

\* The definitions of the specification, for the sampled accesses.
LEMMA IdealOfSampled ==
  ASSUME TRUE
  PROVE  /\ \A n : IdealLRU(n) = Ideal(sampled, n)
         /\ {n \in DOMAIN sampled : sampled[n] \in IdealLRU(n - 1)} = HitsOf(sampled)
<1>1. \A n : IdealLRU(n) = Ideal(sampled, n)
  BY DEF IdealLRU, Ideal, Distinct, Seen
<1> QED BY <1>1 DEF HitsOf

\* Finitely many hashes are seen in a stretch of the sequence.
LEMMA SeenFinite ==
  ASSUME NEW s, NEW m \in Nat, NEW n \in Nat
  PROVE  IsFiniteSet(Seen(s, m, n)) /\ Cardinality(Seen(s, m, n)) \in Nat
<1> DEFINE K == m + 1 .. n
           S == Seen(s, m, n)
           f == [k \in K |-> s[k]]
<1>1. IsFiniteSet(K)
  <2>1. m + 1 \in Int /\ n \in Int
    OBVIOUS
  <2> QED BY <2>1, FS_Interval
<1>2. f \in Surjection(K, S)
  <2>1. f \in [K -> S]
    BY DEF Seen
  <2>2. \A y \in S : \E k \in K : f[k] = y
    BY DEF Seen
  <2> QED BY <2>1, <2>2 DEF Surjection
<1> HIDE DEF f, K, S
<1>3. IsFiniteSet(S)
  BY <1>1, <1>2, FS_Surjection
<1> QED BY <1>3, FS_CardinalityType DEF S

\* A larger finite set has at least as many elements; one more element counts for at
\* most one.
LEMMA Sizes ==
  ASSUME NEW A, NEW B, IsFiniteSet(B), A \subseteq B, NEW x
  PROVE  /\ IsFiniteSet(A) /\ Cardinality(A) \in Nat /\ Cardinality(B) \in Nat
         /\ Cardinality(A) <= Cardinality(B)
         /\ IsFiniteSet(A \cup {x}) /\ Cardinality(A \cup {x}) \in Nat
         /\ Cardinality(A \cup {x}) <= Cardinality(A) + 1
         /\ Cardinality(A) <= Cardinality(A \cup {x})
         /\ x \notin A => Cardinality(A \cup {x}) = Cardinality(A) + 1
         /\ x \in A => Cardinality(A \ {x}) = Cardinality(A) - 1
         /\ x \in B /\ x \notin A => Cardinality(A) + 1 <= Cardinality(B)
<1>1. IsFiniteSet(A) /\ Cardinality(A) <= Cardinality(B)
  BY FS_Subset
<1>2. Cardinality(A) \in Nat /\ Cardinality(B) \in Nat
  BY <1>1, FS_CardinalityType
<1>3. CASE x \in A
  <2>1. A \cup {x} = A
    BY <1>3
  <2>2. Cardinality(A \ {x}) = Cardinality(A) - 1
    BY <1>1, <1>3, FS_RemoveElement
  <2>3. IsFiniteSet(A \cup {x}) /\ Cardinality(A \cup {x}) = Cardinality(A)
    BY <1>1, <2>1
  <2> QED BY <1>1, <1>2, <1>3, <2>2, <2>3
<1>4. CASE x \notin A
  <2>1. IsFiniteSet(A \cup {x}) /\ Cardinality(A \cup {x}) = Cardinality(A) + 1
    BY <1>1, <1>4, FS_AddElement
  <2>2. x \in B => Cardinality(A \cup {x}) <= Cardinality(B)
    <3>1. x \in B => A \cup {x} \subseteq B
      OBVIOUS
    <3> QED BY <3>1, FS_Subset
  <2> QED BY <1>1, <1>2, <1>4, <2>1, <2>2
<1> QED BY <1>3, <1>4

\* A hash has only one newest position.
LEMMA NewestUnique ==
  ASSUME NEW s, NEW n \in Nat, NEW h, NEW i, NEW j, Newest(s, n, h, i), Newest(s, n, h, j)
  PROVE  i = j
<1>1. i \in 1 .. n /\ j \in 1 .. n /\ s[i] = h /\ s[j] = h
      /\ h \notin Seen(s, i, n) /\ h \notin Seen(s, j, n)
  BY DEF Newest
<1>2. ~ (i < j) /\ ~ (j < i)
  BY <1>1 DEF Seen
<1> QED BY <1>1, <1>2

\* A hash that is seen has a newest position.
LEMMA NewestExists ==
  ASSUME NEW s, NEW n \in Nat, NEW m \in Nat, NEW h \in Seen(s, m, n)
  PROVE  \E i \in m + 1 .. n : Newest(s, n, h, i)
<1> DEFINE K == {k \in m + 1 .. n : s[k] = h}
<1>1. K # {} /\ K \in SUBSET Int /\ K \subseteq m + 1 .. n
  BY DEF Seen
<1>2. IsFiniteSet(K)
  <2>1. m + 1 \in Int /\ n \in Int
    OBVIOUS
  <2>2. IsFiniteSet(m + 1 .. n)
    BY <2>1, FS_Interval
  <2> HIDE DEF K
  <2> QED BY <1>1, <2>2, FS_Subset
<1>3. PICK i \in K : \A k \in K : i >= k
  <2> HIDE DEF K
  <2> QED BY <1>1, <1>2, MaxExists
<1>4. i \in m + 1 .. n /\ i \in 1 .. n /\ s[i] = h
  BY <1>3
<1>5. h \notin Seen(s, i, n)
  <2>1. SUFFICES ASSUME h \in Seen(s, i, n)
                 PROVE  FALSE
    OBVIOUS
  <2>2. PICK k \in i + 1 .. n : s[k] = h
    BY <2>1 DEF Seen
  <2>3. k \in K /\ k > i
    BY <1>4, <2>2
  <2> QED BY <1>3, <1>4, <2>3
<1> QED BY <1>4, <1>5 DEF Newest

\* Membership of the ideal cache, by the newest position.
LEMMA IdealMember ==
  ASSUME NEW s, NEW n \in Nat, NEW h
  PROVE  /\ h \in Ideal(s, n) <=>
              \E i \in 1 .. n : Newest(s, n, h, i) /\ Cardinality(Seen(s, i, n)) < Capacity
         /\ h \in Ideal(s, n) => \A i : Newest(s, n, h, i) =>
              Cardinality(Seen(s, i, n)) < Capacity
<1>1. h \in Ideal(s, n) <=>
        \E i \in 1 .. n : Newest(s, n, h, i) /\ Cardinality(Seen(s, i, n)) < Capacity
  <2>1. ASSUME NEW i \in 1 .. n, s[i] = h
        PROVE  h \in Seen(s, 0, n)
    BY <2>1 DEF Seen
  <2>2. ASSUME NEW i \in 1 .. n, Newest(s, n, h, i), Cardinality(Seen(s, i, n)) < Capacity
        PROVE  h \in Ideal(s, n)
    BY <2>1, <2>2 DEF Newest, Ideal
  <2>3. ASSUME h \in Ideal(s, n)
        PROVE  \E i \in 1 .. n : Newest(s, n, h, i) /\ Cardinality(Seen(s, i, n)) < Capacity
    BY <2>3 DEF Newest, Ideal
  <2> QED BY <2>2, <2>3
<1>2. ASSUME h \in Ideal(s, n), NEW i, Newest(s, n, h, i)
      PROVE  Cardinality(Seen(s, i, n)) < Capacity
  <2>1. PICK j \in 1 .. n : Newest(s, n, h, j) /\ Cardinality(Seen(s, j, n)) < Capacity
    BY <1>1, <1>2
  <2>2. i = j
    BY <1>2, <2>1, NewestUnique
  <2> QED BY <2>1, <2>2
<1> QED BY <1>1, <1>2

\* What was accessed after a member of the ideal cache is in the cache too.
LEMMA LaterIsCached ==
  ASSUME NEW s, NEW n \in Nat, NEW h \in Ideal(s, n), NEW i, Newest(s, n, h, i)
  PROVE  Seen(s, i, n) \subseteq Ideal(s, n) \ {h}
<1>0. i \in 1 .. n /\ i \in Nat /\ h \notin Seen(s, i, n) /\ Capacity \in Nat
  BY SchedulerAssumption DEF Newest
<1>1. Cardinality(Seen(s, i, n)) < Capacity
  BY IdealMember
<1>2. ASSUME NEW y \in Seen(s, i, n)
      PROVE  y \in Ideal(s, n)
  <2>1. PICK j \in i + 1 .. n : Newest(s, n, y, j)
    BY <1>0, NewestExists
  <2>2. Seen(s, j, n) \subseteq Seen(s, i, n) /\ j \in 1 .. n
    BY <1>0, <2>1 DEF Seen
  <2>3. IsFiniteSet(Seen(s, i, n))
    BY <1>0, SeenFinite
  <2>4. Cardinality(Seen(s, j, n)) <= Cardinality(Seen(s, i, n))
        /\ Cardinality(Seen(s, j, n)) \in Nat /\ Cardinality(Seen(s, i, n)) \in Nat
    BY <2>2, <2>3, Sizes
  <2>5. Cardinality(Seen(s, j, n)) < Capacity
    BY <1>0, <1>1, <2>4
  <2> QED BY <2>1, <2>2, <2>5, IdealMember
<1> QED BY <1>0, <1>2

\* z is the sequence s of n accesses and one more, of x.
OneMore(s, x, n, z) ==
  /\ n \in Nat /\ Len(z) = n + 1 /\ DOMAIN z = 1 .. n + 1 /\ DOMAIN s = 1 .. n
  /\ z \in Seq(Hashes) /\ z[n + 1] = x /\ \A k \in 1 .. n : z[k] = s[k]
  /\ \A i \in Nat, m \in 0 .. n : Seen(z, i, m) = Seen(s, i, m)
  /\ \A i \in 0 .. n : Seen(z, i, n + 1) = Seen(s, i, n) \cup {x}
  /\ Seen(z, n + 1, n + 1) = {}
  /\ \A i : Newest(z, n + 1, x, i) <=> i = n + 1
  /\ \A g, i : g # x => (Newest(z, n + 1, g, i) <=> Newest(s, n, g, i))

\* One more access: what is seen, and where a hash was seen last.
LEMMA SeenAppend ==
  ASSUME NEW s \in Seq(Hashes), NEW x \in Hashes, NEW n, n = Len(s), NEW z, z = Append(s, x)
  PROVE  OneMore(s, x, n, z)
<1>1. n \in Nat /\ Len(z) = n + 1 /\ DOMAIN z = 1 .. n + 1 /\ DOMAIN s = 1 .. n
      /\ z \in Seq(Hashes) /\ z[n + 1] = x /\ \A k \in 1 .. n : z[k] = s[k]
  OBVIOUS
<1>2. \A i \in Nat, m \in 0 .. n : Seen(z, i, m) = Seen(s, i, m)
  <2>1. TAKE i \in Nat, m \in 0 .. n
  <2>2. \A k \in i + 1 .. m : z[k] = s[k]
    BY <1>1
  <2> QED BY <2>2 DEF Seen
<1>3. \A i \in 0 .. n : Seen(z, i, n + 1) = Seen(s, i, n) \cup {x}
  <2>1. TAKE i \in 0 .. n
  <2>2. \A k \in i + 1 .. n : k \in i + 1 .. n + 1 /\ z[k] = s[k]
    BY <1>1
  <2>3. \A k \in i + 1 .. n + 1 : k = n + 1 \/ k \in i + 1 .. n
    BY <1>1
  <2>4. n + 1 \in i + 1 .. n + 1
    BY <1>1
  <2>5. ASSUME NEW y \in Seen(z, i, n + 1)
        PROVE  y \in Seen(s, i, n) \cup {x}
    BY <1>1, <2>2, <2>3 DEF Seen
  <2>6. ASSUME NEW y \in Seen(s, i, n) \cup {x}
        PROVE  y \in Seen(z, i, n + 1)
    BY <1>1, <2>2, <2>4 DEF Seen
  <2> QED BY <2>5, <2>6
<1>4. Seen(z, n + 1, n + 1) = {}
  BY <1>1 DEF Seen
<1>5. \A i : Newest(z, n + 1, x, i) <=> i = n + 1
  <2>1. ASSUME NEW i, Newest(z, n + 1, x, i)
        PROVE  i = n + 1
    <3>1. i \in 1 .. n + 1 /\ x \notin Seen(z, i, n + 1)
      BY <2>1 DEF Newest
    <3>2. i \in 0 .. n => x \in Seen(z, i, n + 1)
      BY <1>3
    <3> QED BY <1>1, <3>1, <3>2
  <2>2. n + 1 \in 1 .. n + 1
    BY <1>1
  <2>3. Newest(z, n + 1, x, n + 1)
    BY <1>1, <1>4, <2>2 DEF Newest
  <2> QED BY <2>1, <2>3
<1>6. ASSUME NEW g, NEW i, g # x
      PROVE  Newest(z, n + 1, g, i) <=> Newest(s, n, g, i)
  <2>1. CASE i \in 1 .. n
    <3>1. z[i] = s[i] /\ Seen(z, i, n + 1) = Seen(s, i, n) \cup {x} /\ i \in 1 .. n + 1
      BY <1>1, <1>3, <2>1
    <3> QED BY <1>6, <2>1, <3>1 DEF Newest
  <2>2. CASE i \notin 1 .. n
    <3>1. i \in 1 .. n + 1 => i = n + 1
      BY <1>1, <2>2
    <3> QED BY <1>1, <1>6, <2>2, <3>1 DEF Newest
  <2> QED BY <2>1, <2>2
<1> QED BY <1>1, <1>2, <1>3, <1>4, <1>5, <1>6 DEF OneMore

IdealGrown(s, x, n, z) ==
  /\ \A m \in 0 .. n : Ideal(z, m) = Ideal(s, m)
  /\ x \in Ideal(z, n + 1) <=> Capacity > 0
  /\ \A g : g # x => (g \in Ideal(z, n + 1) <=>
       /\ g \in Ideal(s, n)
       /\ \A i : Newest(s, n, g, i) => Cardinality(Seen(s, i, n) \cup {x}) < Capacity)

\* The ideal cache after one more access: the accessed hash, and the members that
\* are still within the capacity.
LEMMA IdealAppend ==
  ASSUME NEW s \in Seq(Hashes), NEW x \in Hashes, NEW n, n = Len(s), NEW z, z = Append(s, x)
  PROVE  IdealGrown(s, x, n, z)
<1>0. /\ n \in Nat /\ z[n + 1] = x /\ \A k \in 1 .. n : z[k] = s[k]
      /\ \A i \in Nat, m \in 0 .. n : Seen(z, i, m) = Seen(s, i, m)
      /\ \A i \in 0 .. n : Seen(z, i, n + 1) = Seen(s, i, n) \cup {x}
      /\ Seen(z, n + 1, n + 1) = {}
      /\ \A i : Newest(z, n + 1, x, i) <=> i = n + 1
      /\ \A g, i : g # x => (Newest(z, n + 1, g, i) <=> Newest(s, n, g, i))
  <2>1. OneMore(s, x, n, z)
    BY SeenAppend
  <2> QED BY <2>1 DEF OneMore
<1>1. Capacity \in Nat /\ n + 1 \in Nat
  BY <1>0, SchedulerAssumption
<1>2. ASSUME NEW m \in 0 .. n
      PROVE  Ideal(z, m) = Ideal(s, m)
  <2>1. Seen(z, 0, m) = Seen(s, 0, m)
    BY <1>0
  <2>2. \A i \in 1 .. m : z[i] = s[i] /\ Seen(z, i, m) = Seen(s, i, m)
    BY <1>0
  <2> QED BY <2>1, <2>2 DEF Ideal
<1>3. x \in Ideal(z, n + 1) <=> Capacity > 0
  <2>1. n + 1 \in 1 .. n + 1
    BY <1>0
  <2>2. Cardinality(Seen(z, n + 1, n + 1)) = 0
    BY <1>0, FS_EmptySet
  <2>3. x \in Ideal(z, n + 1) <=>
          \E i \in 1 .. n + 1 : Newest(z, n + 1, x, i) /\ Cardinality(Seen(z, i, n + 1)) < Capacity
    BY <1>1, IdealMember
  <2>4. x \in Ideal(z, n + 1) <=> Cardinality(Seen(z, n + 1, n + 1)) < Capacity
    BY <1>0, <2>1, <2>3
  <2> QED BY <1>1, <2>2, <2>4
<1>4. ASSUME NEW g, g # x
      PROVE  g \in Ideal(z, n + 1) <=>
              /\ g \in Ideal(s, n)
              /\ \A i : Newest(s, n, g, i) => Cardinality(Seen(s, i, n) \cup {x}) < Capacity
  <2>1. ASSUME g \in Ideal(z, n + 1)
        PROVE  /\ g \in Ideal(s, n)
               /\ \A i : Newest(s, n, g, i) => Cardinality(Seen(s, i, n) \cup {x}) < Capacity
    <3>1. PICK j \in 1 .. n + 1 :
            Newest(z, n + 1, g, j) /\ Cardinality(Seen(z, j, n + 1)) < Capacity
      BY <1>1, <2>1, IdealMember
    <3>2. Newest(s, n, g, j)
      BY <1>0, <1>4, <3>1
    <3>3. j \in 1 .. n /\ j \in 0 .. n /\ j \in Nat
      BY <1>0, <3>2 DEF Newest
    <3>4. Cardinality(Seen(s, j, n) \cup {x}) < Capacity
      BY <1>0, <3>1, <3>3
    <3>5. IsFiniteSet(Seen(s, j, n))
      BY <1>0, <3>3, SeenFinite
    <3>6. Cardinality(Seen(s, j, n)) <= Cardinality(Seen(s, j, n) \cup {x})
          /\ Cardinality(Seen(s, j, n)) \in Nat /\ Cardinality(Seen(s, j, n) \cup {x}) \in Nat
      BY <3>5, Sizes
    <3>7. Cardinality(Seen(s, j, n)) < Capacity
      BY <1>1, <3>4, <3>6
    <3>8. g \in Ideal(s, n)
      BY <1>0, <3>2, <3>3, <3>7, IdealMember
    <3>9. ASSUME NEW i, Newest(s, n, g, i)
          PROVE  Cardinality(Seen(s, i, n) \cup {x}) < Capacity
      <4>1. i = j
        BY <1>0, <3>2, <3>9, NewestUnique
      <4> QED BY <3>4, <4>1
    <3> QED BY <3>8, <3>9
  <2>2. ASSUME g \in Ideal(s, n),
               \A i : Newest(s, n, g, i) => Cardinality(Seen(s, i, n) \cup {x}) < Capacity
        PROVE  g \in Ideal(z, n + 1)
    <3>1. PICK j \in 1 .. n : Newest(s, n, g, j)
      BY <1>0, <2>2, IdealMember
    <3>2. j \in 0 .. n /\ j \in 1 .. n + 1
      BY <1>0, <3>1
    <3>3. Newest(z, n + 1, g, j)
      BY <1>0, <1>4, <3>1
    <3>4. Cardinality(Seen(z, j, n + 1)) < Capacity
      <4>1. Cardinality(Seen(s, j, n) \cup {x}) < Capacity
        BY <2>2, <3>1
      <4>2. Seen(z, j, n + 1) = Seen(s, j, n) \cup {x}
        BY <1>0, <3>2
      <4> QED BY <4>1, <4>2
    <3> QED BY <1>1, <3>2, <3>3, <3>4, IdealMember
  <2> QED BY <2>1, <2>2
<1> QED BY <1>2, <1>3, <1>4 DEF IdealGrown

\* The table of the lru shadow holds the ideal cache, and its time stamps are in the
\* order of the newest accesses.
Tracks(s, t, time) ==
  /\ DOMAIN t = Ideal(s, Len(s))
  /\ \A g \in DOMAIN t : t[g].last \in Nat /\ t[g].last <= time
  /\ \A g, h \in DOMAIN t : \A i, j \in 1 .. Len(s) :
       Newest(s, Len(s), g, i) /\ Newest(s, Len(s), h, j) /\ i < j => t[g].last < t[h].last

\* A full table in which v has the oldest time stamp and x has no entry.
FullTable(s, n, t, x, v) ==
  /\ IsFiniteSet(Ideal(s, n)) /\ Cardinality(Ideal(s, n)) = Capacity
  /\ x \notin Ideal(s, n) /\ v \in Ideal(s, n)
  /\ \A g \in Ideal(s, n) : t[v].last <= t[g].last

\* Of a full table the entry with the oldest time stamp is exactly the one the ideal
\* cache drops.
LEMMA DropsOldest ==
  ASSUME NEW s \in Seq(Hashes), NEW x \in Hashes, NEW n, n = Len(s),
         NEW t, NEW time, Tracks(s, t, time), NEW v, FullTable(s, n, t, x, v),
         NEW g \in Ideal(s, n), NEW i, Newest(s, n, g, i)
  PROVE  Cardinality(Seen(s, i, n) \cup {x}) < Capacity <=> g # v
<1> DEFINE I == Ideal(s, n)
<1>full. /\ IsFiniteSet(I) /\ Cardinality(I) = Capacity /\ x \notin I /\ v \in I
      /\ \A h \in I : t[v].last <= t[h].last
  BY DEF FullTable
<1>0. /\ n \in Nat /\ DOMAIN t = I /\ \A h \in I : t[h].last \in Nat
      /\ \A f, h \in I : \A k, j \in 1 .. n :
           Newest(s, n, f, k) /\ Newest(s, n, h, j) /\ k < j => t[f].last < t[h].last
      /\ Capacity \in Nat /\ Cardinality(I) \in Nat
  BY <1>full, SchedulerAssumption, FS_CardinalityType DEF Tracks
<1>1. i \in 1 .. n /\ i \in Nat /\ s[i] = g /\ g \notin Seen(s, i, n)
  BY <1>0 DEF Newest
<1> DEFINE S == Seen(s, i, n)
<1>2. S \subseteq I \ {g}
  BY <1>0, LaterIsCached
<1>3. PICK j \in 1 .. n : Newest(s, n, v, j)
  BY <1>0, <1>full, IdealMember
<1>4. j \in Nat /\ s[j] = v /\ v \notin Seen(s, j, n)
  BY <1>0, <1>3 DEF Newest
<1>5. ASSUME NEW h \in I, h # v, NEW k \in 1 .. n, Newest(s, n, h, k)
      PROVE  j < k
  <2>1. ~ (k < j)
    <3>1. t[v].last <= t[h].last /\ t[v].last \in Nat /\ t[h].last \in Nat
      BY <1>0, <1>full
    <3>2. k < j => t[h].last < t[v].last
      BY <1>0, <1>3, <1>5, <1>full
    <3> QED BY <3>1, <3>2
  <2>2. k # j
    BY <1>4, <1>5 DEF Newest
  <2> QED BY <1>3, <2>1, <2>2
<1>6. Cardinality(I \ {g}) = Cardinality(I) - 1 /\ IsFiniteSet(I \ {g})
  BY <1>full, FS_RemoveElement
<1>7. CASE g = v
  <2>1. i = j
    BY <1>0, <1>3, <1>7, NewestUnique
  <2>2. I \ {v} \subseteq S
    <3>1. SUFFICES ASSUME NEW h \in I, h # v
                   PROVE  h \in S
      OBVIOUS
    <3>2. PICK k \in 1 .. n : Newest(s, n, h, k)
      BY <1>0, <1>full, IdealMember
    <3>3. j < k
      BY <1>5, <3>1, <3>2
    <3>4. k \in i + 1 .. n /\ s[k] = h
      BY <1>0, <1>1, <2>1, <3>2, <3>3 DEF Newest
    <3> QED BY <3>4 DEF Seen
  <2>3. S = I \ {g}
    BY <1>2, <1>7, <2>2
  <2>4. x \notin I \ {g}
    BY <1>full
  <2>5. Cardinality((I \ {g}) \cup {x}) = Cardinality(I \ {g}) + 1
    BY <1>6, <2>4, FS_AddElement
  <2> HIDE DEF S
  <2>6. ~ (Cardinality(S \cup {x}) < Capacity)
    BY <1>0, <1>6, <1>full, <2>3, <2>5
  <2> QED BY <1>7, <2>6 DEF S
<1>8. CASE g # v
  <2>1. j < i
    BY <1>1, <1>5, <1>8
  <2>2. v \notin S
    <3>1. SUFFICES ASSUME v \in S
                   PROVE  FALSE
      OBVIOUS
    <3>2. PICK k \in i + 1 .. n : s[k] = v
      BY <3>1 DEF Seen
    <3>3. k \in j + 1 .. n
      BY <1>0, <1>1, <1>3, <2>1, <3>2
    <3> QED BY <1>4, <3>2, <3>3 DEF Seen
  <2>3. v \in I \ {g}
    BY <1>8, <1>full
  <2> HIDE DEF S
  <2>4. Cardinality(S) + 1 <= Cardinality(I \ {g}) /\ Cardinality(S) \in Nat
    BY <1>2, <1>6, <2>2, <2>3, Sizes
  <2>5. Cardinality(S \cup {x}) <= Cardinality(S) + 1 /\ Cardinality(S \cup {x}) \in Nat
    BY <1>2, <1>6, Sizes
  <2>6. Cardinality(S \cup {x}) < Capacity
    BY <1>0, <1>6, <1>full, <2>4, <2>5
  <2> QED BY <1>8, <2>6 DEF S
<1> QED BY <1>7, <1>8

\* An access of the lru shadow takes the ideal cache along.
LEMMA TracksStep ==
  ASSUME NEW s \in Seq(Hashes), NEW x \in Hashes, NEW n, n = Len(s), NEW z, z = Append(s, x),
         NEW c, GoodShadow(c), NEW d, NEW before \in Nat, NEW time \in Nat, before < time,
         Tracks(s, c.table, before), Replayed("lru", c, d, x, time)
  PROVE  Tracks(z, d.table, time)
<1> DEFINE t == c.table
           u == d.table
           I == Ideal(s, n)
           J == Ideal(z, n + 1)
           Fits(g) == \A i : Newest(s, n, g, i) => Cardinality(Seen(s, i, n) \cup {x}) < Capacity
<1>0. OneMore(s, x, n, z)
  BY SeenAppend
<1>1. /\ n \in Nat /\ Len(z) = n + 1
      /\ \A i : Newest(z, n + 1, x, i) <=> i = n + 1
      /\ \A g, i : g # x => (Newest(z, n + 1, g, i) <=> Newest(s, n, g, i))
  BY <1>0 DEF OneMore
<1>2. /\ DOMAIN t = I
      /\ \A g \in I : t[g].last \in Nat /\ t[g].last <= before
      /\ \A g, h \in I : \A i, j \in 1 .. n :
           Newest(s, n, g, i) /\ Newest(s, n, h, j) /\ i < j => t[g].last < t[h].last
  BY DEF Tracks
<1>grown. IdealGrown(s, x, n, z)
  BY IdealAppend
<1>3. x \in J <=> Capacity > 0
  BY <1>grown DEF IdealGrown
<1>4. \A g : g # x => (g \in J <=> g \in I /\ Fits(g))
  BY <1>grown DEF IdealGrown
<1>5. /\ IsFiniteSet(I) /\ Cardinality(I) <= Capacity /\ Cardinality(I) \in Nat /\ Capacity \in Nat
  <2>1. IsFiniteSet(DOMAIN t) /\ Cardinality(DOMAIN t) <= Capacity
    BY DEF GoodShadow
  <2> HIDE DEF I, t
  <2> QED BY <1>2, <2>1, SchedulerAssumption, FS_CardinalityType
<1> HIDE DEF t, u, I, J, Fits
\* The order of the time stamps, once the members are known.
<1>6. ASSUME DOMAIN u = J, x \in J => u[x].last = time,
             \A g \in J \ {x} : u[g].last = t[g].last
      PROVE  Tracks(z, u, time)
  <2>1. \A g \in J \ {x} : g \in I
    BY <1>4
  <2>2. \A g \in J : u[g].last \in Nat /\ u[g].last <= time
    <3>1. ASSUME NEW g \in J
          PROVE  u[g].last \in Nat /\ u[g].last <= time
      <4>1. CASE g = x
        BY <1>6, <4>1
      <4>2. CASE g # x
        <5>1. u[g].last = t[g].last /\ t[g].last \in Nat /\ t[g].last <= before
          BY <1>2, <1>6, <2>1, <4>2
        <5> QED BY <5>1
      <4> QED BY <4>1, <4>2
    <3> QED BY <3>1
  <2>3. ASSUME NEW g \in J, NEW h \in J, NEW i \in 1 .. n + 1, NEW j \in 1 .. n + 1,
               Newest(z, n + 1, g, i), Newest(z, n + 1, h, j), i < j
        PROVE  u[g].last < u[h].last
    <3>1. g # x /\ Newest(s, n, g, i)
      <4>1. g # x
        BY <1>1, <2>3
      <4> QED BY <1>1, <2>3, <4>1
    <3>2. u[g].last = t[g].last /\ t[g].last \in Nat /\ t[g].last <= before /\ g \in I
      BY <1>2, <1>6, <2>1, <3>1
    <3>3. CASE h = x
      <4>1. u[h].last = time
        BY <1>6, <3>3
      <4> QED BY <3>2, <4>1
    <3>4. CASE h # x
      <4>1. Newest(s, n, h, j) /\ h \in I /\ u[h].last = t[h].last
        BY <1>1, <1>6, <2>1, <2>3, <3>4
      <4>2. i \in 1 .. n /\ j \in 1 .. n
        BY <3>1, <4>1 DEF Newest
      <4>3. t[g].last < t[h].last
        BY <1>2, <2>3, <3>1, <3>2, <4>1, <4>2
      <4> QED BY <3>2, <4>1, <4>3
    <3> QED BY <3>3, <3>4
  <2>4. DOMAIN u = Ideal(z, Len(z))
    BY <1>1, <1>6 DEF J
  <2> QED BY <1>1, <1>6, <2>2, <2>3, <2>4 DEF Tracks
<1>7. CASE Refreshed(t, u, x, time)
  <2>1. /\ x \in I /\ DOMAIN u = I /\ u[x].last = time
        /\ \A g \in I \ {x} : u[g].last = t[g].last
    BY <1>2, <1>7 DEF Refreshed
  <2>2. PICK k \in 1 .. n : Newest(s, n, x, k) /\ Cardinality(Seen(s, k, n)) < Capacity
    BY <1>1, <2>1, IdealMember DEF I
  <2>3. k \in Nat /\ s[k] = x /\ x \notin Seen(s, k, n)
    BY <1>1, <2>2 DEF Newest
  <2>4. IsFiniteSet(Seen(s, k, n)) /\ Cardinality(Seen(s, k, n)) \in Nat
    BY <1>1, <2>3, SeenFinite
  <2>5. Capacity > 0
    BY <1>5, <2>2, <2>4
  <2>6. ASSUME NEW g \in I, g # x
        PROVE  Fits(g)
    <3>1. SUFFICES ASSUME NEW i, Newest(s, n, g, i)
                   PROVE  Cardinality(Seen(s, i, n) \cup {x}) < Capacity
      BY DEF Fits
    <3>2. i \in 1 .. n /\ i \in Nat /\ s[i] = g /\ g \notin Seen(s, i, n)
      BY <1>1, <3>1 DEF Newest
    <3>3. Cardinality(Seen(s, i, n)) < Capacity
      BY <1>1, <3>1, IdealMember DEF I
    <3>4. CASE i < k
      <4>1. x \in Seen(s, i, n)
        <5>1. k \in i + 1 .. n
          BY <2>2, <3>2, <3>4
        <5> QED BY <2>3, <5>1 DEF Seen
      <4>2. Seen(s, i, n) \cup {x} = Seen(s, i, n)
        BY <4>1
      <4> QED BY <3>3, <4>2
    <3>5. CASE k < i
      <4>1. g \in Seen(s, k, n) /\ Seen(s, i, n) \subseteq Seen(s, k, n)
        <5>1. i \in k + 1 .. n
          BY <1>1, <2>3, <3>2, <3>5
        <5>2. \A m \in i + 1 .. n : m \in k + 1 .. n
          BY <1>1, <2>3, <3>2, <3>5
        <5> QED BY <3>2, <5>1, <5>2 DEF Seen
      <4> DEFINE A == Seen(s, i, n)
                 B == Seen(s, k, n)
      <4> HIDE DEF A, B
      <4>2. g \in B /\ g \notin A /\ A \subseteq B /\ IsFiniteSet(B)
        BY <2>4, <3>2, <4>1 DEF A, B
      <4>3. Cardinality(A) + 1 <= Cardinality(B) /\ Cardinality(A) \in Nat
        BY <4>2, Sizes
      <4>4. Cardinality(A \cup {x}) <= Cardinality(A) + 1 /\ Cardinality(A \cup {x}) \in Nat
        BY <4>2, Sizes
      <4>5. Cardinality(B) < Capacity /\ Cardinality(B) \in Nat
        BY <2>2, <2>4 DEF B
      <4>6. Cardinality(A \cup {x}) < Capacity
        BY <1>5, <4>3, <4>4, <4>5
      <4> QED BY <4>6 DEF A
    <3>6. i # k
      BY <2>3, <2>6, <3>2
    <3> QED BY <2>3, <3>2, <3>4, <3>5, <3>6
  <2>7. J = I
    BY <1>3, <1>4, <2>1, <2>5, <2>6
  <2>8. Tracks(z, u, time)
    BY <1>6, <2>1, <2>7
  <2> QED BY <2>8 DEF u
<1>8. CASE Inserted(t, u, x, time)
  <2>1. /\ x \notin I /\ Capacity > 0 /\ Cardinality(I) < Capacity
        /\ DOMAIN u = I \cup {x} /\ u[x].last = time /\ \A g \in I : u[g].last = t[g].last
    BY <1>2, <1>8 DEF Inserted
  <2>2. ASSUME NEW g \in I
        PROVE  Fits(g)
    <3>1. SUFFICES ASSUME NEW i, Newest(s, n, g, i)
                   PROVE  Cardinality(Seen(s, i, n) \cup {x}) < Capacity
      BY DEF Fits
    <3> DEFINE A == Seen(s, i, n)
    <3>2. A \subseteq I /\ g \notin A
      BY <1>1, <3>1, LaterIsCached DEF I
    <3> HIDE DEF A
    <3>3. Cardinality(A) + 1 <= Cardinality(I) /\ Cardinality(A) \in Nat
      BY <1>5, <3>2, Sizes
    <3>4. Cardinality(A \cup {x}) <= Cardinality(A) + 1 /\ Cardinality(A \cup {x}) \in Nat
      BY <1>5, <3>2, Sizes
    <3>5. Cardinality(A \cup {x}) < Capacity
      BY <1>5, <2>1, <3>3, <3>4
    <3> QED BY <3>5 DEF A
  <2>3. J = I \cup {x}
    BY <1>3, <1>4, <2>1, <2>2
  <2>4. Tracks(z, u, time)
    BY <1>6, <2>1, <2>3
  <2> QED BY <2>4 DEF u
<1>9. ASSUME NEW v \in DOMAIN t, Replaced(t, u, x, time, v),
             \A g \in DOMAIN t : t[v].last <= t[g].last
      PROVE  Tracks(z, u, time)
  <2>1. /\ x \notin I /\ Capacity > 0 /\ Cardinality(I) >= Capacity /\ v \in I
        /\ DOMAIN u = (I \ {v}) \cup {x} /\ u[x].last = time
        /\ \A g \in I \ {v} : u[g].last = t[g].last
        /\ \A g \in I : t[v].last <= t[g].last
    BY <1>2, <1>9 DEF Replaced
  <2>2. Tracks(s, t, before)
    BY DEF t
  <2>3. ASSUME NEW g \in I, NEW i, Newest(s, n, g, i)
        PROVE  Cardinality(Seen(s, i, n) \cup {x}) < Capacity <=> g # v
    <3>1. Cardinality(I) = Capacity
      BY <1>5, <2>1
    <3>2. FullTable(s, n, t, x, v)
      BY <1>5, <2>1, <3>1 DEF FullTable, I
    <3>3. g \in Ideal(s, n)
      BY DEF I
    <3> QED BY <2>2, <2>3, <3>2, <3>3, DropsOldest
  <2>4. ASSUME NEW g \in I
        PROVE  Fits(g) <=> g # v
    <3>1. PICK i \in 1 .. n : Newest(s, n, g, i)
      BY <1>1, IdealMember DEF I
    <3> QED BY <2>3, <3>1 DEF Fits
  <2>5. J = (I \ {v}) \cup {x}
    BY <1>3, <1>4, <2>1, <2>4
  <2> QED BY <1>6, <2>1, <2>5
<1>10. CASE x \notin DOMAIN t /\ Capacity = 0 /\ u = t
  <2>1. x \notin I /\ Cardinality(I) = 0
    BY <1>2, <1>5, <1>10
  <2>2. I = {}
    BY <1>5, <2>1, FS_EmptySet
  <2>3. J = {} /\ DOMAIN u = {}
    BY <1>2, <1>3, <1>4, <1>10, <2>2
  <2>4. Tracks(z, u, time)
    BY <1>6, <2>3
  <2> QED BY <2>4 DEF u
<1>11. \/ Refreshed(t, u, x, time)
       \/ Inserted(t, u, x, time)
       \/ \E v \in DOMAIN t :
            Replaced(t, u, x, time, v) /\ \A g \in DOMAIN t : t[v].last <= t[g].last
       \/ x \notin DOMAIN t /\ Capacity = 0 /\ u = t
  BY DEF Replayed, t, u
<1> QED BY <1>7, <1>8, <1>9, <1>10, <1>11 DEF u

\* The hits of the ideal cache are counted like the hits of the shadow.
LEMMA HitsStep ==
  ASSUME NEW s \in Seq(Hashes), NEW x \in Hashes, NEW n, n = Len(s), NEW z, z = Append(s, x)
  PROVE  /\ IsFiniteSet(HitsOf(s)) /\ Cardinality(HitsOf(s)) \in Nat
         /\ Cardinality(HitsOf(z)) =
              Cardinality(HitsOf(s)) + (IF x \in Ideal(s, n) THEN 1 ELSE 0)
<1>0. OneMore(s, x, n, z)
  BY SeenAppend
<1>1. /\ n \in Nat /\ DOMAIN z = 1 .. n + 1 /\ DOMAIN s = 1 .. n /\ z[n + 1] = x
      /\ \A k \in 1 .. n : z[k] = s[k]
  BY <1>0 DEF OneMore
<1>2. \A m \in 0 .. n : Ideal(z, m) = Ideal(s, m)
  <2>1. IdealGrown(s, x, n, z)
    BY IdealAppend
  <2> QED BY <2>1 DEF IdealGrown
<1> DEFINE A == HitsOf(s)
<1>3. IsFiniteSet(A) /\ Cardinality(A) \in Nat /\ n + 1 \notin A
  <2>1. A \subseteq 1 .. n
    BY <1>1 DEF HitsOf
  <2>2. IsFiniteSet(1 .. n)
    BY <1>1, FS_Interval
  <2>3. n + 1 \notin 1 .. n
    BY <1>1
  <2> HIDE DEF A
  <2> QED BY <2>1, <2>2, <2>3, FS_Subset, FS_CardinalityType
<1>4. HitsOf(z) = A \cup (IF x \in Ideal(s, n) THEN {n + 1} ELSE {})
  <2>1. \A k \in 1 .. n : z[k] \in Ideal(z, k - 1) <=> s[k] \in Ideal(s, k - 1)
    <3>1. \A k \in 1 .. n : k - 1 \in 0 .. n
      BY <1>1
    <3> QED BY <1>1, <1>2, <3>1
  <2>2. z[n + 1] \in Ideal(z, (n + 1) - 1) <=> x \in Ideal(s, n)
    <3>1. (n + 1) - 1 = n /\ n \in 0 .. n
      BY <1>1
    <3> QED BY <1>1, <1>2, <3>1
  <2>3. \A k : k \in 1 .. n + 1 <=> k \in 1 .. n \/ k = n + 1
    BY <1>1
  <2> QED BY <1>1, <2>1, <2>2, <2>3 DEF HitsOf
<1> HIDE DEF A
<1>5. Cardinality(A \cup {n + 1}) = Cardinality(A) + 1
  BY <1>3, FS_AddElement
<1>6. CASE x \in Ideal(s, n)
  BY <1>3, <1>4, <1>5, <1>6 DEF A
<1>7. CASE x \notin Ideal(s, n)
  <2>1. HitsOf(z) = A
    BY <1>4, <1>7
  <2> QED BY <1>3, <1>7, <2>1 DEF A
<1> QED BY <1>6, <1>7

-----------------------------------------------------------------------------
(* The decision.                                                            *)

\* Figures of one sample: the real cache and every shadow have seen n accesses.
SameTotals(ml, sh, n) ==
  /\ n \in Nat /\ ml.hits \in Nat /\ ml.total = n
  /\ \A p \in Shadows : sh[p].hits \in Nat /\ sh[p].total = n

\* The shadow policies are names other than "ml", and there is at least one.
LEMMA ShadowsFacts ==
  /\ Shadows \subseteq Policies /\ "ml" \notin Shadows /\ Shadows # {}
  /\ DOMAIN ShadowPolicies \in SUBSET Int /\ IsFiniteSet(DOMAIN ShadowPolicies)
  /\ DOMAIN ShadowPolicies # {}
  /\ \A i \in DOMAIN ShadowPolicies : ShadowPolicies[i] \in Shadows
<1>1. ShadowPolicies \in Seq(Policies) /\ ShadowPolicies # <<>>
  BY SchedulerAssumption
<1>2. Len(ShadowPolicies) \in Nat /\ Len(ShadowPolicies) # 0
      /\ DOMAIN ShadowPolicies = 1 .. Len(ShadowPolicies)
      /\ \A i \in DOMAIN ShadowPolicies : ShadowPolicies[i] \in Policies
  BY <1>1
<1>3. IsFiniteSet(DOMAIN ShadowPolicies)
  BY <1>2, FS_Interval
<1>4. DOMAIN ShadowPolicies \in SUBSET Int /\ DOMAIN ShadowPolicies # {}
  BY <1>2
<1>5. Shadows \subseteq Policies /\ \A i \in DOMAIN ShadowPolicies : ShadowPolicies[i] \in Shadows
  BY <1>2 DEF Shadows
<1>6. Shadows # {}
  BY <1>4, <1>5
<1>7. "ml" \notin Policies
  BY DEF Policies
<1> QED BY <1>3, <1>4, <1>5, <1>6, <1>7

\* No shadow has a higher hit rate than the best one.
LEMMA BestFacts ==
  ASSUME NEW ml, NEW sh, NEW n, SameTotals(ml, sh, n)
  PROVE  /\ BestShadow(sh) \in Shadows
         /\ \A p \in Shadows : sh[BestShadow(sh)].hits * n >= sh[p].hits * n
<1> DEFINE D == DOMAIN ShadowPolicies
           rate == [i \in D |-> sh[ShadowPolicies[i]].hits * n]
           R == {p \in D \X D : rate[p[1]] >= rate[p[2]]}
           best == {i \in D : \A j \in D :
                     sh[ShadowPolicies[i]].hits * sh[ShadowPolicies[j]].total
                       >= sh[ShadowPolicies[j]].hits * sh[ShadowPolicies[i]].total}
<1>1. D \in SUBSET Int /\ IsFiniteSet(D) /\ D # {}
      /\ \A i \in D : ShadowPolicies[i] \in Shadows
  BY ShadowsFacts
<1>2. \A p \in Shadows : sh[p].hits \in Nat /\ sh[p].total = n /\ n \in Nat
  BY DEF SameTotals
<1>3. \A i \in D : rate[i] \in Nat /\ rate[i] = sh[ShadowPolicies[i]].hits * n
  <2>1. \A i \in D : sh[ShadowPolicies[i]].hits * n \in Nat
    BY <1>1, <1>2, Products
  <2> QED BY <2>1
<1>4. best = {i \in D : \A j \in D : rate[i] >= rate[j]}
  <2>1. \A i, j \in D : /\ sh[ShadowPolicies[i]].hits * sh[ShadowPolicies[j]].total = rate[i]
                        /\ sh[ShadowPolicies[j]].hits * sh[ShadowPolicies[i]].total = rate[j]
    BY <1>1, <1>2, <1>3
  <2> HIDE DEF rate
  <2> QED BY <2>1
<1>5. BestShadow(sh) = ShadowPolicies[Min(best)]
  BY DEF BestShadow
<1> HIDE DEF rate
<1>6. \A i, j \in D : <<i, j>> \in R <=> rate[i] >= rate[j]
  BY Zenon
<1> HIDE DEF R, best
<1>7. \E i \in D : \A j \in D : <<i, j>> \in R
  <2>1. ASSUME NEW i \in D, NEW j \in D
        PROVE  <<i, j>> \in R \/ <<j, i>> \in R
    BY <1>3, <1>6
  <2>2. ASSUME NEW i \in D, NEW j \in D, NEW k \in D, <<i, j>> \in R, <<j, k>> \in R
        PROVE  <<i, k>> \in R
    <3>1. rate[i] \in Nat /\ rate[j] \in Nat /\ rate[k] \in Nat
      BY <1>3
    <3> QED BY <1>6, <2>2, <3>1
  <2> HIDE DEF D
  <2> QED BY <1>1, <2>1, <2>2, FirstInPreorder
<1>8. best # {} /\ best \subseteq D
  BY <1>4, <1>6, <1>7
<1>9. Min(best) \in best
  <2>1. IsFiniteSet(best) /\ best \in SUBSET Int
    BY <1>1, <1>8, FS_Subset
  <2> QED BY <1>8, <2>1, MinExists
<1>10. Min(best) \in D /\ \A j \in D : rate[Min(best)] >= rate[j]
  BY <1>4, <1>9
<1>11. ASSUME NEW p \in Shadows
       PROVE  sh[BestShadow(sh)].hits * n >= sh[p].hits * n
  <2>1. PICK j \in D : p = ShadowPolicies[j]
    BY DEF Shadows
  <2>2. rate[Min(best)] >= rate[j]
    BY <1>10
  <2> QED BY <1>3, <1>5, <1>10, <2>1, <2>2
<1> QED BY <1>1, <1>5, <1>10, <1>11

\* Multiplying by a natural keeps an inequality.
LEMMA Monotone ==
  ASSUME NEW a \in Nat, NEW b \in Nat, NEW c \in Nat, a >= b
  PROVE  a * c >= b * c
<1>1. CASE c = 0
  BY <1>1
<1>2. CASE c > 0
  BY <1>2, Cancel
<1> QED BY <1>1, <1>2

\* _finalize_policy chooses what the figures call for.
LEMMA DecisionFacts ==
  ASSUME NEW ml, NEW sh, NEW n, SameTotals(ml, sh, n), n > 0, NEW q \in FinalPolicies(ml, sh)
  PROVE  /\ q \in {"ml"} \cup Shadows
         /\ IF q = "ml"
            THEN \A p \in Shadows : MlSide(ml, sh[p]) >= ShadowSide(ml, sh[p])
            ELSE /\ \A p \in Shadows : sh[p].hits <= sh[q].hits
                 /\ MlSide(ml, sh[q]) <= ShadowSide(ml, sh[q])
<1> DEFINE best == BestShadow(sh)
           mine == MlSide(ml, sh[best])
           theirs == ShadowSide(ml, sh[best])
           events == {ml.total} \cup {sh[p].total : p \in Shadows}
<1>1. best \in Shadows /\ \A p \in Shadows : sh[best].hits * n >= sh[p].hits * n
  BY BestFacts
<1>2. /\ n \in Nat /\ ml.hits \in Nat /\ ml.total = n
      /\ \A p \in Shadows : sh[p].hits \in Nat /\ sh[p].total = n
  BY DEF SameTotals
<1>3. ThresholdUnit \in Nat /\ Threshold \in Nat
  BY SchedulerAssumption DEF Threshold
<1>4. Min(events) # 0
  <2>1. events = {n}
    BY <1>2
  <2>2. Min({n}) \in {n}
    <3>1. IsFiniteSet({n}) /\ {n} \in SUBSET Int /\ {n} # {}
      BY <1>2, FS_Singleton
    <3> QED BY <3>1, MinExists
  <2> HIDE DEF events
  <2> QED BY <2>1, <2>2
<1>5. FinalPolicies(ml, sh) = (IF mine >= theirs THEN {"ml"} ELSE {})
                                \cup (IF mine <= theirs THEN {best} ELSE {})
  BY <1>4 DEF FinalPolicies
<1> HIDE DEF best, events
<1>6. (q = "ml" /\ mine >= theirs) \/ (q = best /\ mine <= theirs)
  <2> HIDE DEF mine, theirs
  <2> QED BY <1>5
<1>7. best # "ml" /\ best \in Shadows
  BY <1>1, ShadowsFacts
<1>8. \A p \in Shadows : sh[p].hits <= sh[best].hits
  <2>1. TAKE p \in Shadows
  <2>2. sh[p].hits \in Nat /\ sh[best].hits \in Nat /\ sh[best].hits * n >= sh[p].hits * n
    BY <1>1, <1>2
  <2> QED BY <1>2, <2>2, Cancel
<1>9. ASSUME NEW p \in Shadows
      PROVE  /\ MlSide(ml, sh[p]) = mine /\ mine \in Nat
             /\ theirs \in Nat /\ ShadowSide(ml, sh[p]) \in Nat
             /\ theirs >= ShadowSide(ml, sh[p])
  <2>1. /\ MlSide(ml, sh[p]) = ml.hits * n * ThresholdUnit
        /\ mine = ml.hits * n * ThresholdUnit
        /\ ShadowSide(ml, sh[p]) = sh[p].hits * n * ThresholdUnit + Threshold * n * n
        /\ theirs = sh[best].hits * n * ThresholdUnit + Threshold * n * n
    BY <1>1, <1>2 DEF MlSide, ShadowSide
  <2> HIDE DEF mine, theirs
  <2>2. ml.hits * n \in Nat /\ sh[p].hits * n \in Nat /\ sh[best].hits * n \in Nat
        /\ Threshold * n \in Nat
    BY <1>1, <1>2, <1>3, Products
  <2>3. ml.hits * n * ThresholdUnit \in Nat /\ sh[p].hits * n * ThresholdUnit \in Nat
        /\ sh[best].hits * n * ThresholdUnit \in Nat /\ Threshold * n * n \in Nat
    BY <1>2, <1>3, <2>2, Products
  <2>4. sh[best].hits * n * ThresholdUnit >= sh[p].hits * n * ThresholdUnit
    BY <1>1, <1>3, <2>2, Monotone
  <2> QED BY <2>1, <2>3, <2>4
<1> HIDE DEF mine, theirs
<1>10. CASE q = "ml" /\ mine >= theirs
  <2>1. ASSUME NEW p \in Shadows
        PROVE  MlSide(ml, sh[p]) >= ShadowSide(ml, sh[p])
    BY <1>9, <1>10
  <2> QED BY <1>10, <2>1
<1>11. CASE q = best /\ mine <= theirs
  BY <1>7, <1>8, <1>11 DEF mine, theirs
<1> QED BY <1>6, <1>10, <1>11

-----------------------------------------------------------------------------
(* The invariant.                                                           *)

\* The quotient by the stride grows exactly at its multiples.
LEMMA StrideStep ==
  ASSUME NEW n \in Nat, NEW d \in Nat \ {0}
  PROVE  /\ n \div d \in Nat /\ 0 \div d = 0
         /\ (n + 1) % d = 0 => (n + 1) \div d = (n \div d) + 1
         /\ (n + 1) % d # 0 => (n + 1) \div d = n \div d
<1> DEFINE q == n \div d
           r == n % d
           p == (n + 1) \div d
           o == (n + 1) % d
<1>1. q \in Nat /\ r \in Nat /\ r < d /\ n = d * q + r
  OBVIOUS
<1>2. p \in Nat /\ o \in Nat /\ o < d /\ n + 1 = d * p + o
  OBVIOUS
<1>3. 0 \div d = 0
  OBVIOUS
<1> HIDE DEF q, r, p, o
<1>4. d * p + o = d * q + r + 1 /\ d * p \in Nat /\ d * q \in Nat
  BY <1>1, <1>2, Products
<1>5. ~ (p < q)
  <2>1. SUFFICES ASSUME p < q
                 PROVE  FALSE
    OBVIOUS
  <2>2. q * d >= (p + 1) * d
    BY <1>1, <1>2, <2>1, Monotone
  <2>3. (p + 1) * d = d * p + d /\ q * d = d * q
    BY <1>1, <1>2
  <2> QED BY <1>1, <1>2, <1>4, <2>2, <2>3
<1>6. ~ (p > q + 1)
  <2>1. SUFFICES ASSUME p > q + 1
                 PROVE  FALSE
    OBVIOUS
  <2>2. p * d >= (q + 2) * d
    BY <1>1, <1>2, <2>1, Monotone
  <2>3. (q + 2) * d = d * q + d + d /\ p * d = d * p
    BY <1>1, <1>2
  <2> QED BY <1>1, <1>2, <1>4, <2>2, <2>3
<1>7. p = q \/ p = q + 1
  BY <1>1, <1>2, <1>5, <1>6
<1>8. CASE p = q
  <2>1. o = r + 1
    BY <1>1, <1>2, <1>4, <1>8
  <2> QED BY <1>1, <1>2, <1>3, <1>8, <2>1 DEF q, p, o
<1>9. CASE p = q + 1
  <2>1. d * p = d * q + d
    BY <1>1, <1>9
  <2>2. o = 0
    BY <1>1, <1>2, <1>4, <2>1
  <2> QED BY <1>1, <1>2, <1>3, <1>9, <2>2 DEF q, p, o
<1> QED BY <1>7, <1>8, <1>9

Typed ==
  /\ now \in Nat
  /\ finalized \in BOOLEAN
  /\ currentPolicy \in {"ml"} \cup Shadows
  /\ numObserved \in Nat
  /\ mlEvents \in [hits : Nat, total : Nat]
  /\ DOMAIN shadow = Shadows
  /\ sampled \in Seq(Hashes)
  /\ resets \in 0 .. MaxResets

\* Every shadow has seen what the real cache has seen.
Compared ==
  /\ mlEvents.total = numObserved \div ObserveStride
  /\ \A p \in Shadows : GoodShadow(shadow[p]) /\ shadow[p].total = mlEvents.total

\* The lru shadow is an LRU cache, its time stamps included.
Ordered ==
  "lru" \in Shadows =>
    /\ Tracks(sampled, shadow["lru"].table, now)
    /\ shadow["lru"].hits = Cardinality(HitsOf(sampled))

IndInv == Typed /\ Compared /\ Ordered /\ DecisionJustified

\* The invariant implies the properties that the runs check.
LEMMA Consequences ==
  ASSUME IndInv
  PROVE  TypeOK /\ SameSample /\ ShadowIsLRU /\ DecisionJustified
<1> USE DEF IndInv
<1>1. \A p \in Shadows :
        /\ shadow[p] \in ShadowCache /\ shadow[p].table \in Tables
        /\ shadow[p].protecting \in Nat \ {0}
        /\ shadow[p].hits <= shadow[p].total
        /\ Cardinality(DOMAIN shadow[p].table) <= Capacity
  BY DEF Compared, GoodShadow, ShadowCache
<1>2. TypeOK
  <2>1. ASSUME NEW p \in Shadows
        PROVE  /\ DOMAIN shadow[p].table \subseteq Hashes
               /\ \A h \in DOMAIN shadow[p].table : shadow[p].table[h] \in Entry
               /\ shadow[p].protecting \in Nat \ {0}
    BY <1>1, TableFacts
  <2> QED BY <2>1 DEF Typed, TypeOK
<1>3. SameSample
  BY <1>1 DEF Compared, SameSample
<1>4. ShadowIsLRU
  <2>1. SUFFICES ASSUME "lru" \in Shadows
                 PROVE  /\ DOMAIN shadow["lru"].table = IdealLRU(Len(sampled))
                        /\ shadow["lru"].hits =
                             Cardinality({n \in DOMAIN sampled : sampled[n] \in IdealLRU(n - 1)})
    BY DEF ShadowIsLRU
  <2>2. DOMAIN shadow["lru"].table = Ideal(sampled, Len(sampled))
        /\ shadow["lru"].hits = Cardinality(HitsOf(sampled))
    BY <2>1 DEF Ordered, Tracks
  <2> QED BY <2>2, IdealOfSampled
<1> QED BY <1>2, <1>3, <1>4

\* A new shadow is empty and tracks the empty sample.
LEMMA EmptyFacts ==
  /\ GoodShadow(EmptyShadow) /\ EmptyShadow.total = 0
  /\ Tracks(<<>>, EmptyShadow.table, 0)
  /\ EmptyShadow.hits = Cardinality(HitsOf(<<>>))
<1> DEFINE t == <<>>
<1>1. DOMAIN t = {} /\ t = [h \in {} |-> t[h]] /\ Len(t) = 0
  OBVIOUS
<1>2. Ideal(t, 0) = {} /\ HitsOf(t) = {}
  BY <1>1 DEF Ideal, Seen, HitsOf
<1> HIDE DEF t
<1>3. t \in Tables
  <2>1. {} \in SUBSET Hashes
    OBVIOUS
  <2> QED BY <1>1, <2>1, IsTable
<1>4. IsFiniteSet({}) /\ Cardinality({}) = 0 /\ Capacity \in Nat /\ InitialPd \in Nat \ {0}
  BY FS_EmptySet, SchedulerAssumption
<1>5. EmptyShadow = [table |-> t, hits |-> 0, total |-> 0, protecting |-> InitialPd,
                     lastSeen |-> [h \in Hashes |-> 0], counts |-> [d \in Distances |-> 0]]
  BY DEF EmptyShadow, t
<1>6. EmptyShadow \in ShadowCache
  BY <1>3, <1>4, <1>5 DEF ShadowCache
<1>7. EmptyShadow.total = 0 /\ EmptyShadow.hits = 0 /\ EmptyShadow.table = t
  BY <1>5
<1>8. GoodShadow(EmptyShadow)
  BY <1>1, <1>4, <1>6, <1>7 DEF GoodShadow
<1>9. Tracks(t, EmptyShadow.table, 0)
  BY <1>1, <1>2, <1>7 DEF Tracks
<1>10. EmptyShadow.hits = Cardinality(HitsOf(t))
  BY <1>2, <1>4, <1>7
<1> QED BY <1>7, <1>8, <1>9, <1>10 DEF t

\* Nothing has been sampled at first.
LEMMA FreshFacts ==
  /\ Fresh.now = 0 /\ Fresh.finalized = FALSE /\ Fresh.currentPolicy = "ml"
  /\ Fresh.numObserved = 0 /\ Fresh.mlEvents = [hits |-> 0, total |-> 0]
  /\ Fresh.shadow = [p \in Shadows |-> EmptyShadow] /\ Fresh.sampled = <<>>
  /\ 0 \div ObserveStride = 0 /\ <<>> \in Seq(Hashes)
<1>1. ObserveStride \in Nat \ {0} /\ 0 \in Nat
  BY SchedulerAssumption
<1>2. 0 \div ObserveStride = 0
  BY <1>1, StrideStep
<1> QED BY <1>2 DEF Fresh

\* Every initial state satisfies the invariant.
LEMMA InitInvariant == Init => IndInv
<1>1. SUFFICES ASSUME Init
               PROVE  IndInv
  OBVIOUS
<1>2. now = 0 /\ finalized = FALSE /\ currentPolicy = "ml" /\ numObserved = 0
      /\ mlEvents = [hits |-> 0, total |-> 0]
      /\ shadow = [p \in Shadows |-> EmptyShadow] /\ sampled = <<>>
      /\ resets \in 0 .. MaxResets
  BY <1>1, FreshFacts, SchedulerAssumption DEF Init
<1>3. Typed
  BY <1>2, FreshFacts DEF Typed
<1>4. mlEvents.total = 0 /\ \A p \in Shadows : shadow[p] = EmptyShadow
  BY <1>2
<1>5. Compared
  BY <1>2, <1>4, FreshFacts, EmptyFacts DEF Compared
<1>6. Ordered
  BY <1>2, <1>4, EmptyFacts DEF Ordered
<1>7. DecisionJustified
  BY <1>2 DEF DecisionJustified
<1> QED BY <1>3, <1>5, <1>6, <1>7 DEF IndInv

\* reset_prefix_cache starts over.
LEMMA ResetStep ==
  ASSUME IndInv, ResetPrefixCache
  PROVE  IndInv'
<1>2. now' = 0 /\ finalized' = FALSE /\ currentPolicy' = "ml" /\ numObserved' = 0
      /\ mlEvents' = [hits |-> 0, total |-> 0]
      /\ shadow' = [p \in Shadows |-> EmptyShadow] /\ sampled' = <<>>
  BY FreshFacts DEF ResetPrefixCache
<1>3. resets' \in 0 .. MaxResets
  BY SchedulerAssumption DEF ResetPrefixCache, IndInv, Typed
<1>4. Typed'
  BY <1>2, <1>3, FreshFacts DEF Typed
<1>5. mlEvents'.total = 0 /\ \A p \in Shadows : shadow'[p] = EmptyShadow
  BY <1>2
<1>6. Compared'
  BY <1>2, <1>5, FreshFacts, EmptyFacts DEF Compared
<1>7. Ordered'
  BY <1>2, <1>5, EmptyFacts DEF Ordered
<1>8. DecisionJustified'
  BY <1>2 DEF DecisionJustified
<1> QED BY <1>4, <1>6, <1>7, <1>8 DEF IndInv

\* Time stamps may only get older.
LEMMA TracksLater ==
  ASSUME NEW s, NEW t, NEW before \in Nat, NEW time \in Nat, before <= time,
         Tracks(s, t, before)
  PROVE  Tracks(s, t, time)
<1>1. \A g \in DOMAIN t : t[g].last \in Nat /\ t[g].last <= time
  <2>1. \A g \in DOMAIN t : t[g].last \in Nat /\ t[g].last <= before
    BY DEF Tracks
  <2> QED BY <2>1
<1> QED BY <1>1 DEF Tracks

\* An observed access, sampled or not.
LEMMA ObserveStep ==
  ASSUME IndInv, NEW h \in Hashes, NEW realHit \in BOOLEAN, NEW elapsed \in Gaps,
         Observe(h, realHit, elapsed)
  PROVE  IndInv'
<1>1. Typed /\ Compared /\ Ordered
  BY DEF IndInv
<1>2. /\ finalized = FALSE /\ now' = now + elapsed /\ numObserved' = numObserved + 1
      /\ resets' = resets
      /\ IF numObserved' % ObserveStride # 0 THEN SkipSample ELSE Sample(h, realHit)
  BY <1>1 DEF Observe, Typed
<1>3. /\ now \in Nat /\ now' \in Nat /\ now < now' /\ numObserved \in Nat /\ numObserved' \in Nat
      /\ ObserveStride \in Nat \ {0}
  <2>1. elapsed \in Nat /\ elapsed > 0 /\ ObserveStride \in Nat \ {0}
    BY SchedulerAssumption
  <2> QED BY <1>1, <1>2, <2>1 DEF Typed
<1>4. CASE numObserved' % ObserveStride # 0
  <2>1. /\ finalized' = finalized /\ currentPolicy' = currentPolicy /\ mlEvents' = mlEvents
        /\ shadow' = shadow /\ sampled' = sampled
    BY <1>2, <1>4 DEF SkipSample
  <2>2. Typed'
    BY <1>1, <1>2, <1>3, <2>1 DEF Typed
  <2>3. numObserved' \div ObserveStride = numObserved \div ObserveStride
    BY <1>2, <1>3, <1>4, StrideStep
  <2>4. Compared'
    BY <1>1, <2>1, <2>3 DEF Compared
  <2>5. Ordered'
    <3>1. SUFFICES ASSUME "lru" \in Shadows
                   PROVE  /\ Tracks(sampled, shadow["lru"].table, now')
                          /\ shadow["lru"].hits = Cardinality(HitsOf(sampled))
      BY <2>1 DEF Ordered
    <3>2. Tracks(sampled, shadow["lru"].table, now)
          /\ shadow["lru"].hits = Cardinality(HitsOf(sampled))
      BY <1>1, <3>1 DEF Ordered
    <3> QED BY <1>3, <3>2, TracksLater
  <2>6. DecisionJustified'
    BY <1>2, <2>1 DEF DecisionJustified
  <2> QED BY <2>2, <2>4, <2>5, <2>6 DEF IndInv
<1>5. CASE numObserved' % ObserveStride = 0
  <2> DEFINE n == mlEvents.total
  <2>1. /\ mlEvents' = [hits  |-> mlEvents.hits + (IF realHit THEN 1 ELSE 0),
                        total |-> mlEvents.total + 1]
        /\ shadow' = [p \in Shadows |-> ShadowAccess(p, shadow[p], h, now')]
        /\ sampled' = Append(sampled, h)
        /\ IF now' >= Warmup
           THEN /\ currentPolicy' \in FinalPolicies(mlEvents', shadow')
                /\ finalized' = TRUE
           ELSE finalized' = finalized /\ currentPolicy' = currentPolicy
    BY <1>2, <1>5 DEF Sample
  <2>2. ASSUME NEW p \in Shadows
        PROVE  /\ GoodShadow(shadow[p])
               /\ Replayed(p, shadow[p], shadow'[p], h, now')
               /\ GoodShadow(shadow'[p])
               /\ shadow[p].total = n
    <3>1. p \in Policies
      BY ShadowsFacts
    <3>2. GoodShadow(shadow[p]) /\ shadow[p].total = n
      BY <1>1 DEF Compared
    <3>3. shadow[p] \in ShadowCache /\ IsFiniteSet(DOMAIN shadow[p].table)
      BY <3>2 DEF GoodShadow
    <3>4. shadow'[p] = ShadowAccess(p, shadow[p], h, now')
      BY <2>1
    <3>5. Replayed(p, shadow[p], shadow'[p], h, now')
      BY <1>3, <3>1, <3>3, <3>4, AccessReplays
    <3>6. GoodShadow(shadow'[p])
      BY <1>3, <3>1, <3>2, <3>5, AccessGood
    <3> QED BY <3>2, <3>5, <3>6
  <2>3. /\ n \in Nat /\ mlEvents' \in [hits : Nat, total : Nat] /\ mlEvents'.total = n + 1
        /\ mlEvents'.hits \in Nat
    BY <1>1, <2>1 DEF Typed
  <2>4. \A p \in Shadows : shadow'[p].total = n + 1 /\ shadow'[p].hits \in Nat
    <3>1. ASSUME NEW p \in Shadows
          PROVE  shadow'[p].total = n + 1 /\ shadow'[p].hits \in Nat
      <4>1. shadow'[p].total = shadow[p].total + 1 /\ shadow'[p] \in ShadowCache
        BY <2>2 DEF Replayed
      <4> QED BY <2>2, <4>1 DEF ShadowCache
    <3> QED BY <3>1
  <2>5. SameTotals(mlEvents', shadow', n + 1)
    BY <2>3, <2>4 DEF SameTotals
  <2>6. DecisionJustified' /\ finalized' \in BOOLEAN /\ currentPolicy' \in {"ml"} \cup Shadows
    <3>1. CASE now' >= Warmup
      <4>1. currentPolicy' \in FinalPolicies(mlEvents', shadow') /\ finalized' = TRUE
        BY <2>1, <3>1
      <4>2. n + 1 > 0
        BY <2>3
      <4>3. /\ currentPolicy' \in {"ml"} \cup Shadows
            /\ IF currentPolicy' = "ml"
               THEN \A p \in Shadows : MlSide(mlEvents', shadow'[p]) >= ShadowSide(mlEvents', shadow'[p])
               ELSE /\ \A p \in Shadows : shadow'[p].hits <= shadow'[currentPolicy'].hits
                    /\ MlSide(mlEvents', shadow'[currentPolicy'])
                         <= ShadowSide(mlEvents', shadow'[currentPolicy'])
        BY <2>5, <4>1, <4>2, DecisionFacts
      <4>4. DecisionJustified'
        BY <4>3 DEF DecisionJustified, MlSide, ShadowSide
      <4> QED BY <4>1, <4>3, <4>4
    <3>2. CASE ~ (now' >= Warmup)
      <4>1. finalized' = FALSE /\ currentPolicy' = currentPolicy
        BY <1>2, <2>1, <3>2
      <4> QED BY <1>1, <4>1 DEF DecisionJustified, Typed
    <3> QED BY <3>1, <3>2
  <2>8. Typed'
    <3>1. finalized' \in BOOLEAN /\ currentPolicy' \in {"ml"} \cup Shadows
      BY <2>6
    <3>2. sampled' \in Seq(Hashes) /\ DOMAIN shadow' = Shadows
      BY <1>1, <2>1 DEF Typed
    <3>3. resets' \in 0 .. MaxResets
      BY <1>1, <1>2 DEF Typed
    <3> QED BY <1>3, <2>3, <3>1, <3>2, <3>3 DEF Typed
  <2>9. Compared'
    <3>1. numObserved' \div ObserveStride = (numObserved \div ObserveStride) + 1
      BY <1>2, <1>3, <1>5, StrideStep
    <3>2. mlEvents'.total = numObserved' \div ObserveStride
      BY <1>1, <2>3, <3>1 DEF Compared
    <3> QED BY <2>2, <2>3, <2>4, <3>2 DEF Compared
  <2>10. Ordered'
    <3>1. SUFFICES ASSUME "lru" \in Shadows
                   PROVE  /\ Tracks(sampled', shadow'["lru"].table, now')
                          /\ shadow'["lru"].hits = Cardinality(HitsOf(sampled'))
      BY DEF Ordered
    <3> DEFINE c == shadow["lru"]
               d == shadow'["lru"]
    <3>2. /\ GoodShadow(c) /\ Replayed("lru", c, d, h, now')
          /\ Tracks(sampled, c.table, now) /\ c.hits = Cardinality(HitsOf(sampled))
      BY <1>1, <2>2, <3>1 DEF Ordered
    <3>3. sampled \in Seq(Hashes) /\ sampled' = Append(sampled, h)
      BY <1>1, <2>1 DEF Typed
    <3> HIDE DEF c, d
    <3>4. Tracks(sampled', d.table, now')
      BY <1>3, <3>2, <3>3, TracksStep
    <3>5. Cardinality(HitsOf(sampled')) =
            Cardinality(HitsOf(sampled)) + (IF h \in Ideal(sampled, Len(sampled)) THEN 1 ELSE 0)
      BY <3>3, HitsStep
    <3>6. DOMAIN c.table = Ideal(sampled, Len(sampled))
      BY <3>2 DEF Tracks
    <3>7. d.hits = c.hits + (IF h \in DOMAIN c.table THEN 1 ELSE 0)
      BY <3>2 DEF Replayed
    <3>8. d.hits = Cardinality(HitsOf(sampled'))
      BY <3>2, <3>5, <3>6, <3>7
    <3> QED BY <3>4, <3>8 DEF d
  <2> QED BY <2>6, <2>8, <2>9, <2>10 DEF IndInv
<1> QED BY <1>4, <1>5

\* The invariant mentions only the variables.
LEMMA Stutter ==
  ASSUME IndInv, UNCHANGED vars
  PROVE  IndInv'
BY DEF vars, IndInv, Typed, Compared, Ordered, DecisionJustified

\* The inductive invariant: shadows and real cache have seen the same sample, and the
\* lru shadow's time stamps are in the order of the sample.
THEOREM Invariant == Spec => []IndInv
<1>1. Init => IndInv
  BY InitInvariant
<1>2. IndInv /\ [Next]_vars => IndInv'
  BY ObserveStep, ResetStep, Stutter DEF Next, Access
<1> QED BY <1>1, <1>2, PTL DEF Spec

\* The state of the scheduler and of its shadow caches keeps its types; the aging loop
\* and the recomputed protecting distance stay in range.
THEOREM TypeCorrect == Spec => []TypeOK
<1>1. IndInv => TypeOK
  BY Consequences
<1> QED BY <1>1, Invariant, PTL

\* observe counts one event for the real cache and one for every shadow, and no shadow
\* outgrows the device, whatever its eviction order.
THEOREM ComparesLikeWithLike == Spec => []SameSample
<1>1. IndInv => SameSample
  BY Consequences
<1> QED BY <1>1, Invariant, PTL

\* The lru shadow, which evicts by time stamps, has the content and the hits of an LRU
\* cache of the sampled accesses.
THEOREM LruShadowIsLRU == Spec => []ShadowIsLRU
<1>1. IndInv => ShadowIsLRU
  BY Consequences
<1> QED BY <1>1, Invariant, PTL

\* _finalize_policy keeps ml only if it leads every shadow by the threshold, and else
\* takes a shadow that no other beats.
THEOREM DecisionIsJustified == Spec => []DecisionJustified
<1>1. IndInv => DecisionJustified
  BY Consequences
<1> QED BY <1>1, Invariant, PTL
=============================================================================
