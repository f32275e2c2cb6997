--------------------------- MODULE Sorting_proofs ---------------------------
EXTENDS Sorting, Sequences, FiniteSetTheorems, FunctionTheorems, TLAPS

LEMMA BelowGrows ==
  ASSUME NEW S, IsFiniteSet(S), NEW R, OrdersTotally(R, S), NEW e \in S
  PROVE  /\ IsFiniteSet(Below(e, S, R))
         /\ Cardinality(Below(e, S, R)) \in 0..Cardinality(S) - 1
         /\ \A f \in S : <<e, f>> \in R =>
              Cardinality(Below(e, S, R)) < Cardinality(Below(f, S, R))
<1>1. e \notin Below(e, S, R) /\ Below(e, S, R) \in SUBSET S
  BY DEF Below, OrdersTotally
<1>2. IsFiniteSet(Below(e, S, R)) /\ Cardinality(Below(e, S, R)) \in Nat
  BY <1>1, FS_Subset, FS_CardinalityType
<1>3. ASSUME NEW T \in SUBSET S, Below(e, S, R) \subseteq T, e \in T
      PROVE  Cardinality(Below(e, S, R)) < Cardinality(T)
  <2>1. IsFiniteSet(T) /\ Cardinality(T) \in Nat
    BY FS_Subset, FS_CardinalityType
  <2>2. Cardinality(Below(e, S, R)) <= Cardinality(T)
    BY <1>3, <2>1, FS_Subset
  <2>3. Cardinality(Below(e, S, R)) # Cardinality(T)
    BY <1>1, <1>3, <2>1, FS_Subset
  <2>4. QED
    BY <1>2, <2>1, <2>2, <2>3
<1>4. Cardinality(Below(e, S, R)) < Cardinality(S) /\ Cardinality(S) \in Nat
  BY <1>1, <1>3, FS_CardinalityType
<1>5. ASSUME NEW f \in S, <<e, f>> \in R
      PROVE  Cardinality(Below(e, S, R)) < Cardinality(Below(f, S, R))
  <2>1. Below(f, S, R) \in SUBSET S /\ e \in Below(f, S, R)
    BY <1>5 DEF Below
  <2>2. Below(e, S, R) \subseteq Below(f, S, R)
    BY <1>5 DEF Below, OrdersTotally
  <2>3. QED
    BY <1>3, <2>1, <2>2
<1>6. QED
  BY <1>2, <1>4, <1>5

\* The element at each place is the one with as many below it.
LEMMA SortedPlaces ==
  ASSUME NEW S, IsFiniteSet(S), NEW R, OrdersTotally(R, S)
  PROVE  /\ Cardinality(S) \in Nat
         /\ \A i \in 1..Cardinality(S) :
              /\ Sorted(S, R)[i] \in S
              /\ Cardinality(Below(Sorted(S, R)[i], S, R)) = i - 1
         /\ \A e \in S : /\ Cardinality(Below(e, S, R)) + 1 \in 1..Cardinality(S)
                         /\ Sorted(S, R)[Cardinality(Below(e, S, R)) + 1] = e
<1> DEFINE n == Cardinality(S)
           rank == [e \in S |-> Cardinality(Below(e, S, R))]
<1>1. n \in Nat
  BY FS_CardinalityType
<1>2. rank \in [S -> 0..n-1]
  BY BelowGrows
<1>3. \A e, f \in S : rank[e] = rank[f] => e = f
  <2>1. ASSUME NEW e \in S, NEW f \in S, <<e, f>> \in R PROVE rank[e] < rank[f]
    BY <2>1, BelowGrows
  <2>2. \A e \in S : rank[e] \in Int
    BY <1>1, <1>2
  <2>3. ASSUME NEW e \in S, NEW f \in S, rank[e] = rank[f], e # f PROVE FALSE
    <3>1. <<e, f>> \in R \/ <<f, e>> \in R
      BY <2>3 DEF OrdersTotally
    <3>2. rank[e] < rank[f] \/ rank[f] < rank[e]
      BY <2>1, <3>1
    <3>3. QED
      BY <2>2, <2>3, <3>2
  <2>4. QED
    BY <2>3
<1>4. rank \in Injection(S, 0..n-1)
  BY <1>2, <1>3, Fun_IsInj
<1>5. IsFiniteSet(0..n-1) /\ Cardinality(0..n-1) = n
  <2>1. 0 \in Int /\ n - 1 \in Int /\ (n - 1) - 0 + 1 = n /\ ~(0 > n - 1 /\ n # 0)
    BY <1>1
  <2> HIDE DEF n
  <2>2. QED
    BY <1>1, <2>1, FS_Interval
<1>6. rank \in Surjection(S, 0..n-1)
  BY <1>4, <1>5, FS_Injection
<1>7. \A i \in 0..n-1 : \E e \in S : rank[e] = i
  <2> HIDE DEF rank
  <2>1. QED
    BY <1>6 DEF Surjection
<1>8. ASSUME NEW i \in 1..n
      PROVE  Sorted(S, R)[i] \in S /\ Cardinality(Below(Sorted(S, R)[i], S, R)) = i - 1
  <2>1. i - 1 \in 0..n-1
    BY <1>1
  <2>2. \E e \in S : Cardinality(Below(e, S, R)) = i - 1
    BY <1>7, <2>1
  <2>3. Sorted(S, R)[i] = CHOOSE e \in S : Cardinality(Below(e, S, R)) = i - 1
    BY DEF Sorted
  <2>4. QED
    BY <2>2, <2>3
<1>9. ASSUME NEW e \in S
      PROVE  /\ Cardinality(Below(e, S, R)) + 1 \in 1..n
             /\ Sorted(S, R)[Cardinality(Below(e, S, R)) + 1] = e
  <2>1. rank[e] \in 0..n-1 /\ rank[e] + 1 \in 1..n /\ (rank[e] + 1) - 1 = rank[e]
    BY <1>1, <1>2
  <2>2. Sorted(S, R)[rank[e] + 1] \in S /\ rank[Sorted(S, R)[rank[e] + 1]] = rank[e]
    BY <1>8, <2>1
  <2>3. QED
    BY <1>3, <2>1, <2>2
<1>10. QED
  BY <1>1, <1>8, <1>9

\* What sorting gives: every element once, in order.
LEMMA SortedFacts ==
  ASSUME NEW S, IsFiniteSet(S), NEW R, OrdersTotally(R, S)
  PROVE  /\ Sorted(S, R) \in Seq(S)
         /\ Len(Sorted(S, R)) = Cardinality(S) /\ Cardinality(S) \in Nat
         /\ \A e \in S : \E i \in 1..Cardinality(S) : Sorted(S, R)[i] = e
         /\ \A i, j \in 1..Cardinality(S) : i < j => <<Sorted(S, R)[i], Sorted(S, R)[j]>> \in R
<1> DEFINE n == Cardinality(S)
           s == Sorted(S, R)
<1>1. n \in Nat /\ \A i \in 1..n : s[i] \in S /\ Cardinality(Below(s[i], S, R)) = i - 1
  BY SortedPlaces
<1>2. s \in [1..n -> S]
  BY <1>1 DEF Sorted
<1>3. s \in Seq(S) /\ Len(s) = n
  BY <1>1, <1>2
<1>4. \A e \in S : \E i \in 1..n : s[i] = e
  BY SortedPlaces
<1>5. ASSUME NEW i \in 1..n, NEW j \in 1..n, i < j
      PROVE  <<s[i], s[j]>> \in R
  <2>1. s[i] # s[j]
    BY <1>1, <1>5
  <2>2. <<s[j], s[i]>> \notin R
    BY <1>1, <1>5, BelowGrows
  <2>3. QED
    BY <1>1, <2>1, <2>2 DEF OrdersTotally
<1>6. QED
  BY <1>1, <1>3, <1>4, <1>5

---------------------------------------------------------------------------
(* Sets of integers *)

LessThan(S) == {p \in S \X S : p[1] < p[2]}

LEMMA LessThanOrders ==
  ASSUME NEW S \in SUBSET Int
  PROVE  OrdersTotally(LessThan(S), S)
BY DEF LessThan, OrdersTotally

LEMMA AscendingFacts ==
  ASSUME NEW S \in SUBSET Int, IsFiniteSet(S)
  PROVE  /\ Ascending(S) \in Seq(S)
         /\ Len(Ascending(S)) = Cardinality(S) /\ Cardinality(S) \in Nat
         /\ \A i \in 1..Cardinality(S) : Ascending(S)[i] \in S
         /\ \A e \in S : \E i \in 1..Cardinality(S) : Ascending(S)[i] = e
         /\ \A i, j \in 1..Cardinality(S) : i < j => Ascending(S)[i] < Ascending(S)[j]
<1>1. Ascending(S) = Sorted(S, LessThan(S))
  BY DEF Ascending, LessThan
<1>2. /\ Ascending(S) \in Seq(S)
      /\ Len(Ascending(S)) = Cardinality(S) /\ Cardinality(S) \in Nat
      /\ \A e \in S : \E i \in 1..Cardinality(S) : Ascending(S)[i] = e
      /\ \A i, j \in 1..Cardinality(S) : i < j => <<Ascending(S)[i], Ascending(S)[j]>> \in LessThan(S)
  BY <1>1, LessThanOrders, SortedFacts
<1>3. \A i \in 1..Cardinality(S) : Ascending(S)[i] \in S
  BY <1>2
<1>4. \A i, j \in 1..Cardinality(S) : i < j => Ascending(S)[i] < Ascending(S)[j]
  BY <1>2 DEF LessThan
<1>5. QED
  BY <1>2, <1>3, <1>4

\* A subset with everything below its elements is the beginning.
LEMMA AscendingPrefix ==
  ASSUME NEW S \in SUBSET Int, IsFiniteSet(S), NEW D \in SUBSET S,
         \A d \in D, e \in S : e < d => e \in D
  PROVE  /\ Cardinality(D) \in 0..Cardinality(S)
         /\ {Ascending(S)[i] : i \in 1..Cardinality(D)} = D
<1> DEFINE n == Cardinality(S)
           m == Cardinality(D)
           a == Ascending(S)
<1>1. n \in Nat /\ IsFiniteSet(D) /\ m \in 0..n
  <2>1. IsFiniteSet(D) /\ m <= n
    BY FS_Subset
  <2>2. n \in Nat /\ m \in Nat
    BY <2>1, FS_CardinalityType
  <2>3. QED
    BY <2>1, <2>2
<1>2. /\ \A i \in 1..n : a[i] \in S
      /\ \A e \in S : \E i \in 1..n : a[i] = e
      /\ \A i, j \in 1..n : i < j => a[i] < a[j]
  BY AscendingFacts
<1> HIDE DEF a
<1> DEFINE I == {i \in 1..n : a[i] \in D}
           place == [i \in I |-> a[i]]
<1>3. \A i \in I, j \in 1..n : j < i => j \in I
  BY <1>1, <1>2
<1>4. place \in Bijection(I, D)
  <2>1. place \in [I -> D]
    OBVIOUS
  <2>2. \A i, j \in I : place[i] = place[j] => i = j
    <3>1. \A i \in I : a[i] \in Int
      BY <1>2
    <3>2. SUFFICES ASSUME NEW i \in I, NEW j \in I, a[i] = a[j], i # j PROVE FALSE
      OBVIOUS
    <3>3. i < j \/ j < i
      BY <1>1, <3>2
    <3>4. QED
      BY <1>2, <3>1, <3>2, <3>3
  <2>3. \A d \in D : \E i \in I : place[i] = d
    BY <1>2
  <2>4. QED
    <3> HIDE DEF place, I
    <3>1. QED
      BY <2>1, <2>2, <2>3, Fun_IsBij
<1>5. ExistsBijection(I, D)
  BY <1>4 DEF ExistsBijection
<1>6. IsFiniteSet(I) /\ Cardinality(I) = m
  <2>1. IsFiniteSet(1..n) /\ I \in SUBSET (1..n)
    BY <1>1, FS_Interval
  <2>2. IsFiniteSet(I)
    BY <2>1, FS_Subset
  <2>3. QED
    BY <1>5, <2>2, FS_Bijection
<1>7. I = 1..m
  <2>1. ASSUME NEW i \in I PROVE i <= m
    <3>1. 1..i \subseteq I
      BY <1>1, <1>3
    <3>2. IsFiniteSet(1..i) /\ Cardinality(1..i) = i
      BY FS_Interval
    <3>3. QED
      BY <1>6, <3>1, <3>2, FS_Subset
  <2>2. IsFiniteSet(1..m) /\ Cardinality(1..m) = m
    BY <1>1, FS_Interval
  <2>3. I \in SUBSET (1..m)
    BY <1>1, <2>1
  <2>4. QED
    BY <1>6, <2>2, <2>3, FS_Subset
<1>8. {a[i] : i \in I} = D
  BY <1>2
<1>9. QED
  BY <1>1, <1>7, <1>8 DEF a
---------------------------------------------------------------------------
(* Induction *)

LEMMA LeastNumber ==
  ASSUME NEW T \in SUBSET Nat, T # {}
  PROVE  \E n \in T : \A m \in T : n <= m
<1>1. IsWellFoundedOn(OpToRel(<, Nat), Nat)
  BY NatLessThanWellFounded
<1>2. \E n \in T : \A m \in T : <<m, n>> \notin OpToRel(<, Nat)
  BY <1>1, WFMin
<1>3. PICK n \in T : \A m \in T : ~(m < n)
  BY <1>2 DEF OpToRel
<1>4. QED
  BY <1>3
=============================================================================
