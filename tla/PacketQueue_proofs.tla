-------------------------- MODULE PacketQueue_proofs --------------------------
(***************************************************************************)
(* What taking packets out of a queue leaves: a queue again, no longer     *)
(* than it was, of packets that were in it, each of the places that stay   *)
(* once and in their order.  Place and Kept are no recursive operators, so *)
(* this holds for queues of any length without an induction: counting from *)
(* below maps the places that stay to 1 .. n one to one, hence onto.       *)
(***************************************************************************)
EXTENDS PacketQueue, Integers, FiniteSetTheorems, FunctionTheorems,
        SequenceTheorems, WellFoundedInduction, TLAPS

\* How many numbers of K there are up to i.
Below(K, i) == Cardinality({j \in K : j <= i})

\* A set of places that is not empty has a first one.
LEMMA FirstPlace ==
  ASSUME NEW S \in SUBSET Nat, S # {}
  PROVE  \E i \in S : \A j \in S : i <= j
<1>1. PICK i \in S : \A j \in S : ~(<<j, i>> \in OpToRel(<, Nat))
  BY WFMin, NatLessThanWellFounded, Zenon
<1>2. \A j \in S : ~(j < i)
  BY <1>1, Zenon DEF OpToRel
<1>3. QED
  BY <1>2

LEMMA PlacesFinite ==
  ASSUME NEW n \in Nat, NEW K \in SUBSET (1 .. n)
  PROVE  /\ IsFiniteSet(K) /\ Cardinality(K) \in Nat /\ Cardinality(K) <= n
         /\ \A i \in K : i \in Nat
<1>1. IsFiniteSet(1 .. n) /\ Cardinality(1 .. n) = n
  BY FS_Interval
<1>2. IsFiniteSet(K) /\ Cardinality(K) <= Cardinality(1 .. n)
  BY <1>1, FS_Subset
<1>3. QED
  BY <1>1, <1>2, FS_CardinalityType

\* Counting from below numbers the places of K, in their order.
LEMMA BelowOrders ==
  ASSUME NEW n \in Nat, NEW K \in SUBSET (1 .. n)
  PROVE  /\ \A i \in K : Below(K, i) \in 1 .. Cardinality(K)
         /\ \A i, j \in K : i < j => Below(K, i) < Below(K, j)
<1>1. /\ IsFiniteSet(K) /\ Cardinality(K) \in Nat
      /\ \A i \in K : i \in Nat
  BY PlacesFinite
<1>2. \A i \in K : /\ IsFiniteSet({j \in K : j <= i})
                   /\ Below(K, i) \in Nat /\ Below(K, i) <= Cardinality(K)
  <2> SUFFICES ASSUME NEW i \in K
               PROVE  /\ IsFiniteSet({j \in K : j <= i})
                      /\ Below(K, i) \in Nat /\ Below(K, i) <= Cardinality(K)
    OBVIOUS
  <2>1. {j \in K : j <= i} \in SUBSET K
    OBVIOUS
  <2>2. IsFiniteSet({j \in K : j <= i})
        /\ Cardinality({j \in K : j <= i}) <= Cardinality(K)
    BY <1>1, <2>1, FS_Subset
  <2>3. QED
    BY <2>2, FS_CardinalityType DEF Below
<1>3. \A i \in K : Below(K, i) # 0
  <2> SUFFICES ASSUME NEW i \in K, Below(K, i) = 0 PROVE FALSE
    OBVIOUS
  <2>1. {j \in K : j <= i} = {}
    BY <1>2, FS_EmptySet DEF Below
  <2>2. i \in {j \in K : j <= i}
    BY <1>1
  <2>3. QED
    BY <2>1, <2>2
<1>4. \A i, j \in K : i < j => Below(K, i) < Below(K, j)
  <2> SUFFICES ASSUME NEW i \in K, NEW j \in K, i < j
               PROVE  Below(K, i) < Below(K, j)
    OBVIOUS
  <2> DEFINE A == {k \in K : k <= i}
             B == {k \in K : k <= j}
  <2>1. i \in Nat /\ j \in Nat
    BY <1>1
  <2>2. A \in SUBSET B
    <3>1. \A k \in K : k <= i => k <= j
      BY <1>1, <2>1
    <3>2. QED
      BY <3>1
  <2>3. j \in B /\ j \notin A
    BY <2>1
  <2>4. /\ Cardinality(A) <= Cardinality(B)
        /\ Cardinality(B) = Cardinality(A) => B = A
    <3>1. IsFiniteSet(B)
      BY <1>2
    <3> HIDE DEF A, B
    <3>2. QED
      BY <2>2, <3>1, FS_Subset
  <2>5. Below(K, i) \in Nat /\ Below(K, j) \in Nat
    BY <1>2
  <2>6. QED
    BY <2>3, <2>4, <2>5 DEF Below
<1>5. \A i \in K : Below(K, i) \in 1 .. Cardinality(K)
  <2> SUFFICES ASSUME NEW i \in K PROVE Below(K, i) \in 1 .. Cardinality(K)
    OBVIOUS
  <2>1. /\ Below(K, i) \in Nat /\ Below(K, i) <= Cardinality(K)
        /\ Below(K, i) # 0
    BY <1>2, <1>3
  <2>2. QED
    BY <1>1, <2>1
<1>6. QED
  BY <1>4, <1>5

\* Place is the way back: the k-th place is one of K, and the only one with k
\* places up to it.
LEMMA PlaceCounts ==
  ASSUME NEW n \in Nat, NEW K \in SUBSET (1 .. n)
  PROVE  /\ \A k \in 1 .. Cardinality(K) :
              Place(K, k) \in K /\ Below(K, Place(K, k)) = k
         /\ \A i \in K : Place(K, Below(K, i)) = i
<1> DEFINE N == 1 .. Cardinality(K)
           f == [i \in K |-> Below(K, i)]
<1>1. /\ \A i \in K : Below(K, i) \in N
      /\ \A i, j \in K : i < j => Below(K, i) < Below(K, j)
  BY BelowOrders
<1>2. /\ IsFiniteSet(K) /\ Cardinality(K) \in Nat
      /\ \A i \in K : i \in Nat
  BY PlacesFinite
<1>3. \A i, j \in K : Below(K, i) = Below(K, j) => i = j
  <2> SUFFICES ASSUME NEW i \in K, NEW j \in K, Below(K, i) = Below(K, j)
               PROVE  i = j
    OBVIOUS
  <2>1. i \in Nat /\ j \in Nat /\ Below(K, i) \in N
    BY <1>1, <1>2
  <2>2. ~(i < j) /\ ~(j < i)
    BY <1>1, <1>2, <2>1
  <2>3. QED
    BY <2>1, <2>2
<1>4. f \in [K -> N] /\ \A i, j \in K : f[i] = f[j] => i = j
  BY <1>1, <1>3
<1>5. f \in Injection(K, N)
  BY <1>4, Fun_IsInj
<1>6. IsFiniteSet(N) /\ Cardinality(N) = Cardinality(K)
  BY <1>2, FS_Interval
<1> HIDE DEF f
<1>7. f \in Surjection(K, N)
  BY <1>5, <1>6, FS_Injection
<1>8. \A k \in N : \E i \in K : f[i] = k
  BY <1>7, Fun_SurjectionProperties
<1>9. \A k \in N : \E i \in K : Below(K, i) = k
  BY <1>8 DEF f
<1>10. \A k \in N : Place(K, k) \in K /\ Below(K, Place(K, k)) = k
  BY <1>9 DEF Place, Below
<1>11. QED
  BY <1>1, <1>3, <1>10

\* The places stay in their order.
LEMMA PlacesAscend ==
  ASSUME NEW n \in Nat, NEW K \in SUBSET (1 .. n),
         NEW k \in 1 .. Cardinality(K), NEW l \in 1 .. Cardinality(K), k < l
  PROVE  Place(K, k) < Place(K, l)
<1>1. /\ Place(K, k) \in K /\ Below(K, Place(K, k)) = k
      /\ Place(K, l) \in K /\ Below(K, Place(K, l)) = l
  BY PlaceCounts
<1>2. Place(K, k) \in Nat /\ Place(K, l) \in Nat
  BY <1>1, PlacesFinite
<1>3. Place(K, l) < Place(K, k) => l < k
  BY <1>1, BelowOrders
<1>4. k \in Int /\ l \in Int /\ ~(l < k) /\ k # l
  OBVIOUS
<1>5. Place(K, k) # Place(K, l)
  BY <1>1, <1>4
<1>6. QED
  BY <1>2, <1>3, <1>4, <1>5

-----------------------------------------------------------------------------
(***************************************************************************)
(* What is kept.                                                           *)
(***************************************************************************)

\* A queue of packets of the old one, each from a place that stays.
LEMMA KeptQueue ==
  ASSUME NEW S, NEW q \in Seq(S), NEW K \in SUBSET DOMAIN q
  PROVE  /\ Kept(q, K) \in Seq(S)
         /\ Len(Kept(q, K)) = Cardinality(K) /\ Cardinality(K) <= Len(q)
         /\ DOMAIN Kept(q, K) = 1 .. Cardinality(K)
         /\ \A k \in DOMAIN Kept(q, K) :
              Place(K, k) \in K /\ Kept(q, K)[k] = q[Place(K, k)]
<1>1. Len(q) \in Nat /\ DOMAIN q = 1 .. Len(q) /\ q \in [1 .. Len(q) -> S]
  BY LenProperties
<1>2. K \in SUBSET (1 .. Len(q))
  BY <1>1
<1>3. Cardinality(K) \in Nat /\ Cardinality(K) <= Len(q)
  BY <1>1, <1>2, PlacesFinite
<1>4. \A k \in 1 .. Cardinality(K) : Place(K, k) \in K
  BY <1>1, <1>2, PlaceCounts
<1>5. Kept(q, K) = [k \in 1 .. Cardinality(K) |-> q[Place(K, k)]]
  BY DEF Kept
<1>6. \A k \in 1 .. Cardinality(K) : q[Place(K, k)] \in S
  BY <1>1, <1>2, <1>4
<1>7. Kept(q, K) \in [1 .. Cardinality(K) -> S]
  BY <1>5, <1>6
<1>8. QED
  BY <1>3, <1>4, <1>5, <1>7

\* No packet whose place stays is lost.
LEMMA KeptAll ==
  ASSUME NEW S, NEW q \in Seq(S), NEW K \in SUBSET DOMAIN q, NEW i \in K
  PROVE  \E k \in DOMAIN Kept(q, K) : Kept(q, K)[k] = q[i]
<1>1. Len(q) \in Nat /\ K \in SUBSET (1 .. Len(q))
  BY LenProperties
<1>2. Below(K, i) \in 1 .. Cardinality(K) /\ Place(K, Below(K, i)) = i
  BY <1>1, BelowOrders, PlaceCounts
<1>3. QED
  BY <1>2, KeptQueue

\* Keeping every place changes nothing.
LEMMA KeptWhole ==
  ASSUME NEW S, NEW q \in Seq(S)
  PROVE  Kept(q, DOMAIN q) = q
<1> DEFINE n == Len(q)
<1>1. n \in Nat /\ DOMAIN q = 1 .. n /\ q = [k \in 1 .. n |-> q[k]]
  BY LenProperties
<1>2. Cardinality(1 .. n) = n
  BY <1>1, FS_Interval
<1>3. \A k \in 1 .. n : Below(1 .. n, k) = k
  <2> SUFFICES ASSUME NEW k \in 1 .. n PROVE Below(1 .. n, k) = k
    OBVIOUS
  <2>1. {j \in 1 .. n : j <= k} = 1 .. k
    BY <1>1
  <2>2. Cardinality(1 .. k) = k
    <3>1. k \in Int /\ k >= 1 /\ 1 \in Int
      BY <1>1
    <3>2. QED
      BY <3>1, FS_Interval
  <2>3. QED
    BY <2>1, <2>2 DEF Below
<1>4. \A k \in 1 .. n : Place(1 .. n, k) = k
  <2>1. \A k \in 1 .. n : Place(1 .. n, Below(1 .. n, k)) = k
    BY <1>1, PlaceCounts
  <2>2. QED
    BY <1>3, <2>1
<1>5. QED
  BY <1>1, <1>2, <1>4 DEF Kept

\* Sending the first packet keeps the places behind it.
LEMMA KeptTail ==
  ASSUME NEW S, NEW q \in Seq(S), q # <<>>
  PROVE  Kept(q, 2 .. Len(q)) = Tail(q) /\ 2 .. Len(q) \subseteq DOMAIN q
<1> DEFINE n == Len(q)
           K == 2 .. n
<1>1. n \in Nat /\ n >= 1 /\ DOMAIN q = 1 .. n
  BY LenProperties, EmptySeq
<1>2. Cardinality(K) = n - 1
  BY <1>1, FS_Interval
<1>3. K \in SUBSET (1 .. n)
  BY <1>1
<1>4. \A k \in 1 .. n - 1 : k + 1 \in K /\ Below(K, k + 1) = k
  <2> SUFFICES ASSUME NEW k \in 1 .. n - 1
               PROVE  k + 1 \in K /\ Below(K, k + 1) = k
    OBVIOUS
  <2>1. {j \in K : j <= k + 1} = 2 .. (k + 1)
    BY <1>1
  <2>2. Cardinality(2 .. (k + 1)) = k
    BY <1>1, FS_Interval
  <2>3. k + 1 \in K
    BY <1>1
  <2>4. QED
    BY <2>1, <2>2, <2>3 DEF Below
<1>5. \A k \in 1 .. n - 1 : Place(K, k) = k + 1
  <2>1. \A i \in K : Place(K, Below(K, i)) = i
    BY <1>1, <1>3, PlaceCounts
  <2>2. QED
    BY <1>4, <2>1
<1>6. Tail(q) = [k \in 1 .. n - 1 |-> q[k + 1]]
  <2>1. Tail(q) \in Seq(S) /\ Len(Tail(q)) = n - 1
        /\ \A k \in 1 .. n - 1 : Tail(q)[k] = q[k + 1]
    BY HeadTailProperties
  <2>2. Tail(q) = [k \in 1 .. n - 1 |-> Tail(q)[k]]
    BY <2>1, LenProperties
  <2>3. QED
    BY <2>1, <2>2
<1>7. QED
  BY <1>1, <1>2, <1>3, <1>5, <1>6 DEF Kept

=============================================================================
