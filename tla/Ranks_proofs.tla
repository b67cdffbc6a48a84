---------------------------- MODULE Ranks_proofs ----------------------------
(***************************************************************************)
(* The place of a block in a finite set of blocks, for any such set: the   *)
(* places are the numbers below the size of the set, in order.             *)
(***************************************************************************)
EXTENDS Ranks, FiniteSetsExt, TLAPS, FiniteSetTheorems, WellFoundedInduction

\* Below counts a part of the set, and b itself is not counted.
LEMMA BelowBound ==
  ASSUME NEW S \in SUBSET Int, IsFiniteSet(S), NEW b \in Int
  PROVE  /\ Below(S, b) \in Nat
         /\ Cardinality(S) \in Nat
         /\ Below(S, b) <= Cardinality(S)
         /\ b \in S => Below(S, b) < Cardinality(S)
<1> DEFINE T == {c \in S : c < b}
<1>1. /\ IsFiniteSet(T) /\ Cardinality(T) \in Nat /\ Cardinality(S) \in Nat
      /\ Cardinality(T) <= Cardinality(S)
      /\ Cardinality(S) = Cardinality(T) => S = T
  <2>1. T \in SUBSET S
    OBVIOUS
  <2> QED BY <2>1, FS_Subset, FS_CardinalityType
<1>2. b \notin T
  OBVIOUS
<1> QED BY <1>1, <1>2 DEF Below

\* A higher block has more blocks below it.
LEMMA BelowMonotone ==
  ASSUME NEW S \in SUBSET Int, IsFiniteSet(S), NEW a \in S, NEW b \in Int, a < b
  PROVE  Below(S, a) < Below(S, b)
<1> DEFINE T == {c \in S : c < a}
           U == {c \in S : c < b}
<1>1. IsFiniteSet(U) /\ IsFiniteSet(T) /\ Cardinality(T) \in Nat /\ Cardinality(U) \in Nat
  <2>1. T \in SUBSET S /\ U \in SUBSET S
    OBVIOUS
  <2> HIDE DEF T, U
  <2>2. IsFiniteSet(T)
    BY <2>1, FS_Subset
  <2>3. IsFiniteSet(U)
    BY <2>1, FS_Subset
  <2>4. Cardinality(T) \in Nat
    BY <2>2, FS_CardinalityType
  <2>5. Cardinality(U) \in Nat
    BY <2>3, FS_CardinalityType
  <2> QED BY <2>2, <2>3, <2>4, <2>5
<1>2. T \in SUBSET U /\ a \in U /\ a \notin T
  <2>1. a \in Int /\ \A c \in S : c \in Int
    OBVIOUS
  <2>2. \A c \in S : c < a => c < b
    BY <2>1
  <2>3. T \subseteq U
    BY <2>2
  <2>4. a \in U /\ a \notin T
    BY <2>1
  <2> QED BY <2>3, <2>4
<1>3. Cardinality(T) <= Cardinality(U) /\ (Cardinality(U) = Cardinality(T) => U = T)
  BY <1>1, <1>2, FS_Subset
<1> QED BY <1>1, <1>2, <1>3 DEF Below

\* Two blocks of a set with the same number of blocks below them are one.
LEMMA BelowInjective ==
  ASSUME NEW S \in SUBSET Int, IsFiniteSet(S), NEW a \in S, NEW b \in S,
         Below(S, a) = Below(S, b)
  PROVE  a = b
<1>1. a < b \/ b < a \/ a = b
  OBVIOUS
<1>2. Below(S, a) \in Nat /\ Below(S, b) \in Nat
  BY BelowBound
<1> QED BY <1>1, <1>2, BelowMonotone

\* Every place up to the size of the set is taken: a loop that looks for the k-th
\* good block ends whenever there are enough of them.
LEMMA BelowOnto ==
  ASSUME NEW S \in SUBSET Int, IsFiniteSet(S), NEW k \in Nat, k < Cardinality(S)
  PROVE  \E b \in S : Below(S, b) = k
<1> DEFINE n == Cardinality(S)
           T == 0 .. n - 1
           f == [b \in S |-> Below(S, b)]
<1>1. n \in Nat
  BY FS_CardinalityType
<1>2. IsFiniteSet(T) /\ Cardinality(T) = n
  <2> HIDE DEF n
  <2>1. 0 \in Int /\ n - 1 \in Int
    BY <1>1
  <2>2. IsFiniteSet(T) /\ Cardinality(T) = IF 0 > n - 1 THEN 0 ELSE n - 1 - 0 + 1
    BY <2>1, FS_Interval
  <2> QED BY <1>1, <2>2
<1>3. f \in [S -> T]
  <2>1. \A b \in S : Below(S, b) \in Nat /\ Below(S, b) < n
    BY BelowBound
  <2> QED BY <1>1, <2>1
<1>4. \A a, b \in S : f[a] = f[b] => a = b
  BY BelowInjective
<1>5. f \in Injection(S, T)
  <2> HIDE DEF f
  <2> QED BY <1>3, <1>4 DEF Injection, IsInjective
<1>6. f \in Surjection(S, T)
  <2> HIDE DEF f, T
  <2> QED BY <1>2, <1>5, FS_Injection
<1>7. \A t \in T : \E b \in S : f[b] = t
  <2> HIDE DEF f, T
  <2> QED BY <1>6 DEF Surjection
<1> QED BY <1>1, <1>7

\* Nth finds the block at a place.
LEMMA NthFound ==
  ASSUME NEW S \in SUBSET Int, IsFiniteSet(S), NEW k \in Nat, k < Cardinality(S)
  PROVE  Nth(S, k) \in S /\ Below(S, Nth(S, k)) = k
<1>1. \E b \in S : Below(S, b) = k
  BY BelowOnto
<1> QED BY <1>1 DEF Nth

\* A higher place is a higher block.
LEMMA NthIncreasing ==
  ASSUME NEW S \in SUBSET Int, IsFiniteSet(S), NEW i \in Nat, NEW k \in Nat,
         i < k, k < Cardinality(S)
  PROVE  Nth(S, i) < Nth(S, k)
<1>0. Cardinality(S) \in Nat
  BY FS_CardinalityType
<1>1. i < Cardinality(S)
  BY <1>0
<1> DEFINE a == Nth(S, i)
           b == Nth(S, k)
<1>2. a \in S /\ b \in S /\ Below(S, a) = i /\ Below(S, b) = k
  BY <1>1, NthFound
<1> HIDE DEF a, b
<1>3. a \in Int /\ b \in Int
  BY <1>2
<1>4. a < b \/ b < a \/ a = b
  BY <1>3
<1>5. ~(b < a)
  <2> SUFFICES ASSUME b < a PROVE FALSE
    OBVIOUS
  <2>1. Below(S, b) < Below(S, a)
    BY <1>2, <1>3, BelowMonotone
  <2> QED BY <1>2, <2>1
<1>6. a # b
  BY <1>2
<1> QED BY <1>4, <1>5, <1>6 DEF a, b

\* A block of the k-th place has k numbers in front of it.
LEMMA NthAbove ==
  ASSUME NEW S \in SUBSET Nat, IsFiniteSet(S), NEW k \in Nat, k < Cardinality(S)
  PROVE  Nth(S, k) >= k
<1> DEFINE b == Nth(S, k)
           T == {c \in S : c < b}
<1>1. S \in SUBSET Int
  OBVIOUS
<1>2. b \in S /\ Below(S, b) = k
  BY <1>1, NthFound
<1> HIDE DEF b
<1>3. b \in Nat /\ 0 \in Int /\ b - 1 \in Int
  BY <1>2
<1>4. IsFiniteSet(0 .. b - 1) /\ Cardinality(0 .. b - 1) = b
  <2>1. /\ IsFiniteSet(0 .. b - 1)
        /\ Cardinality(0 .. b - 1) = IF 0 > b - 1 THEN 0 ELSE b - 1 - 0 + 1
    BY <1>3, FS_Interval
  <2> QED BY <1>3, <2>1
<1>5. T \subseteq 0 .. b - 1
  <2>1. \A c \in S : c \in Nat /\ (c < b => c \in 0 .. b - 1)
    BY <1>3
  <2> QED BY <2>1
<1>6. Cardinality(T) <= Cardinality(0 .. b - 1)
  <2> HIDE DEF T
  <2> QED BY <1>4, <1>5, FS_Subset
<1>7. Cardinality(T) = k
  BY <1>2 DEF Below
<1> QED BY <1>3, <1>4, <1>6, <1>7 DEF b

\* Without some of its blocks, a set has a higher block at each place, or the same if
\* none of them was in front.
LEMMA NthShrinks ==
  ASSUME NEW S \in SUBSET Int, IsFiniteSet(S), NEW R \in SUBSET S,
         NEW k \in Nat, k < Cardinality(R)
  PROVE  /\ k < Cardinality(S)
         /\ Nth(S, k) <= Nth(R, k)
         /\ Nth(S, k) = Nth(R, k) \/ \E x \in S : x \notin R /\ x <= Nth(S, k)
<1> DEFINE a == Nth(S, k)
           b == Nth(R, k)
<1>1. /\ IsFiniteSet(R) /\ Cardinality(R) \in Nat /\ Cardinality(S) \in Nat
      /\ Cardinality(R) <= Cardinality(S) /\ R \in SUBSET Int
  BY FS_Subset, FS_CardinalityType
<1>2. k < Cardinality(S)
  BY <1>1
<1>3. a \in S /\ Below(S, a) = k /\ b \in R /\ Below(R, b) = k
  BY <1>1, <1>2, NthFound
<1>4. b \in S /\ a \in Int /\ b \in Int
  BY <1>1, <1>3
<1> HIDE DEF a, b
<1>5. a <= b
  <2>1. Below(R, b) <= Below(S, b) /\ Below(S, b) \in Nat
    <3> DEFINE T == {c \in R : c < b}
               U == {c \in S : c < b}
    <3>1. U \in SUBSET S /\ T \in SUBSET U
      OBVIOUS
    <3>2. IsFiniteSet(U)
      BY <3>1, FS_Subset
    <3>3. Cardinality(T) <= Cardinality(U) /\ Cardinality(U) \in Nat
      BY <3>1, <3>2, FS_Subset, FS_CardinalityType
    <3> QED BY <3>3 DEF Below
  <2>2. CASE b < a
    <3>1. Below(S, b) < Below(S, a)
      BY <1>4, <2>2, BelowMonotone
    <3> QED BY <1>3, <2>1, <3>1
  <2> QED BY <1>4, <2>2
<1>6. ASSUME \A x \in S : x \notin R => ~(x <= a) PROVE a = b
  <2>1. a \in R
    BY <1>3, <1>4, <1>6
  <2>2. {c \in R : c < a} = {c \in S : c < a}
    <3>1. ASSUME NEW c \in S, c < a PROVE c \in R
      <4>1. c \in Int /\ c <= a
        BY <1>4, <3>1
      <4> QED BY <1>6, <3>1, <4>1
    <3> QED BY <3>1
  <2>3. Below(R, a) = k
    BY <1>3, <2>2 DEF Below
  <2> QED BY <1>1, <1>3, <2>1, <2>3, BelowInjective
<1> QED BY <1>2, <1>5, <1>6 DEF a, b

\* A set of naturals that is not empty has a least element.
LEMMA LeastExists ==
  ASSUME NEW S \in SUBSET Nat, S # {}
  PROVE  \E x \in S : \A y \in S : x <= y
<1>1. PICK x \in S : \A y \in S : ~(<<y, x>> \in OpToRel(<, Nat))
  BY NatLessThanWellFounded, WFMin
<1>2. ASSUME NEW y \in S, y < x PROVE FALSE
  <2>1. <<y, x>> \in Nat \X Nat /\ <<y, x>>[1] < <<y, x>>[2]
    BY <1>2
  <2>2. <<y, x>> \in {p \in Nat \X Nat : p[1] < p[2]}
    BY <2>1
  <2>3. OpToRel(<, Nat) = {p \in Nat \X Nat : p[1] < p[2]}
    BY DEF OpToRel
  <2> QED BY <1>1, <2>2, <2>3
<1> QED BY <1>2

\* Min(S) is the smallest element of a set.
LEMMA MinFound ==
  ASSUME NEW S \in SUBSET Nat, S # {}
  PROVE  Min(S) \in S /\ \A y \in S : Min(S) <= y
<1>1. \E x \in S : \A y \in S : x <= y
  BY LeastExists
<1> QED BY <1>1, Zenon DEF Min

\* Max(S) is the largest element of a bounded set.
LEMMA MaxFound ==
  ASSUME NEW n \in Nat, NEW S \in SUBSET (0 .. n), S # {}
  PROVE  Max(S) \in S /\ \A y \in S : Max(S) >= y
<1> DEFINE T == {n - x : x \in S}
<1>1. T \in SUBSET Nat /\ T # {}
  <2>1. PICK x \in S : TRUE
    OBVIOUS
  <2>2. n - x \in T
    OBVIOUS
  <2> QED BY <2>2
<1>2. PICK m \in T : \A y \in T : m <= y
  BY <1>1, LeastExists
<1>3. PICK x \in S : m = n - x
  BY <1>2
<1>4. ASSUME NEW y \in S PROVE x >= y
  <2>1. n - y \in T
    OBVIOUS
  <2>2. n - x <= n - y
    BY <1>2, <1>3, <2>1
  <2> QED BY <2>2
<1>5. \E z \in S : \A y \in S : z >= y
  BY <1>4
<1> QED BY <1>5, Zenon DEF Max
=============================================================================
