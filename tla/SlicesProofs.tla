---------------------------- MODULE SlicesProofs ----------------------------
(***************************************************************************)
(* What a slice keeps, for any set of numbers and any limit, and the least *)
(* and the greatest of a finite set: the facts that the proofs about the   *)
(* metrics adapters and the costs rest on.                                 *)
(***************************************************************************)
EXTENDS Slices, FiniteSetTheorems, TLAPS

\* What is picked by the members of a finite set is finite.
LEMMA ImageIsFinite ==
  ASSUME NEW S, IsFiniteSet(S), NEW f
  PROVE  IsFiniteSet({f[x] : x \in S})
<1> DEFINE T == {f[x] : x \in S}
           g == [x \in S |-> f[x]]
<1>1. g \in Surjection(S, T)
  BY DEF Surjection
<1> HIDE DEF T, g
<1>2. IsFiniteSet(T)
  BY <1>1, FS_Surjection
<1> QED
  BY <1>2 DEF T

-----------------------------------------------------------------------------
(* The least and the greatest of a set.                                    *)

LEMMA LeastExists ==
  ASSUME NEW S \in SUBSET Nat, S # {}
  PROVE  \E x \in S : \A y \in S : x <= y
<1>1. PICK x \in S : \A y \in S : ~(<<y, x>> \in OpToRel(<, Nat))
  BY NatLessThanWellFounded, WFMin
<1>2. \A y \in S : ~(y < x)
  BY <1>1 DEF OpToRel
<1> QED
  BY <1>2

\* Finite sets of integers: one without a greatest element (or a least), of
\* the smallest size there is, would have one more than a set that has it.
LEMMA FiniteHasBounds ==
  ASSUME NEW S \in SUBSET Int, IsFiniteSet(S), S # {}
  PROVE  /\ \E x \in S : \A y \in S : x >= y
         /\ \E x \in S : \A y \in S : x <= y
<1> DEFINE Bounded(T) == /\ \E x \in T : \A y \in T : x >= y
                         /\ \E x \in T : \A y \in T : x <= y
           Sizes == {Cardinality(T) : T \in {U \in SUBSET S : U # {} /\ ~Bounded(U)}}
<1> HIDE DEF Bounded
<1>1. \A T \in SUBSET S : IsFiniteSet(T) /\ Cardinality(T) \in Nat
  BY FS_Subset, FS_CardinalityType
<1>2. ASSUME ~Bounded(S) PROVE FALSE
  <2>1. Sizes \in SUBSET Nat /\ Sizes # {}
    BY <1>1, <1>2
  <2>2. PICK n \in Sizes : \A m \in Sizes : n <= m
    BY <2>1, LeastExists
  <2>3. PICK T \in SUBSET S : T # {} /\ ~Bounded(T) /\ n = Cardinality(T)
    BY <2>2
  <2>4. PICK x : x \in T
    BY <2>3
  <2>5. Cardinality(T \ {x}) = n - 1 /\ n \in Nat
    BY <1>1, <2>3, <2>4, FS_RemoveElement
  <2>6. T \ {x} = {} \/ Bounded(T \ {x})
    <3>1. T \ {x} \in SUBSET S
      OBVIOUS
    <3>2. CASE T \ {x} # {} /\ ~Bounded(T \ {x})
      <4>1. n - 1 \in Sizes
        BY <2>5, <3>1, <3>2
      <4> QED
        BY <2>2, <2>5, <4>1
    <3> QED
      BY <3>2
  <2>7. x \in Int /\ T \subseteq Int
    BY <2>4
  <2>8. CASE T \ {x} = {}
    <3>1. \A y \in T : y = x
      BY <2>8
    <3> QED
      BY <2>3, <2>4, <2>7, <3>1 DEF Bounded
  <2>9. CASE Bounded(T \ {x})
    <3>1. PICK g \in T \ {x}, l \in T \ {x} : \A y \in T \ {x} : g >= y /\ l <= y
      BY <2>9 DEF Bounded
    <3>2. g \in T /\ g \in Int /\ l \in T /\ l \in Int
      BY <2>7
    <3>3. \E z \in T : \A y \in T : z >= y
      <4>1. CASE g >= x
        BY <2>7, <3>1, <3>2, <4>1
      <4>2. CASE x >= g
        <5>1. \A y \in T : x >= y
          BY <2>7, <3>1, <3>2, <4>2
        <5> QED
          BY <2>4, <5>1
      <4> QED
        BY <2>7, <3>2, <4>1, <4>2
    <3>4. \E z \in T : \A y \in T : z <= y
      <4>1. CASE l <= x
        BY <2>7, <3>1, <3>2, <4>1
      <4>2. CASE x <= l
        <5>1. \A y \in T : x <= y
          BY <2>7, <3>1, <3>2, <4>2
        <5> QED
          BY <2>4, <5>1
      <4> QED
        BY <2>7, <3>2, <4>1, <4>2
    <3> QED
      BY <2>3, <3>3, <3>4 DEF Bounded
  <2> QED
    BY <2>6, <2>8, <2>9
<1> QED
  BY <1>2 DEF Bounded

LEMMA MinIsLeast ==
  ASSUME NEW S \in SUBSET Int, IsFiniteSet(S), S # {}
  PROVE  Min(S) \in S /\ \A y \in S : Min(S) <= y
BY FiniteHasBounds DEF Min

LEMMA MaxIsGreatest ==
  ASSUME NEW S \in SUBSET Int, IsFiniteSet(S), S # {}
  PROVE  Max(S) \in S /\ \A y \in S : Max(S) >= y
BY FiniteHasBounds DEF Max

-----------------------------------------------------------------------------
(* What a slice keeps.                                                     *)

LEMMA FirstIsPart ==
  ASSUME NEW S, IsFiniteSet(S), NEW n
  PROVE  /\ First(S, n) \subseteq S /\ IsFiniteSet(First(S, n))
         /\ Cardinality(First(S, n)) \in Nat /\ Cardinality(S) \in Nat
         /\ Cardinality(First(S, n)) <= Cardinality(S)
<1>1. First(S, n) \in SUBSET S
  BY DEF First
<1> QED
  BY <1>1, FS_Subset, FS_CardinalityType

\* Nothing is cut of what fits.
LEMMA FirstOfFew ==
  ASSUME NEW S \in SUBSET Nat, IsFiniteSet(S), NEW n \in Nat, Cardinality(S) <= n
  PROVE  First(S, n) = S
<1>1. ASSUME NEW x \in S PROVE x \in First(S, n)
  <2> DEFINE below == {y \in S : y < x}
  <2>1. IsFiniteSet(S \ {x}) /\ Cardinality(S \ {x}) = Cardinality(S) - 1
    BY FS_RemoveElement
  <2>2. below \in SUBSET (S \ {x})
    OBVIOUS
  <2>3. Cardinality(below) <= Cardinality(S \ {x}) /\ Cardinality(below) \in Nat
    BY <2>1, <2>2, FS_Subset, FS_CardinalityType
  <2>4. Cardinality(below) < n
    BY <2>1, <2>3, FS_CardinalityType
  <2> QED
    BY <2>4 DEF First
<1> QED
  BY <1>1 DEF First

\* What is cut is cut at the limit: below the least that is left out stand at
\* least n, and all of them are kept.
LEMMA FirstIsFull ==
  ASSUME NEW S \in SUBSET Nat, IsFiniteSet(S), NEW n \in Nat, First(S, n) # S
  PROVE  Cardinality(First(S, n)) >= n
<1> DEFINE out == S \ First(S, n)
<1>1. out \in SUBSET Nat /\ out # {}
  BY DEF First
<1>2. PICK x \in out : \A y \in out : x <= y
  BY <1>1, LeastExists
<1> DEFINE below == {y \in S : y < x}
<1>3. ASSUME NEW y \in below PROVE y \in First(S, n)
  BY <1>2
<1>4. below \in SUBSET First(S, n)
  BY <1>3
<1>5. IsFiniteSet(First(S, n)) /\ IsFiniteSet(below)
  BY <1>4, FirstIsPart, FS_Subset
<1>6. /\ Cardinality(below) <= Cardinality(First(S, n))
      /\ Cardinality(below) \in Nat /\ Cardinality(First(S, n)) \in Nat
  BY <1>4, <1>5, FS_Subset, FS_CardinalityType
<1>7. ~(Cardinality(below) < n)
  BY <1>2 DEF First
<1> QED
  BY <1>6, <1>7

\* No slice is longer than its limit.
LEMMA FirstIsShort ==
  ASSUME NEW S \in SUBSET Nat, IsFiniteSet(S), NEW n \in Nat
  PROVE  Cardinality(First(S, n)) <= n
<1>1. CASE First(S, n) = {}
  BY <1>1, FS_EmptySet
<1>2. CASE First(S, n) # {}
  <2>1. First(S, n) \in SUBSET Nat /\ IsFiniteSet(First(S, n))
    BY FirstIsPart
  <2>3. PICK x \in First(S, n) : \A y \in First(S, n) : x >= y
    BY <1>2, <2>1, FiniteHasBounds
  <2> DEFINE below == {y \in S : y < x}
  <2>4. Cardinality(below) < n /\ x \in Nat /\ x \in S
    BY <2>3 DEF First
  <2>5. below \in SUBSET S
    OBVIOUS
  <2>6. IsFiniteSet(below) /\ Cardinality(below) \in Nat
    BY <2>5, FS_Subset, FS_CardinalityType
  <2>7. /\ IsFiniteSet(below \cup {x})
        /\ Cardinality(below \cup {x}) = Cardinality(below) + 1
    <3>1. x \notin below
      BY <2>4
    <3> QED
      BY <2>6, <3>1, FS_AddElement
  <2>8. First(S, n) \in SUBSET (below \cup {x})
    <3>1. ASSUME NEW y \in First(S, n) PROVE y \in below \cup {x}
      <4>1. y \in S /\ y \in Nat
        BY <2>1 DEF First
      <4> QED
        BY <2>3, <2>4, <4>1
    <3> QED
      BY <3>1
  <2>9. Cardinality(First(S, n)) <= Cardinality(below \cup {x})
    BY <2>7, <2>8, FS_Subset
  <2> QED
    BY <2>1, <2>4, <2>6, <2>7, <2>9, FS_CardinalityType
<1> QED
  BY <1>1, <1>2

\* A slice of a set that is as large as the set is the set.
LEMMA WholeIfAsLarge ==
  ASSUME NEW S \in SUBSET Nat, IsFiniteSet(S), NEW n,
         ~(Cardinality(S) > Cardinality(First(S, n)))
  PROVE  First(S, n) = S
<1>1. /\ First(S, n) \in SUBSET S
      /\ Cardinality(First(S, n)) \in Nat /\ Cardinality(S) \in Nat
      /\ Cardinality(First(S, n)) <= Cardinality(S)
  BY FirstIsPart
<1> QED
  BY <1>1, FS_Subset

\* Something is kept of what is not empty.
LEMMA FirstIsNotEmpty ==
  ASSUME NEW S \in SUBSET Nat, S # {}, NEW n \in Nat \ {0}
  PROVE  First(S, n) # {}
<1>1. PICK x \in S : \A y \in S : x <= y
  BY LeastExists
<1>2. {y \in S : y < x} = {}
  <2>1. ASSUME NEW y \in S PROVE ~(y < x)
    BY <1>1, x \in Nat, y \in Nat
  <2> QED
    BY <2>1
<1>3. Cardinality({y \in S : y < x}) < n
  BY <1>2, FS_EmptySet
<1> QED
  BY <1>3 DEF First

\* Whatever stands before one that is kept is kept.
LEMMA FirstIsLowest ==
  ASSUME NEW S \in SUBSET Nat, IsFiniteSet(S), NEW n \in Nat,
         NEW x \in First(S, n), NEW y \in S, y <= x
  PROVE  y \in First(S, n)
<1> DEFINE Below(z) == {s \in S : s < z}
<1>1. x \in S /\ Cardinality(Below(x)) < n
  BY DEF First
<1>2. Below(y) \in SUBSET Below(x) /\ Below(x) \in SUBSET S
  <2>1. ASSUME NEW s \in S, s < y PROVE s < x
    BY <1>1, <2>1, x \in Nat, y \in Nat, s \in Nat
  <2> QED
    BY <2>1
<1> HIDE DEF Below
<1>3. IsFiniteSet(Below(x))
  BY <1>2, FS_Subset
<1>4. /\ Cardinality(Below(y)) <= Cardinality(Below(x))
      /\ Cardinality(Below(y)) \in Nat /\ Cardinality(Below(x)) \in Nat
  BY <1>2, <1>3, FS_Subset, FS_CardinalityType
<1>5. Cardinality(Below(y)) < n
  BY <1>1, <1>4
<1> QED
  BY <1>5 DEF First, Below

\* A set has more than the limit just when the slice leaves something out.
LEMMA FirstLeavesOut ==
  ASSUME NEW S \in SUBSET Nat, IsFiniteSet(S), NEW n \in Nat
  PROVE  Cardinality(S) > n <=> ~(S \subseteq First(S, n))
<1>1. /\ First(S, n) \subseteq S /\ Cardinality(S) \in Nat /\ Cardinality(First(S, n)) \in Nat
      /\ Cardinality(First(S, n)) <= n
  BY FirstIsPart, FirstIsShort
<1>2. ASSUME ~(Cardinality(S) > n) PROVE First(S, n) = S
  BY <1>1, <1>2, FirstOfFew
<1>3. ASSUME S \subseteq First(S, n) PROVE ~(Cardinality(S) > n)
  <2>1. First(S, n) = S
    BY <1>1, <1>3
  <2> QED
    BY <1>1, <2>1
<1> QED
  BY <1>2, <1>3
=============================================================================
