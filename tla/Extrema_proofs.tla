--------------------------- MODULE Extrema_proofs ---------------------------
(***************************************************************************)
(* Smallest and largest members of sets of numbers: with them a proof picks *)
(* the first or the last place where something fails, instead of arguing by *)
(* induction over a log or over the versions of a key.                     *)
(***************************************************************************)
EXTENDS TLAPS, NaturalsInduction, WellFoundedInduction, FiniteSets, FiniteSetTheorems

\* Every set of natural numbers that is not empty has a smallest member.
LEMMA HasMinimum ==
    ASSUME NEW S, S \subseteq Nat, S # {}
    PROVE  \E m \in S : \A v \in S : m <= v
<1> DEFINE R == {p \in Nat \X Nat : p[1] < p[2]}
<1>1. R = OpToRel(<, Nat)
    BY Zenon DEF OpToRel
<1>2. IsWellFoundedOn(R, Nat)
    BY <1>1, NatLessThanWellFounded
<1>3. \E b \in S : \A c \in S : ~(<<c, b>> \in R)
  <2> HIDE DEF R
  <2> QED BY <1>2, WFMin
<1>4. PICK b \in S : \A c \in S : ~(<<c, b>> \in R)
    BY <1>3
<1>5. ASSUME NEW c \in S, c < b PROVE FALSE
  <2>1. <<c, b>> \in R
    BY <1>5
  <2> QED BY <1>4, <2>1
<1> QED BY <1>5

\* A bounded set of natural numbers that is not empty has a largest member.
LEMMA HasMaximum ==
    ASSUME NEW S, NEW n \in Nat, S \subseteq 0..n, S # {}
    PROVE  \E m \in S : \A v \in S : v <= m
<1> DEFINE U == {b \in Nat : \A v \in S : v <= b}
<1>1. U \subseteq Nat /\ n \in U
    OBVIOUS
<1>2. PICK b \in U : \A c \in U : b <= c
  <2> HIDE DEF U
  <2> QED BY <1>1, HasMinimum
<1>3. b \in S
  <2> SUFFICES ASSUME b \notin S PROVE FALSE
    OBVIOUS
  <2>1. b \in Nat /\ \A v \in S : v <= b - 1
    OBVIOUS
  <2>2. PICK v \in S : TRUE
    OBVIOUS
  <2>3. b - 1 \in U
    BY <2>1, <2>2
  <2> QED BY <2>1, <2>3, <1>2
<1> QED BY <1>2, <1>3

\* Counting the members of a finite set of numbers up to each of them numbers
\* them in their order.
LEMMA Ranks ==
    ASSUME NEW L, L \subseteq Nat, IsFiniteSet(L)
    PROVE  /\ Cardinality(L) \in Nat
           /\ \A p \in L : Cardinality({m \in L : m <= p}) \in 1..Cardinality(L)
           /\ \A p, q \in L :
                 p < q => Cardinality({m \in L : m <= p}) < Cardinality({m \in L : m <= q})
           /\ \A p, q \in L :
                 Cardinality({m \in L : m <= p}) = Cardinality({m \in L : m <= q}) => p = q
           /\ \A i \in 1..Cardinality(L) : \E p \in L : Cardinality({m \in L : m <= p}) = i
<1> DEFINE U(p) == {m \in L : m <= p}
           c == Cardinality(L)
           f == [p \in L |-> Cardinality(U(p))]
<1>1. IsFiniteSet(L) /\ c \in Nat
    BY FS_CardinalityType
<1>2. ASSUME NEW p \in L PROVE Cardinality(U(p)) \in 1..c
  <2>1. U(p) \in SUBSET L /\ p \in U(p)
    OBVIOUS
  <2>2. PICK T : T = U(p)
    OBVIOUS
  <2> HIDE DEF U, c
  <2>3. IsFiniteSet(T) /\ Cardinality(T) <= c
    BY <1>1, <2>1, <2>2, FS_Subset DEF c
  <2>4. Cardinality(T) \in Nat /\ Cardinality(T) # 0
    BY <2>1, <2>2, <2>3, FS_CardinalityType, FS_EmptySet
  <2> QED BY <1>1, <2>2, <2>3, <2>4
<1>3. ASSUME NEW p \in L, NEW q \in L, p < q
      PROVE  Cardinality(U(p)) < Cardinality(U(q))
  <2>1. U(p) \in SUBSET U(q) /\ U(q) \in SUBSET L /\ q \in U(q) /\ q \notin U(p)
    <3>1. p \in Int /\ q \in Int /\ \A m \in L : m \in Int
      OBVIOUS
    <3>2. \A m \in L : m <= p => m <= q
      BY <1>3, <3>1
    <3>3. q <= q /\ ~(q <= p)
      BY <1>3, <3>1
    <3> QED BY <3>2, <3>3, Zenon
  <2>2. PICK a, b : a = Cardinality(U(p)) /\ b = Cardinality(U(q))
    OBVIOUS
  <2>3. a \in Nat /\ b \in Nat
    BY <1>1, <1>2, <2>2
  <2> HIDE DEF U
  <2>4. IsFiniteSet(U(q))
    BY <1>1, <2>1, FS_Subset
  <2>5. a <= b /\ a # b
    BY <2>1, <2>2, <2>4, FS_Subset
  <2>6. a < b
    BY <2>3, <2>5
  <2> QED BY <2>2, <2>6
<1>4. ASSUME NEW p \in L, NEW q \in L, Cardinality(U(p)) = Cardinality(U(q))
      PROVE  p = q
  <2>1. p \in Int /\ q \in Int
    OBVIOUS
  <2>2. PICK a : a = Cardinality(U(p)) /\ a \in Nat
    BY <1>1, <1>2
  <2> HIDE DEF U
  <2>3. ~(a < a)
    BY <2>2
  <2>4. ~(p < q) /\ ~(q < p)
    BY <1>3, <1>4, <2>2, <2>3
  <2> QED BY <2>1, <2>4
<1> HIDE DEF U, c
<1>5. f \in Injection(L, 1..c)
    BY <1>2, <1>4 DEF Injection, IsInjective
<1>6. IsFiniteSet(1..c) /\ Cardinality(1..c) = c
    BY <1>1, FS_Interval
<1>7. f \in Surjection(L, 1..c)
  <2> HIDE DEF f
  <2>1. Cardinality(L) = Cardinality(1..c)
    BY <1>6 DEF c
  <2> QED BY <1>5, <1>6, <2>1, FS_Injection
<1>8. \A i \in 1..c : \E p \in L : Cardinality(U(p)) = i
    BY <1>7 DEF Surjection
<1> QED BY <1>1, <1>2, <1>3, <1>4, <1>8 DEF U, c
=============================================================================
