--------------------------- MODULE DataInduction ---------------------------
(***************************************************************************)
(* Induction stated with sets, where the library states it with a          *)
(* predicate: the least element of a set of numbers, and from it induction *)
(* over the numbers and over finite sets.                                  *)
(***************************************************************************)
EXTENDS Integers, FiniteSets, FiniteSetTheorems, WellFoundedInduction, TLAPS

\* A set of natural numbers that is not empty has a least element.
LEMMA LeastNatural ==
    ASSUME NEW S \in SUBSET Nat, S # {}
    PROVE  \E n \in S : \A m \in S : n <= m
<1> DEFINE Less == OpToRel(<, Nat)
<1>1. IsWellFoundedOn(Less, Nat)
    BY NatLessThanWellFounded
<1>2. \A x, y \in Nat : y < x => <<y, x>> \in Less
    BY DEF OpToRel
<1> HIDE DEF Less
<1>3. PICK x \in S : \A y \in S : <<y, x>> \notin Less
    BY <1>1, WFMin
<1>4. ASSUME NEW y \in S PROVE x <= y
    <2>1. x \in Nat /\ y \in Nat
        OBVIOUS
    <2>2. ~(y < x)
        BY <1>2, <1>3, <2>1
    <2> QED BY <2>1, <2>2
<1> QED BY <1>4

\* A set of numbers that has 0, and with a number its successor, has them all.
LEMMA NatSetInduction ==
    ASSUME NEW S, 0 \in S, \A n \in Nat : n \in S => n + 1 \in S
    PROVE  \A n \in Nat : n \in S
<1> SUFFICES ASSUME Nat \ S # {} PROVE FALSE
    OBVIOUS
<1>1. PICK n \in Nat \ S : \A m \in Nat \ S : n <= m
    <2>1. Nat \ S \in SUBSET Nat
        OBVIOUS
    <2> QED BY <2>1, LeastNatural
<1>2. n # 0
    OBVIOUS
<1>3. n - 1 \in Nat /\ ~(n <= n - 1)
    BY <1>2
<1>4. n - 1 \in S
    BY <1>1, <1>3
<1>5. (n - 1) + 1 \in S /\ (n - 1) + 1 = n
    BY <1>3, <1>4
<1> QED BY <1>5

\* A family of sets that has the empty set, and with a subset of S that subset
\* and one more element, has S, if S is finite.
LEMMA SubsetInduction ==
    ASSUME NEW S, IsFiniteSet(S), NEW F, {} \in F,
           \A T \in SUBSET S : \A x \in S \ T : T \in F => T \cup {x} \in F
    PROVE  S \in F
<1> DEFINE P == {n \in Nat : \A T \in SUBSET S : Cardinality(T) = n => T \in F}
<1> HIDE DEF P
<1>1. 0 \in P
    <2>1. \A T \in SUBSET S : Cardinality(T) = 0 => T = {}
        BY FS_Subset, FS_EmptySet
    <2> QED BY <2>1 DEF P
<1>2. ASSUME NEW n \in Nat, n \in P PROVE n + 1 \in P
    <2>1. SUFFICES ASSUME NEW T \in SUBSET S, Cardinality(T) = n + 1 PROVE T \in F
        BY DEF P
    <2>2. IsFiniteSet(T)
        BY FS_Subset
    <2>3. T # {}
        <3>1. n + 1 # 0
            OBVIOUS
        <3> QED BY <2>1, <3>1, FS_EmptySet
    <2>4. PICK x \in T : TRUE
        BY <2>3
    <2>5. Cardinality(T \ {x}) = n
        <3>1. Cardinality(T \ {x}) = Cardinality(T) - 1
            BY <2>2, FS_RemoveElement
        <3> QED BY <2>1, <3>1
    <2>6. T \ {x} \in F
        BY <1>2, <2>5 DEF P
    <2>7. T = (T \ {x}) \cup {x}
        OBVIOUS
    <2> QED BY <2>6, <2>7
<1>3. \A n \in Nat : n \in P
    BY <1>1, <1>2, NatSetInduction
<1> QED BY <1>3, FS_CardinalityType DEF P
=============================================================================
