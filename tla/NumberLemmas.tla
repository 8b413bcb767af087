---------------------------- MODULE NumberLemmas ----------------------------
(***************************************************************************)
(* Least and greatest elements of sets of naturals, which the proofs about *)
(* sequence numbers and event ids need.                                    *)
(***************************************************************************)
EXTENDS Integers, FiniteSets, FiniteSetTheorems, WellFoundedInduction, TLAPS

\* A set of naturals that is not empty has a least element.
LEMMA LeastExists ==
    ASSUME NEW S, S \subseteq Nat, S # {}
    PROVE  \E m \in S : \A d \in S : m <= d
<1>1. PICK m \in S : \A d \in S : ~(<<d, m>> \in OpToRel(<, Nat))
  BY NatLessThanWellFounded, WFMin
<1>2. \A d \in S : ~(d < m)
  BY <1>1 DEF OpToRel
<1>3. QED BY <1>2

\* A finite set of naturals that is not empty has a greatest element: the one
\* with the most below it.
LEMMA GreatestExists ==
    ASSUME NEW S, S \subseteq Nat, IsFiniteSet(S), S # {}
    PROVE  \E m \in S : \A d \in S : d <= m
<1> DEFINE below(e) == {d \in S : d < e}
           above(e) == Cardinality(S) - Cardinality(below(e))
           As == {above(e) : e \in S}
<1>1. \A e \in S : /\ IsFiniteSet(below(e)) /\ Cardinality(below(e)) \in Nat
                   /\ Cardinality(below(e)) <= Cardinality(S)
  BY FS_Subset, FS_CardinalityType
<1>2. Cardinality(S) \in Nat
  BY FS_CardinalityType
<1>3. \A e \in S : above(e) \in Nat
  BY <1>1, <1>2
<1>4. As \subseteq Nat /\ As # {}
  BY <1>3
<1> HIDE DEF below, above
<1>5. PICK a \in As : \A b \in As : a <= b
  BY <1>4, LeastExists
<1>6. PICK m \in S : a = above(m)
  BY <1>5
<1>7. ASSUME NEW d \in S, d > m PROVE FALSE
  <2>1. below(m) \cup {m} \subseteq below(d)
    <3>1. SUFFICES ASSUME NEW c \in S, c < m \/ c = m PROVE c < d
      BY DEF below
    <3>2. c \in Nat /\ m \in Nat /\ d \in Nat
      OBVIOUS
    <3>3. QED BY <3>1, <3>2, <1>7
  <2>2. /\ IsFiniteSet(below(m) \cup {m})
        /\ Cardinality(below(m) \cup {m}) = Cardinality(below(m)) + 1
    <3>1. m \notin below(m)
      BY DEF below
    <3>2. QED BY <1>1, <3>1, FS_AddElement
  <2>3. Cardinality(below(m)) + 1 <= Cardinality(below(d))
    BY <2>1, <2>2, <1>1, FS_Subset
  <2>4. above(d) < above(m)
    BY <2>3, <1>1, <1>2 DEF above
  <2>5. QED BY <2>4, <1>5, <1>6, <1>3
<1>8. QED BY <1>7
=============================================================================
