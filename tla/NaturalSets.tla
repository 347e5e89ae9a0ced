----------------------------- MODULE NaturalSets ------------------------------
(***************************************************************************)
(* Least and greatest elements of sets of naturals: the rows of a table    *)
(* are numbered, and the oldest or the last of them is looked for.         *)
(***************************************************************************)
EXTENDS Naturals, WellFoundedInduction, TLAPS

(* A non-empty set of naturals has a least element. *)
LEMMA LeastNatural ==
    ASSUME NEW S \in SUBSET Nat, S # {}
    PROVE  \E m \in S : \A n \in S : m <= n
<1> DEFINE Less == {ss \in Nat \X Nat : ss[1] < ss[2]}
<1>1. IsWellFoundedOn(Less, Nat)
  BY NatLessThanWellFounded DEF OpToRel
<1>2. \E m \in S : \A n \in S : <<n, m>> \notin Less
  <2> HIDE DEF Less
  <2> QED  BY <1>1, WFMin
<1>3. ASSUME NEW m \in S, NEW n \in S, <<n, m>> \notin Less
      PROVE  m <= n
  BY <1>3
<1> QED  BY <1>2, <1>3

(* A non-empty set of naturals with a bound has a greatest element: its    *)
(* least bound.                                                            *)
LEMMA GreatestNatural ==
    ASSUME NEW S \in SUBSET Nat, S # {}, NEW b \in Nat, \A n \in S : n <= b
    PROVE  \E m \in S : \A n \in S : n <= m
<1> DEFINE Bounds == {u \in Nat : \A n \in S : n <= u}
<1>1. PICK m \in Bounds : \A u \in Bounds : m <= u
  <2>1. Bounds \in SUBSET Nat /\ b \in Bounds
    OBVIOUS
  <2> HIDE DEF Bounds
  <2> QED  BY <2>1, LeastNatural
<1>2. m \in S
  <2> SUFFICES ASSUME m \notin S PROVE FALSE
    OBVIOUS
  <2>1. \A n \in S : n < m
    BY <1>1
  <2>2. PICK k \in S : k < m
    BY <2>1
  <2>3. m \in Nat /\ k \in Nat
    BY <1>1
  <2>4. m - 1 \in Nat /\ ~(m <= m - 1)
    BY <2>2, <2>3
  <2>5. \A n \in S : n <= m - 1
    BY <2>1, <2>3
  <2> QED  BY <1>1, <2>4, <2>5
<1> QED  BY <1>1, <1>2
=============================================================================
