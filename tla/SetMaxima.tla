----------------------------- MODULE SetMaxima ------------------------------
(***************************************************************************)
(* Least and greatest members of sets of numbers: what CHOOSE finds when a *)
(* queue is drained in order or the newest write is shown.  A property of  *)
(* all numbers follows from the first lemma, applied to the numbers that   *)
(* do not have it.                                                         *)
(***************************************************************************)
EXTENDS Integers, TLAPS, WellFoundedInduction

\* A set of naturals that is not empty has a least member.
LEMMA LeastExists ==
    ASSUME NEW S, S \subseteq Nat, S # {}
    PROVE  \E m \in S : \A x \in S : m <= x
<1>1. PICK m \in S : \A x \in S : ~ (<<x, m>> \in OpToRel(<, Nat))
  BY NatLessThanWellFounded, WFMin, Zenon
<1>2. \A x \in S : ~(x < m)
  BY <1>1 DEF OpToRel
<1>3. QED
  BY <1>2

\* A set of naturals that is not empty and has a bound has a greatest member.
LEMMA GreatestExists ==
    ASSUME NEW S, S \subseteq Nat, S # {}, NEW b \in Nat, \A x \in S : x <= b
    PROVE  \E m \in S : \A x \in S : x <= m
<1> DEFINE T == {y \in Nat : b - y \in S}
<1>1. \A x \in S : b - x \in T
  OBVIOUS
<1>2. T # {}
  BY <1>1
<1>3. PICK y \in T : \A z \in T : y <= z
  <2> HIDE DEF T
  <2>1. T \subseteq Nat
    BY DEF T
  <2>2. QED
    BY <1>2, <2>1, LeastExists
<1>4. \A x \in S : y <= b - x
  BY <1>1, <1>3
<1>5. \A x \in S : x <= b - y
  BY <1>3, <1>4
<1>6. QED
  BY <1>5, <1>3
=============================================================================
