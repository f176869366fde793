------------------------------- MODULE Extrema -------------------------------
(* Least and greatest elements of sets of naturals: the first session of an *)
(* election, the last place of a table.                                     *)
EXTENDS Integers, WellFoundedInduction, TLAPS

\* A set of naturals that is not empty has a least element.
LEMMA MinExists ==
  ASSUME NEW S, S \subseteq Nat, S # {}
  PROVE  \E x \in S : \A y \in S : x =< y
<1> DEFINE R == OpToRel(<, Nat)
<1>1. IsWellFoundedOn(R, Nat)
  BY NatLessThanWellFounded
<1>2. PICK x \in S : \A y \in S : ~(<<y, x>> \in R)
  <2> HIDE DEF R
  <2> QED BY <1>1, WFMin
<1>3. \A y \in S : ~(y < x)
  BY <1>2 DEF OpToRel
<1> QED BY <1>3

\* One that is bounded has a greatest.
LEMMA MaxExists ==
  ASSUME NEW S, NEW n \in Nat, S \subseteq 0..n, S # {}
  PROVE  \E x \in S : \A y \in S : y =< x
<1> DEFINE T == {n - x : x \in S}
<1>1. PICK s \in S : TRUE OBVIOUS
<1>2. n - s \in T /\ T \subseteq Nat OBVIOUS
<1>3. PICK t \in T : \A u \in T : t =< u
  <2> HIDE DEF T
  <2> QED BY <1>2, MinExists
<1>4. PICK x \in S : t = n - x OBVIOUS
<1>5. \A y \in S : n - x =< n - y BY <1>3, <1>4
<1>6. x \in 0..n /\ \A y \in S : y \in 0..n OBVIOUS
<1> QED BY <1>5, <1>6
=============================================================================
