--------------------------- MODULE MaximumLemmas ---------------------------
(***************************************************************************)
(* What the code's "order by ... desc, take the first" returns: Max of a   *)
(* set of numbers that has a bound is a member of it and the greatest.     *)
(***************************************************************************)
EXTENDS Naturals, FiniteSetsExt, WellFoundedInduction, TLAPS

(* The greatest of some numbers up to n is one of them: its distance to n  *)
(* is the least one, which exists because < is well-founded.               *)
LEMMA MaxIsGreatest ==
  ASSUME NEW n \in Nat, NEW found \in SUBSET Nat, found # {}, \A v \in found : v <= n
  PROVE  Max(found) \in found /\ \A v \in found : Max(found) >= v
<1> DEFINE distances == {n - v : v \in found}
           less == {p \in Nat \X Nat : p[1] < p[2]}
<1>1. distances \in SUBSET Nat
  OBVIOUS
<1>2. IsWellFoundedOn(less, Nat)
  BY NatLessThanWellFounded DEF OpToRel
<1>3. PICK m \in distances : \A k \in distances : ~(<<k, m>> \in less)
  <2>1. distances # {}
    OBVIOUS
  <2> HIDE DEF distances, less
  <2> QED
    BY <1>1, <1>2, <2>1, WFMin
<1>4. PICK v \in found : m = n - v
  OBVIOUS
<1>5. ASSUME NEW w \in found PROVE v >= w
  <2>1. n - w \in distances
    OBVIOUS
  <2>2. ~(n - w < m)
    BY <1>1, <1>3, <2>1
  <2> QED
    BY <1>4, <2>2
<1> QED
  BY <1>5 DEF Max
=============================================================================
