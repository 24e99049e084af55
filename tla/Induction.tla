------------------------------ MODULE Induction ------------------------------
(***************************************************************************)
(* Induction over the natural numbers, and the least and the greatest      *)
(* element of a set of them, stated of a set: an instance for a property   *)
(* is the set of the numbers that have it.                                 *)
(***************************************************************************)
EXTENDS Integers, WellFoundedInduction, TLAPS

(* A set of numbers that is not empty has a least one.                     *)
LEMMA LeastNumber ==
    ASSUME NEW T, T \subseteq Nat, T # {}
    PROVE  \E n \in T : \A m \in T : n <= m
<1> DEFINE R == OpToRel(<, Nat)
<1>1. IsWellFoundedOn(R, Nat)
  BY NatLessThanWellFounded
<1>2. \A m, n \in Nat : ~ (<<m, n>> \in R) => n <= m
  BY DEF OpToRel
<1> HIDE DEF R
<1>3. PICK n \in T : \A m \in T : ~ (<<m, n>> \in R)
  BY <1>1, WFMin
<1> QED BY <1>2, <1>3

(* A bounded one has a greatest.                                           *)
LEMMA GreatestNumber ==
    ASSUME NEW bound \in Nat, NEW T, T \subseteq 0..bound, T # {}
    PROVE  \E n \in T : \A m \in T : m <= n
<1> DEFINE Left == {k \in Nat : bound - k \in T}
<1>1. Left # {}
  <2>1. PICK n : n \in T
    OBVIOUS
  <2>2. bound - n \in Nat /\ bound - (bound - n) = n
    BY <2>1
  <2> QED BY <2>1, <2>2
<1>2. PICK k \in Left : \A j \in Left : k <= j
  <2> HIDE DEF Left
  <2>1. Left \subseteq Nat
    BY DEF Left
  <2> QED BY <1>1, <2>1, LeastNumber
<1>3. ASSUME NEW m \in T PROVE m <= bound - k
  <2>1. bound - m \in Nat /\ bound - (bound - m) = m
    OBVIOUS
  <2>2. bound - m \in Left
    BY <2>1
  <2>3. k <= bound - m /\ k \in Nat /\ m \in Nat
    BY <1>2, <2>2
  <2> HIDE DEF Left
  <2> QED BY <2>3
<1>4. bound - k \in T
  OBVIOUS
<1> QED BY <1>3, <1>4

(* A set with 0 and the successor of each of its numbers has all of them.  *)
LEMMA NatsInASet ==
    ASSUME NEW S, 0 \in S, \A n \in Nat : n \in S => n + 1 \in S
    PROVE  Nat \subseteq S
<1> DEFINE T == Nat \ S
<1>1. SUFFICES ASSUME T # {} PROVE FALSE
  OBVIOUS
<1>2. PICK n \in T : \A m \in T : n <= m
  <2> HIDE DEF T
  <2>1. T \subseteq Nat
    BY DEF T
  <2> QED BY <1>1, <2>1, LeastNumber
<1>3. n # 0 /\ n - 1 \in Nat
  OBVIOUS
<1>4. n - 1 \in S
  BY <1>2, <1>3
<1> QED BY <1>3, <1>4

=============================================================================
