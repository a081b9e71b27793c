---------------------------- MODULE NaturalSets ----------------------------
(***************************************************************************)
(* Lemmas about sets of natural numbers, for the proofs about the places   *)
(* in a sequence and the times of a clock: what has a least element, and   *)
(* what Min and Max choose.                                                *)
(***************************************************************************)
EXTENDS Integers, FiniteSetsExt, WellFoundedInduction, TLAPS

(* A set of natural numbers that is not empty has a least element.         *)
LEMMA LeastNatural ==
    ASSUME NEW T, T \subseteq Nat, T # {}
    PROVE  \E m \in T : \A k \in T : m <= k
  <1>1. PICK m \in T : \A k \in T : ~ (<<k, m>> \in OpToRel(<, Nat))
    BY WFMin, NatLessThanWellFounded, Zenon
  <1>2. ASSUME NEW k \in T PROVE ~(k < m)
    <2> DEFINE p == <<k, m>>
    <2>1. p \in Nat \X Nat /\ p[1] = k /\ p[2] = m
      OBVIOUS
    <2>2. p \notin {ss \in Nat \X Nat : ss[1] < ss[2]}
      BY <1>1 DEF OpToRel
    <2> HIDE DEF p
    <2> QED
      BY <2>1, <2>2
  <1>3. \A k \in T : k \in Nat /\ m \in Nat
    OBVIOUS
  <1> QED
    BY <1>2, <1>3

(* Min chooses it.                                                         *)
LEMMA MinOfNaturals ==
    ASSUME NEW S, S \subseteq Nat, S # {}
    PROVE  Min(S) \in S /\ \A y \in S : Min(S) <= y
  <1>1. \E x \in S : \A y \in S : x =< y
    BY LeastNatural
  <1> QED
    BY <1>1, Zenon DEF Min

(* A set of natural numbers that has a bound has a greatest element: its   *)
(* least bound.                                                            *)
LEMMA MaxOfNaturals ==
    ASSUME NEW n \in Nat, NEW S, S \subseteq 0 .. n, S # {}
    PROVE  Max(S) \in S /\ \A y \in S : Max(S) >= y
  <1> DEFINE Bounds == {b \in Nat : \A y \in S : y <= b}
  <1>1. PICK m \in Bounds : \A b \in Bounds : m <= b
    <2>1. n \in Bounds /\ Bounds \subseteq Nat
      OBVIOUS
    <2> HIDE DEF Bounds
    <2> QED
      BY <2>1, LeastNatural
  <1>2. m \in S
    <2> SUFFICES ASSUME m \notin S PROVE FALSE
      OBVIOUS
    <2>1. m - 1 \in Bounds
      <3>1. \A y \in S : y \in Nat /\ y < m
        BY <1>1
      <3>2. m - 1 \in Nat
        <4>1. PICK y \in S : TRUE
          OBVIOUS
        <4>2. m \in Nat
          BY <1>1
        <4> HIDE DEF Bounds
        <4> QED
          BY <3>1, <4>1, <4>2
      <3> QED
        BY <1>1, <3>1, <3>2
    <2> HIDE DEF Bounds
    <2>2. m <= m - 1
      BY <1>1, <2>1
    <2> QED
      BY <1>1, <2>2 DEF Bounds
  <1>3. \E x \in S : \A y \in S : x >= y
    BY <1>1, <1>2
  <1> QED
    BY <1>3, Zenon DEF Max
=============================================================================
