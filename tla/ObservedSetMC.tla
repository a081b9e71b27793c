--------------------------- MODULE ObservedSetMC ---------------------------
(***************************************************************************)
(* Small instances of ObservedSet.                                         *)
(***************************************************************************)
EXTENDS ObservedSet, TLC

\* Prefix keys are interchangeable.
PrefixSymmetry == Permutations(Prefix)

=============================================================================
