----------------------------- MODULE BarrierMC -----------------------------
(***************************************************************************)
(* A small instance of Barrier.  No symmetry: the run checks liveness.     *)
(***************************************************************************)
EXTENDS Barrier
=============================================================================
