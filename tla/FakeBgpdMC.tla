----------------------------- MODULE FakeBgpdMC -----------------------------
(***************************************************************************)
(* Small instances of FakeBgpd.                                            *)
(***************************************************************************)
EXTENDS FakeBgpd, TLC

\* Connections are interchangeable.
ConnSymmetry == Permutations(Conn)
=============================================================================
