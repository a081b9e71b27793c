--------------------------- MODULE PeerSessionMC ---------------------------
(***************************************************************************)
(* Small instances of PeerSession.                                         *)
(***************************************************************************)
EXTENDS PeerSession

=============================================================================
