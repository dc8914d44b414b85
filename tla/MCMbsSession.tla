--------------------------- MODULE MCMbsSession ---------------------------
(***************************************************************************)
(* Instances of MbsSession for TLC.                                        *)
(***************************************************************************)
EXTENDS MbsSession, TLC

SessionSymmetry == Permutations(Session)

=============================================================================
