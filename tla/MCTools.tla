------------------------------ MODULE MCTools ------------------------------
(* The tools as TLC checks them. *)
EXTENDS Tools
=============================================================================
