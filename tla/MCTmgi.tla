------------------------------- MODULE MCTmgi -------------------------------
(* Instances of Tmgi for TLC. *)
EXTENDS Tmgi, TLC

\* TMGIs and ids are only compared.
Symmetry == {p @@ q : p \in Permutations(Tmgis), q \in Permutations(Ids)}
=============================================================================
