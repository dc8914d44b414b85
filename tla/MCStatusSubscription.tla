------------------------ MODULE MCStatusSubscription ------------------------
(* Instances of StatusSubscription for TLC. *)
EXTENDS StatusSubscription, TLC

\* Subscriptions, correlation ids and URLs are only compared.
Symmetry == {p @@ q @@ r : p \in Permutations(Subs), q \in Permutations(Cids),
                           r \in Permutations(Urls)}
=============================================================================
