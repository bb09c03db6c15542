--------------------------- MODULE MCEditContainer ---------------------------
(* Instances of EditContainer for TLC. *)
EXTENDS EditContainer, TLC

Symmetry == Permutations(Requests)
=============================================================================
