--------------------------- MODULE MCComposeDeploy ---------------------------
(* Instances of ComposeDeploy for TLC. *)
EXTENDS ComposeDeploy, TLC

NoDeps == [s \in Services |-> {}]

Symmetry == Permutations(Requests)
=============================================================================
