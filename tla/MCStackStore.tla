---------------------------- MODULE MCStackStore ----------------------------
(* Instances of StackStore for TLC. *)
EXTENDS StackStore, TLC

Symmetry == Permutations(Requests)
=============================================================================
