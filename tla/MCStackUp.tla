------------------------------ MODULE MCStackUp ------------------------------
(* Instances of StackUp for TLC. *)
EXTENDS StackUp
=============================================================================
