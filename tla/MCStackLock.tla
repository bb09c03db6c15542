---------------------------- MODULE MCStackLock ----------------------------
(* Instances of StackLock for TLC. *)
EXTENDS StackLock
=============================================================================
