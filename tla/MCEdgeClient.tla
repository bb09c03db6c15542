---------------------------- MODULE MCEdgeClient ----------------------------
(* Instances of EdgeClient for TLC. *)
EXTENDS EdgeClient
=============================================================================
