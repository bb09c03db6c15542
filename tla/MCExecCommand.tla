---------------------------- MODULE MCExecCommand ----------------------------
(* Instances of ExecCommand for TLC. *)
EXTENDS ExecCommand
=============================================================================
