---------------------------- MODULE MCDeployStream ----------------------------
(* Instances of DeployStream for TLC. *)
EXTENDS DeployStream
=============================================================================
