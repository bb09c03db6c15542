---------------------------- MODULE MCDeployOrder ----------------------------
(* Instances of DeployOrder and ComposeLabels for TLC: what a deploy reads of
   a compose file. *)
EXTENDS DeployOrder, ComposeLabels

(* LabelIsSetIn for the services of every compose file a deploy begins with: a
   label that was set or removed on all of them (compose_labels.go:17-76) is
   what the deploy reads (compose.go:236-258), and nothing else is changed. *)
LabelIsSet == roots = services => LabelIsSetIn(services)
=============================================================================
