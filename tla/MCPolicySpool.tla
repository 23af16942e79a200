---------------------------- MODULE MCPolicySpool ----------------------------
(* Instance of PolicySpool for TLC: the bounds are in the configurations. *)
EXTENDS PolicySpool
==============================================================================
