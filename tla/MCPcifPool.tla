----------------------------- MODULE MCPcifPool -----------------------------
(* Instance of PcifPool for TLC: the bounds are in the configuration.      *)
EXTENDS PcifPool
=============================================================================
