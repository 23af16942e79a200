------------------------------- MODULE MCSQueue ------------------------------
(* Instance of SQueue for TLC: the bounds are in the configurations.       *)
EXTENDS SQueue
==============================================================================
