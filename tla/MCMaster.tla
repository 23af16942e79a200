------------------------------ MODULE MCMaster ------------------------------
(* Instance of Master for TLC: the bounds are in the configuration.        *)
EXTENDS Master
==============================================================================
