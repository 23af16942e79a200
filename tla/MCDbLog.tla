------------------------------- MODULE MCDbLog -------------------------------
(* Instance of DbLog for TLC: the bounds are in the configurations.        *)
EXTENDS DbLog
==============================================================================
