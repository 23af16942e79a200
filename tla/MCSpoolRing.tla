----------------------------- MODULE MCSpoolRing -----------------------------
(* Instance of SpoolRing for TLC: the bounds are in the configurations.    *)
EXTENDS SpoolRing
==============================================================================
