----------------------------- MODULE MCForkRoles -----------------------------
(* Instance of ForkRoles for TLC: the bounds are in the configurations.    *)
EXTENDS ForkRoles
==============================================================================
