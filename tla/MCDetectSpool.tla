---------------------------- MODULE MCDetectSpool ----------------------------
(* Instance of DetectSpool for TLC: the bounds are in the configurations. *)
EXTENDS DetectSpool
==============================================================================
