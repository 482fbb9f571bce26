---------------------------- MODULE MCEventRing ----------------------------
(* EventRing for TLC: the configurations give every constant a number. *)
EXTENDS EventRing
=============================================================================
