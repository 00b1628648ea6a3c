-------------------------------- MODULE EngineMC --------------------------------
(* Engine for TLC: up to three rows of one or two units in leaves of three. *)
EXTENDS Engine

ThreeKeys == 1..3
=============================================================================
