------------------------------ MODULE MCEngine ------------------------------
(* Engine for TLC: its constants are values, nothing is to be defined. *)
EXTENDS Engine
=============================================================================
