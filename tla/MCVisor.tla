------------------------------- MODULE MCVisor -------------------------------
(* Instance of Visor for TLC. *)
EXTENDS Visor
=============================================================================
