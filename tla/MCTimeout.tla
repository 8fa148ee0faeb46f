------------------------------ MODULE MCTimeout ------------------------------
(* Instance of TimeoutContexts for TLC. *)
EXTENDS TimeoutContexts
=============================================================================
