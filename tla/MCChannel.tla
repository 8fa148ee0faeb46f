------------------------------ MODULE MCChannel ------------------------------
(* Instance of Channel for TLC. *)
EXTENDS Channel
=============================================================================
