------------------------------ MODULE MCKqueue ------------------------------
(* Instance of Kqueue for TLC. *)
EXTENDS Kqueue
=============================================================================
