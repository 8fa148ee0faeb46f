------------------------------- MODULE MCUring -------------------------------
(* Instance of Uring for TLC. *)
EXTENDS Uring
=============================================================================
