------------------------------ MODULE MCBraid ------------------------------
(* Model-checking instance of the scheduler and of what it implements. *)
EXTENDS BraidRefinement
=============================================================================
