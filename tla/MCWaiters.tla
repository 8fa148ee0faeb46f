------------------------------ MODULE MCWaiters ------------------------------
(* The addresses malloc returns are interchangeable. *)
EXTENDS Waiters, TLC

Symmetry == Permutations(Blocks)
=============================================================================
