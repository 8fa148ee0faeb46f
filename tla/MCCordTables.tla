----------------------------- MODULE MCCordTables -----------------------------
(* Cords are interchangeable: every hash function is tried. *)
EXTENDS CordTables, TLC

Symmetry == Permutations(Cords)
=============================================================================
