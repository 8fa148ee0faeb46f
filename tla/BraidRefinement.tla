--------------------------- MODULE BraidRefinement ---------------------------
(* The scheduler implements the life of a cord: the run queue is the set of *)
(* ready cords, the blocked table the waiting ones, zombies and released    *)
(* cords are dead.                                                          *)
EXTENDS Braid

Life == INSTANCE CordLifecycle WITH
  ready   <- ToSet(runable),
  running <- Running,
  waiting <- blocked,
  dead    <- zombies \cup freed,
  over    <- phase \in {"returning", "done"}

(* Whatever calls the cords make, in any order, each step of braid.c is a  *)
(* legal step in the life of the cords, or changes nothing about it.       *)
ImplementsLifecycle == Life!LifeSpec
=============================================================================
