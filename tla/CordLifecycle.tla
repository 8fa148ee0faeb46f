---------------------------- MODULE CordLifecycle ----------------------------
(***************************************************************************)
(* What the scheduler of libbraid promises, without its lists: the life of *)
(* a cord.  A cord is created ready, at most one cord runs, a running cord *)
(* may be put back, wait or die, a waiting cord is made ready by a wake-up *)
(* and never on its own, and death is final.  Module Braid implements it.  *)
(***************************************************************************)
CONSTANT Cords

VARIABLES
  ready,    \* cords that may be given the processor
  running,  \* the cord that has it: a set of at most one element
  waiting,  \* cords that need a wake-up
  dead,     \* cords that will never run again
  over      \* the scheduler has given up: it only cleans up now

lifeVars == <<ready, running, waiting, dead, over>>

LifeInit ==
  /\ ready = {}
  /\ running = {}
  /\ waiting = {}
  /\ dead = {}
  /\ over = FALSE

Born(c) ==
  /\ ~over
  /\ c \notin ready \cup running \cup waiting \cup dead
  /\ ready' = ready \cup {c}
  /\ UNCHANGED <<running, waiting, dead, over>>

(* The processor goes to one of r, or the scheduler gives up.              *)
PassOn(r) ==
  /\ ~over
  /\ \/ over' = FALSE /\ \E c \in r : running' = {c} /\ ready' = r \ {c}
     \/ over' = TRUE /\ running' = {} /\ ready' = r

Yielded == PassOn(ready \cup running) /\ UNCHANGED <<waiting, dead>>
Waits   == PassOn(ready) /\ waiting' = waiting \cup running /\ UNCHANGED dead
Dies    == PassOn(ready) /\ dead' = dead \cup running /\ UNCHANGED waiting
StopsAll == PassOn({}) /\ dead' = dead \cup running \cup ready /\ UNCHANGED waiting

Wake(c) ==
  /\ ~over
  /\ c \in waiting
  /\ waiting' = waiting \ {c}
  /\ ready' = ready \cup {c}
  /\ UNCHANGED <<running, dead, over>>

(* A cord that does not run is killed. *)
Kill(c) ==
  /\ ~over
  /\ c \in ready \cup waiting
  /\ ready' = ready \ {c}
  /\ waiting' = waiting \ {c}
  /\ dead' = dead \cup {c}
  /\ UNCHANGED <<running, over>>

(* In the end no cord survives. *)
CleanUp ==
  /\ over
  /\ ready' = {}
  /\ waiting' = {}
  /\ dead' = dead \cup ready \cup waiting
  /\ UNCHANGED <<running, over>>

LifeNext ==
  \/ \E c \in Cords : Born(c) \/ Wake(c) \/ Kill(c)
  \/ Yielded \/ Waits \/ Dies \/ StopsAll
  \/ CleanUp

LifeSpec == LifeInit /\ [][LifeNext]_lifeVars
=============================================================================
