------------------------------ MODULE CordQueues ------------------------------
(***************************************************************************)
(* What braid.c expects of its three tables of cords: each is a sequence   *)
(* in the order of insertion, a cord is found and taken out wherever it    *)
(* stands, and is in at most one of them.                                  *)
(***************************************************************************)
EXTENDS SequencesExt

CONSTANT Cords

VARIABLES runable, blocked, zombies

vars == <<runable, blocked, zombies>>

Init == runable = << >> /\ blocked = << >> /\ zombies = << >>

Outside == Cords \ UNION {ToSet(runable), ToSet(blocked), ToSet(zombies)}

Enter(c) ==
  /\ c \in Outside
  /\ runable' = Append(runable, c)
  /\ UNCHANGED <<blocked, zombies>>

Pop ==
  /\ runable # << >>
  /\ runable' = Tail(runable)
  /\ UNCHANGED <<blocked, zombies>>

Block(c) ==
  /\ c \in Outside
  /\ blocked' = Append(blocked, c)
  /\ UNCHANGED <<runable, zombies>>

Exit(c) ==
  /\ c \in Outside
  /\ zombies' = Append(zombies, c)
  /\ UNCHANGED <<runable, blocked>>

\* c leaves the sequence s, which becomes r.
Leaves(c, s, r) == \E i \in DOMAIN s : s[i] = c /\ r = RemoveAt(s, i)

Unblock(c) ==
  /\ Leaves(c, blocked, blocked')
  /\ runable' = Append(runable, c)
  /\ UNCHANGED zombies

Halt(c) ==
  /\ \/ Leaves(c, runable, runable') /\ UNCHANGED blocked
     \/ Leaves(c, blocked, blocked') /\ UNCHANGED runable
  /\ zombies' = Append(zombies, c)

Reap ==
  /\ zombies' = << >>
  /\ UNCHANGED <<runable, blocked>>

Stop(c) ==
  /\ c \in Outside
  /\ runable' = << >>
  /\ zombies' = Append(zombies, c)
  /\ UNCHANGED blocked

Next ==
  \/ \E c \in Cords : Enter(c) \/ Block(c) \/ Exit(c) \/ Unblock(c) \/ Halt(c) \/ Stop(c)
  \/ Pop
  \/ Reap

Spec == Init /\ [][Next]_vars
=============================================================================
