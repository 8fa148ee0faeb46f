------------------------------ MODULE Rendezvous ------------------------------
(***************************************************************************)
(* What a channel promises: values leave in the order in which they were   *)
(* offered, each to one receiver, and none is offered once it is closed.   *)
(* Module Channel implements it.                                           *)
(***************************************************************************)
EXTENDS Sequences

CONSTANTS Cords, Data, NONE

VARIABLES
  offers,  \* the values that senders wait to hand over
  handed,  \* the value handed to a receiver that has not returned yet
  got,     \* the last successful receive: which cord got what
  shut     \* the channel takes no more values

rvVars == <<offers, handed, got, shut>>

RvInit ==
  /\ offers = << >>
  /\ handed = [c \in Cords |-> NONE]
  /\ got = << >>
  /\ shut = FALSE

Offer(d) ==
  /\ ~shut
  /\ offers' = Append(offers, d)
  /\ UNCHANGED <<handed, got, shut>>

(* A receiver waits: it gets the value before anybody else can offer one.  *)
HandOver(c, d) ==
  /\ ~shut
  /\ offers = << >>
  /\ handed[c] = NONE
  /\ handed' = [handed EXCEPT ![c] = d]
  /\ UNCHANGED <<offers, got, shut>>

Take(c) ==
  /\ offers # << >>
  /\ got' = <<c, Head(offers)>>
  /\ offers' = Tail(offers)
  /\ UNCHANGED <<handed, shut>>

Collect(c) ==
  /\ handed[c] # NONE
  /\ got' = <<c, handed[c]>>
  /\ handed' = [handed EXCEPT ![c] = NONE]
  /\ UNCHANGED <<offers, shut>>

(* A value that was handed to a cord is lost if the cord is halted before  *)
(* it runs; so are the offers when the braid ends.                         *)
Lose(S) ==
  /\ handed' = [c \in Cords |-> IF c \in S THEN NONE ELSE handed[c]]
  /\ UNCHANGED <<offers, got, shut>>

End == offers' = << >> /\ shut' = TRUE /\ UNCHANGED got /\ handed' \in [Cords -> {NONE}]

Shut == shut' = TRUE /\ UNCHANGED <<offers, handed, got>>

RvNext ==
  \/ \E d \in Data : Offer(d)
  \/ \E c \in Cords, d \in Data : HandOver(c, d)
  \/ \E c \in Cords : Take(c) \/ Collect(c)
  \/ \E S \in SUBSET Cords : Lose(S)
  \/ Shut
  \/ End

RvSpec == RvInit /\ [][RvNext]_rvVars
=============================================================================
