------------------------------- MODULE Channel -------------------------------
(***************************************************************************)
(* The unbuffered channel of src/src/io/ch.c, used by the cords of a braid.*)
(*                                                                         *)
(* A call runs without interruption until it blocks, so one step is one    *)
(* call up to its braidblock; what chrecv does after braidblock is a step  *)
(* of its own, taken when the receiver has the processor again.  A struct  *)
(* elt is identified with the cord that allocated it: a cord has at most   *)
(* one.  The queue of elts is a sequence (module EltList has the linked    *)
(* list).  The cords call chsend, chrecv, chclose, braidyield, braidexit,  *)
(* braidstop, braidadd and cordhalt in any order, and make no call on a    *)
(* channel that has been freed; only channel calls block or unblock them.  *)
(***************************************************************************)
EXTENDS Braid

CONSTANTS
  Data,  \* what is sent
  NONE   \* nothing received yet

ASSUME ChannelAssumption == {0, 1} \subseteq Vals /\ Data # {} /\ NONE \notin Data

VARIABLES
  closed,     \* ch->closed
  chfreed,    \* chclose (or the end of the braid) has released ch
  queue,      \* the elts from ch->head to ch->tail
  elts,       \* the elts in memory: e->type and e->val
  receiving,  \* cords between the braidblock of chrecv and its return
  got         \* the last successful chrecv: which cord got what

chVars == <<closed, chfreed, queue, elts, receiving, got>>

ChInit ==
  /\ Init
  /\ closed = FALSE
  /\ chfreed = FALSE
  /\ queue = << >>
  /\ elts = << >>
  /\ receiving = {}
  /\ got = << >>

-----------------------------------------------------------------------------
(* The running cord is about to make a call, and ch is there. *)
Ready == phase = "running" /\ curr \notin receiving
Calling == Ready /\ ~chfreed

IsSend(c) == elts[c].type = "SEND"
IsRecv(c) == elts[c].type = "RECV"
WithElt(es, c, t, d) ==
  [x \in DOMAIN es \cup {c} |-> IF x = c THEN [type |-> t, val |-> d] ELSE es[x]]
Freed(es, S) == Restrict(es, DOMAIN es \ S)

(* The first k elts are receivers that cannot be unblocked any more. *)
Stale(k) == \A i \in 1 .. k : IsRecv(queue[i]) /\ queue[i] \notin blocked
Rest(k) == SubSeq(queue, k + 1, Len(queue))
Skipped(k) == ToSet(SubSeq(queue, 1, k))

(* Mutants of the hand-over: the elt is freed although its receiver has    *)
(* yet to read it; braidunblock is called with 0.                          *)
SendFreesElt(d) ==
  /\ Calling /\ ~closed
  /\ \E k \in DOMAIN queue :
       /\ Stale(k - 1) /\ IsRecv(queue[k])
       /\ Unblock(queue[k], 1)
       /\ queue' = Rest(k)
       /\ elts' = Freed(elts, Skipped(k))
  /\ UNCHANGED <<closed, chfreed, receiving, got>>

SendWakesWithZero(d) ==
  /\ Calling /\ ~closed
  /\ \E k \in DOMAIN queue :
       /\ Stale(k - 1) /\ IsRecv(queue[k])
       /\ Unblock(queue[k], 0)
       /\ queue' = Rest(k)
       /\ elts' = WithElt(Freed(elts, Skipped(k - 1)), queue[k], "RECV", d)
  /\ UNCHANGED <<closed, chfreed, receiving, got>>

(* chsend hands the value to the first receiver that still waits.          *)
SendHandsOver(d) ==
  /\ Calling /\ ~closed
  /\ \E k \in DOMAIN queue :
       /\ Stale(k - 1) /\ IsRecv(queue[k])
       /\ Unblock(queue[k], 1)
       /\ queue' = Rest(k)
       /\ elts' = WithElt(Freed(elts, Skipped(k - 1)), queue[k], "RECV", d)
  /\ UNCHANGED <<closed, chfreed, receiving, got>>

(* Mutants of the waiting sender: it does not look for a receiver; it      *)
(* queues itself at the head.                                              *)
SendNeverLooks(d) ==
  /\ Calling /\ ~closed
  /\ queue' = Append(queue, curr)
  /\ elts' = WithElt(elts, curr, "SEND", d)
  /\ Block
  /\ UNCHANGED <<closed, chfreed, receiving, got>>

SendWaitsFirst(d) ==
  /\ Calling /\ ~closed
  /\ \A c \in ToSet(queue) : IsSend(c)
  /\ queue' = <<curr>> \o queue
  /\ elts' = WithElt(elts, curr, "SEND", d)
  /\ Block
  /\ UNCHANGED <<closed, chfreed, receiving, got>>

(* chsend finds no receiver, queues itself and blocks.                     *)
SendWaits(d) ==
  /\ Calling /\ ~closed
  /\ \E k \in 0 .. Len(queue) :
       /\ Stale(k)
       /\ Rest(k) # << >> => IsSend(Head(Rest(k)))
       /\ queue' = Append(Rest(k), curr)
       /\ elts' = WithElt(Freed(elts, Skipped(k)), curr, "SEND", d)
  /\ Block
  /\ UNCHANGED <<closed, chfreed, receiving, got>>

SenderFirst == queue # << >> /\ IsSend(Head(queue))

(* chrecv takes the value of the first sender and wakes it (a sender that  *)
(* was halted is not there to be woken).                                   *)
RecvTakes ==
  /\ Calling
  /\ SenderFirst
  /\ LET s == Head(queue) IN
       /\ got' = <<curr, elts[s].val>>
       /\ queue' = Tail(queue)
       /\ elts' = Freed(elts, {s})
       /\ \/ Unblock(s, 0)
          \/ s \notin blocked /\ UNCHANGED vars
  /\ UNCHANGED <<closed, chfreed, receiving>>

(* chrecv returns at once, with *ok = 0. *)
AtEnd == closed /\ queue = << >>

(* chrecv finds no sender on an open channel, queues itself and blocks.    *)
RecvWaits ==
  /\ Calling
  /\ ~SenderFirst
  /\ ~AtEnd
  /\ queue' = Append(queue, curr)
  /\ elts' = WithElt(elts, curr, "RECV", NONE)
  /\ receiving' = receiving \cup {curr}
  /\ Block
  /\ UNCHANGED <<closed, chfreed, got>>

(* The rest of chrecv: the elt tells what was handed over, unless chclose  *)
(* did the waking.                                                         *)
RecvReturns ==
  /\ phase = "running"
  /\ curr \in receiving
  /\ got' = IF val[curr] # 0 THEN <<curr, elts[curr].val>> ELSE got
  /\ elts' = Freed(elts, {curr})
  /\ receiving' = receiving \ {curr}
  /\ UNCHANGED <<closed, chfreed, queue, vars>>

(* chclose with senders in the queue: they stay until they are received.   *)
CloseKeepsSenders ==
  /\ Calling
  /\ SenderFirst
  /\ closed' = TRUE
  /\ UNCHANGED <<chfreed, queue, elts, receiving, got, vars>>

(* Mutant: chclose frees the channel without waking the receivers. *)
CloseWakesNobody ==
  /\ Calling
  /\ ~SenderFirst
  /\ closed' = (closed \/ queue # << >>)
  /\ chfreed' = TRUE
  /\ queue' = << >>
  /\ UNCHANGED <<elts, receiving, got, vars>>

(* chclose otherwise: the receivers that still wait return empty-handed,   *)
(* and the channel is freed.                                               *)
CloseFrees ==
  /\ Calling
  /\ ~SenderFirst
  /\ runable' = runable \o Woken(queue)
  /\ blocked' = blocked \ ToSet(queue)
  /\ val' = [c \in Cords |-> IF c \in ToSet(Woken(queue)) THEN 0 ELSE val[c]]
  /\ closed' = (closed \/ queue # << >>)
  /\ chfreed' = TRUE
  /\ queue' = << >>
  /\ UNCHANGED <<elts, receiving, got>>
  /\ UNCHANGED <<phase, curr, zombies, freed, started, flags, count>>

(* The end of the braid destroys the arena that holds the channel.         *)
ChReturn ==
  /\ Return
  /\ chfreed' = TRUE
  /\ queue' = << >>
  /\ elts' = << >>
  /\ UNCHANGED <<closed, receiving, got>>

(* The other calls of a program that uses the channel. *)
ChOthers ==
  /\ \/ phase = "init" /\ (Add("normal") \/ Start)
     \/ Ready /\ (Add("normal") \/ Yield \/ Exit \/ Stop \/ \E c \in Cords : Halt(c))
     \/ Terminated
  /\ UNCHANGED chVars

ChNext ==
  \/ \E d \in Data : SendHandsOver(d) \/ SendWaits(d)
  \/ RecvTakes
  \/ RecvWaits
  \/ RecvReturns
  \/ CloseKeepsSenders
  \/ CloseFrees
  \/ ChReturn
  \/ ChOthers

ChSpec == ChInit /\ [][ChNext]_<<vars, chVars>>

(* Cords are cooperative, also in a channel call. *)
ChFairSpec ==
  /\ ChSpec
  /\ WF_<<vars, chVars>>(RecvReturns \/ ChReturn \/ (ChOthers /\ (Start \/ Release)))

-----------------------------------------------------------------------------
Dead == zombies \cup freed

(* Senders and receivers never wait together: a match is made at once.     *)
OneKindWaits == \A c, d \in ToSet(queue) : elts[c].type = elts[d].type

(* A cord that is blocked in a channel call can be found by its partner:   *)
(* its elt is in the queue of a channel that still exists; and an elt in   *)
(* the queue belongs to a cord that is blocked or was halted, never to one *)
(* that has gone on.                                                       *)
WaitersReachable ==
  /\ IsInjective(queue)
  /\ blocked = ToSet(queue) \ Dead
  /\ chfreed => queue = << >>

(* No elt is used after it has been freed: those in the queue and those of *)
(* receivers that have yet to return are allocated.  And none is forgotten *)
(* in the arena but the elt of a receiver that was halted.                 *)
EltsOwned ==
  /\ ToSet(queue) \cup (receiving \ Dead) \subseteq DOMAIN elts
  /\ DOMAIN elts \subseteq ToSet(queue) \cup receiving

-----------------------------------------------------------------------------
(* The channel seen from outside: the values that are offered, those that  *)
(* are on the way to a receiver, and whether it takes more.                *)
Offers == IF SenderFirst THEN [i \in DOMAIN queue |-> elts[queue[i]].val] ELSE << >>

OnTheWay(c) == c \in receiving \ (ToSet(queue) \cup Dead) /\ val[c] # 0
HandedOver == [c \in Cords |-> IF OnTheWay(c) THEN elts[c].val ELSE NONE]

NoMore == closed \/ chfreed

Promise == INSTANCE Rendezvous WITH
  offers <- Offers, handed <- HandedOver, shut <- NoMore

(* Whatever the cords do, and whoever is halted while it waits, values are *)
(* handed over in the order of chsend, each to one chrecv, none invented,  *)
(* none twice, and none is taken after chclose.                            *)
KeepsPromise == Promise!RvSpec

(* Once the channel is gone, every receiver that slept in it comes back.   *)
ReceiversComeBack ==
  \A c \in Cords : (chfreed /\ c \in receiving) ~> (c \notin receiving \/ c \in Dead)
=============================================================================
