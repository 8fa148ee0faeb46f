------------------------------- MODULE Waiters -------------------------------
(***************************************************************************)
(* The list of waiters of a channel (EltList) in the arena of its braid    *)
(* (Arena): an elt is a block of the arena, at an address that may have    *)
(* been used before, among blocks of the program that come, move and go.   *)
(***************************************************************************)
EXTENDS Arena

VARIABLES
  chHead, chTail,  \* ch->head, ch->tail
  eltNext          \* e->next, of free memory too

List == INSTANCE EltList
          WITH Elts <- Blocks, NIL <- NULL,
               head <- chHead, tail <- chTail, next <- eltNext

listVars == <<chHead, chTail, eltNext>>
wVars == <<arenaVars, listVars>>

\* The blocks that are elts of the list.
Listed == {List!Content[k] : k \in DOMAIN List!Content}

WInit == Init /\ List!ListInit

(* chsend or chrecv waits: a zeroed elt, at the end of the list.           *)
Wait(e) == arena_malloc(e) /\ List!elt_append(e)

(* A waiter is served: its elt leaves the list, and is freed later, by the *)
(* waiter itself if that is a receiver.                                    *)
Serve == exists /\ List!elt_pop /\ UNCHANGED arenaVars

(* braidmalloc, braidrealloc and braidfree of blocks that are not in the   *)
(* list: other data, and elts that have left it.                           *)
Others ==
  /\ \/ \E b \in Blocks : arena_malloc(b) \/ (b \notin Listed /\ arena_free(b))
     \/ \E b, nb \in Blocks : b \notin Listed /\ arena_realloc(b, nb)
  /\ UNCHANGED listVars

(* braidstart returns.  The channel is in the arena, too.                  *)
Destroy == arena_destroy /\ UNCHANGED listVars

Destroyed == ~exists /\ UNCHANGED wVars

WNext == (\E e \in Blocks : Wait(e)) \/ Serve \/ Others \/ Destroy \/ Destroyed

WSpec == WInit /\ [][WNext]_wVars

-----------------------------------------------------------------------------
(* The list of waiters is a queue, whatever else happens in the arena: no  *)
(* elt is lost or repeated when one is appended or popped, also when the   *)
(* list was empty, or when the memory has been a waiter before.            *)
WaitersQueue == List!IsAQueue
=============================================================================
