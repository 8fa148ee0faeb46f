--------------------------- MODULE ChunkAllocator ---------------------------
(* What a pool promises: it lends chunks nobody else holds, as many as      *)
(* there are, and takes them back.                                          *)
EXTENDS Naturals

CONSTANT Chunks

VARIABLES
  held,    \* the chunks that have been handed out
  refused  \* the last call found no chunk

alVars == <<held, refused>>

AlInit == held = {} /\ refused = FALSE

Lend(k) == k \notin held /\ held' = held \cup {k} /\ refused' = FALSE

Refuse == held = Chunks /\ refused' = TRUE /\ UNCHANGED held

TakeBack(k) == k \in held /\ held' = held \ {k} /\ refused' = FALSE

AlNext == Refuse \/ \E k \in Chunks : Lend(k) \/ TakeBack(k)

AlSpec == AlInit /\ [][AlNext]_alVars
=============================================================================
