-------------------------------- MODULE Arena --------------------------------
(***************************************************************************)
(* The arena allocator (src/src/arena.h) that holds the memory of a cord   *)
(* or of a braid.  Every block has a header with two pointers that chains  *)
(* it to the others of its arena, so that arena_destroy finds them all; a  *)
(* block that realloc moves has to be chained again at its new address.    *)
(***************************************************************************)
EXTENDS Integers, FiniteSets, Sequences

CONSTANTS
  Blocks,  \* addresses malloc can return
  NULL     \* the null pointer

ASSUME ArenaAssumption == IsFiniteSet(Blocks) /\ NULL \notin Blocks

VARIABLES
  exists,      \* the arena has not been destroyed
  head,        \* a->head
  prev, next,  \* b->prev and b->next, of free memory too
  live         \* blocks that malloc has given out and free has not got back

arenaVars == <<exists, head, prev, next, live>>

Init ==
  /\ exists = TRUE
  /\ head = NULL
  /\ prev = [b \in Blocks |-> NULL]
  /\ next = [b \in Blocks |-> NULL]
  /\ live = {}

(* The k-th block from a->head; the blocks that can be reached from it.    *)
Nth == LET f[k \in Nat] ==
             IF k <= 1 THEN head
             ELSE IF f[k - 1] = NULL THEN NULL ELSE next[f[k - 1]]
       IN f
Chain == {Nth[k] : k \in 1 .. Cardinality(Blocks)} \ {NULL}

(* arena_malloc: malloc picks any free address; the new block goes first.  *)
arena_malloc(b) ==
  /\ exists /\ b \notin live
  /\ prev' = IF head # NULL THEN [prev EXCEPT ![b] = NULL, ![head] = b]
                            ELSE [prev EXCEPT ![b] = NULL]
  /\ next' = [next EXCEPT ![b] = head]
  /\ head' = b
  /\ live' = live \cup {b}
  /\ UNCHANGED exists

(* Mutant of arena_realloc: the block behind is not told of the move.      *)
realloc_forgets_next(b, nb) ==
  /\ exists /\ b \in live /\ nb \notin live
  /\ next' = IF prev[b] # NULL THEN [next EXCEPT ![nb] = next[b], ![prev[b]] = nb]
                                ELSE [next EXCEPT ![nb] = next[b]]
  /\ head' = IF prev[b] # NULL THEN head ELSE nb
  /\ prev' = [prev EXCEPT ![nb] = prev[b]]
  /\ live' = (live \ {b}) \cup {nb}
  /\ UNCHANGED exists

(* arena_realloc of block b that realloc moves to nb, header included.     *)
arena_realloc(b, nb) ==
  /\ exists /\ b \in live /\ nb \notin live
  /\ LET p == prev[b]
         n == next[b] IN
       /\ next' = IF p # NULL THEN [next EXCEPT ![nb] = n, ![p] = nb]
                              ELSE [next EXCEPT ![nb] = n]
       /\ head' = IF p # NULL THEN head ELSE nb
       /\ prev' = IF n # NULL THEN [prev EXCEPT ![nb] = p, ![n] = nb]
                              ELSE [prev EXCEPT ![nb] = p]
  /\ live' = (live \ {b}) \cup {nb}
  /\ UNCHANGED exists

arena_free(b) ==
  /\ exists /\ b \in live
  /\ LET p == prev[b]
         n == next[b] IN
       /\ next' = IF p # NULL THEN [next EXCEPT ![p] = n] ELSE next
       /\ head' = IF p # NULL THEN head ELSE n
       /\ prev' = IF n # NULL THEN [prev EXCEPT ![n] = p] ELSE prev
  /\ live' = live \ {b}
  /\ UNCHANGED exists

(* arena_destroy frees what it can reach. *)
arena_destroy ==
  /\ exists
  /\ exists' = FALSE
  /\ live' = live \ Chain
  /\ head' = NULL
  /\ UNCHANGED <<prev, next>>

Next ==
  \/ \E b \in Blocks : arena_malloc(b) \/ arena_free(b)
  \/ \E b, nb \in Blocks : arena_realloc(b, nb)
  \/ arena_destroy
  \/ ~exists /\ UNCHANGED arenaVars

Spec == Init /\ [][Next]_arenaVars

-----------------------------------------------------------------------------
(* The chain leads to every live block and to nothing else, and ends, so   *)
(* that arena_destroy leaves nothing; and both directions agree, so that a *)
(* block in the middle can be taken out.                                   *)
ChainIntact ==
  /\ exists => /\ Chain = live
               /\ Nth[Cardinality(Blocks) + 1] = NULL
  /\ \A b \in live :
       /\ prev[b] = NULL <=> head = b
       /\ prev[b] # NULL => prev[b] \in live /\ next[prev[b]] = b
       /\ next[b] # NULL => next[b] \in live /\ prev[next[b]] = b
  /\ ~exists => live = {}
=============================================================================
