-------------------------------- MODULE Pool --------------------------------
(***************************************************************************)
(* The pool of executable chunks that holds the code of the cords' lambdas *)
(* (src/src/pool.h).  Chunks are numbered from the start of p->data; those *)
(* from the wilderness on have never been used or have been given back in  *)
(* order, the free ones below it form a list that is threaded through the  *)
(* chunks themselves, and the holder of a chunk may write anything into it.*)
(*                                                                         *)
(* `order' is a ghost: the free list as a sequence, from the head.         *)
(***************************************************************************)
EXTENDS Integers, Sequences

CONSTANTS
  Cap,          \* how many chunks fit between p->data and p + p->len
  NIL,         \* the null pointer
  UseMprotect   \* POOL_USE_MPROTECT: the pages are kept unwritable between calls

ASSUME PoolAssumption == Cap \in Nat /\ NIL \notin Nat /\ UseMprotect \in BOOLEAN

Chunks == 0 .. Cap - 1

VARIABLES
  wilderness,  \* p->wilderness
  free,        \* p->free
  link,        \* the first word of each chunk
  held,        \* the chunks that callers hold
  refused,     \* the last call was a pool_alloc that returned 0
  order,       \* ghost: the free list
  prot         \* protection of the page of the header: "writable" or "restored"

poolVars == <<wilderness, free, link, held, refused, order, prot>>

PoolInit ==
  /\ wilderness = 0
  /\ free = NIL
  /\ link = [k \in Chunks |-> NIL]
  /\ held = {}
  /\ refused = FALSE
  /\ order = << >>
  /\ prot = "writable"

(* What the header's protection is after a call that ends with a restoring *)
(* mprotect, and after one that returns before it.                         *)
Restored == IF UseMprotect THEN "restored" ELSE "writable"
Unrestored == "writable"

AllocFree ==
  /\ free # NIL
  /\ held' = held \cup {free}
  /\ free' = link[free]
  /\ refused' = FALSE
  /\ order' = Tail(order)
  /\ prot' = Unrestored
  /\ UNCHANGED <<wilderness, link>>

AllocWilderness ==
  /\ free = NIL
  /\ wilderness + 1 <= Cap
  /\ held' = held \cup {wilderness}
  /\ wilderness' = wilderness + 1
  /\ refused' = FALSE
  /\ prot' = Restored
  /\ UNCHANGED <<free, link, order>>

(* Mutant: the last chunk is never lent. *)
AllocFailsEarly ==
  /\ free = NIL
  /\ wilderness + 2 > Cap
  /\ refused' = TRUE
  /\ prot' = Unrestored
  /\ UNCHANGED <<wilderness, free, link, held, order>>

AllocFails ==
  /\ free = NIL
  /\ wilderness + 1 > Cap
  /\ refused' = TRUE
  /\ prot' = Unrestored
  /\ UNCHANGED <<wilderness, free, link, held, order>>

(* Mutant: pool_free lowers the wilderness for any chunk. *)
FreeAsLast(k) ==
  /\ k \in held
  /\ wilderness' = wilderness - 1
  /\ held' = held \ {k}
  /\ refused' = FALSE
  /\ prot' = Restored
  /\ UNCHANGED <<free, link, order>>

(* pool_free of the last chunk below the wilderness. *)
FreeLast(k) ==
  /\ k \in held
  /\ k + 1 = wilderness
  /\ wilderness' = wilderness - 1
  /\ held' = held \ {k}
  /\ refused' = FALSE
  /\ prot' = Restored
  /\ UNCHANGED <<free, link, order>>

(* Mutant: pool_free does not link the chunk to the rest of the list. *)
FreeUnlinked(k) ==
  /\ k \in held
  /\ k + 1 # wilderness
  /\ free' = k
  /\ held' = held \ {k}
  /\ refused' = FALSE
  /\ order' = <<k>> \o order
  /\ prot' = Restored
  /\ UNCHANGED <<wilderness, link>>

FreeOther(k) ==
  /\ k \in held
  /\ k + 1 # wilderness
  /\ link' = [link EXCEPT ![k] = free]
  /\ free' = k
  /\ held' = held \ {k}
  /\ refused' = FALSE
  /\ order' = <<k>> \o order
  /\ prot' = Restored
  /\ UNCHANGED wilderness

(* The holder of a chunk writes code into it. *)
Scribble(k, w) ==
  /\ k \in held
  /\ link' = [link EXCEPT ![k] = w]
  /\ UNCHANGED <<wilderness, free, held, refused, order, prot>>

PoolNext ==
  \/ AllocFree \/ AllocWilderness \/ AllocFails
  \/ \E k \in Chunks : FreeLast(k) \/ FreeOther(k)
  \/ \E k \in Chunks, w \in Chunks \cup {NIL} : Scribble(k, w)

PoolSpec == PoolInit /\ [][PoolNext]_poolVars

-----------------------------------------------------------------------------
PoolTypeOK ==
  /\ wilderness \in 0 .. Cap
  /\ free \in Chunks \cup {NIL}
  /\ link \in [Chunks -> Chunks \cup {NIL}]
  /\ held \subseteq Chunks
  /\ refused \in BOOLEAN
  /\ order \in Seq(Chunks)
  /\ prot \in {"writable", "restored"}

FreeList == {order[i] : i \in DOMAIN order}

(* Below the wilderness every chunk is either held or in the free list,    *)
(* once; above it none is: no chunk is lent twice, none is lost, also when *)
(* the wilderness shrinks below chunks that were freed before.             *)
ChunksAccounted ==
  /\ held \cup FreeList = 0 .. wilderness - 1
  /\ held \cap FreeList = {}
  /\ \A i, j \in DOMAIN order : order[i] = order[j] => i = j

(* The links in memory are the free list, whatever the holders write.      *)
LinksIntact ==
  /\ free = IF order = << >> THEN NIL ELSE Head(order)
  /\ \A i \in DOMAIN order :
       link[order[i]] = IF i = Len(order) THEN NIL ELSE order[i + 1]

Allocator == INSTANCE ChunkAllocator

(* The pool is an allocator: it refuses only when every chunk is held.     *)
IsAllocator == Allocator!AlSpec

=============================================================================
