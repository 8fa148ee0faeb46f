------------------------------ MODULE CordTables ------------------------------
(***************************************************************************)
(* The tables in which braid.c keeps its cords (src/src/uthash.h as        *)
(* src/src/braid.c uses it).  A cord has one hash handle with four links:  *)
(* prev and next in the order of insertion, hh_prev and hh_next in the     *)
(* chain of a bucket.  Buckets are doubled when a chain gets long, unless  *)
(* that has not helped twice.  A table exists while it has an element.     *)
(*                                                                         *)
(* HASH_ADD and the other macros are functions of the whole memory h; the  *)
(* actions are the calls of braid.c that combine them.  The scheduler puts *)
(* a cord into a table only when it is in none (Accounted in Braid), so    *)
(* that cords outside of the tables are running, new or released.          *)
(***************************************************************************)
EXTENDS Integers, SequencesExt

CONSTANTS
  Cords,
  Hashes,      \* the values of the hash function, HASH_JEN of the id
  InitialNum,  \* HASH_INITIAL_NUM_BUCKETS (32 in the code), a power of two
  Thresh,      \* HASH_BKT_CAPACITY_THRESH (10 in the code)
  MaxNum,      \* bound on the buckets of a table
  NULL

ASSUME CordTablesAssumption ==
  /\ IsFiniteSet(Cords) /\ NULL \notin Cords
  /\ Hashes \subseteq Nat
  /\ InitialNum \in Nat \ {0} /\ Thresh \in Nat \ {0}

Tables == {"runable", "blocked", "zombies"}

VARIABLES
  hashv,  \* c->hh.hashv, a function of the id
  h       \* the tables, and the links in the handles of the cords

vars == <<hashv, h>>

NewBucket == [hh_head |-> NULL, count |-> 0, expand_mult |-> 0]
Buckets(n) == [b \in 0 .. n - 1 |-> NewBucket]

(* HASH_MAKE_TABLE for the first element c; no element, no table. *)
Table(c, n) ==
  [head |-> c, tail |-> c, num_items |-> 0, num_buckets |-> n, bkt |-> Buckets(n),
   ineff_expands |-> 0, noexpand |-> FALSE]
NoTable == Table(NULL, 0)

Init ==
  /\ hashv \in [Cords -> Hashes]
  /\ h = [table |-> [t \in Tables |-> NoTable],
          prev |-> [c \in Cords |-> NULL], next |-> [c \in Cords |-> NULL],
          hh_prev |-> [c \in Cords |-> NULL], hh_next |-> [c \in Cords |-> NULL]]

-----------------------------------------------------------------------------
(* The elements from the first one along a link; one more than there are   *)
(* cords if the links make a circle.                                       *)
Path(first, link) ==
  LET path[k \in 0 .. Cardinality(Cords) + 1] ==
        IF k = 0 THEN << >>
        ELSE LET s == path[k - 1]
                 c == IF s = << >> THEN first ELSE link[Last(s)]
             IN  IF c = NULL THEN s ELSE Append(s, c)
  IN path[Cardinality(Cords) + 1]

HASH_TO_BKT(c, n) == hashv[c] % n

(* Link c before the first element of a chain. *)
Prepend(links, c, first) ==
  [links EXCEPT
     !.hh_next[c] = first,
     !.hh_prev = IF first = NULL THEN [@ EXCEPT ![c] = NULL]
                                 ELSE [@ EXCEPT ![c] = NULL, ![first] = c]]

(* One step of the loop of HASH_EXPAND_BUCKETS: c goes to its new bucket.  *)
Redistribute(acc, c, n, ideal) ==
  LET b     == HASH_TO_BKT(c, n)
      old   == acc.bkt[b]
      cnt   == old.count + 1
      extra == IF cnt > ideal THEN 1 ELSE 0
      mult  == IF cnt > ideal /\ cnt > old.expand_mult * ideal THEN 1 ELSE 0
  IN [Prepend(acc, c, old.hh_head) EXCEPT
        !.bkt[b] = [hh_head |-> c, count |-> cnt, expand_mult |-> old.expand_mult + mult],
        !.nonideal = @ + extra]

(* All of the loop, over the elements of s.                                *)
Redistributed(start, s, n, ideal) ==
  LET acc[k \in 0 .. Len(s)] ==
        IF k = 0 THEN start ELSE Redistribute(acc[k - 1], s[k], n, ideal)
  IN acc[Len(s)]

(* The elements bucket by bucket, each chain from its first element.       *)
BucketByBucket(g, t) ==
  FlattenSeq([i \in 1 .. g.table[t].num_buckets |->
                Path(g.table[t].bkt[i - 1].hh_head, g.hh_next)])

(* Twice the buckets.  The ideal length of a chain is the number of items  *)
(* over that of buckets.                                                   *)
HASH_EXPAND_BUCKETS(g, t) ==
  LET tb    == g.table[t]
      n     == 2 * tb.num_buckets
      ideal == tb.num_items \div n + (IF tb.num_items % n # 0 THEN 1 ELSE 0)
      new   == Redistributed([hh_prev |-> g.hh_prev, hh_next |-> g.hh_next,
                              bkt |-> Buckets(n), nonideal |-> 0],
                             BucketByBucket(g, t), n, ideal)
      ineff == IF new.nonideal > tb.num_items \div 2 THEN tb.ineff_expands + 1 ELSE 0
  IN [g EXCEPT !.hh_prev = new.hh_prev,
               !.hh_next = new.hh_next,
               !.table[t] = [tb EXCEPT !.bkt = new.bkt,
                                       !.num_buckets = n,
                                       !.ineff_expands = ineff,
                                       !.noexpand = @ \/ ineff > 1]]

TooLong(tb, b) ==
  tb.bkt[b].count >= (tb.bkt[b].expand_mult + 1) * Thresh /\ ~tb.noexpand

(* HASH_ADD_TO_TABLE and HASH_ADD_TO_BKT *)
AddToTable(g, t, c) ==
  LET tb    == g.table[t]
      b     == HASH_TO_BKT(c, tb.num_buckets)
      new   == [tb.bkt[b] EXCEPT !.hh_head = c, !.count = @ + 1]
      added == [Prepend(g, c, tb.bkt[b].hh_head) EXCEPT
                  !.table[t] = [tb EXCEPT !.num_items = @ + 1, !.bkt[b] = new]]
  IN IF TooLong(added.table[t], b) THEN HASH_EXPAND_BUCKETS(added, t) ELSE added

HASH_APPEND_LIST(g, t, c) ==
  [g EXCEPT !.next = [@ EXCEPT ![c] = NULL, ![g.table[t].tail] = c],
            !.prev[c] = g.table[t].tail,
            !.table[t].tail = c]

HASH_ADD(g, t, c) ==
  AddToTable(IF g.table[t].head = NULL
               THEN [g EXCEPT !.next[c] = NULL, !.prev[c] = NULL,
                              !.table[t] = Table(c, InitialNum)]
               ELSE HASH_APPEND_LIST(g, t, c),
             t, c)

(* The neighbours of c in a doubly linked list get to know each other.     *)
Bypass(link, from, to) == IF from = NULL THEN link ELSE [link EXCEPT ![from] = to]

(* The bucket old when c, which is before n in its chain, is gone.         *)
Without(old, c, n) ==
  [old EXCEPT !.count = @ - 1, !.hh_head = IF @ = c THEN n ELSE @]

(* Mutant: HASH_DEL_IN_BKT tells only the element before c. *)
DelInBktForward(g, t, c, b) ==
  [g EXCEPT !.hh_next = Bypass(@, g.hh_prev[c], g.hh_next[c]),
            !.table[t].bkt[b] = Without(@, c, g.hh_next[c])]

HASH_DEL_IN_BKT(g, t, c, b) ==
  [g EXCEPT !.hh_next = Bypass(@, g.hh_prev[c], g.hh_next[c]),
            !.hh_prev = Bypass(@, g.hh_next[c], g.hh_prev[c]),
            !.table[t].bkt[b] = Without(@, c, g.hh_next[c])]

(* The element that is alone takes its table along.                        *)
HASH_DEL(g, t, c) ==
  LET p   == g.prev[c]
      n   == g.next[c]
      tb  == g.table[t]
      new == [tb EXCEPT !.head = IF p = NULL THEN n ELSE @,
                        !.tail = IF @ = c THEN p ELSE @,
                        !.num_items = @ - 1]
  IN IF p = NULL /\ n = NULL
       THEN [g EXCEPT !.table[t] = NoTable]
       ELSE HASH_DEL_IN_BKT(
              [g EXCEPT !.next = Bypass(@, p, n), !.prev = Bypass(@, n, p), !.table[t] = new],
              t, c, HASH_TO_BKT(c, tb.num_buckets))

HASH_FIND(t, c) ==
  /\ h.table[t].head # NULL
  /\ c \in ToSet(Path(h.table[t].bkt[HASH_TO_BKT(c, h.table[t].num_buckets)].hh_head, h.hh_next))

(* HASH_ITER with HASH_DEL. *)
InOrder(t) == Path(h.table[t].head, h.next)
DeleteAll(t) ==
  LET s == InOrder(t)
      g[k \in 0 .. Len(s)] == IF k = 0 THEN h ELSE HASH_DEL(g[k - 1], t, s[k])
  IN g[Len(s)]

-----------------------------------------------------------------------------
Outside == Cords \ UNION {ToSet(InOrder(t)) : t \in Tables}

\* A bound of the model: no table is doubled beyond it.
Bounded(g) == \A t \in Tables : g.table[t].num_buckets <= MaxNum

Becomes(g) == Bounded(g) /\ h' = g /\ UNCHANGED hashv

(* braidadd and braidyield: braidappend. *)
Enter(c) == c \in Outside /\ Becomes(HASH_ADD(h, "runable", c))

(* braidpop *)
Pop ==
  /\ h.table["runable"].head # NULL
  /\ Becomes(HASH_DEL(h, "runable", h.table["runable"].head))

(* braidblock *)
Block(c) == c \in Outside /\ Becomes(HASH_ADD(h, "blocked", c))

(* braidexit *)
Exit(c) == c \in Outside /\ Becomes(HASH_ADD(h, "zombies", c))

(* Mutant: the cord joins the run queue before it leaves its table. *)
AddThenDelete(from, to, c) == HASH_DEL(HASH_ADD(h, to, c), from, c)

Moved(from, to, c) == HASH_ADD(HASH_DEL(h, from, c), to, c)

(* braidunblock *)
Unblock(c) == HASH_FIND("blocked", c) /\ Becomes(Moved("blocked", "runable", c))

(* cordhalt *)
Halt(c) ==
  \/ HASH_FIND("runable", c) /\ Becomes(Moved("runable", "zombies", c))
  \/ /\ ~HASH_FIND("runable", c)
     /\ HASH_FIND("blocked", c)
     /\ Becomes(Moved("blocked", "zombies", c))

(* braidstop *)
Stop(c) == c \in Outside /\ Becomes(HASH_ADD(DeleteAll("runable"), "zombies", c))

(* schedule(), when it comes back. *)
Reap == Becomes(DeleteAll("zombies"))

Next ==
  \/ \E c \in Cords : Enter(c) \/ Block(c) \/ Exit(c) \/ Unblock(c) \/ Halt(c) \/ Stop(c)
  \/ Pop
  \/ Reap

Spec == Init /\ [][Next]_vars

-----------------------------------------------------------------------------
(* Whatever order cords come and go in, and whenever the buckets double:   *)
(* both directions of both lists agree, the counts and the tail are right, *)
(* and a cord is found in a table exactly when it is in its list.          *)
TablesAgree ==
  \A t \in Tables :
    LET tb == h.table[t]
        in == InOrder(t) IN
      tb.head # NULL =>
        /\ tb.num_items = Len(in)
        /\ tb.tail = Last(in)
        /\ \A i \in DOMAIN in : h.prev[in[i]] = IF i = 1 THEN NULL ELSE in[i - 1]
        /\ \A c \in Cords : HASH_FIND(t, c) <=> c \in ToSet(in)
        /\ \A b \in DOMAIN tb.bkt :
             LET chain == Path(tb.bkt[b].hh_head, h.hh_next) IN
               /\ ToSet(chain) \subseteq ToSet(in)
               /\ tb.bkt[b].count = Len(chain)
               /\ \A i \in DOMAIN chain :
                    h.hh_prev[chain[i]] = IF i = 1 THEN NULL ELSE chain[i - 1]

(* The tables are the sequences that braid.c, and module Braid, take them  *)
(* for.                                                                    *)
Queues == INSTANCE CordQueues
            WITH runable <- InOrder("runable"), blocked <- InOrder("blocked"),
                 zombies <- InOrder("zombies")
ImplementsQueues == Queues!Spec
=============================================================================
