------------------------------- MODULE EltList -------------------------------
(***************************************************************************)
(* The linked list of waiters of a channel (struct elt, elt_pop and        *)
(* elt_append in src/src/io/ch.c).  It is a queue: module Channel uses a   *)
(* sequence in its place.                                                  *)
(***************************************************************************)
EXTENDS Integers, FiniteSets, Sequences

CONSTANTS
  Elts,  \* addresses the allocator can return for an elt
  NIL    \* the null pointer, not one of them

VARIABLES
  head, tail,  \* ch->head, ch->tail
  next         \* e->next, of free memory too

listVars == <<head, tail, next>>

(* The k-th elt that is reached from ch->head, NIL behind the end. *)
Nth == LET f[k \in Nat] ==
             IF k <= 1 THEN head
             ELSE IF f[k - 1] = NIL THEN NIL ELSE next[f[k - 1]]
       IN f

(* The elts reached from ch->head, as many as there can be. *)
Content ==
  [k \in 1 .. Cardinality({j \in 1 .. Cardinality(Elts) : Nth[j] # NIL}) |-> Nth[k]]

ListInit ==
  /\ head = NIL
  /\ tail = NIL
  /\ next = [e \in Elts |-> NIL]

(* Mutant: the elt comes from braidmalloc, its next is not zeroed. *)
elt_append_unzeroed(e) ==
  /\ IF tail # NIL
     THEN next' = [next EXCEPT ![tail] = e] /\ UNCHANGED head
     ELSE head' = e /\ UNCHANGED next
  /\ tail' = e

(* An elt from braidzalloc is appended. *)
elt_append(e) ==
  /\ IF tail # NIL
     THEN next' = [next EXCEPT ![e] = NIL, ![tail] = e] /\ UNCHANGED head
     ELSE next' = [next EXCEPT ![e] = NIL] /\ head' = e
  /\ tail' = e

(* The first elt is removed, and freed by the caller. *)
elt_pop ==
  /\ head # NIL
  /\ head' = next[head]
  /\ tail' = IF next[head] = NIL THEN NIL ELSE tail
  /\ UNCHANGED next

-----------------------------------------------------------------------------
(* The list is a queue: no elt is lost or repeated when one is popped or   *)
(* appended, also when the list was empty or when memory is used again.    *)
IsAQueue ==
  [][\/ elt_pop /\ Content' = Tail(Content)
     \/ \E e \in Elts : elt_append(e) /\ Content' = Append(Content, e)]_listVars
=============================================================================
