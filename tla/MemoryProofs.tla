----------------------------- MODULE MemoryProofs -----------------------------
(***************************************************************************)
(* Proofs about the allocators.  The chunk pool, for every capacity: no    *)
(* chunk is lent twice or lost, the free list survives what the holders    *)
(* write into their chunks, and the pool implements ChunkAllocator.  The   *)
(* arena, for any number of addresses: its chain of blocks stays intact,   *)
(* and the list of waiters in its blocks is a queue.                       *)
(***************************************************************************)
EXTENDS Pool, Waiters, SequenceTheorems, FiniteSetTheorems, WellFoundedInduction, TLAPS

-----------------------------------------------------------------------------
(* THE CHUNK POOL *)

(* The accounts hold because the links are the free list, and the links    *)
(* survive because the accounts hold.                                      *)
PoolInv == PoolTypeOK /\ ChunksAccounted /\ LinksIntact

-----------------------------------------------------------------------------
(* An empty free list is a null pointer, and p->free is the first chunk of *)
(* a free list that is not empty.                                          *)
LEMMA FreeIsHead ==
  ASSUME PoolInv
  PROVE  /\ free = NIL <=> order = << >>
         /\ free # NIL => /\ Len(order) \in Nat \ {0}
                           /\ free = order[1]
                           /\ free \in Chunks
                           /\ free \in FreeList
                           /\ free \notin held
<1>1. order \in Seq(Chunks) /\ NIL \notin Chunks
  BY PoolAssumption DEF PoolInv, PoolTypeOK, Chunks
<1>2. CASE order = << >>
  BY <1>2 DEF PoolInv, LinksIntact
<1>3. CASE order # << >>
  <2>1. Len(order) \in Nat \ {0} /\ Head(order) = order[1] /\ order[1] \in Chunks
    BY <1>1, <1>3
  <2>2. free = order[1]
    BY <1>3, <2>1 DEF PoolInv, LinksIntact
  <2>3. order[1] \in FreeList
    BY <1>1, <2>1 DEF FreeList
  <2> QED BY <1>1, <1>3, <2>1, <2>2, <2>3 DEF PoolInv, ChunksAccounted
<1> QED BY <1>2, <1>3

LEMMA InitHasInv == PoolInit => PoolInv
<1> SUFFICES ASSUME PoolInit PROVE PoolInv
  OBVIOUS
<1>1. PoolTypeOK
  <2>1. 0 \in 0 .. Cap
    BY PoolAssumption
  <2>2. << >> \in Seq(Chunks)
    OBVIOUS
  <2> QED BY <2>1, <2>2 DEF PoolInit, PoolTypeOK
<1>2. FreeList = {}
  BY DEF PoolInit, FreeList
<1>3. ChunksAccounted
  BY <1>2 DEF PoolInit, ChunksAccounted
<1>4. LinksIntact
  BY DEF PoolInit, LinksIntact
<1> QED BY <1>1, <1>3, <1>4 DEF PoolInv

(* A chunk leaves the free list: what it linked to is the new head.        *)
LEMMA AllocFreeKeepsInv ==
  ASSUME PoolInv, AllocFree
  PROVE  PoolInv'
<1> DEFINE n == Len(order)
<1>1. /\ free # NIL
      /\ held' = held \cup {free}
      /\ free' = link[free]
      /\ order' = Tail(order)
      /\ refused' = FALSE
      /\ prot' = Unrestored
      /\ UNCHANGED <<wilderness, link>>
  BY DEF AllocFree
<1>2. /\ order \in Seq(Chunks) /\ n \in Nat \ {0}
      /\ free = order[1] /\ free \in Chunks /\ free \notin held
  BY <1>1, FreeIsHead DEF PoolInv, PoolTypeOK
<1>3. /\ order' \in Seq(Chunks)
      /\ Len(order') = n - 1
      /\ DOMAIN order' = 1 .. n - 1
      /\ \A i \in 1 .. n - 1 : order'[i] = order[i + 1]
  BY <1>1, <1>2, HeadTailProperties
<1>4. \A i \in 1 .. n : order[i] \in Chunks
  BY <1>2
<1>5. \A i, j \in 1 .. n : order[i] = order[j] => i = j
  BY <1>2 DEF PoolInv, ChunksAccounted
<1>6. \A i \in 1 .. n : link[order[i]] = IF i = n THEN NIL ELSE order[i + 1]
  BY <1>2 DEF PoolInv, LinksIntact
<1>7. FreeList' = FreeList \ {free}
  <2>1. FreeList = {order[i] : i \in 1 .. n} /\ FreeList' = {order'[i] : i \in 1 .. n - 1}
    BY <1>2, <1>3 DEF FreeList
  <2>2. ASSUME NEW i \in 1 .. n - 1
        PROVE  order'[i] \in FreeList \ {free}
    <3>1. i + 1 \in 1 .. n /\ i + 1 # 1
      BY <1>2
    <3> QED BY <1>2, <1>3, <1>5, <2>1, <3>1
  <2>3. ASSUME NEW i \in 1 .. n, order[i] # free
        PROVE  order[i] \in FreeList'
    <3>1. i - 1 \in 1 .. n - 1 /\ (i - 1) + 1 = i
      BY <1>2, <2>3
    <3>2. order'[i - 1] = order[i]
      BY <1>3, <3>1
    <3> QED BY <2>1, <3>1, <3>2
  <2> QED BY <2>1, <2>2, <2>3
<1>8. PoolTypeOK'
  BY <1>1, <1>2, <1>3 DEF PoolInv, PoolTypeOK, Unrestored
<1>9. ChunksAccounted'
  <2>1. held' \cup FreeList' = 0 .. wilderness' - 1 /\ held' \cap FreeList' = {}
    BY <1>1, <1>2, <1>7, FreeIsHead DEF PoolInv, ChunksAccounted
  <2>2. \A i, j \in DOMAIN order' : order'[i] = order'[j] => i = j
    BY <1>2, <1>3, <1>5
  <2> QED BY <2>1, <2>2 DEF ChunksAccounted
<1>10. LinksIntact'
  <2>1. free' = IF order' = << >> THEN NIL ELSE Head(order')
    <3>1. CASE n = 1
      BY <1>1, <1>2, <1>3, <1>6, <3>1
    <3>2. CASE n # 1
      <4>1. 1 \in 1 .. n - 1 /\ order' # << >> /\ Head(order') = order'[1]
        BY <1>2, <1>3, <3>2
      <4>2. order'[1] = order[2] /\ link[order[1]] = order[2]
        BY <1>2, <1>3, <1>6, <3>2, <4>1
      <4> QED BY <1>1, <1>2, <4>1, <4>2
    <3> QED BY <3>1, <3>2
  <2>2. ASSUME NEW i \in DOMAIN order'
        PROVE  link'[order'[i]] = IF i = Len(order') THEN NIL ELSE order'[i + 1]
    <3>1. i \in 1 .. n - 1 /\ i + 1 \in 1 .. n /\ order'[i] = order[i + 1]
      BY <1>2, <1>3
    <3>2. link[order[i + 1]] = IF i + 1 = n THEN NIL ELSE order[(i + 1) + 1]
      BY <1>6, <3>1
    <3>3. CASE i = n - 1
      BY <1>1, <1>2, <1>3, <3>1, <3>2, <3>3
    <3>4. CASE i # n - 1
      <4>1. i + 1 \in 1 .. n - 1 /\ i + 1 # n
        BY <1>2, <3>1, <3>4
      <4>2. order'[i + 1] = order[(i + 1) + 1]
        BY <1>3, <4>1
      <4> QED BY <1>1, <1>3, <3>1, <3>2, <3>4, <4>1, <4>2
    <3> QED BY <3>3, <3>4
  <2> QED BY <2>1, <2>2 DEF LinksIntact
<1> QED BY <1>8, <1>9, <1>10 DEF PoolInv

LEMMA AllocWildernessKeepsInv ==
  ASSUME PoolInv, AllocWilderness
  PROVE  PoolInv'
<1>1. /\ free = NIL
      /\ wilderness + 1 <= Cap
      /\ held' = held \cup {wilderness}
      /\ wilderness' = wilderness + 1
      /\ refused' = FALSE
      /\ prot' = Restored
      /\ UNCHANGED <<free, link, order>>
  BY DEF AllocWilderness
<1>2. order = << >> /\ FreeList = {} /\ FreeList' = {}
  BY <1>1, FreeIsHead DEF FreeList
<1>3. wilderness \in 0 .. Cap /\ Cap \in Nat
  BY PoolAssumption DEF PoolInv, PoolTypeOK
<1>4. PoolTypeOK'
  <2>1. wilderness' \in 0 .. Cap /\ wilderness \in Chunks
    BY <1>1, <1>3 DEF Chunks
  <2>2. prot' \in {"writable", "restored"}
    BY <1>1 DEF Restored
  <2> QED BY <1>1, <2>1, <2>2 DEF PoolInv, PoolTypeOK
<1>5. held' = 0 .. wilderness' - 1
  BY <1>1, <1>2, <1>3 DEF PoolInv, ChunksAccounted
<1>6. ChunksAccounted'
  BY <1>1, <1>2, <1>5 DEF PoolInv, ChunksAccounted
<1>7. LinksIntact'
  BY <1>1 DEF PoolInv, LinksIntact
<1> QED BY <1>4, <1>6, <1>7 DEF PoolInv

LEMMA FreeLastKeepsInv ==
  ASSUME PoolInv, NEW k \in Chunks, FreeLast(k)
  PROVE  PoolInv'
<1>1. /\ k \in held
      /\ k + 1 = wilderness
      /\ wilderness' = wilderness - 1
      /\ held' = held \ {k}
      /\ refused' = FALSE
      /\ prot' = Restored
      /\ UNCHANGED <<free, link, order>>
  BY DEF FreeLast
<1>2. wilderness \in 0 .. Cap /\ Cap \in Nat /\ k \in Nat
  BY PoolAssumption DEF PoolInv, PoolTypeOK, Chunks
<1>3. FreeList' = FreeList /\ k \notin FreeList
  BY <1>1 DEF FreeList, PoolInv, ChunksAccounted
<1>4. PoolTypeOK'
  <2>1. wilderness' \in 0 .. Cap
    BY <1>1, <1>2
  <2>2. prot' \in {"writable", "restored"}
    BY <1>1 DEF Restored
  <2> QED BY <1>1, <2>1, <2>2 DEF PoolInv, PoolTypeOK
<1>5. 0 .. wilderness' - 1 = (0 .. wilderness - 1) \ {k}
  BY <1>1, <1>2
<1>6. ChunksAccounted'
  BY <1>1, <1>3, <1>5 DEF PoolInv, ChunksAccounted
<1>7. LinksIntact'
  BY <1>1 DEF PoolInv, LinksIntact
<1> QED BY <1>4, <1>6, <1>7 DEF PoolInv

(* A chunk becomes the head of the free list and links to the old head.    *)
LEMMA FreeOtherKeepsInv ==
  ASSUME PoolInv, NEW k \in Chunks, FreeOther(k)
  PROVE  PoolInv'
<1> DEFINE n == Len(order)
<1>1. /\ k \in held
      /\ link' = [link EXCEPT ![k] = free]
      /\ free' = k
      /\ held' = held \ {k}
      /\ order' = <<k>> \o order
      /\ refused' = FALSE
      /\ prot' = Restored
      /\ UNCHANGED wilderness
  BY DEF FreeOther
<1>2. /\ order \in Seq(Chunks) /\ n \in Nat
      /\ link \in [Chunks -> Chunks \cup {NIL}]
      /\ free \in Chunks \cup {NIL}
  BY DEF PoolInv, PoolTypeOK
<1>3. /\ order' \in Seq(Chunks)
      /\ Len(order') = n + 1
      /\ DOMAIN order' = 1 .. n + 1
      /\ order'[1] = k
      /\ \A i \in 2 .. n + 1 : order'[i] = order[i - 1]
  BY <1>1, <1>2
<1>4. k \notin FreeList /\ \A i \in 1 .. n : order[i] # k
  BY <1>1, <1>2 DEF PoolInv, ChunksAccounted, FreeList
<1>5. \A i, j \in 1 .. n : order[i] = order[j] => i = j
  BY <1>2 DEF PoolInv, ChunksAccounted
<1>6. \A i \in 1 .. n : order[i] \in Chunks
                        /\ link[order[i]] = IF i = n THEN NIL ELSE order[i + 1]
  BY <1>2 DEF PoolInv, LinksIntact
<1>7. FreeList' = FreeList \cup {k}
  <2>1. FreeList = {order[i] : i \in 1 .. n} /\ FreeList' = {order'[i] : i \in 1 .. n + 1}
    BY <1>2, <1>3 DEF FreeList
  <2>2. ASSUME NEW i \in 1 .. n + 1
        PROVE  order'[i] \in FreeList \cup {k}
    <3>1. CASE i = 1
      BY <1>3, <3>1
    <3>2. CASE i # 1
      <4>1. i \in 2 .. n + 1 /\ i - 1 \in 1 .. n
        BY <1>2, <3>2
      <4> QED BY <1>3, <2>1, <4>1
    <3> QED BY <3>1, <3>2
  <2>3. ASSUME NEW i \in 1 .. n
        PROVE  order[i] \in FreeList'
    <3>1. i + 1 \in 2 .. n + 1 /\ (i + 1) - 1 = i
      BY <1>2
    <3>2. order'[i + 1] = order[i]
      BY <1>3, <3>1
    <3> QED BY <1>2, <2>1, <3>1, <3>2
  <2>4. k \in FreeList'
    BY <1>2, <1>3, <2>1
  <2> QED BY <2>1, <2>2, <2>3, <2>4
<1>8. PoolTypeOK'
  BY <1>1, <1>2, <1>3 DEF PoolInv, PoolTypeOK, Restored
<1>9. ChunksAccounted'
  <2>1. held' \cup FreeList' = 0 .. wilderness' - 1 /\ held' \cap FreeList' = {}
    BY <1>1, <1>4, <1>7 DEF PoolInv, ChunksAccounted
  <2>2. ASSUME NEW i \in 1 .. n + 1, NEW j \in 1 .. n + 1, order'[i] = order'[j]
        PROVE  i = j
    <3>1. \A m \in 1 .. n + 1 : m # 1 => /\ m \in 2 .. n + 1
                                         /\ m - 1 \in 1 .. n
                                         /\ order'[m] = order[m - 1]
                                         /\ order'[m] # k
      BY <1>2, <1>3, <1>4
    <3>2. CASE i = 1 \/ j = 1
      BY <1>3, <2>2, <3>1, <3>2
    <3>3. CASE i # 1 /\ j # 1
      <4>1. order[i - 1] = order[j - 1] /\ i - 1 \in 1 .. n /\ j - 1 \in 1 .. n
        BY <2>2, <3>1, <3>3
      <4>2. i - 1 = j - 1
        BY <1>5, <4>1
      <4> QED BY <1>2, <4>2
    <3> QED BY <3>2, <3>3
  <2> QED BY <1>3, <2>1, <2>2 DEF ChunksAccounted
<1>10. LinksIntact'
  <2>1. order' # << >> /\ Head(order') = k
    BY <1>2, <1>3
  <2>2. ASSUME NEW i \in 1 .. n + 1
        PROVE  link'[order'[i]] = IF i = n + 1 THEN NIL ELSE order'[i + 1]
    <3>1. CASE i = 1
      <4>1. link'[order'[1]] = free
        BY <1>1, <1>2, <1>3
      <4>2. CASE n = 0
        <5>1. order = << >>
          BY <1>2, <4>2
        <5>2. free = NIL
          BY <5>1, FreeIsHead
        <5> QED BY <3>1, <4>1, <4>2, <5>2
      <4>3. CASE n # 0
        <5>1. free = order[1]
          BY <1>2, <4>3, FreeIsHead
        <5>2. order'[2] = order[1]
          BY <1>2, <1>3, <4>3
        <5> QED BY <1>2, <3>1, <4>1, <4>3, <5>1, <5>2
      <4> QED BY <4>2, <4>3
    <3>2. CASE i # 1
      <4>1. i \in 2 .. n + 1 /\ i - 1 \in 1 .. n /\ order'[i] = order[i - 1]
        BY <1>2, <1>3, <3>2
      <4>2. order[i - 1] # k /\ order[i - 1] \in Chunks
        BY <1>4, <1>6, <4>1
      <4>3. link'[order[i - 1]] = link[order[i - 1]]
        BY <1>1, <1>2, <4>2
      <4>4. link[order[i - 1]] = IF i - 1 = n THEN NIL ELSE order[(i - 1) + 1]
        BY <1>6, <4>1
      <4>5. CASE i = n + 1
        BY <1>2, <4>1, <4>3, <4>4, <4>5
      <4>6. CASE i # n + 1
        <5>1. i + 1 \in 2 .. n + 1 /\ (i + 1) - 1 = i /\ (i - 1) + 1 = i /\ i - 1 # n
          BY <1>2, <4>1, <4>6
        <5>2. order'[i + 1] = order[i]
          BY <1>3, <5>1
        <5> QED BY <4>1, <4>3, <4>4, <4>6, <5>1, <5>2
      <4> QED BY <4>5, <4>6
    <3> QED BY <3>1, <3>2
  <2> QED BY <1>1, <1>3, <2>1, <2>2 DEF LinksIntact
<1> QED BY <1>8, <1>9, <1>10 DEF PoolInv

(* What a holder writes into its chunk is in no chunk of the free list.    *)
LEMMA ScribbleKeepsInv ==
  ASSUME PoolInv, NEW k \in Chunks, NEW w \in Chunks \cup {NIL}, Scribble(k, w)
  PROVE  PoolInv'
<1>1. /\ k \in held
      /\ link' = [link EXCEPT ![k] = w]
      /\ UNCHANGED <<wilderness, free, held, refused, order, prot>>
  BY DEF Scribble
<1>2. /\ link \in [Chunks -> Chunks \cup {NIL}]
      /\ order \in Seq(Chunks)
  BY DEF PoolInv, PoolTypeOK
<1>3. FreeList' = FreeList
  BY <1>1 DEF FreeList
<1>4. PoolTypeOK'
  BY <1>1, <1>2 DEF PoolInv, PoolTypeOK
<1>5. ChunksAccounted'
  BY <1>1, <1>3 DEF PoolInv, ChunksAccounted
<1>6. \A i \in DOMAIN order : order[i] # k /\ order[i] \in Chunks
  BY <1>1, <1>2 DEF PoolInv, ChunksAccounted, FreeList
<1>7. \A i \in DOMAIN order : link'[order[i]] = link[order[i]]
  BY <1>1, <1>2, <1>6
<1>8. LinksIntact'
  BY <1>1, <1>7 DEF PoolInv, LinksIntact
<1> QED BY <1>4, <1>5, <1>8 DEF PoolInv

(* A step that touches none of the pool's lists keeps the invariant.       *)
LEMMA OthersKeepInv ==
  ASSUME PoolInv, AllocFails \/ UNCHANGED poolVars
  PROVE  PoolInv'
<1>1. /\ UNCHANGED <<wilderness, free, link, held, order>>
      /\ refused' \in BOOLEAN
      /\ prot' \in {"writable", "restored"}
  BY DEF PoolInv, PoolTypeOK, AllocFails, Unrestored, poolVars
<1>2. FreeList' = FreeList
  BY <1>1 DEF FreeList
<1>3. PoolTypeOK'
  BY <1>1 DEF PoolInv, PoolTypeOK
<1>4. ChunksAccounted'
  BY <1>1, <1>2 DEF PoolInv, ChunksAccounted
<1>5. LinksIntact'
  BY <1>1 DEF PoolInv, LinksIntact
<1> QED BY <1>3, <1>4, <1>5 DEF PoolInv

-----------------------------------------------------------------------------
(* The invariant of the pool: its parts hold always, and only together.    *)
THEOREM PoolInvariant == PoolSpec => []PoolInv
<1>1. PoolInv /\ [PoolNext]_poolVars => PoolInv'
  <2> SUFFICES ASSUME PoolInv, [PoolNext]_poolVars PROVE PoolInv'
    OBVIOUS
  <2>1. CASE AllocFree
    BY <2>1, AllocFreeKeepsInv
  <2>2. CASE AllocWilderness
    BY <2>2, AllocWildernessKeepsInv
  <2>3. CASE AllocFails \/ UNCHANGED poolVars
    BY <2>3, OthersKeepInv
  <2>4. CASE \E k \in Chunks : FreeLast(k) \/ FreeOther(k)
    BY <2>4, FreeLastKeepsInv, FreeOtherKeepsInv
  <2>5. CASE \E k \in Chunks, w \in Chunks \cup {NIL} : Scribble(k, w)
    BY <2>5, ScribbleKeepsInv
  <2> QED BY <2>1, <2>2, <2>3, <2>4, <2>5 DEF PoolNext
<1> QED BY InitHasInv, <1>1, PTL DEF PoolSpec

(* The pointers of the pool point to chunks, whatever the capacity.        *)
THEOREM PoolTypeCorrect == PoolSpec => []PoolTypeOK
BY PoolInvariant, PTL DEF PoolInv

(* pool_alloc and pool_free lend no chunk twice and lose none.             *)
THEOREM ChunksAlwaysAccounted == PoolSpec => []ChunksAccounted
BY PoolInvariant, PTL DEF PoolInv

(* The holders of chunks cannot corrupt the free list.                     *)
THEOREM LinksStayIntact == PoolSpec => []LinksIntact
BY PoolInvariant, PTL DEF PoolInv

(* A pool that refuses has lent all its chunks; every step lends, refuses, *)
(* takes back, or is none of ChunkAllocator's business.                    *)
THEOREM PoolIsAllocator == PoolSpec => IsAllocator
<1>1. PoolInit => Allocator!AlInit
  BY DEF PoolInit, Allocator!AlInit
<1>2. PoolInv /\ [PoolNext]_poolVars => [Allocator!AlNext]_(Allocator!alVars)
  <2> SUFFICES ASSUME PoolInv, [PoolNext]_poolVars
               PROVE  [Allocator!AlNext]_(Allocator!alVars)
    OBVIOUS
  <2> USE DEF Allocator!AlNext, Allocator!alVars
  <2>1. CASE AllocFree
    <3>1. Allocator!Lend(free)
      BY <2>1, FreeIsHead DEF AllocFree, Allocator!Lend
    <3> QED BY <2>1, <3>1, FreeIsHead DEF AllocFree
  <2>2. CASE AllocWilderness
    <3>1. wilderness \in Chunks /\ wilderness \notin held
      BY <2>2, PoolAssumption DEF PoolInv, PoolTypeOK, ChunksAccounted, AllocWilderness, Chunks
    <3>2. Allocator!Lend(wilderness)
      BY <2>2, <3>1 DEF AllocWilderness, Allocator!Lend
    <3> QED BY <3>1, <3>2
  <2>3. CASE AllocFails
    <3>1. order = << >> /\ FreeList = {} /\ wilderness = Cap
      BY <2>3, FreeIsHead, PoolAssumption DEF PoolInv, PoolTypeOK, AllocFails, FreeList
    <3>2. held = Chunks
      BY <3>1 DEF PoolInv, ChunksAccounted, Chunks
    <3>3. Allocator!Refuse
      BY <2>3, <3>2 DEF AllocFails, Allocator!Refuse
    <3> QED BY <3>3
  <2>4. CASE \E k \in Chunks : FreeLast(k) \/ FreeOther(k)
    <3>1. PICK k \in Chunks : FreeLast(k) \/ FreeOther(k)
      BY <2>4
    <3>2. Allocator!TakeBack(k)
      BY <3>1 DEF FreeLast, FreeOther, Allocator!TakeBack
    <3> QED BY <3>2
  <2>5. CASE \E k \in Chunks, w \in Chunks \cup {NIL} : Scribble(k, w)
    BY <2>5 DEF Scribble
  <2>6. CASE UNCHANGED poolVars
    BY <2>6 DEF poolVars
  <2> QED BY <2>1, <2>2, <2>3, <2>4, <2>5, <2>6 DEF PoolNext
<1> QED BY PoolInvariant, <1>1, <1>2, PTL DEF PoolSpec, IsAllocator, Allocator!AlSpec

-----------------------------------------------------------------------------
(* THE ARENA, AND THE LIST OF WAITERS IN IT *)

(* The n blocks that are reached from `first' along `succ'.                *)
IsPath(s, n, first, succ) ==
  /\ n \in Nat
  /\ s \in [1 .. n -> Blocks]
  /\ \A i, j \in 1 .. n : s[i] = s[j] => i = j
  /\ first = IF n = 0 THEN NULL ELSE s[1]
  /\ \A i \in 1 .. n : succ[s[i]] = IF i < n THEN s[i + 1] ELSE NULL

On(s, n) == {s[i] : i \in 1 .. n}

ArenaTypeOK ==
  /\ exists \in BOOLEAN
  /\ prev \in [Blocks -> Blocks \cup {NULL}]
  /\ next \in [Blocks -> Blocks \cup {NULL}]
  /\ live \subseteq Blocks

(* The blocks that are given out are those on the chain, which can be gone *)
(* along in both directions.                                               *)
ChainIs(s, n) ==
  /\ IsPath(s, n, head, next)
  /\ live = On(s, n)
  /\ \A i \in 1 .. n : prev[s[i]] = IF i > 1 THEN s[i - 1] ELSE NULL

ArenaInv ==
  /\ ArenaTypeOK
  /\ exists => \E n \in Nat : \E s \in [1 .. n -> Blocks] : ChainIs(s, n)
  /\ ~exists => live = {}

(* The elts on the list of waiters are blocks of the arena. *)
ListIs(q, n) ==
  /\ IsPath(q, n, chHead, eltNext)
  /\ chTail = IF n = 0 THEN NULL ELSE q[n]
  /\ exists => On(q, n) \subseteq live

ListInv ==
  /\ eltNext \in [Blocks -> Blocks \cup {NULL}]
  /\ \E n \in Nat : \E q \in [1 .. n -> Blocks] : ListIs(q, n)

WInv == ArenaInv /\ ListInv

-----------------------------------------------------------------------------
(* Following the links. *)

(* A set of natural numbers that is not empty has a smallest element.      *)
LEMMA SmallestNumber ==
  ASSUME NEW T \in SUBSET Nat, T # {}
  PROVE  \E n \in T : \A m \in T : n <= m
<1> DEFINE R == {ss \in Nat \X Nat : ss[1] < ss[2]}
<1>1. OpToRel(<, Nat) = R
  BY DEF OpToRel
<1>2. IsWellFoundedOn(R, Nat)
  BY <1>1, NatLessThanWellFounded
<1>3. \A x, y \in Nat : <<y, x>> \in R <=> y < x
  OBVIOUS
<1> HIDE DEF R
<1>4. PICK n \in T : \A m \in T : ~(<<m, n>> \in R)
  BY <1>2, WFMin
<1>5. \A m \in T : n \in Nat /\ m \in Nat /\ ~(m < n)
  BY <1>3, <1>4
<1> QED BY <1>5

(* The function that both lists are read with. *)
Follows(f, first, succ) ==
  f = [k \in Nat |-> IF k <= 1 THEN first
                     ELSE IF f[k - 1] = NULL THEN NULL ELSE succ[f[k - 1]]]

(* It gives the blocks of the path, and then NULL for ever. *)
LEMMA FollowsPath ==
  ASSUME NEW s, NEW n, NEW first, NEW succ, IsPath(s, n, first, succ),
         NEW f, Follows(f, first, succ)
  PROVE  \A k \in Nat \ {0} : f[k] = IF k <= n THEN s[k] ELSE NULL
<1> DEFINE T == {k \in Nat \ {0} : f[k] # IF k <= n THEN s[k] ELSE NULL}
<1> SUFFICES ASSUME T # {} PROVE FALSE
  OBVIOUS
<1>1. PICK k \in T : \A m \in T : k <= m
  <2>1. T \in SUBSET Nat
    OBVIOUS
  <2> QED BY <2>1, SmallestNumber
<1>2. k \in Nat \ {0} /\ n \in Nat
  BY DEF IsPath
<1>3. f[k] = IF k <= 1 THEN first ELSE IF f[k - 1] = NULL THEN NULL ELSE succ[f[k - 1]]
  <2>1. f = [m \in Nat |-> IF m <= 1 THEN first
                           ELSE IF f[m - 1] = NULL THEN NULL ELSE succ[f[m - 1]]]
    BY DEF Follows
  <2> DEFINE g(m) == IF m <= 1 THEN first ELSE IF f[m - 1] = NULL THEN NULL ELSE succ[f[m - 1]]
  <2>2. f = [m \in Nat |-> g(m)]
    BY <2>1
  <2> HIDE DEF g
  <2>3. f[k] = g(k)
    BY <1>2, <2>2
  <2> QED BY <2>3 DEF g
<1>4. CASE k = 1
  BY <1>2, <1>3, <1>4 DEF IsPath
<1>5. CASE k > 1
  <2>1. k - 1 \in Nat \ {0} /\ ~(k <= k - 1)
    BY <1>2, <1>5
  <2>2. k - 1 \notin T
    BY <1>1, <2>1
  <2>3. f[k - 1] = IF k - 1 <= n THEN s[k - 1] ELSE NULL
    BY <2>1, <2>2
  <2>4. k - 1 <= n => s[k - 1] \in Blocks /\ succ[s[k - 1]] = IF k - 1 < n THEN s[k] ELSE NULL
    BY <1>2, <2>1 DEF IsPath
  <2> QED BY <1>1, <1>2, <1>3, <1>5, <2>3, <2>4, ArenaAssumption
<1> QED BY <1>2, <1>4, <1>5

(* There is such a function. *)
LEMMA FollowsExists ==
  ASSUME NEW s, NEW n, NEW first, NEW succ, IsPath(s, n, first, succ)
  PROVE  \E f : Follows(f, first, succ)
<1> DEFINE f == [k \in Nat |-> IF k <= 1 THEN first ELSE IF k <= n THEN s[k] ELSE NULL]
<1>1. ASSUME NEW k \in Nat
      PROVE  f[k] = IF k <= 1 THEN first
                    ELSE IF f[k - 1] = NULL THEN NULL ELSE succ[f[k - 1]]
  <2>1. CASE k <= 1
    BY <2>1
  <2>2. CASE k > 1
    <3>1. k - 1 \in Nat \ {0} /\ n \in Nat
      BY <2>2 DEF IsPath
    <3>2. f[k - 1] = IF k - 1 <= n THEN s[k - 1] ELSE NULL
      BY <2>2, <3>1 DEF IsPath
    <3>3. k - 1 <= n => s[k - 1] \in Blocks /\ succ[s[k - 1]] = IF k - 1 < n THEN s[k] ELSE NULL
      BY <2>2, <3>1 DEF IsPath
    <3>4. f[k] = IF k <= n THEN s[k] ELSE NULL
      BY <2>2
    <3> QED BY <2>2, <3>1, <3>2, <3>3, <3>4, ArenaAssumption
  <2> QED BY <2>1, <2>2
<1>2. f = [k \in Nat |-> IF k <= 1 THEN first
                         ELSE IF f[k - 1] = NULL THEN NULL ELSE succ[f[k - 1]]]
  <2> DEFINE g(k) == IF k <= 1 THEN first ELSE IF f[k - 1] = NULL THEN NULL ELSE succ[f[k - 1]]
  <2>1. \A k \in Nat : f[k] = g(k)
    BY <1>1
  <2>2. DOMAIN f = Nat /\ f = [k \in Nat |-> f[k]]
    OBVIOUS
  <2> HIDE DEF f, g
  <2>3. f = [k \in Nat |-> g(k)]
    BY <2>1, <2>2
  <2> QED BY <2>3 DEF g
<1>3. Follows(f, first, succ)
  BY <1>2 DEF Follows
<1> QED BY <1>3

(* A path is not longer than there are addresses. *)
LEMMA PathIsShort ==
  ASSUME NEW s, NEW n, NEW first, NEW succ, IsPath(s, n, first, succ)
  PROVE  Cardinality(Blocks) \in Nat /\ n <= Cardinality(Blocks)
<1>1. IsFiniteSet(Blocks) /\ Cardinality(Blocks) \in Nat
  BY ArenaAssumption, FS_CardinalityType
<1>2. s \in Injection(1 .. n, Blocks)
  BY DEF IsPath, Injection, IsInjective
<1>3. Cardinality(1 .. n) <= Cardinality(Blocks)
  BY <1>1, <1>2, FS_Injection
<1>4. Cardinality(1 .. n) = n
  BY FS_Interval DEF IsPath
<1> QED BY <1>1, <1>3, <1>4

-----------------------------------------------------------------------------
(* The chain of the arena. *)

LEMMA NthFollows ==
  ASSUME NEW s, NEW n, NEW succ, NEW first, IsPath(s, n, first, succ)
  PROVE  /\ first = head /\ succ = next =>
              \A k \in Nat \ {0} : Nth[k] = IF k <= n THEN s[k] ELSE NULL
         /\ first = chHead /\ succ = eltNext =>
              \A k \in Nat \ {0} : List!Nth[k] = IF k <= n THEN s[k] ELSE NULL
<1>1. PICK f : Follows(f, first, succ)
  BY FollowsExists
<1> DEFINE g == CHOOSE h : Follows(h, first, succ)
<1>2. Follows(g, first, succ)
  BY <1>1
<1> HIDE DEF g
<1>3. \A k \in Nat \ {0} : g[k] = IF k <= n THEN s[k] ELSE NULL
  BY <1>2, FollowsPath
<1>4. first = head /\ succ = next => Nth = g
  BY DEF Nth, g, Follows
<1>5. first = chHead /\ succ = eltNext => List!Nth = g
  BY DEF List!Nth, g, Follows
<1> QED BY <1>3, <1>4, <1>5

LEMMA ChainIsOn ==
  ASSUME NEW s, NEW n, ChainIs(s, n)
  PROVE  /\ Chain = On(s, n)
         /\ Nth[Cardinality(Blocks) + 1] = NULL
<1> DEFINE C == Cardinality(Blocks)
<1>1. IsPath(s, n, head, next)
  BY DEF ChainIs
<1>2. \A k \in Nat \ {0} : Nth[k] = IF k <= n THEN s[k] ELSE NULL
  BY <1>1, NthFollows
<1>3. C \in Nat /\ n \in Nat /\ n <= C
  BY <1>1, PathIsShort DEF IsPath
<1>4. \A i \in 1 .. n : s[i] \in Blocks /\ s[i] # NULL
  BY <1>1, ArenaAssumption DEF IsPath
<1> HIDE DEF C
<1>5. \A k \in 1 .. C : Nth[k] = IF k <= n THEN s[k] ELSE NULL
  BY <1>2, <1>3
<1>6. {Nth[k] : k \in 1 .. C} \ {NULL} = {s[i] : i \in 1 .. n}
  <2>1. ASSUME NEW x \in {Nth[k] : k \in 1 .. C} \ {NULL}
        PROVE  x \in {s[i] : i \in 1 .. n}
    <3>1. PICK k \in 1 .. C : x = Nth[k]
      OBVIOUS
    <3>2. k <= n /\ x = s[k]
      BY <1>5, <3>1
    <3> QED BY <1>3, <3>2
  <2>2. ASSUME NEW i \in 1 .. n
        PROVE  s[i] \in {Nth[k] : k \in 1 .. C} \ {NULL}
    <3>1. i \in 1 .. C /\ Nth[i] = s[i]
      BY <1>3, <1>5
    <3> QED BY <1>4, <3>1
  <2> QED BY <2>1, <2>2
<1>7. Nth[C + 1] = NULL
  <2>1. C + 1 \in Nat \ {0} /\ ~(C + 1 <= n)
    BY <1>3
  <2> QED BY <1>2, <2>1
<1> QED BY <1>6, <1>7 DEF Chain, On, C

LEMMA MallocKeepsArena ==
  ASSUME ArenaInv, NEW b \in Blocks, arena_malloc(b)
  PROVE  ArenaInv'
<1>1. /\ exists /\ exists' /\ b \notin live /\ live' = live \cup {b} /\ head' = b
      /\ prev' = IF head # NULL THEN [prev EXCEPT ![b] = NULL, ![head] = b]
                                ELSE [prev EXCEPT ![b] = NULL]
      /\ next' = [next EXCEPT ![b] = head]
  BY DEF arena_malloc
<1>0. PICK n \in Nat : \E s \in [1 .. n -> Blocks] : ChainIs(s, n)
  BY <1>1 DEF ArenaInv
<1>2. PICK s \in [1 .. n -> Blocks] : ChainIs(s, n)
  BY <1>0
<1>3. /\ \A i, j \in 1 .. n : s[i] = s[j] => i = j
      /\ head = IF n = 0 THEN NULL ELSE s[1]
      /\ \A i \in 1 .. n : next[s[i]] = IF i < n THEN s[i + 1] ELSE NULL
      /\ live = On(s, n)
      /\ \A i \in 1 .. n : prev[s[i]] = IF i > 1 THEN s[i - 1] ELSE NULL
      /\ \A i \in 1 .. n : s[i] \in Blocks /\ s[i] # b
  BY <1>1, <1>2 DEF ChainIs, IsPath, On
<1>4. head \in Blocks \cup {NULL} /\ (head # NULL => n > 0 /\ head = s[1])
  BY <1>3
<1>5. ArenaTypeOK'
  BY <1>1, <1>4 DEF ArenaInv, ArenaTypeOK
<1> DEFINE t == [i \in 1 .. n + 1 |-> IF i = 1 THEN b ELSE s[i - 1]]
<1>6. t \in [1 .. n + 1 -> Blocks] /\ t[1] = b /\ \A i \in 2 .. n + 1 : t[i] = s[i - 1] /\ i - 1 \in 1 .. n
  BY <1>3
<1> HIDE DEF t
<1>7. \A i, j \in 1 .. n + 1 : t[i] = t[j] => i = j
  <2> SUFFICES ASSUME NEW i \in 1 .. n + 1, NEW j \in 1 .. n + 1, t[i] = t[j] PROVE i = j
    OBVIOUS
  <2>1. CASE i = 1 \/ j = 1
    <3>1. \A k \in 2 .. n + 1 : t[k] # b
      BY <1>3, <1>6
    <3> QED BY <1>6, <2>1, <3>1
  <2>2. CASE i \in 2 .. n + 1 /\ j \in 2 .. n + 1
    BY <1>3, <1>6, <2>2
  <2> QED BY <2>1, <2>2
<1>8. ASSUME NEW i \in 1 .. n + 1
      PROVE  /\ next'[t[i]] = IF i < n + 1 THEN t[i + 1] ELSE NULL
             /\ prev'[t[i]] = IF i > 1 THEN t[i - 1] ELSE NULL
  <2>1. CASE i = 1
    <3>1. next'[b] = head
      BY <1>1 DEF ArenaInv, ArenaTypeOK
    <3>2. prev'[b] = NULL
      BY <1>1, <1>3, <1>4 DEF ArenaInv, ArenaTypeOK
    <3>3. 1 < n + 1 => head = t[2]
      BY <1>3, <1>6
    <3>4. ~(1 < n + 1) => head = NULL
      BY <1>3
    <3> QED BY <1>6, <2>1, <3>1, <3>2, <3>3, <3>4
  <2>2. CASE i = 2
    <3>1. t[i] = s[1] /\ 1 \in 1 .. n /\ head = s[1] /\ head # NULL
      BY <1>3, <1>6, <2>2, ArenaAssumption
    <3>2. prev'[s[1]] = b
      BY <1>1, <1>3, <3>1 DEF ArenaInv, ArenaTypeOK
    <3>3. next'[s[1]] = next[s[1]]
      BY <1>1, <1>3, <3>1 DEF ArenaInv, ArenaTypeOK
    <3>4. next[s[1]] = IF 1 < n THEN s[2] ELSE NULL
      BY <1>3, <3>1
    <3>5. 1 < n => t[3] = s[2]
      BY <1>6
    <3> QED BY <1>6, <2>2, <3>1, <3>2, <3>3, <3>4, <3>5
  <2>3. CASE i > 2
    <3>1. i - 1 \in 1 .. n /\ i - 1 > 1 /\ t[i] = s[i - 1] /\ t[i - 1] = s[i - 2]
      BY <1>6, <2>3
    <3>2. s[i - 1] # head /\ s[i - 1] # b /\ s[i - 1] \in Blocks
      BY <1>3, <1>4, <3>1
    <3>3. prev'[s[i - 1]] = prev[s[i - 1]] /\ next'[s[i - 1]] = next[s[i - 1]]
      BY <1>1, <3>2 DEF ArenaInv, ArenaTypeOK
    <3>4. prev[s[i - 1]] = s[(i - 1) - 1]
      BY <1>3, <3>1
    <3>5. next[s[i - 1]] = IF i - 1 < n THEN s[(i - 1) + 1] ELSE NULL
      BY <1>3, <3>1
    <3>6. i < n + 1 => t[i + 1] = s[(i + 1) - 1]
      BY <1>6, <2>3
    <3> QED BY <2>3, <3>1, <3>3, <3>4, <3>5, <3>6
  <2> QED BY <2>1, <2>2, <2>3
<1>9. live' = On(t, n + 1)
  <2>1. \A i \in 1 .. n : i + 1 \in 1 .. n + 1 /\ t[i + 1] = s[i]
    BY <1>6
  <2>2. On(t, n + 1) \subseteq {b} \cup On(s, n)
    BY <1>6 DEF On
  <2>3. {b} \cup On(s, n) \subseteq On(t, n + 1)
    <3>1. 1 \in 1 .. n + 1
      OBVIOUS
    <3> QED BY <1>6, <2>1, <3>1 DEF On
  <2> QED BY <1>1, <1>3, <2>2, <2>3
<1>10. ChainIs(t, n + 1)'
  <2>1. n + 1 \in Nat /\ n + 1 # 0 /\ head' = t[1]
    BY <1>1, <1>6
  <2>2. (IsPath(t, n + 1, head, next))'
    BY <1>6, <1>7, <1>8, <2>1 DEF IsPath
  <2> QED BY <1>8, <1>9, <2>2 DEF ChainIs, On
<1> QED BY <1>1, <1>5, <1>6, <1>10 DEF ArenaInv

(* The facts about the chain of the arena that the next proofs use.        *)
LEMMA ChainFacts ==
  ASSUME ArenaInv, NEW s, NEW n, ChainIs(s, n), NEW b \in live
  PROVE  /\ n \in Nat /\ s \in [1 .. n -> Blocks]
         /\ \A i, j \in 1 .. n : s[i] = s[j] => i = j
         /\ head = IF n = 0 THEN NULL ELSE s[1]
         /\ live = On(s, n)
         /\ \A i \in 1 .. n :
              /\ s[i] \in Blocks /\ s[i] # NULL
              /\ next[s[i]] = IF i < n THEN s[i + 1] ELSE NULL
              /\ prev[s[i]] = IF i > 1 THEN s[i - 1] ELSE NULL
         /\ b \in Blocks
         /\ \E j \in 1 .. n : b = s[j]
BY ArenaAssumption DEF ChainIs, IsPath, On, ArenaInv, ArenaTypeOK

(* A block in the middle is taken out: its neighbours are told.            *)
LEMMA FreeKeepsArena ==
  ASSUME ArenaInv, NEW b \in Blocks, arena_free(b)
  PROVE  ArenaInv'
<1> DEFINE p == prev[b]
           f == next[b]
<1>1. /\ exists /\ exists' /\ b \in live /\ live' = live \ {b}
      /\ next' = IF p # NULL THEN [next EXCEPT ![p] = f] ELSE next
      /\ head' = IF p # NULL THEN head ELSE f
      /\ prev' = IF f # NULL THEN [prev EXCEPT ![f] = p] ELSE prev
  BY DEF arena_free
<1>2. PICK n \in Nat : \E s \in [1 .. n -> Blocks] : ChainIs(s, n)
  BY <1>1 DEF ArenaInv
<1>3. PICK s \in [1 .. n -> Blocks] : ChainIs(s, n)
  BY <1>2
<1>4. /\ \A i, j \in 1 .. n : s[i] = s[j] => i = j
      /\ head = IF n = 0 THEN NULL ELSE s[1]
      /\ live = On(s, n)
      /\ \A i \in 1 .. n :
           /\ s[i] \in Blocks /\ s[i] # NULL
           /\ next[s[i]] = IF i < n THEN s[i + 1] ELSE NULL
           /\ prev[s[i]] = IF i > 1 THEN s[i - 1] ELSE NULL
  BY <1>1, <1>3, ChainFacts
<1>5. PICK j \in 1 .. n : b = s[j]
  BY <1>1, <1>3, ChainFacts
<1>6. /\ p = IF j > 1 THEN s[j - 1] ELSE NULL
      /\ f = IF j < n THEN s[j + 1] ELSE NULL
      /\ p \in Blocks \cup {NULL} /\ f \in Blocks \cup {NULL}
      /\ p # NULL <=> j > 1
      /\ f # NULL <=> j < n
  BY <1>4, <1>5
<1> HIDE DEF p, f
<1>7. ArenaTypeOK'
  BY <1>1, <1>6 DEF ArenaInv, ArenaTypeOK
<1>8. ASSUME NEW i \in 1 .. n, i # j
      PROVE  /\ next'[s[i]] = IF i + 1 = j THEN f ELSE next[s[i]]
             /\ prev'[s[i]] = IF i = j + 1 THEN p ELSE prev[s[i]]
  <2>1. j > 1 => (s[i] = p <=> i = j - 1)
    BY <1>4, <1>6
  <2>2. j < n => (s[i] = f <=> i = j + 1)
    BY <1>4, <1>6
  <2>3. s[i] \in Blocks
    BY <1>4
  <2>4. next'[s[i]] = IF i + 1 = j THEN f ELSE next[s[i]]
    <3>1. CASE j > 1
      BY <1>1, <1>6, <2>1, <2>3, <3>1 DEF ArenaInv, ArenaTypeOK
    <3>2. CASE ~(j > 1)
      BY <1>1, <1>6, <3>2
    <3> QED BY <3>1, <3>2
  <2>5. prev'[s[i]] = IF i = j + 1 THEN p ELSE prev[s[i]]
    <3>1. CASE j < n
      BY <1>1, <1>6, <2>2, <2>3, <3>1 DEF ArenaInv, ArenaTypeOK
    <3>2. CASE ~(j < n)
      BY <1>1, <1>6, <3>2
    <3> QED BY <3>1, <3>2
  <2> QED BY <2>4, <2>5
<1> DEFINE m == n - 1
           t == [i \in 1 .. m |-> IF i < j THEN s[i] ELSE s[i + 1]]
<1>9. /\ m \in Nat /\ t \in [1 .. m -> Blocks]
      /\ \A i \in 1 .. m : i < j => t[i] = s[i] /\ i \in 1 .. n
      /\ \A i \in 1 .. m : ~(i < j) => t[i] = s[i + 1] /\ i + 1 \in 1 .. n
  <2>1. n > 0
    BY <1>5
  <2>2. \A i \in 1 .. m : i \in 1 .. n /\ i + 1 \in 1 .. n
    BY <2>1
  <2> QED BY <2>1, <2>2, <1>4
<1> HIDE DEF t
<1>10. \A i, k \in 1 .. m : t[i] = t[k] => i = k
  <2> SUFFICES ASSUME NEW i \in 1 .. m, NEW k \in 1 .. m, t[i] = t[k] PROVE i = k
    OBVIOUS
  <2>1. CASE i < j /\ k < j
    BY <2>1, <1>4, <1>9
  <2>2. CASE i < j /\ ~(k < j)
    <3>1. s[i] = s[k + 1] /\ i \in 1 .. n /\ k + 1 \in 1 .. n
      BY <2>2, <1>9
    <3> QED BY <2>2, <3>1, <1>4
  <2>3. CASE ~(i < j) /\ k < j
    <3>1. s[i + 1] = s[k] /\ k \in 1 .. n /\ i + 1 \in 1 .. n
      BY <2>3, <1>9
    <3> QED BY <2>3, <3>1, <1>4
  <2>4. CASE ~(i < j) /\ ~(k < j)
    <3>1. s[i + 1] = s[k + 1] /\ k + 1 \in 1 .. n /\ i + 1 \in 1 .. n
      BY <2>4, <1>9
    <3>2. i + 1 = k + 1
      BY <3>1, <1>4
    <3> QED BY <3>2
  <2> QED BY <2>1, <2>2, <2>3, <2>4
<1>11. ASSUME NEW i \in 1 .. m
       PROVE  /\ next'[t[i]] = IF i < m THEN t[i + 1] ELSE NULL
              /\ prev'[t[i]] = IF i > 1 THEN t[i - 1] ELSE NULL
  <2>1. CASE i < j
    <3>1. t[i] = s[i] /\ i \in 1 .. n /\ i # j /\ i # j + 1
      BY <2>1, <1>9
    <3>2. prev'[t[i]] = IF i > 1 THEN t[i - 1] ELSE NULL
      <4>1. prev'[t[i]] = IF i > 1 THEN s[i - 1] ELSE NULL
        BY <3>1, <1>4, <1>8
      <4>2. i > 1 => i - 1 \in 1 .. m /\ i - 1 < j
        BY <2>1
      <4> QED BY <4>1, <4>2, <1>9
    <3>3. next'[t[i]] = IF i < m THEN t[i + 1] ELSE NULL
      <4>1. CASE i + 1 = j
        <5>1. next'[t[i]] = IF j < n THEN s[j + 1] ELSE NULL
          BY <3>1, <4>1, <1>6, <1>8
        <5>2. i < m => t[i + 1] = s[j + 1]
          <6>1. i < m => i + 1 \in 1 .. m /\ ~(i + 1 < j)
            BY <4>1
          <6> QED BY <4>1, <6>1, <1>9
        <5>3. i < m <=> j < n
          BY <4>1
        <5> QED BY <5>1, <5>2, <5>3
      <4>2. CASE i + 1 # j
        <5>1. i + 1 < j /\ i < n /\ i < m /\ i + 1 \in 1 .. m
          BY <2>1, <4>2
        <5>2. next'[t[i]] = s[i + 1]
          BY <3>1, <4>2, <5>1, <1>4, <1>8
        <5>3. t[i + 1] = s[i + 1]
          BY <5>1, <1>9
        <5> QED BY <5>1, <5>2, <5>3
      <4> QED BY <4>1, <4>2
    <3> QED BY <3>2, <3>3
  <2>2. CASE ~(i < j)
    <3>1. t[i] = s[i + 1] /\ i + 1 \in 1 .. n /\ i + 1 # j /\ (i + 1) + 1 # j
      BY <2>2, <1>9
    <3>2. next'[t[i]] = IF i < m THEN t[i + 1] ELSE NULL
      <4>1. next'[t[i]] = IF i + 1 < n THEN s[(i + 1) + 1] ELSE NULL
        BY <3>1, <1>4, <1>8
      <4>2. i < m => i + 1 \in 1 .. m /\ ~(i + 1 < j)
        BY <2>2
      <4>3. i + 1 < n <=> i < m
        OBVIOUS
      <4> QED BY <4>1, <4>2, <4>3, <1>9
    <3>3. prev'[t[i]] = IF i > 1 THEN t[i - 1] ELSE NULL
      <4>1. CASE i = j
        <5>1. prev'[t[i]] = IF j > 1 THEN s[j - 1] ELSE NULL
          BY <3>1, <4>1, <1>6, <1>8
        <5>2. i > 1 => i - 1 \in 1 .. m /\ i - 1 < j
          BY <4>1
        <5> QED BY <4>1, <5>1, <5>2, <1>9
      <4>2. CASE i # j
        <5>1. prev'[t[i]] = s[(i + 1) - 1]
          BY <3>1, <4>2, <1>4, <1>8
        <5>2. i > 1 /\ i - 1 \in 1 .. m /\ ~(i - 1 < j)
          BY <2>2, <4>2
        <5>3. t[i - 1] = s[(i - 1) + 1]
          BY <5>2, <1>9
        <5> QED BY <5>1, <5>2, <5>3
      <4> QED BY <4>1, <4>2
    <3> QED BY <3>2, <3>3
  <2> QED BY <2>1, <2>2
<1>12. live' = On(t, m)
  <2>1. ASSUME NEW i \in 1 .. m PROVE t[i] \in live \ {b}
    <3>1. \A k \in 1 .. n : k # j => s[k] \in live \ {b}
      BY <1>4, <1>5 DEF On
    <3>2. CASE i < j
      BY <3>1, <3>2, <1>9
    <3>3. CASE ~(i < j)
      BY <3>1, <3>3, <1>9
    <3> QED BY <3>2, <3>3
  <2>2. ASSUME NEW x \in live \ {b} PROVE x \in On(t, m)
    <3>1. PICK i \in 1 .. n : x = s[i]
      BY <1>4 DEF On
    <3>2. i # j
      BY <1>5, <3>1
    <3>3. CASE i < j
      <4>1. i \in 1 .. m /\ t[i] = s[i]
        BY <3>3, <1>9
      <4> QED BY <3>1, <4>1 DEF On
    <3>4. CASE i > j
      <4>1. i - 1 \in 1 .. m /\ ~(i - 1 < j)
        BY <3>4
      <4>2. t[i - 1] = s[(i - 1) + 1]
        BY <4>1, <1>9
      <4> QED BY <3>1, <4>1, <4>2 DEF On
    <3> QED BY <3>2, <3>3, <3>4
  <2> QED BY <1>1, <2>1, <2>2 DEF On
<1>13. head' = IF m = 0 THEN NULL ELSE t[1]
  <2>1. CASE j > 1
    <3>1. m # 0 /\ 1 \in 1 .. m /\ 1 < j
      BY <2>1
    <3> QED BY <1>1, <1>4, <1>6, <1>9, <2>1, <3>1
  <2>2. CASE j = 1
    <3>1. head' = IF 1 < n THEN s[2] ELSE NULL
      BY <1>1, <1>6, <2>2
    <3>2. m # 0 => 1 \in 1 .. m /\ ~(1 < j) /\ 1 < n
      BY <1>9, <2>2
    <3>3. m # 0 => t[1] = s[2]
      BY <3>2, <1>9
    <3>4. m = 0 => ~(1 < n)
      OBVIOUS
    <3> QED BY <3>1, <3>2, <3>3, <3>4
  <2> QED BY <2>1, <2>2
<1> HIDE DEF m
<1>14. ChainIs(t, m)'
  <2>1. (IsPath(t, m, head, next))'
    BY <1>9, <1>10, <1>11, <1>13 DEF IsPath
  <2> QED BY <1>11, <1>12, <2>1 DEF ChainIs, On
<1> QED BY <1>1, <1>7, <1>9, <1>14 DEF ArenaInv

(* A block that realloc moves: its neighbours, or the arena, are told.     *)
LEMMA ReallocKeepsArena ==
  ASSUME ArenaInv, NEW b \in Blocks, NEW nb \in Blocks, arena_realloc(b, nb)
  PROVE  ArenaInv'
<1> DEFINE p == prev[b]
           f == next[b]
<1>1. /\ exists /\ exists' /\ b \in live /\ nb \notin live
      /\ live' = (live \ {b}) \cup {nb}
      /\ next' = IF p # NULL THEN [next EXCEPT ![nb] = f, ![p] = nb]
                             ELSE [next EXCEPT ![nb] = f]
      /\ head' = IF p # NULL THEN head ELSE nb
      /\ prev' = IF f # NULL THEN [prev EXCEPT ![nb] = p, ![f] = nb]
                             ELSE [prev EXCEPT ![nb] = p]
  BY DEF arena_realloc
<1>2. PICK n \in Nat : \E s \in [1 .. n -> Blocks] : ChainIs(s, n)
  BY <1>1 DEF ArenaInv
<1>3. PICK s \in [1 .. n -> Blocks] : ChainIs(s, n)
  BY <1>2
<1>4. /\ \A i, j \in 1 .. n : s[i] = s[j] => i = j
      /\ head = IF n = 0 THEN NULL ELSE s[1]
      /\ live = On(s, n)
      /\ \A i \in 1 .. n :
           /\ s[i] \in Blocks /\ s[i] # NULL
           /\ next[s[i]] = IF i < n THEN s[i + 1] ELSE NULL
           /\ prev[s[i]] = IF i > 1 THEN s[i - 1] ELSE NULL
  BY <1>1, <1>3, ChainFacts
<1>5. PICK j \in 1 .. n : b = s[j]
  BY <1>1, <1>3, ChainFacts
<1>6. /\ p = IF j > 1 THEN s[j - 1] ELSE NULL
      /\ f = IF j < n THEN s[j + 1] ELSE NULL
      /\ p \in Blocks \cup {NULL} /\ f \in Blocks \cup {NULL}
      /\ p # NULL <=> j > 1
      /\ f # NULL <=> j < n
      /\ p # nb /\ f # nb
  <2>1. \A i \in 1 .. n : s[i] # nb
    BY <1>1, <1>4 DEF On
  <2>2. nb # NULL
    BY ArenaAssumption
  <2> QED BY <1>4, <1>5, <2>1, <2>2
<1> HIDE DEF p, f
<1>7. ArenaTypeOK'
  BY <1>1, <1>6 DEF ArenaInv, ArenaTypeOK
<1>8. ASSUME NEW i \in 1 .. n, i # j
      PROVE  /\ next'[s[i]] = IF i + 1 = j THEN nb ELSE next[s[i]]
             /\ prev'[s[i]] = IF i = j + 1 THEN nb ELSE prev[s[i]]
  <2>1. j > 1 => (s[i] = p <=> i = j - 1)
    BY <1>4, <1>6
  <2>2. j < n => (s[i] = f <=> i = j + 1)
    BY <1>4, <1>6
  <2>3. s[i] \in Blocks /\ s[i] # nb
    BY <1>1, <1>4 DEF On
  <2>4. next'[s[i]] = IF i + 1 = j THEN nb ELSE next[s[i]]
    <3>1. CASE j > 1
      BY <1>1, <1>6, <2>1, <2>3, <3>1 DEF ArenaInv, ArenaTypeOK
    <3>2. CASE ~(j > 1)
      BY <1>1, <1>6, <2>3, <3>2 DEF ArenaInv, ArenaTypeOK
    <3> QED BY <3>1, <3>2
  <2>5. prev'[s[i]] = IF i = j + 1 THEN nb ELSE prev[s[i]]
    <3>1. CASE j < n
      BY <1>1, <1>6, <2>2, <2>3, <3>1 DEF ArenaInv, ArenaTypeOK
    <3>2. CASE ~(j < n)
      BY <1>1, <1>6, <2>3, <3>2 DEF ArenaInv, ArenaTypeOK
    <3> QED BY <3>1, <3>2
  <2> QED BY <2>4, <2>5
<1>9. next'[nb] = f /\ prev'[nb] = p
  BY <1>1, <1>6 DEF ArenaInv, ArenaTypeOK
<1> DEFINE t == [i \in 1 .. n |-> IF i = j THEN nb ELSE s[i]]
<1>10. /\ t \in [1 .. n -> Blocks]
       /\ t[j] = nb
       /\ \A i \in 1 .. n : i # j => t[i] = s[i] /\ t[i] # nb
  BY <1>1, <1>4 DEF On
<1> HIDE DEF t
<1>11. \A i, k \in 1 .. n : t[i] = t[k] => i = k
  BY <1>4, <1>10
<1>12. ASSUME NEW i \in 1 .. n
       PROVE  /\ next'[t[i]] = IF i < n THEN t[i + 1] ELSE NULL
              /\ prev'[t[i]] = IF i > 1 THEN t[i - 1] ELSE NULL
  <2>1. (i < n => i + 1 \in 1 .. n) /\ (i > 1 => i - 1 \in 1 .. n)
    OBVIOUS
  <2>2. CASE i = j
    BY <2>1, <2>2, <1>6, <1>9, <1>10
  <2>3. CASE i # j
    <3>1. next'[t[i]] = IF i + 1 = j THEN nb ELSE IF i < n THEN s[i + 1] ELSE NULL
      BY <2>3, <1>4, <1>8, <1>10
    <3>2. prev'[t[i]] = IF i = j + 1 THEN nb ELSE IF i > 1 THEN s[i - 1] ELSE NULL
      BY <2>3, <1>4, <1>8, <1>10
    <3>3. i < n => t[i + 1] = IF i + 1 = j THEN nb ELSE s[i + 1]
      BY <2>1, <1>10
    <3>4. i > 1 => t[i - 1] = IF i = j + 1 THEN nb ELSE s[i - 1]
      BY <2>1, <1>10
    <3> QED BY <3>1, <3>2, <3>3, <3>4
  <2> QED BY <2>2, <2>3
<1>13. live' = On(t, n)
  <2>1. ASSUME NEW i \in 1 .. n PROVE t[i] \in (live \ {b}) \cup {nb}
    <3>1. s[i] \in live
      BY <1>4 DEF On
    <3>2. i # j => s[i] # b
      BY <1>4, <1>5
    <3> QED BY <3>1, <3>2, <1>10
  <2>2. ASSUME NEW x \in (live \ {b}) \cup {nb} PROVE \E i \in 1 .. n : x = t[i]
    <3>1. CASE x = nb
      BY <3>1, <1>10
    <3>2. CASE x # nb
      <4>1. PICK i \in 1 .. n : x = s[i]
        BY <3>2, <1>4 DEF On
      <4>2. i # j
        BY <3>2, <4>1, <1>5
      <4> QED BY <4>1, <4>2, <1>10
    <3> QED BY <3>1, <3>2
  <2> QED BY <1>1, <2>1, <2>2 DEF On
<1>14. head' = IF n = 0 THEN NULL ELSE t[1]
  <2>1. n # 0 /\ 1 \in 1 .. n
    BY <1>5
  <2> QED BY <2>1, <1>1, <1>4, <1>6, <1>10
<1>15. ChainIs(t, n)'
  <2>1. (IsPath(t, n, head, next))'
    BY <1>10, <1>11, <1>12, <1>14 DEF IsPath
  <2> QED BY <1>12, <1>13, <2>1 DEF ChainIs, On
<1> QED BY <1>1, <1>7, <1>10, <1>15 DEF ArenaInv

(* arena_destroy reaches every block. *)
LEMMA DestroyKeepsArena ==
  ASSUME ArenaInv, arena_destroy
  PROVE  ArenaInv'
<1>1. exists /\ exists' = FALSE /\ live' = live \ Chain /\ UNCHANGED <<prev, next>>
  BY DEF arena_destroy
<1>2. PICK n \in Nat : \E s \in [1 .. n -> Blocks] : ChainIs(s, n)
  BY <1>1 DEF ArenaInv
<1>3. PICK s \in [1 .. n -> Blocks] : ChainIs(s, n)
  BY <1>2
<1>4. Chain = live
  BY <1>3, ChainIsOn DEF ChainIs
<1> QED BY <1>1, <1>4 DEF ArenaInv, ArenaTypeOK

LEMMA ArenaInvInit == Init => ArenaInv
<1> SUFFICES ASSUME Init PROVE ArenaInv
  OBVIOUS
<1> DEFINE s == [i \in 1 .. 0 |-> NULL]
<1>1. s \in [1 .. 0 -> Blocks] /\ ChainIs(s, 0)
  BY DEF Init, ChainIs, IsPath, On
<1> QED BY <1>1 DEF Init, ArenaInv, ArenaTypeOK

LEMMA ArenaInvStep == ArenaInv /\ [Next]_arenaVars => ArenaInv'
<1> SUFFICES ASSUME ArenaInv, [Next]_arenaVars PROVE ArenaInv'
  OBVIOUS
<1>1. ASSUME NEW b \in Blocks, arena_malloc(b) \/ arena_free(b) PROVE ArenaInv'
  BY <1>1, MallocKeepsArena, FreeKeepsArena
<1>2. ASSUME NEW b \in Blocks, NEW nb \in Blocks, arena_realloc(b, nb) PROVE ArenaInv'
  BY <1>2, ReallocKeepsArena
<1>3. CASE arena_destroy
  BY <1>3, DestroyKeepsArena
<1>4. CASE UNCHANGED arenaVars
  <2>1. UNCHANGED <<exists, head, prev, next, live>>
    BY <1>4 DEF arenaVars
  <2> QED BY <2>1 DEF ArenaInv, ArenaTypeOK, ChainIs, IsPath, On
<1> QED BY <1>1, <1>2, <1>3, <1>4 DEF Next

LEMMA InvIsIntact == ArenaInv => ChainIntact
<1> SUFFICES ASSUME ArenaInv PROVE ChainIntact
  OBVIOUS
<1>1. CASE ~exists
  BY <1>1 DEF ArenaInv, ChainIntact
<1>2. CASE exists
  <2>1. PICK n \in Nat : \E s \in [1 .. n -> Blocks] : ChainIs(s, n)
    BY <1>2 DEF ArenaInv
  <2>2. PICK s \in [1 .. n -> Blocks] : ChainIs(s, n)
    BY <2>1
  <2>3. Chain = live /\ Nth[Cardinality(Blocks) + 1] = NULL
    BY <2>2, ChainIsOn DEF ChainIs
  <2>4. ASSUME NEW b \in live
        PROVE  /\ prev[b] = NULL <=> head = b
               /\ prev[b] # NULL => prev[b] \in live /\ next[prev[b]] = b
               /\ next[b] # NULL => next[b] \in live /\ prev[next[b]] = b
    <3>1. /\ \A i, j \in 1 .. n : s[i] = s[j] => i = j
          /\ head = IF n = 0 THEN NULL ELSE s[1]
          /\ live = On(s, n)
          /\ \A i \in 1 .. n :
               /\ s[i] \in Blocks /\ s[i] # NULL
               /\ next[s[i]] = IF i < n THEN s[i + 1] ELSE NULL
               /\ prev[s[i]] = IF i > 1 THEN s[i - 1] ELSE NULL
      BY <2>2, ChainFacts
    <3>2. PICK j \in 1 .. n : b = s[j]
      BY <2>2, ChainFacts
    <3>3. n # 0 /\ 1 \in 1 .. n /\ head = s[1]
      BY <3>1, <3>2
    <3>4. CASE j = 1
      BY <3>1, <3>2, <3>3, <3>4 DEF On
    <3>5. CASE j > 1
      <4>1. j - 1 \in 1 .. n /\ (j - 1) + 1 = j /\ j - 1 < n /\ j # 1
        BY <3>5
      <4>2. prev[b] = s[j - 1] /\ s[j - 1] # NULL /\ s[j - 1] \in live /\ next[s[j - 1]] = s[j]
        BY <3>1, <3>2, <3>5, <4>1 DEF On
      <4>3. head # b
        BY <3>1, <3>2, <3>3, <4>1
      <4>4. j < n => j + 1 \in 1 .. n /\ (j + 1) - 1 = j /\ j + 1 > 1
        BY <3>5
      <4>5. j < n => next[b] = s[j + 1] /\ s[j + 1] \in live /\ prev[s[j + 1]] = s[j]
        BY <3>1, <3>2, <4>4 DEF On
      <4>6. ~(j < n) => next[b] = NULL
        BY <3>1, <3>2
      <4> QED BY <3>2, <4>2, <4>3, <4>5, <4>6
    <3> QED BY <3>4, <3>5
  <2> QED BY <1>2, <2>3, <2>4 DEF ChainIntact
<1> QED BY <1>1, <1>2

(* Whatever blocks come, move and go, arena_destroy reaches every one that *)
(* is given out, and a block in the middle can be taken out.               *)
THEOREM ArenaChainIntact == Spec => []ChainIntact
<1>1. Spec => []ArenaInv
  BY ArenaInvInit, ArenaInvStep, PTL DEF Spec
<1> QED BY <1>1, InvIsIntact, PTL

-----------------------------------------------------------------------------
(* The list of waiters. *)

(* What the list contains, when it is a path: the blocks of that path. *)
ContentIsPath ==
  \A n \in Nat : \A q \in [1 .. n -> Blocks] :
    IsPath(q, n, chHead, eltNext) => List!Content = q /\ Listed = On(q, n)

LEMMA ContentFollows == ContentIsPath
<1> SUFFICES ASSUME NEW n \in Nat, NEW q \in [1 .. n -> Blocks],
                    IsPath(q, n, chHead, eltNext)
             PROVE  List!Content = q /\ Listed = On(q, n)
  BY DEF ContentIsPath
<1> DEFINE C == Cardinality(Blocks)
<1>1. \A k \in Nat \ {0} : List!Nth[k] = IF k <= n THEN q[k] ELSE NULL
  BY NthFollows
<1>2. C \in Nat /\ n <= C
  BY PathIsShort
<1> HIDE DEF C
<1>3. \A k \in 1 .. n : q[k] # NULL
  BY ArenaAssumption
<1>4. {j \in 1 .. C : List!Nth[j] # NULL} = 1 .. n
  BY <1>1, <1>2, <1>3
<1>5. Cardinality(1 .. n) = n
  BY FS_Interval
<1>6. List!Content = [k \in 1 .. n |-> List!Nth[k]]
  <2>1. \A S : List!Cardinality(S) = Cardinality(S)
    BY DEF List!Cardinality, Cardinality
  <2> QED BY <1>4, <1>5, <2>1 DEF List!Content, C
<1>7. [k \in 1 .. n |-> List!Nth[k]] = q
  <2>1. \A k \in 1 .. n : List!Nth[k] = q[k]
    BY <1>1
  <2> QED BY <2>1
<1>8. List!Content = q
  BY <1>6, <1>7
<1>9. DOMAIN q = 1 .. n
  OBVIOUS
<1> QED BY <1>8, <1>9 DEF Listed, On

(* An elt at the end: an address that was free, and hence not on the list. *)
LEMMA AppendKeepsList ==
  ASSUME NEW n \in Nat, NEW q \in [1 .. n -> Blocks], ListIs(q, n),
         eltNext \in [Blocks -> Blocks \cup {NULL}],
         exists, NEW e \in Blocks, e \notin live, live' = live \cup {e},
         List!elt_append(e)
  PROVE  /\ eltNext' \in [Blocks -> Blocks \cup {NULL}]
         /\ Append(q, e) \in [1 .. n + 1 -> Blocks]
         /\ ListIs(Append(q, e), n + 1)'
<1> DEFINE t == Append(q, e)
<1>1. /\ t \in [1 .. n + 1 -> Blocks]
      /\ \A i \in 1 .. n : t[i] = q[i]
      /\ t[n + 1] = e
  <2>1. q \in Seq(Blocks) /\ Len(q) = n
    BY IsASeq, LenProperties
  <2>2. /\ t \in Seq(Blocks) /\ Len(t) = n + 1
        /\ \A i \in 1 .. n : t[i] = q[i]
        /\ t[n + 1] = e
    BY <2>1, AppendProperties
  <2> HIDE DEF t
  <2>3. t \in [1 .. n + 1 -> Blocks]
    BY <2>2, LenProperties
  <2> QED BY <2>2, <2>3
<1> HIDE DEF t
<1>2. /\ \A i, j \in 1 .. n : q[i] = q[j] => i = j
      /\ chHead = IF n = 0 THEN NULL ELSE q[1]
      /\ \A i \in 1 .. n : eltNext[q[i]] = IF i < n THEN q[i + 1] ELSE NULL
      /\ chTail = IF n = 0 THEN NULL ELSE q[n]
      /\ \A i \in 1 .. n : q[i] \in live /\ q[i] # e
  BY DEF ListIs, IsPath, On
<1>3. /\ IF chTail # NULL
         THEN eltNext' = [eltNext EXCEPT ![e] = NULL, ![chTail] = e] /\ chHead' = chHead
         ELSE eltNext' = [eltNext EXCEPT ![e] = NULL] /\ chHead' = e
      /\ chTail' = e
  BY DEF List!elt_append
<1>4. chTail # NULL <=> n # 0
  BY <1>2, ArenaAssumption
<1>5. n # 0 => n \in 1 .. n /\ chTail = q[n] /\ chTail \in Blocks
  BY <1>2
<1>6. eltNext' \in [Blocks -> Blocks \cup {NULL}]
  BY <1>3, <1>4, <1>5
<1>7. \A i, j \in 1 .. n + 1 : t[i] = t[j] => i = j
  <2> SUFFICES ASSUME NEW i \in 1 .. n + 1, NEW j \in 1 .. n + 1, t[i] = t[j] PROVE i = j
    OBVIOUS
  <2>1. (i \in 1 .. n \/ i = n + 1) /\ (j \in 1 .. n \/ j = n + 1)
    OBVIOUS
  <2> QED BY <1>1, <1>2, <2>1
<1>8. chHead' = t[1]
  <2>1. CASE n = 0
    BY <1>1, <1>3, <1>4, <2>1
  <2>2. CASE n # 0
    <3>1. 1 \in 1 .. n
      BY <2>2
    <3> QED BY <1>1, <1>2, <1>3, <1>4, <2>2, <3>1
  <2> QED BY <2>1, <2>2
<1>9. ASSUME NEW i \in 1 .. n + 1
      PROVE  eltNext'[t[i]] = IF i < n + 1 THEN t[i + 1] ELSE NULL
  <2>1. CASE i = n + 1
    <3>1. eltNext'[e] = NULL
      BY <1>2, <1>3, <1>4, <1>5
    <3> QED BY <1>1, <2>1, <3>1
  <2>2. CASE i = n
    <3>1. n # 0 /\ t[i] = q[n] /\ q[n] \in Blocks
      BY <1>1, <2>2
    <3>2. eltNext'[q[n]] = e
      BY <1>3, <1>4, <1>5, <3>1
    <3> QED BY <1>1, <2>2, <3>1, <3>2
  <2>3. CASE i < n
    <3>1. i \in 1 .. n /\ i + 1 \in 1 .. n /\ n \in 1 .. n /\ i # n /\ n # 0
      BY <2>3
    <3>2. q[i] # q[n] /\ q[i] # e /\ q[i] \in Blocks
      BY <1>2, <3>1
    <3>3. eltNext'[q[i]] = eltNext[q[i]]
      BY <1>3, <1>4, <1>5, <3>1, <3>2
    <3> QED BY <1>1, <1>2, <2>3, <3>1, <3>3
  <2> QED BY <2>1, <2>2, <2>3
<1>10. (On(t, n + 1) \subseteq live)'
  <2>1. \A i \in 1 .. n + 1 : t[i] \in live \cup {e}
    <3>1. \A i \in 1 .. n + 1 : i \in 1 .. n \/ i = n + 1
      OBVIOUS
    <3> QED BY <1>1, <1>2, <3>1
  <2> QED BY <2>1 DEF On
<1>11. (IsPath(t, n + 1, chHead, eltNext))'
  BY <1>1, <1>7, <1>8, <1>9 DEF IsPath
<1>12. ListIs(t, n + 1)'
  BY <1>1, <1>3, <1>10, <1>11 DEF ListIs
<1> QED BY <1>1, <1>6, <1>12 DEF t

(* The first elt leaves. *)
LEMMA PopKeepsList ==
  ASSUME NEW n \in Nat, NEW q \in [1 .. n -> Blocks], ListIs(q, n),
         eltNext \in [Blocks -> Blocks \cup {NULL}],
         exists' = exists, live' = live, List!elt_pop
  PROVE  /\ n > 0
         /\ Tail(q) \in [1 .. n - 1 -> Blocks]
         /\ ListIs(Tail(q), n - 1)'
<1> DEFINE t == Tail(q)
<1>1. /\ \A i, j \in 1 .. n : q[i] = q[j] => i = j
      /\ chHead = IF n = 0 THEN NULL ELSE q[1]
      /\ \A i \in 1 .. n : eltNext[q[i]] = IF i < n THEN q[i + 1] ELSE NULL
      /\ chTail = IF n = 0 THEN NULL ELSE q[n]
      /\ exists => \A i \in 1 .. n : q[i] \in live
  BY DEF ListIs, IsPath, On
<1>2. /\ chHead # NULL
      /\ chHead' = eltNext[chHead]
      /\ chTail' = IF eltNext[chHead] = NULL THEN NULL ELSE chTail
      /\ eltNext' = eltNext
  BY DEF List!elt_pop
<1>3. n > 0 /\ n - 1 \in Nat /\ chHead = q[1] /\ 1 \in 1 .. n
  BY <1>1, <1>2
<1>4. /\ t \in [1 .. n - 1 -> Blocks]
      /\ \A i \in 1 .. n - 1 : t[i] = q[i + 1] /\ i + 1 \in 1 .. n
  <2>1. q \in Seq(Blocks) /\ Len(q) = n /\ q # << >>
    BY <1>3, IsASeq, LenProperties
  <2>2. t \in Seq(Blocks) /\ Len(t) = n - 1 /\ \A i \in 1 .. n - 1 : t[i] = q[i + 1]
    BY <2>1, HeadTailProperties
  <2>3. t \in [1 .. n - 1 -> Blocks]
    BY <2>2, LenProperties
  <2> QED BY <1>3, <2>2, <2>3
<1> HIDE DEF t
<1>5. eltNext[chHead] = IF n > 1 THEN q[2] ELSE NULL
  BY <1>1, <1>3
<1>6. n > 1 => q[2] # NULL /\ t[1] = q[2] /\ t[n - 1] = q[n]
  <2>1. n > 1 => 1 \in 1 .. n - 1 /\ n - 1 \in 1 .. n - 1 /\ 2 \in 1 .. n /\ (n - 1) + 1 = n
    OBVIOUS
  <2> QED BY <1>4, <2>1, ArenaAssumption
<1>7. \A i, j \in 1 .. n - 1 : t[i] = t[j] => i = j
  <2> SUFFICES ASSUME NEW i \in 1 .. n - 1, NEW j \in 1 .. n - 1, t[i] = t[j] PROVE i = j
    OBVIOUS
  <2>1. i + 1 = j + 1
    BY <1>1, <1>4
  <2> QED BY <2>1
<1>8. ASSUME NEW i \in 1 .. n - 1
      PROVE  eltNext'[t[i]] = IF i < n - 1 THEN t[i + 1] ELSE NULL
  <2>1. t[i] = q[i + 1] /\ i + 1 \in 1 .. n
    BY <1>4
  <2>2. i < n - 1 => i + 1 \in 1 .. n - 1 /\ t[i + 1] = q[(i + 1) + 1]
    BY <1>4
  <2> QED BY <1>1, <1>2, <2>1, <2>2
<1>9. chHead' = IF n - 1 = 0 THEN NULL ELSE t[1]
  BY <1>2, <1>3, <1>5, <1>6
<1>10. chTail' = IF n - 1 = 0 THEN NULL ELSE t[n - 1]
  BY <1>1, <1>2, <1>3, <1>5, <1>6
<1>11. (exists => On(t, n - 1) \subseteq live)'
  BY <1>1, <1>4 DEF On
<1>12. (IsPath(t, n - 1, chHead, eltNext))'
  BY <1>3, <1>4, <1>7, <1>8, <1>9 DEF IsPath
<1>13. ListIs(t, n - 1)'
  BY <1>10, <1>11, <1>12 DEF ListIs
<1> QED BY <1>3, <1>4, <1>13 DEF t

LEMMA WInvInit == WInit => WInv
<1> SUFFICES ASSUME WInit PROVE WInv
  OBVIOUS
<1>1. ArenaInv
  BY ArenaInvInit DEF WInit
<1>2. chHead = NULL /\ chTail = NULL /\ eltNext = [e \in Blocks |-> NULL]
  BY DEF WInit, List!ListInit
<1> DEFINE q == [i \in 1 .. 0 |-> NULL]
<1>3. q \in [1 .. 0 -> Blocks] /\ ListIs(q, 0)
  BY <1>2 DEF ListIs, IsPath, On
<1> QED BY <1>1, <1>2, <1>3 DEF WInv, ListInv

(* What a step does to the list: nothing, or what it does to a queue. *)
QueueStep ==
  \/ List!elt_pop /\ List!Content' = Tail(List!Content)
  \/ \E e \in Blocks : List!elt_append(e) /\ List!Content' = Append(List!Content, e)
  \/ UNCHANGED listVars

(* The elts stay blocks that are given out when others come, move and go.  *)
LEMMA OthersKeepList ==
  ASSUME WInv, Others \/ Destroy \/ UNCHANGED wVars
  PROVE  ListInv'
<1>1. PICK n \in Nat : \E q \in [1 .. n -> Blocks] : ListIs(q, n)
  BY DEF WInv, ListInv
<1>2. PICK q \in [1 .. n -> Blocks] : ListIs(q, n)
  BY <1>1
<1>3. UNCHANGED <<chHead, chTail, eltNext>>
  BY DEF Others, Destroy, wVars, listVars
<1>4. Listed = On(q, n)
  BY <1>2, ContentFollows DEF ListIs, ContentIsPath
<1>5. (exists => On(q, n) \subseteq live)'
  <2>1. exists /\ On(q, n) \subseteq live => On(q, n) \subseteq live
    OBVIOUS
  <2>2. exists => On(q, n) \subseteq live
    BY <1>2 DEF ListIs
  <2>3. CASE Others
    <3>1. CASE \E b \in Blocks : arena_malloc(b)
      BY <2>2, <3>1 DEF arena_malloc, On
    <3>2. CASE \E b \in Blocks : b \notin Listed /\ arena_free(b)
      BY <1>4, <2>2, <3>2 DEF arena_free, On
    <3>3. CASE \E b, nb \in Blocks : b \notin Listed /\ arena_realloc(b, nb)
      BY <1>4, <2>2, <3>3 DEF arena_realloc, On
    <3> QED BY <2>3, <3>1, <3>2, <3>3 DEF Others
  <2>4. CASE Destroy
    BY <2>4 DEF Destroy, arena_destroy
  <2>5. CASE UNCHANGED wVars
    BY <2>2, <2>5 DEF wVars, arenaVars, On
  <2> QED BY <2>3, <2>4, <2>5
<1>6. ListIs(q, n)'
  BY <1>2, <1>3, <1>5 DEF ListIs, IsPath
<1> QED BY <1>3, <1>6 DEF WInv, ListInv

LEMMA WaitKeepsList ==
  ASSUME WInv, NEW e \in Blocks, Wait(e)
  PROVE  ListInv' /\ List!elt_append(e) /\ List!Content' = Append(List!Content, e)
<1>1. PICK n \in Nat : \E q \in [1 .. n -> Blocks] : ListIs(q, n)
  BY DEF WInv, ListInv
<1>2. PICK q \in [1 .. n -> Blocks] : ListIs(q, n)
  BY <1>1
<1>3. exists /\ e \notin live /\ live' = live \cup {e} /\ List!elt_append(e)
  BY DEF Wait, arena_malloc
<1>4. /\ eltNext' \in [Blocks -> Blocks \cup {NULL}]
      /\ Append(q, e) \in [1 .. n + 1 -> Blocks]
      /\ ListIs(Append(q, e), n + 1)'
  BY <1>2, <1>3, AppendKeepsList DEF WInv, ListInv
<1>5. n + 1 \in Nat
  OBVIOUS
<1>6. ListInv'
  BY <1>4, <1>5 DEF ListInv
<1>7. List!Content = q
  BY <1>2, ContentFollows DEF ListIs, ContentIsPath
<1>8. ContentIsPath'
  BY ContentFollows, PTL
<1>9. List!Content' = Append(q, e)
  BY <1>4, <1>5, <1>8 DEF ListIs, ContentIsPath
<1> QED BY <1>3, <1>6, <1>7, <1>9

LEMMA ServeKeepsList ==
  ASSUME WInv, Serve
  PROVE  ListInv' /\ List!elt_pop /\ List!Content' = Tail(List!Content)
<1>1. PICK n \in Nat : \E q \in [1 .. n -> Blocks] : ListIs(q, n)
  BY DEF WInv, ListInv
<1>2. PICK q \in [1 .. n -> Blocks] : ListIs(q, n)
  BY <1>1
<1>3. List!elt_pop /\ exists' = exists /\ live' = live
  BY DEF Serve, arenaVars
<1>4. n > 0 /\ Tail(q) \in [1 .. n - 1 -> Blocks] /\ ListIs(Tail(q), n - 1)'
  BY <1>2, <1>3, PopKeepsList DEF WInv, ListInv
<1>5. n - 1 \in Nat /\ eltNext' = eltNext
  BY <1>3, <1>4 DEF List!elt_pop
<1>6. ListInv'
  BY <1>4, <1>5 DEF WInv, ListInv
<1>7. List!Content = q
  BY <1>2, ContentFollows DEF ListIs, ContentIsPath
<1>8. ContentIsPath'
  BY ContentFollows, PTL
<1>9. List!Content' = Tail(q)
  BY <1>4, <1>5, <1>8 DEF ListIs, ContentIsPath
<1> QED BY <1>3, <1>6, <1>7, <1>9

LEMMA WInvStep == WInv /\ [WNext]_wVars => WInv' /\ QueueStep
<1> SUFFICES ASSUME WInv, [WNext]_wVars PROVE WInv' /\ QueueStep
  OBVIOUS
<1>1. ASSUME NEW e \in Blocks, Wait(e) PROVE WInv' /\ QueueStep
  <2>1. ArenaInv'
    BY <1>1, MallocKeepsArena DEF Wait, WInv
  <2> QED BY <1>1, <2>1, WaitKeepsList DEF WInv, QueueStep
<1>2. CASE Serve
  <2>1. ArenaInv'
    BY <1>2, ArenaInvStep DEF Serve, WInv
  <2> QED BY <1>2, <2>1, ServeKeepsList DEF WInv, QueueStep
<1>3. CASE Others
  <2>1. Next /\ UNCHANGED listVars
    BY <1>3 DEF Others, Next
  <2>2. ArenaInv'
    BY <2>1, ArenaInvStep DEF WInv
  <2> QED BY <1>3, <2>1, <2>2, OthersKeepList DEF WInv, QueueStep
<1>4. CASE Destroy
  <2>1. ArenaInv' /\ UNCHANGED listVars
    BY <1>4, DestroyKeepsArena DEF Destroy, WInv
  <2> QED BY <1>4, <2>1, OthersKeepList DEF WInv, QueueStep
<1>5. CASE UNCHANGED wVars
  <2>1. ArenaInv'
    BY <1>5, ArenaInvStep DEF wVars, WInv
  <2> QED BY <1>5, <2>1, OthersKeepList DEF WInv, QueueStep, wVars
<1>6. Destroyed => UNCHANGED wVars
  BY DEF Destroyed
<1> QED BY <1>1, <1>2, <1>3, <1>4, <1>5, <1>6 DEF WNext

(* The chain of the arena and the list of waiters in its blocks are intact.*)
THEOREM WaitersInvariant == WSpec => []WInv
BY WInvInit, WInvStep, PTL DEF WSpec

(* Whatever blocks come, move and go, and whichever addresses the elts of  *)
(* the channel have, arena_destroy reaches every block that is given out.  *)
THEOREM ChainAlwaysIntact == WSpec => []ChainIntact
<1>1. WInv => ChainIntact
  BY InvIsIntact DEF WInv
<1> QED BY <1>1, WaitersInvariant, PTL

(* The waiters are served in the order in which they came: elt_append adds *)
(* an elt behind the others, elt_pop takes the first, and no step on other *)
(* blocks of the arena changes the list.                                   *)
THEOREM WaitersAreAQueue == WSpec => WaitersQueue
<1>1. WInv /\ [WNext]_wVars =>
        [\/ List!elt_pop /\ List!Content' = Tail(List!Content)
         \/ \E e \in Blocks : List!elt_append(e) /\ List!Content' = Append(List!Content, e)]_List!listVars
  <2>1. QueueStep =>
        [\/ List!elt_pop /\ List!Content' = Tail(List!Content)
         \/ \E e \in Blocks : List!elt_append(e) /\ List!Content' = Append(List!Content, e)]_List!listVars
    BY DEF QueueStep, List!listVars, listVars
  <2> QED BY <2>1, WInvStep
<1> QED BY <1>1, WaitersInvariant, PTL DEF WSpec, WaitersQueue, List!IsAQueue
=============================================================================
