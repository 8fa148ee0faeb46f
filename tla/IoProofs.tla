------------------------------- MODULE IoProofs -------------------------------
(***************************************************************************)
(* Proofs about what the cords of a braid wait for, for every number of    *)
(* cords.  The channel, for every set of values that are sent: its         *)
(* invariants, and that it implements Rendezvous.  The poll(2) visor, for  *)
(* every capacity of the list and set of cords that others wake: no wakeup *)
(* is lost, a cord that waits is in the list, and fdwait returns when its  *)
(* descriptor is ready.                                                    *)
(***************************************************************************)
EXTENDS Channel, Visor, BraidProofs

(***************************************************************************)
(* The channel.                                                            *)
(***************************************************************************)

Elt == [type : {"SEND", "RECV"}, val : Data \cup {NONE}]

ChTypeOK ==
  /\ closed \in BOOLEAN
  /\ chfreed \in BOOLEAN
  /\ queue \in Seq(Cords)
  /\ DOMAIN elts \subseteq Cords
  /\ elts \in [DOMAIN elts -> Elt]
  /\ receiving \subseteq 0 .. count - 1

(* A cord that waits as a receiver is in chrecv, one that waits as a       *)
(* sender is not.                                                          *)
ReceiversWait == \A c \in ToSet(queue) : IsRecv(c) <=> c \in receiving

(* A sender's elt holds a value.  A receiver's does not as long as it      *)
(* waits, and does when chsend, and not chclose, has woken it.             *)
ValuesReady ==
  /\ \A c \in ToSet(queue) : elts[c].val # NONE <=> IsSend(c)
  /\ \A c \in receiving \ (ToSet(queue) \cup Dead) : val[c] # 0 => elts[c].val # NONE

ChInv ==
  /\ BraidInv
  /\ ChTypeOK
  /\ OneKindWaits
  /\ WaitersReachable
  /\ EltsOwned
  /\ ReceiversWait
  /\ ValuesReady

-----------------------------------------------------------------------------
(* What the helpers of the model do. *)

LEMMA FreedShape ==
  ASSUME NEW es, es \in [DOMAIN es -> Elt], NEW S
  PROVE  /\ DOMAIN Freed(es, S) = DOMAIN es \ S
         /\ Freed(es, S) \in [DOMAIN es \ S -> Elt]
         /\ \A x \in DOMAIN es \ S : Freed(es, S)[x] = es[x]
BY DEF Freed, Restrict

(* Where the cords of the queue are, and where they are not.               *)
LEMMA ChFacts ==
  ASSUME ChInv
  PROVE  /\ 0 .. count - 1 \subseteq Cords
         /\ ToSet(queue) \subseteq (blocked \cup Dead) \cap Cords
         /\ ToSet(queue) \subseteq 0 .. count - 1
         /\ phase = "running" => /\ curr \in 0 .. count - 1
                                 /\ curr \notin ToSet(queue) \cup blocked \cup Dead
         /\ blocked \cap Dead = {}
<1>1. count \in 0 .. MaxCords
  BY DEF ChInv, BraidInv, TypeOK
<1>2. 0 .. count - 1 \subseteq Cords
  BY <1>1, MaxCordsAssumption DEF Cords
<1>3. ToSet(queue) \subseteq blocked \cup Dead
  BY DEF ChInv, WaitersReachable
<1>4. blocked \cup Dead \subseteq 0 .. count - 1
  BY DEF ChInv, BraidInv, Accounted, Dead
<1>5. phase = "running" => curr \in 0 .. count - 1 /\ curr \notin blocked \cup Dead
  BY DEF ChInv, BraidInv, Accounted, Running, Dead
<1>6. blocked \cap Dead = {}
  BY DEF ChInv, BraidInv, Accounted, Dead
<1> QED BY <1>2, <1>3, <1>4, <1>5, <1>6

-----------------------------------------------------------------------------
(* Every call keeps the invariant. *)

(* A call of the scheduler that wakes nobody and blocks nobody leaves the  *)
(* channel as it is: who dies leaves the blocked cords, nothing more.      *)
LEMMA OthersKeepChInv ==
  ASSUME ChInv, BraidInv',
         Dead \subseteq Dead',
         blocked' = blocked \ Dead',
         0 .. count - 1 \subseteq 0 .. count' - 1,
         UNCHANGED <<val, chVars>>
  PROVE  ChInv'
<1>1. UNCHANGED <<closed, chfreed, queue, elts, receiving, val>>
  BY DEF chVars
<1>2. ChTypeOK'
  BY <1>1 DEF ChInv, ChTypeOK
<1>3. WaitersReachable'
  BY <1>1 DEF ChInv, WaitersReachable
<1>4. OneKindWaits' /\ ReceiversWait'
  BY <1>1 DEF ChInv, OneKindWaits, ReceiversWait, IsRecv
<1>5. EltsOwned'
  BY <1>1 DEF ChInv, EltsOwned
<1>6. ValuesReady'
  BY <1>1 DEF ChInv, ValuesReady, IsSend
<1> QED BY <1>2, <1>3, <1>4, <1>5, <1>6 DEF ChInv

(* The elts that chsend skips belong to receivers that have been halted.   *)
LEMMA SkippedAreDead ==
  ASSUME ChInv, NEW k \in 0 .. Len(queue), Stale(k)
  PROVE  /\ Rest(k) \in Seq(Cords)
         /\ IsInjective(Rest(k))
         /\ ToSet(Rest(k)) = ToSet(queue) \ Skipped(k)
         /\ Len(Rest(k)) = Len(queue) - k
         /\ k < Len(queue) => Rest(k) # << >> /\ Head(Rest(k)) = queue[k + 1]
         /\ Skipped(k) \subseteq ToSet(queue) \cap Dead \cap receiving
         /\ \A c \in Skipped(k) : IsRecv(c)
<1>1. queue \in Seq(Cords) /\ IsInjective(queue)
  BY DEF ChInv, ChTypeOK, WaitersReachable
<1>2. /\ Rest(k) \in Seq(Cords)
      /\ Len(Rest(k)) = Len(queue) - k
      /\ \A i \in 1 .. Len(queue) - k : Rest(k)[i] = queue[k + i]
      /\ Skipped(k) = {queue[i] : i \in 1 .. k}
      /\ ToSet(Rest(k)) = {queue[i] : i \in k + 1 .. Len(queue)}
      /\ IsInjective(Rest(k))
  <2>1. Rest(k) = SubSeq(queue, k + 1, Len(queue)) /\ Skipped(k) = ToSet(SubSeq(queue, 1, k))
    BY DEF Rest, Skipped
  <2> QED BY <1>1, <2>1, CutElements
<1>3. Len(queue) \in Nat /\ DOMAIN queue = 1 .. Len(queue)
  BY <1>1, LenProperties
<1> HIDE DEF Rest, Skipped
<1>4. ToSet(queue) = {queue[i] : i \in 1 .. Len(queue)}
  BY <1>3 DEF ToSet
<1>5. ToSet(Rest(k)) = ToSet(queue) \ Skipped(k)
  <2>1. \A i \in 1 .. k, j \in k + 1 .. Len(queue) : queue[i] # queue[j]
    BY <1>1, <1>3 DEF IsInjective
  <2>2. 1 .. Len(queue) = (1 .. k) \cup (k + 1 .. Len(queue))
    BY <1>3
  <2>3. ToSet(queue) = Skipped(k) \cup ToSet(Rest(k))
    BY <1>2, <1>4, <2>2
  <2>4. Skipped(k) \cap ToSet(Rest(k)) = {}
    BY <1>2, <2>1
  <2> QED BY <2>3, <2>4
<1>6. k < Len(queue) => Rest(k) # << >> /\ Head(Rest(k)) = queue[k + 1]
  BY <1>2, <1>3
<1>7. ASSUME NEW i \in 1 .. k
      PROVE  /\ queue[i] \in ToSet(queue)
             /\ IsRecv(queue[i])
             /\ queue[i] \in Dead
             /\ queue[i] \in receiving
  <2>1. queue[i] \in ToSet(queue)
    BY <1>3, <1>4
  <2>2. IsRecv(queue[i]) /\ queue[i] \notin blocked
    BY DEF Stale
  <2> QED BY <2>1, <2>2 DEF ChInv, WaitersReachable, ReceiversWait
<1> QED BY <1>2, <1>5, <1>6, <1>7

(* chsend hands d to r, after it has dropped the elts of the halted        *)
(* receivers in skip.                                                      *)
HandsTo(r, skip, d) ==
  /\ r \in ToSet(queue) \cap Cords \cap blocked \cap receiving \cap DOMAIN elts
  /\ r \notin skip
  /\ IsRecv(r)
  /\ skip \subseteq ToSet(queue) \cap Dead \cap receiving
  /\ queue' \in Seq(Cords)
  /\ IsInjective(queue')
  /\ ToSet(queue)' = ToSet(queue) \ (skip \cup {r})
  /\ elts' \in [(DOMAIN elts \ skip) \cup {r} -> Elt]
  /\ elts'[r].type = "RECV" /\ elts'[r].val = d
  /\ \A x \in (DOMAIN elts \ skip) \ {r} : elts'[x] = elts[x]
  /\ UNCHANGED <<zombies, freed, count, closed, chfreed, receiving, got>>
  /\ Dead' = Dead
  /\ blocked' = blocked \ {r}
  /\ val' = [val EXCEPT ![r] = 1]
  /\ ~closed /\ ~chfreed

LEMMA SendHandsOverFacts ==
  ASSUME ChInv, NEW d \in Data, SendHandsOver(d)
  PROVE  BraidInv' /\ \E r, skip : HandsTo(r, skip, d)
<1>1. PICK k \in DOMAIN queue :
        /\ Stale(k - 1) /\ IsRecv(queue[k])
        /\ Unblock(queue[k], 1)
        /\ queue' = Rest(k)
        /\ elts' = WithElt(Freed(elts, Skipped(k - 1)), queue[k], "RECV", d)
  BY DEF SendHandsOver
<1> DEFINE r == queue[k]
           skip == Skipped(k - 1)
<1>2. queue \in Seq(Cords) /\ IsInjective(queue) /\ elts \in [DOMAIN elts -> Elt]
  BY DEF ChInv, ChTypeOK, WaitersReachable
<1>3. /\ Len(queue) \in Nat /\ DOMAIN queue = 1 .. Len(queue)
      /\ k \in 1 .. Len(queue) /\ k - 1 \in 0 .. Len(queue) /\ k \in 0 .. Len(queue)
      /\ r \in Cords /\ r \in ToSet(queue)
  BY <1>2, LenProperties DEF ToSet
<1>4. /\ skip \subseteq ToSet(queue) \cap Dead \cap receiving
      /\ \A c \in skip : IsRecv(c)
  BY <1>1, <1>3, SkippedAreDead
<1>5. r \notin skip
  BY <1>1, <1>4, ChFacts DEF Unblock
<1>6. /\ queue' \in Seq(Cords)
      /\ IsInjective(queue')
      /\ ToSet(queue') = ToSet(queue) \ (skip \cup {r})
  <2>1. /\ Rest(k) \in Seq(Cords)
        /\ IsInjective(Rest(k))
        /\ ToSet(Rest(k)) = {queue[i] : i \in k + 1 .. Len(queue)}
    BY <1>2, <1>3, CutElements DEF Rest
  <2>2. skip = {queue[i] : i \in 1 .. k - 1}
    BY <1>2, <1>3, CutElements DEF Skipped
  <2>3. ToSet(queue) = {queue[i] : i \in 1 .. Len(queue)}
    BY <1>3 DEF ToSet
  <2>4. \A i, j \in 1 .. Len(queue) : queue[i] = queue[j] => i = j
    BY <1>2, <1>3 DEF IsInjective
  <2>5. \A i \in 1 .. Len(queue) : i \in 1 .. k - 1 \/ i = k \/ i \in k + 1 .. Len(queue)
    BY <1>3
  <2> HIDE DEF skip
  <2>6. ToSet(Rest(k)) \subseteq ToSet(queue) \ (skip \cup {r})
    BY <2>1, <2>2, <2>3, <2>4, <1>3
  <2>7. ToSet(queue) \ (skip \cup {r}) \subseteq ToSet(Rest(k))
    BY <2>1, <2>2, <2>3, <2>5, <1>3
  <2> QED BY <1>1, <2>1, <2>6, <2>7
<1>7. /\ elts' \in [(DOMAIN elts \ skip) \cup {r} -> Elt]
      /\ elts'[r].type = "RECV" /\ elts'[r].val = d
      /\ \A x \in (DOMAIN elts \ skip) \ {r} : elts'[x] = elts[x]
  <2> DEFINE es == Freed(elts, skip)
  <2> HIDE DEF skip, r
  <2>1. elts' = WithElt(es, r, "RECV", d)
    BY <1>1 DEF skip, r
  <2>2. /\ DOMAIN es = DOMAIN elts \ skip
        /\ es \in [DOMAIN es -> Elt]
        /\ \A x \in DOMAIN elts \ skip : es[x] = elts[x]
    BY <1>2, FreedShape
  <2> HIDE DEF es
  <2>3. d \in Data \cup {NONE}
    OBVIOUS
  <2> HIDE DEF es
  <2> QED BY <2>1, <2>2, <2>3 DEF WithElt, Elt
<1>8. /\ UNCHANGED <<zombies, freed, count, closed, chfreed, receiving, got>>
      /\ blocked' = blocked \ {r} /\ r \in blocked
      /\ val' = [val EXCEPT ![r] = 1]
      /\ ~closed /\ ~chfreed
  BY <1>1 DEF SendHandsOver, Unblock, Calling
<1>9. BraidInv'
  <2>1. 1 \in Vals
    BY ChannelAssumption
  <2> QED BY <1>1, <1>3, <2>1, UnblockKeepsInv DEF ChInv
<1>10. Dead' = Dead
  BY <1>8 DEF Dead
<1>11. r \in receiving /\ r \in DOMAIN elts
  BY <1>1, <1>3 DEF ChInv, ReceiversWait, EltsOwned
<1>12. ToSet(queue)' = ToSet(queue) \ (skip \cup {r}) /\ IsRecv(r)
  BY <1>1, <1>6
<1> HIDE DEF r, skip
<1>13. HandsTo(r, skip, d)
  BY <1>3, <1>4, <1>5, <1>6, <1>7, <1>8, <1>10, <1>11, <1>12 DEF HandsTo
<1> QED BY <1>9, <1>13

LEMMA SendHandsOverKeepsChInv ==
  ASSUME ChInv, NEW d \in Data, SendHandsOver(d)
  PROVE  ChInv'
<1>1. BraidInv'
  BY SendHandsOverFacts
<1>2. PICK r, skip : HandsTo(r, skip, d)
  BY SendHandsOverFacts
<1> DEFINE Q == ToSet(queue)
<1>3. /\ r \in Q \cap Cords \cap blocked \cap receiving \cap DOMAIN elts /\ r \notin skip
      /\ skip \subseteq Q \cap Dead \cap receiving
      /\ queue' \in Seq(Cords) /\ IsInjective(queue') /\ ToSet(queue)' = Q \ (skip \cup {r})
      /\ UNCHANGED <<count, closed, chfreed, receiving>>
      /\ Dead' = Dead /\ blocked' = blocked \ {r} /\ val' = [val EXCEPT ![r] = 1]
      /\ ~chfreed
  BY <1>2 DEF HandsTo
<1>4. /\ elts' \in [(DOMAIN elts \ skip) \cup {r} -> Elt]
      /\ elts'[r].type = "RECV" /\ elts'[r].val = d
      /\ \A x \in (DOMAIN elts \ skip) \ {r} : elts'[x] = elts[x]
  BY <1>2 DEF HandsTo
<1>5. val \in [Cords -> Vals] /\ receiving \subseteq Cords
  BY ChFacts DEF ChInv, BraidInv, TypeOK, ChTypeOK
<1> HIDE DEF Q
<1>6. ChTypeOK'
  BY <1>3, <1>4 DEF ChInv, ChTypeOK
<1>7. \A c \in ToSet(queue)' : c \in Q /\ c \in (DOMAIN elts \ skip) \ {r}
  BY <1>3 DEF ChInv, EltsOwned, Q
<1>8. OneKindWaits' /\ ReceiversWait'
  BY <1>4, <1>3, <1>7 DEF ChInv, OneKindWaits, ReceiversWait, IsRecv, Q
<1>9. WaitersReachable'
  BY <1>3 DEF ChInv, WaitersReachable, Q
<1>10. EltsOwned'
  <2>1. DOMAIN elts' = (DOMAIN elts \ skip) \cup {r}
    BY <1>4
  <2> QED BY <1>3, <2>1 DEF ChInv, EltsOwned, Q
<1>11. ValuesReady'
  <2>1. ASSUME NEW c \in receiving \ (ToSet(queue)' \cup Dead), val'[c] # 0
        PROVE  elts'[c].val # NONE
    <3>1. CASE c = r
      BY <1>4, <3>1, ChannelAssumption
    <3>2. CASE c # r
      <4>1. c \notin skip /\ c \notin Q
        BY <1>3, <2>1, <3>2
      <4>2. val[c] # 0 /\ c \in DOMAIN elts
        BY <1>3, <1>5, <2>1, <3>2 DEF ChInv, EltsOwned
      <4> QED BY <1>4, <2>1, <3>2, <4>1, <4>2 DEF ChInv, ValuesReady, Q
    <3> QED BY <3>1, <3>2
  <2>2. ASSUME NEW c \in ToSet(queue)' PROVE elts'[c].val # NONE <=> IsSend(c)'
    BY <1>4, <1>7 DEF ChInv, ValuesReady, IsSend, Q
  <2> QED BY <1>3, <2>1, <2>2 DEF ValuesReady
<1> QED BY <1>1, <1>6, <1>8, <1>9, <1>10, <1>11 DEF ChInv

(* The caller of braidblock is the only one whose state changes, but for   *)
(* the cord that gets the processor.                                       *)
LEMMA BlockFacts ==
  ASSUME ChInv, Block
  PROVE  /\ BraidInv'
         /\ blocked' = blocked \cup {curr}
         /\ Dead' = Dead
         /\ UNCHANGED <<val, count>>
         /\ curr \in 0 .. count - 1
         /\ curr \notin ToSet(queue) \cup blocked \cup Dead
<1>1. BraidInv'
  BY SwitchKeepsInv DEF ChInv
<1>2. blocked' = blocked \cup {curr} /\ zombies' \cup freed' = zombies \cup freed
  BY ScheduleLists DEF Block
<1>3. phase = "running" /\ UNCHANGED <<val, count>>
  BY DEF Block
<1> QED BY <1>1, <1>2, <1>3, ChFacts DEF Dead

(* All that wait are senders, or all are receivers, as the first one is.   *)
LEMMA FirstTellsAll ==
  ASSUME ChInv
  PROVE  /\ SenderFirst => /\ \A c \in ToSet(queue) : IsSend(c) /\ ~IsRecv(c) /\ c \notin receiving
                           /\ Head(queue) \in ToSet(queue)
         /\ ~SenderFirst => \A c \in ToSet(queue) : IsRecv(c) /\ ~IsSend(c) /\ c \in receiving
<1>1. queue \in Seq(Cords)
  BY DEF ChInv, ChTypeOK
<1>2. queue # << >> => Head(queue) \in ToSet(queue)
  BY <1>1, TailElements
<1>3. \A c \in ToSet(queue) : elts[c].type \in {"SEND", "RECV"}
  BY DEF ChInv, ChTypeOK, EltsOwned, Elt
<1>4. queue = << >> => ToSet(queue) = {}
  BY DEF ToSet
<1> QED BY <1>2, <1>3, <1>4
        DEF ChInv, OneKindWaits, ReceiversWait, SenderFirst, IsSend, IsRecv

LEMMA SendWaitsKeepsChInv ==
  ASSUME ChInv, NEW d \in Data, SendWaits(d)
  PROVE  ChInv'
<1>1. PICK k \in 0 .. Len(queue) :
        /\ Stale(k)
        /\ Rest(k) # << >> => IsSend(Head(Rest(k)))
        /\ queue' = Append(Rest(k), curr)
        /\ elts' = WithElt(Freed(elts, Skipped(k)), curr, "SEND", d)
  BY DEF SendWaits
<1> DEFINE skip == Skipped(k)
           Q == ToSet(queue)
           R == ToSet(Rest(k))
<1>2. /\ BraidInv'
      /\ blocked' = blocked \cup {curr}
      /\ Dead' = Dead
      /\ UNCHANGED <<val, count, closed, chfreed, receiving>>
      /\ curr \in 0 .. count - 1
      /\ curr \notin Q \cup blocked \cup Dead
      /\ curr \notin receiving
      /\ ~chfreed
  BY BlockFacts DEF SendWaits, Calling, Ready
<1>3. 0 .. count - 1 \subseteq Cords
  BY ChFacts
<1>4. /\ Rest(k) \in Seq(Cords)
      /\ IsInjective(Rest(k))
      /\ R = Q \ skip
      /\ skip \subseteq Q \cap Dead \cap receiving
  BY <1>1, SkippedAreDead
<1>5. /\ queue' \in Seq(Cords)
      /\ IsInjective(queue')
      /\ ToSet(queue)' = R \cup {curr}
  BY <1>1, <1>2, <1>3, <1>4, AppendElements
<1>6. \A c \in R : IsSend(c)
  <2>1. CASE Rest(k) = << >>
    BY <2>1 DEF ToSet
  <2>2. CASE Rest(k) # << >>
    <3>1. Head(Rest(k)) \in R
      BY <1>4, <2>2, TailElements
    <3> QED BY <1>1, <1>4, <2>2, <3>1 DEF ChInv, OneKindWaits, IsSend
  <2> QED BY <2>1, <2>2
<1>7. /\ elts' \in [(DOMAIN elts \ skip) \cup {curr} -> Elt]
      /\ elts'[curr].type = "SEND" /\ elts'[curr].val = d
      /\ \A x \in (DOMAIN elts \ skip) \ {curr} : elts'[x] = elts[x]
  <2> DEFINE es == Freed(elts, skip)
  <2>1. elts' = WithElt(es, curr, "SEND", d)
    BY <1>1
  <2> HIDE DEF skip
  <2>2. /\ DOMAIN es = DOMAIN elts \ skip
        /\ es \in [DOMAIN es -> Elt]
        /\ \A x \in DOMAIN elts \ skip : es[x] = elts[x]
    BY FreedShape DEF ChInv, ChTypeOK
  <2>3. d \in Data \cup {NONE}
    OBVIOUS
  <2> HIDE DEF es
  <2> QED BY <2>1, <2>2, <2>3 DEF WithElt, Elt
<1>8. \A c \in R : c \in (DOMAIN elts \ skip) \ {curr} /\ c \in Q /\ ~IsRecv(c)
  BY <1>2, <1>4, <1>6 DEF ChInv, EltsOwned, IsSend, IsRecv
<1> HIDE DEF skip, Q, R
<1>9. ChTypeOK'
  <2>1. DOMAIN elts' \subseteq Cords
    BY <1>2, <1>3, <1>7 DEF ChInv, ChTypeOK
  <2> QED BY <1>2, <1>5, <1>7, <2>1 DEF ChInv, ChTypeOK
<1>10. OneKindWaits'
  <2>1. \A c \in ToSet(queue)' : elts'[c].type = "SEND"
    BY <1>5, <1>6, <1>7, <1>8 DEF IsSend
  <2> QED BY <2>1 DEF OneKindWaits
<1>11. ReceiversWait'
  <2>1. \A c \in ToSet(queue)' : elts'[c].type # "RECV" /\ c \notin receiving
    BY <1>2, <1>5, <1>6, <1>7, <1>8 DEF ChInv, ReceiversWait, IsSend, Q
  <2> QED BY <1>2, <2>1 DEF ReceiversWait, IsRecv
<1>12. WaitersReachable'
  BY <1>2, <1>4, <1>5 DEF ChInv, WaitersReachable, Q
<1>13. EltsOwned'
  <2>1. DOMAIN elts' = (DOMAIN elts \ skip) \cup {curr}
    BY <1>7
  <2> QED BY <1>2, <1>4, <1>5, <1>8, <2>1 DEF ChInv, EltsOwned, Q
<1>14. ValuesReady'
  <2>1. ASSUME NEW c \in receiving \ (ToSet(queue)' \cup Dead), val[c] # 0
        PROVE  elts'[c].val # NONE
    <3>1. c \notin Q /\ c \notin skip /\ c # curr
      BY <1>2, <1>4, <1>5, <2>1
    <3>2. c \in DOMAIN elts /\ elts[c].val # NONE
      BY <2>1, <3>1 DEF ChInv, ValuesReady, EltsOwned, Q
    <3> QED BY <1>7, <3>1, <3>2
  <2>2. ASSUME NEW c \in ToSet(queue)' PROVE elts'[c].val # NONE /\ elts'[c].type = "SEND"
    BY <1>5, <1>6, <1>7, <1>8, ChannelAssumption DEF ChInv, ValuesReady, IsSend, Q
  <2> QED BY <1>2, <2>1, <2>2 DEF ValuesReady, IsSend
<1> QED BY <1>2, <1>9, <1>10, <1>11, <1>12, <1>13, <1>14 DEF ChInv

LEMMA RecvTakesKeepsChInv ==
  ASSUME ChInv, RecvTakes
  PROVE  ChInv'
<1> DEFINE s == Head(queue)
           Q == ToSet(queue)
<1>1. /\ SenderFirst
      /\ queue' = Tail(queue)
      /\ elts' = Freed(elts, {s})
      /\ Unblock(s, 0) \/ (s \notin blocked /\ UNCHANGED vars)
      /\ UNCHANGED <<closed, chfreed, receiving>>
      /\ ~chfreed
  BY DEF RecvTakes, Calling
<1>2. queue \in Seq(Cords) /\ IsInjective(queue) /\ queue # << >>
  BY <1>1 DEF ChInv, ChTypeOK, WaitersReachable, SenderFirst
<1>3. /\ queue' \in Seq(Cords)
      /\ IsInjective(queue')
      /\ ToSet(queue)' = Q \ {s}
      /\ s \in Cords /\ s \in Q
  BY <1>1, <1>2, TailElements
<1>4. \A c \in Q : IsSend(c) /\ c \notin receiving
  BY <1>1, FirstTellsAll
<1>5. /\ DOMAIN elts' = DOMAIN elts \ {s}
      /\ elts' \in [DOMAIN elts' -> Elt]
      /\ \A x \in DOMAIN elts \ {s} : elts'[x] = elts[x]
  BY <1>1, FreedShape DEF ChInv, ChTypeOK
<1>6. /\ BraidInv'
      /\ UNCHANGED <<zombies, freed, count>>
      /\ blocked' = blocked \ {s}
      /\ \A c \in Cords \ {s} : val'[c] = val[c]
  <2>1. CASE Unblock(s, 0)
    <3>1. BraidInv'
      BY <1>3, <2>1, ValsAssumption, UnblockKeepsInv DEF ChInv
    <3> QED BY <2>1, <3>1 DEF Unblock, ChInv, BraidInv, TypeOK
  <2>2. CASE s \notin blocked /\ UNCHANGED vars
    <3>1. BraidInv'
      BY <2>2, BraidInvStep DEF ChInv
    <3> QED BY <2>2, <3>1 DEF vars
  <2> QED BY <1>1, <2>1, <2>2
<1>7. Dead' = Dead
  BY <1>6 DEF Dead
<1>8. receiving \subseteq Cords
  BY ChFacts DEF ChInv, ChTypeOK
<1> HIDE DEF s, Q
<1>9. \A c \in ToSet(queue)' : c \in Q /\ c \in DOMAIN elts \ {s}
  BY <1>3 DEF ChInv, EltsOwned, Q
<1>10. ChTypeOK'
  BY <1>1, <1>3, <1>5, <1>6 DEF ChInv, ChTypeOK
<1>11. OneKindWaits' /\ ReceiversWait'
  <2>1. \A c \in ToSet(queue)' : c \in Q /\ elts'[c].type = elts[c].type
    BY <1>5, <1>9
  <2>2. OneKindWaits'
    BY <2>1 DEF ChInv, OneKindWaits, Q
  <2>3. ReceiversWait'
    BY <1>1, <2>1 DEF ChInv, ReceiversWait, IsRecv, Q
  <2> QED BY <2>2, <2>3
<1>12. WaitersReachable'
  BY <1>1, <1>3, <1>6, <1>7 DEF ChInv, WaitersReachable, Q
<1>13. EltsOwned'
  BY <1>1, <1>3, <1>4, <1>5, <1>7 DEF ChInv, EltsOwned, Q
<1>14. ValuesReady'
  <2>1. ASSUME NEW c \in receiving \ (ToSet(queue)' \cup Dead), val'[c] # 0
        PROVE  elts'[c].val # NONE
    <3>1. c # s /\ c \notin Q /\ val[c] # 0 /\ c \in DOMAIN elts
      BY <1>3, <1>4, <1>6, <1>8, <2>1 DEF ChInv, EltsOwned
    <3> QED BY <1>5, <2>1, <3>1 DEF ChInv, ValuesReady, Q
  <2>2. ASSUME NEW c \in ToSet(queue)' PROVE elts'[c].val # NONE <=> IsSend(c)'
    BY <1>5, <1>9 DEF ChInv, ValuesReady, IsSend, Q
  <2> QED BY <1>1, <1>7, <2>1, <2>2 DEF ValuesReady
<1> QED BY <1>6, <1>10, <1>11, <1>12, <1>13, <1>14 DEF ChInv

LEMMA RecvWaitsKeepsChInv ==
  ASSUME ChInv, RecvWaits
  PROVE  ChInv'
<1> DEFINE Q == ToSet(queue)
<1>1. /\ ~SenderFirst
      /\ queue' = Append(queue, curr)
      /\ elts' = WithElt(elts, curr, "RECV", NONE)
      /\ receiving' = receiving \cup {curr}
      /\ UNCHANGED <<closed, chfreed>>
      /\ ~chfreed
      /\ curr \notin receiving
  BY DEF RecvWaits, Calling, Ready
<1>2. /\ BraidInv'
      /\ blocked' = blocked \cup {curr}
      /\ Dead' = Dead
      /\ UNCHANGED <<val, count>>
      /\ curr \in 0 .. count - 1
      /\ curr \notin Q \cup blocked \cup Dead
  BY BlockFacts DEF RecvWaits
<1>3. curr \in Cords
  BY <1>2, ChFacts
<1>4. /\ queue' \in Seq(Cords)
      /\ IsInjective(queue')
      /\ ToSet(queue)' = Q \cup {curr}
  BY <1>1, <1>2, <1>3, AppendElements DEF ChInv, ChTypeOK, WaitersReachable
<1>5. /\ elts' \in [DOMAIN elts \cup {curr} -> Elt]
      /\ elts'[curr].type = "RECV" /\ elts'[curr].val = NONE
      /\ \A x \in DOMAIN elts \ {curr} : elts'[x] = elts[x]
  BY <1>1 DEF WithElt, Elt, ChInv, ChTypeOK
<1>6. \A c \in Q : IsRecv(c) /\ ~IsSend(c) /\ c \in receiving
  BY <1>1, FirstTellsAll
<1>7. \A c \in Q : c \in DOMAIN elts \ {curr} /\ elts'[c] = elts[c]
  BY <1>2, <1>5 DEF ChInv, EltsOwned
<1> HIDE DEF Q
<1>8. ChTypeOK'
  <2>1. DOMAIN elts' \subseteq Cords
    BY <1>3, <1>5 DEF ChInv, ChTypeOK
  <2> QED BY <1>1, <1>2, <1>4, <1>5, <2>1 DEF ChInv, ChTypeOK
<1>9. \A c \in ToSet(queue)' : elts'[c].type = "RECV" /\ elts'[c].val = NONE
  BY <1>4, <1>5, <1>6, <1>7 DEF ChInv, ValuesReady, IsRecv, Q
<1>10. OneKindWaits'
  BY <1>9 DEF OneKindWaits
<1>11. ReceiversWait'
  BY <1>1, <1>4, <1>6, <1>9 DEF ReceiversWait, IsRecv
<1>12. WaitersReachable'
  BY <1>1, <1>2, <1>4 DEF ChInv, WaitersReachable, Q
<1>13. EltsOwned'
  <2>1. DOMAIN elts' = DOMAIN elts \cup {curr}
    BY <1>5
  <2> QED BY <1>1, <1>2, <1>4, <2>1 DEF ChInv, EltsOwned, Q
<1>14. ValuesReady'
  <2>1. ASSUME NEW c \in receiving' \ (ToSet(queue)' \cup Dead), val[c] # 0
        PROVE  elts'[c].val # NONE
    <3>1. c # curr /\ c \in receiving /\ c \notin Q
      BY <1>1, <1>4, <2>1
    <3>2. c \in DOMAIN elts /\ elts[c].val # NONE
      BY <2>1, <3>1 DEF ChInv, ValuesReady, EltsOwned, Q
    <3> QED BY <1>5, <3>1, <3>2
  <2> QED BY <1>2, <1>9, <2>1 DEF ValuesReady, IsSend
<1> QED BY <1>2, <1>8, <1>10, <1>11, <1>12, <1>13, <1>14 DEF ChInv

LEMMA RecvReturnsKeepsChInv ==
  ASSUME ChInv, RecvReturns
  PROVE  ChInv'
<1>1. /\ phase = "running" /\ curr \in receiving
      /\ elts' = Freed(elts, {curr})
      /\ receiving' = receiving \ {curr}
      /\ UNCHANGED <<closed, chfreed, queue>> /\ UNCHANGED vars
  BY DEF RecvReturns
<1>2. UNCHANGED <<val, count, blocked>> /\ Dead' = Dead /\ BraidInv'
  <2>1. BraidInv'
    BY <1>1, BraidInvStep DEF ChInv
  <2> QED BY <1>1, <2>1 DEF vars, Dead
<1>3. curr \notin ToSet(queue)
  BY <1>1, ChFacts
<1>4. /\ DOMAIN elts' = DOMAIN elts \ {curr}
      /\ elts' \in [DOMAIN elts' -> Elt]
      /\ \A x \in DOMAIN elts \ {curr} : elts'[x] = elts[x]
  BY <1>1, FreedShape DEF ChInv, ChTypeOK
<1>5. \A c \in ToSet(queue) : elts'[c] = elts[c]
  BY <1>3, <1>4 DEF ChInv, EltsOwned
<1>6. ChTypeOK'
  BY <1>1, <1>2, <1>4 DEF ChInv, ChTypeOK
<1>7. OneKindWaits' /\ ReceiversWait'
  BY <1>1, <1>3, <1>5 DEF ChInv, OneKindWaits, ReceiversWait, IsRecv
<1>8. WaitersReachable'
  BY <1>1, <1>2 DEF ChInv, WaitersReachable
<1>9. EltsOwned'
  BY <1>1, <1>2, <1>3, <1>4 DEF ChInv, EltsOwned
<1>10. ValuesReady'
  <2>1. ASSUME NEW c \in receiving' \ (ToSet(queue) \cup Dead), val[c] # 0
        PROVE  elts'[c].val # NONE
    <3>1. c \in DOMAIN elts \ {curr} /\ elts[c].val # NONE
      BY <1>1, <2>1 DEF ChInv, ValuesReady, EltsOwned
    <3> QED BY <1>4, <3>1
  <2>2. ASSUME NEW c \in ToSet(queue) PROVE elts'[c].val # NONE <=> IsSend(c)'
    BY <1>5 DEF ChInv, ValuesReady, IsSend
  <2> QED BY <1>1, <1>2, <2>1, <2>2 DEF ValuesReady
<1> QED BY <1>2, <1>6, <1>7, <1>8, <1>9, <1>10 DEF ChInv

LEMMA CloseKeepsSendersKeepsChInv ==
  ASSUME ChInv, CloseKeepsSenders
  PROVE  ChInv'
<1>1. UNCHANGED <<chfreed, queue, elts, receiving>> /\ UNCHANGED vars /\ closed' = TRUE
  BY DEF CloseKeepsSenders
<1>2. UNCHANGED <<val, count, blocked>> /\ Dead' = Dead /\ BraidInv'
  <2>1. BraidInv'
    BY <1>1, BraidInvStep DEF ChInv
  <2> QED BY <1>1, <2>1 DEF vars, Dead
<1>3. ChTypeOK'
  BY <1>1, <1>2 DEF ChInv, ChTypeOK
<1>4. OneKindWaits' /\ ReceiversWait'
  BY <1>1 DEF ChInv, OneKindWaits, ReceiversWait, IsRecv
<1>5. WaitersReachable' /\ EltsOwned'
  BY <1>1, <1>2 DEF ChInv, WaitersReachable, EltsOwned
<1>6. ValuesReady'
  BY <1>1, <1>2 DEF ChInv, ValuesReady, IsSend
<1> QED BY <1>2, <1>3, <1>4, <1>5, <1>6 DEF ChInv

(* chclose wakes every receiver that is still there, in the order of the   *)
(* queue.                                                                  *)
LEMMA CloseFreesFacts ==
  ASSUME BraidInv, queue \in Seq(Cords), IsInjective(queue), CloseFrees
  PROVE  /\ BraidInv'
         /\ ToSet(Woken(queue)) = ToSet(queue) \cap blocked
<1>1. /\ runable' = runable \o Woken(queue)
      /\ blocked' = blocked \ ToSet(queue)
      /\ val' = [c \in Cords |-> IF c \in ToSet(Woken(queue)) THEN 0 ELSE val[c]]
      /\ phase = "running"
      /\ UNCHANGED <<phase, curr, zombies, freed, started, flags, count>>
  BY DEF CloseFrees, Calling, Ready
<1>2. /\ runable' \in Seq(Cords)
      /\ IsInjective(runable')
      /\ ToSet(runable') = ToSet(runable) \cup (ToSet(queue) \cap blocked)
      /\ ToSet(Woken(queue)) = ToSet(queue) \cap blocked
  BY <1>1, WokenJoin
<1>3. TypeOK'
  BY <1>1, <1>2, ValsAssumption DEF BraidInv, TypeOK
<1>4. Running' = Running
  BY <1>1 DEF Running
<1>5. Accounted'
  BY <1>1, <1>2, <1>4 DEF BraidInv, Accounted
<1> QED BY <1>1, <1>2, <1>3, <1>5 DEF BraidInv, ClearedWhenDone, ShutdownJustified

LEMMA CloseFreesKeepsChInv ==
  ASSUME ChInv, CloseFrees
  PROVE  ChInv'
<1> DEFINE Q == ToSet(queue)
           W == ToSet(Woken(queue))
<1>1. /\ phase = "running" /\ ~SenderFirst
      /\ blocked' = blocked \ Q
      /\ val' = [c \in Cords |-> IF c \in W THEN 0 ELSE val[c]]
      /\ closed' = (closed \/ queue # << >>)
      /\ chfreed' = TRUE
      /\ queue' = << >>
      /\ UNCHANGED <<elts, receiving>>
      /\ UNCHANGED <<zombies, freed, count>>
  BY DEF CloseFrees, Calling, Ready
<1>2. BraidInv' /\ W = Q \cap blocked
  BY CloseFreesFacts DEF ChInv, ChTypeOK, WaitersReachable
<1> HIDE DEF Q, W
<1>6. Dead' = Dead /\ Q \subseteq blocked \cup Dead
  BY <1>1, ChFacts DEF Dead, Q
<1>7. ToSet(queue)' = {} /\ queue' \in Seq(Cords) /\ IsInjective(queue')
  BY <1>1 DEF ToSet, IsInjective
<1>8. Q \subseteq receiving
  BY <1>1, FirstTellsAll DEF Q
<1>9. ChTypeOK'
  BY <1>1, <1>7 DEF ChInv, ChTypeOK
<1>10. OneKindWaits' /\ ReceiversWait'
  BY <1>7 DEF OneKindWaits, ReceiversWait
<1>11. WaitersReachable'
  BY <1>1, <1>6, <1>7 DEF ChInv, WaitersReachable, Q
<1>12. EltsOwned'
  BY <1>1, <1>6, <1>7, <1>8 DEF ChInv, EltsOwned, Q
<1>13. ValuesReady'
  <2>1. ASSUME NEW c \in receiving \ Dead, val'[c] # 0 PROVE elts[c].val # NONE
    <3>1. c \in Cords
      BY ChFacts DEF ChInv, ChTypeOK
    <3>2. c \notin W /\ val[c] # 0
      BY <1>1, <2>1, <3>1
    <3>3. c \notin Q
      BY <1>2, <1>6, <2>1, <3>2
    <3> QED BY <2>1, <3>2, <3>3 DEF ChInv, ValuesReady, Q
  <2> QED BY <1>1, <1>6, <1>7, <2>1 DEF ValuesReady
<1> QED BY <1>2, <1>9, <1>10, <1>11, <1>12, <1>13 DEF ChInv

LEMMA ChReturnKeepsChInv ==
  ASSUME ChInv, ChReturn
  PROVE  ChInv'
<1>1. /\ Return /\ chfreed' = TRUE /\ queue' = << >> /\ elts' = << >>
      /\ UNCHANGED <<closed, receiving>>
  BY DEF ChReturn
<1>2. BraidInv'
  BY <1>1, ReturnKeepsInv DEF ChInv
<1>3. /\ ToSet(queue)' = {} /\ queue' \in Seq(Cords) /\ IsInjective(queue')
      /\ DOMAIN elts' = {} /\ elts' \in [{} -> Elt]
  BY <1>1 DEF ToSet, IsInjective
<1>4. phase' = "done" /\ runable' = << >> /\ blocked' = {} /\ zombies' = {} /\ count' = count
  BY <1>1 DEF Return
<1>5. Dead' = 0 .. count - 1
  <2>1. Running' = {} /\ ToSet(runable)' = {}
    BY <1>4 DEF Running, ToSet
  <2> QED BY <1>2, <1>4, <2>1 DEF BraidInv, Accounted, Dead
<1>6. ChTypeOK'
  BY <1>1, <1>3, <1>4 DEF ChInv, ChTypeOK
<1>7. OneKindWaits' /\ ReceiversWait'
  BY <1>3 DEF OneKindWaits, ReceiversWait
<1>8. WaitersReachable'
  BY <1>1, <1>3, <1>4 DEF WaitersReachable
<1>9. receiving' \subseteq Dead'
  BY <1>1, <1>5 DEF ChInv, ChTypeOK
<1>10. EltsOwned' /\ ValuesReady'
  BY <1>3, <1>9 DEF EltsOwned, ValuesReady
<1> QED BY <1>2, <1>6, <1>7, <1>8, <1>10 DEF ChInv

(* What the other calls do to the cords that the channel knows.            *)
LEMMA OthersFacts ==
  ASSUME ChInv, ChOthers
  PROVE  /\ BraidInv'
         /\ Dead \subseteq Dead'
         /\ blocked' = blocked \ Dead'
         /\ 0 .. count - 1 \subseteq 0 .. count' - 1
         /\ UNCHANGED <<val, chVars>>
<1>1. UNCHANGED chVars
  BY DEF ChOthers
<1>2. blocked \cap Dead = {}
  BY ChFacts
<1>3. CASE Add("normal")
  <2>1. BraidInv'
    BY <1>3, AddKeepsInv DEF ChInv, Flags
  <2>2. NextId = count /\ count \in Nat
    BY NextIdIsCount DEF ChInv, BraidInv, TypeOK
  <2>3. UNCHANGED <<blocked, zombies, freed, val>> /\ count' = count + 1
    BY <1>3, <2>2 DEF Add
  <2>4. 0 .. count - 1 \subseteq 0 .. count' - 1
    BY <2>2, <2>3
  <2> QED BY <1>1, <1>2, <2>1, <2>3, <2>4 DEF Dead
<1>4. CASE Start \/ Yield \/ Exit \/ Stop
  <2>1. BraidInv'
    BY <1>4, SwitchKeepsInv DEF ChInv
  <2>2. UNCHANGED <<val, count>>
    BY <1>4 DEF Start, Yield, Exit, Stop
  <2>3. blocked' = blocked /\ zombies \cup freed \subseteq zombies' \cup freed'
    <3>1. CASE Start
      BY <3>1, ScheduleLists DEF Start
    <3>2. CASE Yield
      BY <3>2, ScheduleLists DEF Yield
    <3>3. CASE Exit
      BY <3>3, ScheduleLists DEF Exit
    <3>4. CASE Stop
      <4>1. /\ blocked' = blocked
            /\ zombies' \cup freed' = (zombies \cup {curr}) \cup (freed \cup ToSet(runable))
        BY <3>4, ScheduleLists DEF Stop
      <4> QED BY <4>1
    <3> QED BY <1>4, <3>1, <3>2, <3>3, <3>4
  <2>4. blocked' \cap Dead' = {}
    BY <2>1 DEF BraidInv, Accounted, Dead
  <2> QED BY <1>1, <2>1, <2>2, <2>3, <2>4 DEF Dead
<1>5. ASSUME NEW c \in Cords, Halt(c)
      PROVE  /\ BraidInv'
             /\ Dead \subseteq Dead' /\ blocked' = blocked \ Dead'
             /\ UNCHANGED <<val, count>>
  <2>1. BraidInv'
    BY <1>5, HaltKeepsInv DEF ChInv
  <2>2. UNCHANGED <<freed, val, count>> /\ zombies' = zombies \cup {c}
    BY <1>5 DEF Halt, HaltRunable, HaltBlocked
  <2>3. blocked' = blocked \/ blocked' = blocked \ {c}
    BY <1>5 DEF Halt, HaltRunable, HaltBlocked
  <2>4. blocked' \cap Dead' = {}
    BY <2>1 DEF BraidInv, Accounted, Dead
  <2> QED BY <1>2, <2>1, <2>2, <2>3, <2>4 DEF Dead
<1>6. CASE Terminated
  <2>1. UNCHANGED vars
    BY <1>6 DEF Terminated
  <2>2. BraidInv'
    BY <2>1, BraidInvStep DEF ChInv
  <2> QED BY <1>1, <1>2, <2>1, <2>2 DEF vars, Dead
<1> QED BY <1>1, <1>3, <1>4, <1>5, <1>6 DEF ChOthers

LEMMA ChInvInit == ChInit => ChInv
<1> SUFFICES ASSUME ChInit PROVE ChInv
  OBVIOUS
<1>1. BraidInv
  BY BraidInvInit DEF ChInit
<1>2. /\ ToSet(queue) = {} /\ queue \in Seq(Cords) /\ IsInjective(queue)
      /\ DOMAIN elts = {} /\ elts \in [{} -> Elt]
  BY DEF ChInit, ToSet, IsInjective
<1>3. blocked = {} /\ receiving = {} /\ closed = FALSE /\ chfreed = FALSE
  BY DEF ChInit, Init
<1>4. ChTypeOK /\ WaitersReachable /\ EltsOwned
  BY <1>2, <1>3 DEF ChTypeOK, WaitersReachable, EltsOwned
<1>5. OneKindWaits /\ ReceiversWait /\ ValuesReady
  BY <1>2, <1>3 DEF OneKindWaits, ReceiversWait, ValuesReady
<1> QED BY <1>1, <1>4, <1>5 DEF ChInv

LEMMA ChInvStep == ChInv /\ [ChNext]_<<vars, chVars>> => ChInv'
<1> SUFFICES ASSUME ChInv, [ChNext]_<<vars, chVars>> PROVE ChInv'
  OBVIOUS
<1>1. ASSUME NEW d \in Data, SendHandsOver(d) PROVE ChInv'
  BY <1>1, SendHandsOverKeepsChInv
<1>2. ASSUME NEW d \in Data, SendWaits(d) PROVE ChInv'
  BY <1>2, SendWaitsKeepsChInv
<1>3. CASE RecvTakes
  BY <1>3, RecvTakesKeepsChInv
<1>4. CASE RecvWaits
  BY <1>4, RecvWaitsKeepsChInv
<1>5. CASE RecvReturns
  BY <1>5, RecvReturnsKeepsChInv
<1>6. CASE CloseKeepsSenders
  BY <1>6, CloseKeepsSendersKeepsChInv
<1>7. CASE CloseFrees
  BY <1>7, CloseFreesKeepsChInv
<1>8. CASE ChReturn
  BY <1>8, ChReturnKeepsChInv
<1>9. CASE ChOthers
  BY <1>9, OthersFacts, OthersKeepChInv
<1>10. CASE UNCHANGED vars /\ UNCHANGED chVars
  <2>1. BraidInv'
    BY <1>10, BraidInvStep DEF ChInv
  <2> QED BY <1>10, <2>1, ChFacts, OthersKeepChInv DEF vars, Dead
<1> QED BY <1>1, <1>2, <1>3, <1>4, <1>5, <1>6, <1>7, <1>8, <1>9, <1>10 DEF ChNext

(* The invariant of the channel holds of every program that uses it.       *)
THEOREM ChInvariant == ChSpec => []ChInv
<1> QED BY ChInvInit, ChInvStep, PTL DEF ChSpec

(* A cord that is blocked in chsend or chrecv can be found by its partner, *)
(* and nobody else is in the queue but cords that were halted there.       *)
THEOREM WaitersAlwaysReachable == ChSpec => []WaitersReachable
<1>1. ChInv => WaitersReachable
  BY DEF ChInv
<1> QED BY <1>1, ChInvariant, PTL

(* No elt is used after chsend, chrecv or chclose has freed it, and none   *)
(* is forgotten but that of a halted receiver.                             *)
THEOREM EltsAlwaysOwned == ChSpec => []EltsOwned
<1>1. ChInv => EltsOwned
  BY DEF ChInv
<1> QED BY <1>1, ChInvariant, PTL

(* Senders and receivers never wait in the queue together.                 *)
THEOREM OneKindAlwaysWaits == ChSpec => []OneKindWaits
<1>1. ChInv => OneKindWaits
  BY DEF ChInv
<1> QED BY <1>1, ChInvariant, PTL

-----------------------------------------------------------------------------
(* The refinement of Rendezvous, call by call. *)

(* Nothing is offered unless a sender is first.                            *)
LEMMA OffersShape ==
  ASSUME ChInv
  PROVE  /\ ~SenderFirst => Offers = << >>
         /\ SenderFirst => /\ Offers \in Seq(Data \cup {NONE})
                           /\ Len(Offers) = Len(queue)
                           /\ \A i \in 1 .. Len(queue) : Offers[i] = elts[queue[i]].val
                           /\ queue # << >>
<1>1. queue \in Seq(Cords) /\ DOMAIN queue = 1 .. Len(queue) /\ Len(queue) \in Nat
  BY LenProperties DEF ChInv, ChTypeOK
<1>2. ASSUME SenderFirst
      PROVE  /\ Offers \in Seq(Data \cup {NONE})
             /\ Len(Offers) = Len(queue)
             /\ \A i \in 1 .. Len(queue) : Offers[i] = elts[queue[i]].val
  <2>1. Offers = [i \in 1 .. Len(queue) |-> elts[queue[i]].val]
    BY <1>1, <1>2 DEF Offers
  <2>2. \A i \in 1 .. Len(queue) : elts[queue[i]].val \in Data \cup {NONE}
    <3>1. \A i \in 1 .. Len(queue) : queue[i] \in DOMAIN elts
      BY <1>1 DEF ChInv, EltsOwned, ToSet
    <3> QED BY <3>1 DEF ChInv, ChTypeOK, Elt
  <2> QED BY <1>1, <2>1, <2>2
<1> QED BY <1>2 DEF Offers, SenderFirst

LEMMA SendHandsOverRefines ==
  ASSUME ChInv, NEW d \in Data, SendHandsOver(d)
  PROVE  \E c \in Cords : Promise!HandOver(c, d)
<1>1. PICK r, skip : HandsTo(r, skip, d)
  BY SendHandsOverFacts
<1> DEFINE Q == ToSet(queue)
<1>2. /\ r \in Q /\ r \in Cords /\ r \in blocked /\ r \in receiving /\ r \notin skip
      /\ skip \subseteq Q \cap Dead
      /\ ToSet(queue)' = Q \ (skip \cup {r})
      /\ elts'[r].val = d
      /\ \A x \in (DOMAIN elts \ skip) \ {r} : elts'[x] = elts[x]
      /\ UNCHANGED <<closed, chfreed, receiving, got>>
      /\ Dead' = Dead /\ val' = [val EXCEPT ![r] = 1]
      /\ ~closed /\ ~chfreed /\ queue' \in Seq(Cords)
  BY <1>1 DEF HandsTo
<1>3. ~SenderFirst /\ \A c \in Q : ~IsSend(c)
  BY <1>1, <1>2, FirstTellsAll DEF HandsTo
<1>4. Q \subseteq DOMAIN elts /\ receiving \ Dead \subseteq DOMAIN elts
      /\ blocked \cap Dead = {} /\ val \in [Cords -> Vals]
  BY ChFacts DEF ChInv, EltsOwned, BraidInv, TypeOK
<1> HIDE DEF Q
<1>5. ~SenderFirst'
  <2>1. queue' # << >> => Head(queue') \in ToSet(queue)'
    BY <1>2, TailElements
  <2>2. \A c \in ToSet(queue)' : elts'[c].type # "SEND"
    BY <1>2, <1>3, <1>4 DEF IsSend
  <2> QED BY <2>1, <2>2 DEF SenderFirst, IsSend
<1>6. Offers = << >> /\ Offers' = << >>
  BY <1>3, <1>5 DEF Offers
<1>7. OnTheWay(r)' /\ ~OnTheWay(r)
  BY <1>2, <1>4 DEF OnTheWay, Q
<1>8. ASSUME NEW c \in Cords, c # r
      PROVE  (OnTheWay(c)' <=> OnTheWay(c)) /\ (OnTheWay(c) => elts'[c] = elts[c])
  <2>1. val'[c] = val[c]
    BY <1>2, <1>4, <1>8
  <2>2. c \notin Dead => (c \in ToSet(queue)' <=> c \in Q)
    BY <1>2, <1>8
  <2>3. c \in receiving \ Dead => elts'[c] = elts[c]
    BY <1>2, <1>4, <1>8
  <2> QED BY <1>2, <2>1, <2>2, <2>3 DEF OnTheWay, Q
<1>9. HandedOver' = [HandedOver EXCEPT ![r] = d] /\ HandedOver[r] = NONE
  BY <1>2, <1>7, <1>8 DEF HandedOver
<1>10. Promise!HandOver(r, d)
  BY <1>2, <1>6, <1>9 DEF Promise!HandOver, NoMore
<1> QED BY <1>2, <1>10

LEMMA SendWaitsRefines ==
  ASSUME ChInv, NEW d \in Data, SendWaits(d)
  PROVE  Promise!Offer(d)
<1>1. PICK k \in 0 .. Len(queue) :
        /\ Stale(k)
        /\ Rest(k) # << >> => IsSend(Head(Rest(k)))
        /\ queue' = Append(Rest(k), curr)
        /\ elts' = WithElt(Freed(elts, Skipped(k)), curr, "SEND", d)
  BY DEF SendWaits
<1> DEFINE Q == ToSet(queue)
           skip == Skipped(k)
<1>2. /\ UNCHANGED <<val, closed, chfreed, receiving, got>>
      /\ Dead' = Dead
      /\ curr \notin Q \cup receiving
      /\ ~closed /\ ~chfreed
      /\ curr \in Cords
  BY BlockFacts, ChFacts DEF SendWaits, Calling, Ready
<1>3. /\ Rest(k) \in Seq(Cords)
      /\ ToSet(Rest(k)) = Q \ skip
      /\ skip \subseteq Q \cap Dead
      /\ \A c \in skip : IsRecv(c)
  BY <1>1, SkippedAreDead
<1>4. /\ elts'[curr].val = d /\ elts'[curr].type = "SEND"
      /\ \A x \in DOMAIN elts \ (skip \cup {curr}) : elts'[x] = elts[x]
  BY <1>1 DEF WithElt, Freed, Restrict
<1>5. queue \in Seq(Cords) /\ Len(queue) \in Nat /\ DOMAIN queue = 1 .. Len(queue)
      /\ Q \subseteq DOMAIN elts /\ receiving \ Dead \subseteq DOMAIN elts
  BY LenProperties DEF ChInv, ChTypeOK, EltsOwned
<1>6. HandedOver' = HandedOver
  <2>1. ToSet(queue)' = (Q \ skip) \cup {curr}
    BY <1>1, <1>2, <1>3, AppendElements
  <2> HIDE DEF Q, skip
  <2>2. ASSUME NEW c \in Cords
        PROVE  (OnTheWay(c)' <=> OnTheWay(c)) /\ (OnTheWay(c) => elts'[c] = elts[c])
    <3>1. c \in receiving \ Dead => c # curr /\ c \notin skip /\ elts'[c] = elts[c]
      BY <1>2, <1>3, <1>4, <1>5
    <3> QED BY <1>2, <2>1, <3>1 DEF OnTheWay, Q
  <2> QED BY <2>2 DEF HandedOver
<1>7. CASE SenderFirst
  <2>1. \A c \in Q : IsSend(c) /\ ~IsRecv(c)
    BY <1>7, FirstTellsAll
  <2>2. k = 0
    <3> SUFFICES ASSUME k # 0 PROVE FALSE
      OBVIOUS
    <3>1. 1 \in 1 .. k /\ 1 \in DOMAIN queue
      BY <1>5
    <3>2. IsRecv(queue[1]) /\ queue[1] \in Q
      BY <1>1, <3>1 DEF Stale, ToSet
    <3> QED BY <2>1, <3>2
  <2>3. Rest(k) = queue /\ skip = {}
    <3>1. Len(Rest(k)) = Len(queue) /\ \A i \in 1 .. Len(queue) : Rest(k)[i] = queue[i]
      BY <1>5, <2>2, CutElements DEF Rest
    <3>2. skip = {}
      BY <1>3, <2>1
    <3> QED BY <1>3, <1>5, <3>1, <3>2, SeqEqual
  <2>4. /\ queue' = Append(queue, curr)
        /\ Len(queue') = Len(queue) + 1 /\ DOMAIN queue' = 1 .. Len(queue) + 1
        /\ \A i \in 1 .. Len(queue) : queue'[i] = queue[i]
        /\ queue'[Len(queue) + 1] = curr
    BY <1>1, <1>2, <1>5, <2>3, AppendProperties
  <2>5. \A c \in Q : elts'[c] = elts[c]
    BY <1>2, <1>4, <1>5, <2>3
  <2>6. queue # << >> /\ 1 \in DOMAIN queue
    BY <1>5, <1>7 DEF SenderFirst
  <2>7. SenderFirst'
    <3>1. Head(queue') = queue[1] /\ queue' # << >>
      BY <1>5, <2>4, <2>6
    <3>2. queue[1] \in Q
      BY <2>6 DEF ToSet
    <3> QED BY <2>1, <2>5, <3>1, <3>2 DEF SenderFirst, IsSend
  <2>8. Offers' = [i \in 1 .. Len(queue) + 1 |->
                    IF i \in DOMAIN queue THEN elts[queue[i]].val ELSE d]
    <3>1. \A i \in 1 .. Len(queue) : queue[i] \in Q
      BY <1>5 DEF ToSet
    <3>2. Offers' = [i \in 1 .. Len(queue) + 1 |-> elts'[queue'[i]].val]
      BY <2>4, <2>7 DEF Offers
    <3>3. ASSUME NEW i \in 1 .. Len(queue) + 1
          PROVE  elts'[queue'[i]].val = IF i \in DOMAIN queue THEN elts[queue[i]].val ELSE d
      <4>1. CASE i \in DOMAIN queue
        BY <1>5, <2>4, <2>5, <3>1, <4>1
      <4>2. CASE i \notin DOMAIN queue
        <5>1. i = Len(queue) + 1
          BY <1>5, <4>2
        <5> QED BY <1>4, <2>4, <4>2, <5>1
      <4> QED BY <4>1, <4>2
    <3> QED BY <3>2, <3>3
  <2>9. Append(Offers, d) = [i \in 1 .. Len(queue) + 1 |->
                              IF i \in DOMAIN queue THEN elts[queue[i]].val ELSE d]
    <3> DEFINE t == Append(Offers, d)
    <3>1. /\ Offers \in Seq(Data \cup {NONE})
          /\ Len(Offers) = Len(queue)
          /\ \A i \in 1 .. Len(queue) : Offers[i] = elts[queue[i]].val
      BY <1>7, OffersShape
    <3>2. /\ t \in Seq(Data \cup {NONE})
          /\ Len(t) = Len(queue) + 1
          /\ \A i \in 1 .. Len(queue) : t[i] = elts[queue[i]].val
          /\ t[Len(queue) + 1] = d
      BY <3>1, AppendProperties
    <3> HIDE DEF t
    <3>3. t = [i \in 1 .. Len(queue) + 1 |-> t[i]]
      BY <3>2
    <3>4. \A i \in 1 .. Len(queue) + 1 :
            t[i] = IF i \in DOMAIN queue THEN elts[queue[i]].val ELSE d
      BY <1>5, <3>2
    <3>5. t = [i \in 1 .. Len(queue) + 1 |-> IF i \in DOMAIN queue THEN elts[queue[i]].val ELSE d]
      BY <3>3, <3>4
    <3> QED BY <3>5 DEF t
  <2> QED BY <1>2, <1>6, <2>8, <2>9 DEF Promise!Offer, NoMore
<1>8. CASE ~SenderFirst
  <2>1. \A c \in Q : ~IsSend(c)
    BY <1>8, FirstTellsAll
  <2>2. Rest(k) = << >>
    BY <1>1, <1>3, <2>1, TailElements
  <2>3. queue' = <<curr>>
    BY <1>1, <2>2
  <2>4. SenderFirst'
    BY <1>4, <2>3 DEF SenderFirst, IsSend
  <2>5. Offers' = <<d>> /\ Offers = << >>
    BY <1>4, <1>8, <2>3, <2>4 DEF Offers
  <2> QED BY <1>2, <1>6, <2>5 DEF Promise!Offer, NoMore
<1> QED BY <1>7, <1>8

LEMMA RecvTakesRefines ==
  ASSUME ChInv, RecvTakes
  PROVE  Promise!Take(curr)
<1> DEFINE s == Head(queue)
           Q == ToSet(queue)
<1>1. /\ SenderFirst
      /\ got' = <<curr, elts[s].val>>
      /\ queue' = Tail(queue)
      /\ elts' = Freed(elts, {s})
      /\ Unblock(s, 0) \/ (s \notin blocked /\ UNCHANGED vars)
      /\ UNCHANGED <<closed, chfreed, receiving>>
  BY DEF RecvTakes
<1>2. /\ queue \in Seq(Cords) /\ queue # << >> /\ IsInjective(queue)
      /\ Len(queue) \in Nat \ {0} /\ DOMAIN queue = 1 .. Len(queue)
      /\ s = queue[1]
  BY <1>1, LenProperties, EmptySeq DEF ChInv, ChTypeOK, WaitersReachable, SenderFirst
<1>3. /\ Tail(queue) \in Seq(Cords)
      /\ Len(Tail(queue)) = Len(queue) - 1
      /\ DOMAIN Tail(queue) = 1 .. Len(queue) - 1
      /\ \A i \in 1 .. Len(queue) - 1 : Tail(queue)[i] = queue[i + 1]
      /\ Q = {s} \cup ToSet(Tail(queue)) /\ s \notin ToSet(Tail(queue))
      /\ s \in Cords
  BY <1>2, HeadTailProperties, TailElements, LenProperties
<1>4. \A c \in Q : IsSend(c) /\ c \notin receiving
  BY <1>1, FirstTellsAll
<1>5. /\ \A x \in DOMAIN elts \ {s} : elts'[x] = elts[x]
      /\ Q \subseteq DOMAIN elts /\ receiving \ Dead \subseteq DOMAIN elts
      /\ val \in [Cords -> Vals]
  BY <1>1, FreedShape DEF ChInv, ChTypeOK, EltsOwned, BraidInv, TypeOK
<1>6. Dead' = Dead /\ \A c \in Cords \ {s} : val'[c] = val[c]
  <2>1. CASE Unblock(s, 0)
    BY <1>5, <2>1 DEF Unblock, Dead
  <2>2. CASE UNCHANGED vars
    BY <2>2 DEF vars, Dead
  <2> QED BY <1>1, <2>1, <2>2
<1> HIDE DEF s, Q
<1>7. HandedOver' = HandedOver
  <2>1. ToSet(queue)' = Q \ {s} /\ s \in Q
    BY <1>1, <1>3
  <2>2. ASSUME NEW c \in Cords
        PROVE  (OnTheWay(c)' <=> OnTheWay(c)) /\ (OnTheWay(c) => elts'[c] = elts[c])
    <3>1. c \in receiving \ Dead => c # s /\ elts'[c] = elts[c] /\ val'[c] = val[c]
      BY <1>4, <1>5, <1>6, <2>1
    <3> QED BY <1>1, <1>6, <2>1, <3>1 DEF OnTheWay, Q
  <2> QED BY <2>2 DEF HandedOver
<1>8. /\ Offers \in Seq(Data \cup {NONE})
      /\ Len(Offers) = Len(queue)
      /\ \A i \in 1 .. Len(queue) : Offers[i] = elts[queue[i]].val
  BY <1>1, OffersShape
<1>9. Offers # << >> /\ Head(Offers) = elts[s].val
  BY <1>2, <1>8
<1>10. \A i \in 1 .. Len(queue) - 1 : elts'[queue[i + 1]].val = elts[queue[i + 1]].val
  <2>1. ASSUME NEW i \in 1 .. Len(queue) - 1 PROVE queue[i + 1] \in DOMAIN elts \ {s}
    <3>1. queue[i + 1] \in Q /\ queue[i + 1] # s
      <4>1. i + 1 \in DOMAIN queue /\ i + 1 # 1 /\ 1 \in DOMAIN queue
        BY <1>2
      <4> QED BY <1>2, <4>1 DEF ToSet, IsInjective, Q
    <3> QED BY <1>5, <3>1
  <2> QED BY <1>5, <2>1
<1>11. Tail(Offers) = [i \in 1 .. Len(queue) - 1 |-> elts[queue[i + 1]].val]
  <2> DEFINE t == Tail(Offers)
  <2>1. /\ t \in Seq(Data \cup {NONE})
        /\ Len(t) = Len(queue) - 1
        /\ \A i \in 1 .. Len(queue) - 1 : t[i] = Offers[i + 1]
    BY <1>8, <1>9, HeadTailProperties
  <2> HIDE DEF t
  <2>2. t = [i \in 1 .. Len(queue) - 1 |-> t[i]]
    BY <2>1
  <2>3. \A i \in 1 .. Len(queue) - 1 : t[i] = elts[queue[i + 1]].val
    BY <1>2, <1>8, <2>1
  <2>4. t = [i \in 1 .. Len(queue) - 1 |-> elts[queue[i + 1]].val]
    BY <2>2, <2>3
  <2> QED BY <2>4 DEF t
<1>12. Offers' = [i \in 1 .. Len(queue) - 1 |-> elts[queue[i + 1]].val]
  <2>1. CASE Len(queue) = 1
    <3>1. queue' = << >>
      BY <1>1, <1>3, <2>1, EmptySeq
    <3>2. Offers' = << >>
      BY <3>1 DEF Offers, SenderFirst
    <3> QED BY <2>1, <3>2
  <2>2. CASE Len(queue) # 1
    <3>1. 1 \in 1 .. Len(queue) - 1 /\ 2 \in DOMAIN queue
      BY <1>2, <2>2
    <3>2. queue' # << >> /\ Head(queue') = queue[2]
      <4> DEFINE t == Tail(queue)
      <4>1. t[1] = queue[2] /\ Len(t) # 0 /\ queue' = t
        BY <1>1, <1>2, <1>3, <2>2, <3>1
      <4> HIDE DEF t
      <4> QED BY <4>1
    <3>3. queue[2] \in Q /\ queue[2] \in DOMAIN elts \ {s}
      <4>1. 1 \in DOMAIN queue
        BY <1>2
      <4> QED BY <1>2, <1>5, <3>1, <4>1 DEF ToSet, IsInjective, Q
    <3>4. SenderFirst'
      BY <1>4, <1>5, <3>2, <3>3 DEF SenderFirst, IsSend
    <3>5. Offers' = [i \in 1 .. Len(queue) - 1 |-> elts'[queue'[i]].val]
      BY <1>1, <1>3, <3>4 DEF Offers
    <3>6. \A i \in 1 .. Len(queue) - 1 : elts'[queue'[i]].val = elts[queue[i + 1]].val
      BY <1>1, <1>3, <1>10
    <3> QED BY <3>5, <3>6
  <2> QED BY <2>1, <2>2
<1> QED BY <1>1, <1>7, <1>9, <1>11, <1>12 DEF Promise!Take, NoMore

LEMMA RecvWaitsRefines ==
  ASSUME ChInv, RecvWaits
  PROVE  UNCHANGED Promise!rvVars
<1> DEFINE Q == ToSet(queue)
<1>1. /\ ~SenderFirst
      /\ queue' = Append(queue, curr)
      /\ elts' = WithElt(elts, curr, "RECV", NONE)
      /\ receiving' = receiving \cup {curr}
      /\ UNCHANGED <<closed, chfreed, got>>
      /\ curr \notin receiving
  BY DEF RecvWaits, Calling, Ready
<1>2. /\ Dead' = Dead
      /\ UNCHANGED val
      /\ curr \notin Q /\ curr \in Cords
      /\ queue \in Seq(Cords)
  BY BlockFacts, ChFacts DEF RecvWaits, ChInv, ChTypeOK
<1>3. ToSet(queue)' = Q \cup {curr} /\ queue' # << >> /\ queue' \in Seq(Cords)
  BY <1>1, <1>2, AppendElements
<1>4. /\ elts'[curr].type = "RECV"
      /\ \A x \in DOMAIN elts \ {curr} : elts'[x] = elts[x]
      /\ Q \subseteq DOMAIN elts /\ receiving \ Dead \subseteq DOMAIN elts
  BY <1>1 DEF WithElt, ChInv, EltsOwned
<1>5. \A c \in Q : ~IsSend(c)
  BY <1>1, FirstTellsAll
<1> HIDE DEF Q
<1>6. ~SenderFirst'
  <2>1. \A c \in ToSet(queue)' : elts'[c].type # "SEND"
    BY <1>2, <1>3, <1>4, <1>5 DEF IsSend
  <2> QED BY <1>3, <2>1, TailElements DEF SenderFirst, IsSend
<1>7. Offers' = Offers
  BY <1>1, <1>6 DEF Offers
<1>8. HandedOver' = HandedOver
  <2>1. ASSUME NEW c \in Cords
        PROVE  (OnTheWay(c)' <=> OnTheWay(c)) /\ (OnTheWay(c) => elts'[c] = elts[c])
    BY <1>1, <1>2, <1>3, <1>4 DEF OnTheWay, Q
  <2> QED BY <2>1 DEF HandedOver
<1> QED BY <1>1, <1>7, <1>8 DEF Promise!rvVars, NoMore

LEMMA RecvReturnsRefines ==
  ASSUME ChInv, RecvReturns
  PROVE  Promise!Collect(curr) \/ UNCHANGED Promise!rvVars
<1>1. /\ phase = "running" /\ curr \in receiving
      /\ got' = IF val[curr] # 0 THEN <<curr, elts[curr].val>> ELSE got
      /\ elts' = Freed(elts, {curr})
      /\ receiving' = receiving \ {curr}
      /\ UNCHANGED <<closed, chfreed, queue>> /\ UNCHANGED val /\ Dead' = Dead
  BY DEF RecvReturns, vars, Dead
<1>2. curr \notin ToSet(queue) \cup Dead /\ curr \in Cords
  BY <1>1, ChFacts
<1>3. /\ \A x \in DOMAIN elts \ {curr} : elts'[x] = elts[x]
      /\ ToSet(queue) \subseteq DOMAIN elts /\ receiving \ Dead \subseteq DOMAIN elts
      /\ queue \in Seq(Cords)
  BY <1>1, FreedShape DEF ChInv, ChTypeOK, EltsOwned
<1>4. \A c \in ToSet(queue) : elts'[c] = elts[c]
  BY <1>2, <1>3
<1>5. Offers' = Offers
  <2>1. SenderFirst' <=> SenderFirst
    BY <1>1, <1>3, <1>4, TailElements DEF SenderFirst, IsSend
  <2>2. \A i \in DOMAIN queue : elts'[queue[i]] = elts[queue[i]]
    BY <1>4 DEF ToSet
  <2> QED BY <1>1, <2>1, <2>2 DEF Offers
<1>6. ASSUME NEW c \in Cords, c # curr
      PROVE  (OnTheWay(c)' <=> OnTheWay(c)) /\ (OnTheWay(c) => elts'[c] = elts[c])
  BY <1>1, <1>3, <1>6 DEF OnTheWay
<1>7. HandedOver' = [HandedOver EXCEPT ![curr] = NONE]
  BY <1>1, <1>6 DEF HandedOver, OnTheWay
<1>8. CASE val[curr] # 0
  <2>1. OnTheWay(curr) /\ HandedOver[curr] = elts[curr].val /\ elts[curr].val # NONE
    BY <1>1, <1>2, <1>8 DEF OnTheWay, HandedOver, ChInv, ValuesReady
  <2>2. Promise!Collect(curr)
    BY <1>1, <1>5, <1>7, <1>8, <2>1 DEF Promise!Collect, NoMore
  <2> QED BY <2>2
<1>9. CASE val[curr] = 0
  <2>1. HandedOver[curr] = NONE
    BY <1>2, <1>9 DEF OnTheWay, HandedOver
  <2>2. HandedOver' = HandedOver
    BY <1>7, <2>1 DEF HandedOver
  <2> QED BY <1>1, <1>5, <1>9, <2>2 DEF Promise!rvVars, NoMore
<1> QED BY <1>8, <1>9

LEMMA ClosesRefine ==
  ASSUME ChInv, CloseKeepsSenders \/ CloseFrees
  PROVE  Promise!Shut
<1>1. CASE CloseKeepsSenders
  <2>1. UNCHANGED <<chfreed, queue, elts, receiving, got>> /\ UNCHANGED vars /\ closed' = TRUE
    BY <1>1 DEF CloseKeepsSenders
  <2>2. Offers' = Offers /\ HandedOver' = HandedOver /\ NoMore'
    BY <2>1 DEF vars, Offers, SenderFirst, IsSend, HandedOver, OnTheWay, Dead, NoMore
  <2> QED BY <2>1, <2>2 DEF Promise!Shut
<1>2. CASE CloseFrees
  <2> DEFINE Q == ToSet(queue)
             W == ToSet(Woken(queue))
  <2>1. /\ ~SenderFirst
        /\ val' = [c \in Cords |-> IF c \in W THEN 0 ELSE val[c]]
        /\ chfreed' = TRUE /\ queue' = << >>
        /\ UNCHANGED <<elts, receiving, got, zombies, freed>>
    BY <1>2 DEF CloseFrees
  <2>2. W = Q \cap blocked
    BY WokenElements DEF ChInv, ChTypeOK
  <2>3. Q \subseteq blocked \cup Dead /\ blocked \cap Dead = {} /\ Dead' = Dead
    BY <2>1, ChFacts DEF Dead
  <2>4. ToSet(queue)' = {} /\ ~SenderFirst'
    BY <2>1 DEF ToSet, SenderFirst
  <2> HIDE DEF Q, W
  <2>5. Offers' = Offers
    BY <2>1, <2>4 DEF Offers
  <2>6. ASSUME NEW c \in Cords PROVE OnTheWay(c)' <=> OnTheWay(c)
    <3>1. CASE c \in Dead
      BY <2>3, <3>1 DEF OnTheWay
    <3>2. CASE c \in W
      <4>1. ~OnTheWay(c) /\ val'[c] = 0
        BY <2>1, <2>2, <3>2 DEF OnTheWay, Q
      <4> QED BY <4>1 DEF OnTheWay
    <3>3. CASE c \notin W \cup Dead
      <4>1. val'[c] = val[c] /\ c \notin Q
        BY <2>1, <2>2, <2>3, <3>3
      <4> QED BY <2>1, <2>3, <2>4, <4>1 DEF OnTheWay, Q
    <3> QED BY <3>1, <3>2, <3>3
  <2>7. HandedOver' = HandedOver
    BY <2>1, <2>6 DEF HandedOver
  <2> QED BY <2>1, <2>5, <2>7 DEF Promise!Shut, NoMore
<1> QED BY <1>1, <1>2

LEMMA ChReturnRefines ==
  ASSUME ChInv, ChReturn
  PROVE  Promise!End
<1>1. /\ Return /\ chfreed' = TRUE /\ queue' = << >> /\ UNCHANGED <<receiving, got>>
  BY DEF ChReturn
<1>2. Offers' = << >>
  BY <1>1 DEF Offers, SenderFirst
<1>3. receiving \subseteq Dead'
  <2>1. /\ zombies' = {} /\ freed' = freed \cup zombies \cup ToSet(runable) \cup blocked
        /\ Running = {}
    BY <1>1 DEF Return, Running
  <2> QED BY <2>1 DEF Dead, ChInv, ChTypeOK, BraidInv, Accounted
<1>4. HandedOver' \in [Cords -> {NONE}]
  BY <1>1, <1>3 DEF HandedOver, OnTheWay
<1> QED BY <1>1, <1>2, <1>4 DEF Promise!End, NoMore

(* A value is lost only with the cord it was handed to.                    *)
LEMMA OthersRefine ==
  ASSUME ChInv, ChOthers
  PROVE  \E S \in SUBSET Cords : Promise!Lose(S)
<1>1. Dead \subseteq Dead' /\ UNCHANGED <<val, chVars>>
  BY OthersFacts
<1>2. UNCHANGED <<closed, chfreed, queue, elts, receiving, got, val>>
  BY <1>1 DEF chVars
<1>3. Offers' = Offers
  BY <1>2 DEF Offers, SenderFirst, IsSend
<1>4. ASSUME NEW c \in Cords
      PROVE  OnTheWay(c)' <=> OnTheWay(c) /\ c \notin Dead'
  BY <1>1, <1>2 DEF OnTheWay
<1>5. HandedOver' = [c \in Cords |-> IF c \in Dead' \cap Cords THEN NONE ELSE HandedOver[c]]
  BY <1>2, <1>4 DEF HandedOver
<1>6. Promise!Lose(Dead' \cap Cords)
  BY <1>2, <1>3, <1>5 DEF Promise!Lose, NoMore
<1> QED BY <1>6

LEMMA PromiseStep ==
  ASSUME ChInv, [ChNext]_<<vars, chVars>>
  PROVE  [Promise!RvNext]_Promise!rvVars
<1>1. ASSUME NEW d \in Data, SendHandsOver(d) PROVE Promise!RvNext
  BY <1>1, SendHandsOverRefines DEF Promise!RvNext
<1>2. ASSUME NEW d \in Data, SendWaits(d) PROVE Promise!RvNext
  BY <1>2, SendWaitsRefines DEF Promise!RvNext
<1>3. CASE RecvTakes
  <2>1. curr \in Cords
    BY <1>3, ChFacts DEF RecvTakes, Calling, Ready
  <2> QED BY <1>3, <2>1, RecvTakesRefines DEF Promise!RvNext
<1>4. CASE RecvWaits
  BY <1>4, RecvWaitsRefines
<1>5. CASE RecvReturns
  <2>1. curr \in Cords
    BY <1>5, ChFacts DEF RecvReturns
  <2> QED BY <1>5, <2>1, RecvReturnsRefines DEF Promise!RvNext
<1>6. CASE CloseKeepsSenders \/ CloseFrees
  BY <1>6, ClosesRefine DEF Promise!RvNext
<1>7. CASE ChReturn
  BY <1>7, ChReturnRefines DEF Promise!RvNext
<1>8. CASE ChOthers
  BY <1>8, OthersRefine DEF Promise!RvNext
<1>9. CASE UNCHANGED <<vars, chVars>>
  BY <1>9 DEF vars, chVars, Promise!rvVars, Offers, SenderFirst, IsSend, HandedOver,
              OnTheWay, Dead, NoMore
<1> QED BY <1>1, <1>2, <1>3, <1>4, <1>5, <1>6, <1>7, <1>8, <1>9 DEF ChNext

(* Whatever the cords do, and whoever is halted while it waits, values are *)
(* handed over in the order of chsend, each to one chrecv, none invented,  *)
(* none twice, and none is taken after chclose.                            *)
THEOREM ChannelKeepsPromise == ChSpec => KeepsPromise
<1>1. ChInit => Promise!RvInit
  <2> SUFFICES ASSUME ChInit PROVE Promise!RvInit
    OBVIOUS
  <2>1. Offers = << >> /\ HandedOver = [c \in Cords |-> NONE] /\ got = << >> /\ NoMore = FALSE
    BY DEF ChInit, Offers, SenderFirst, HandedOver, OnTheWay, NoMore
  <2> QED BY <2>1 DEF Promise!RvInit
<1>2. ChInv /\ [ChNext]_<<vars, chVars>> => [Promise!RvNext]_Promise!rvVars
  BY PromiseStep
<1> QED BY <1>1, <1>2, ChInvariant, PTL DEF ChSpec, KeepsPromise, Promise!RvSpec

-----------------------------------------------------------------------------
(***************************************************************************)
(* The visor.                                                              *)
(***************************************************************************)

Entry == Cords \X (1 .. MaxWaits)

VTypeOK ==
  /\ visor \in Cords \cup {NULL}
  /\ vpc \in {"start", "top", "again"}
  /\ owner \in Cords
  /\ entries \in Seq(Entry)
  /\ cap \in Nat
  /\ home \in Cords \cup {NULL}
  /\ isBlocked \in BOOLEAN
  /\ current \in [Cords -> 0 .. MaxWaits]
  /\ failed \in BOOLEAN

(* The visor is there when braidstart is called, and does not die before   *)
(* braidstart cleans up.                                                   *)
VisorLives ==
  /\ visor # NULL => visor \in 0 .. count - 1
  /\ phase \in {"running", "returning"} => visor # NULL
  /\ phase # "done" => visor \notin Dead

(* ctx->cord is the visor's as soon as it has run, 0 before.               *)
OwnerKnown ==
  /\ vpc = "start" => owner = 0 /\ ~isBlocked
  /\ vpc # "start" => owner = visor /\ visor # NULL

(* Before braidstart nobody waits.                                         *)
IdleAtFirst ==
  phase = "init" => entries = << >> /\ blocked = {} /\ home = NULL /\ ~failed

(* schedule() returns to braidstart with no cord to run, or none blocked.  *)
Drained == phase = "returning" => runable = << >> \/ blocked = {}

VInv ==
  /\ BraidInv
  /\ VTypeOK
  /\ VisorLives
  /\ OwnerKnown
  /\ IdleAtFirst
  /\ Drained
  /\ NoLostWakeup
  /\ WaitersListed
  /\ ArraysInVisor

-----------------------------------------------------------------------------
(* Where the running cord and the visor are, and where they are not.       *)
LEMMA VFacts ==
  ASSUME VInv
  PROVE  /\ runable \in Seq(Cords) /\ IsInjective(runable)
         /\ ToSet(runable) \subseteq Cords
         /\ blocked \subseteq Cords
         /\ blocked \cap Dead = {} /\ ToSet(runable) \cap (blocked \cup Dead) = {}
         /\ phase = "running" => /\ curr \in Cords /\ curr # NULL
                                 /\ curr \notin ToSet(runable) \cup blocked \cup Dead
                                 /\ Running = {curr}
         /\ phase # "running" => Running = {}
         /\ NULL \notin Cords
BY WhereCordsAre DEF VInv, Dead, Running

(* When schedule() has returned to braidstart nobody but the visor is      *)
(* blocked: while a cord waits the visor can run.                          *)
OnlyVisorLeft == phase = "returning" => blocked \subseteq {visor}

LEMMA ReturnsAlone == VInv => OnlyVisorLeft
<1> SUFFICES ASSUME VInv, phase = "returning", runable = << >>
             PROVE  blocked \subseteq {visor}
  BY DEF VInv, Drained, OnlyVisorLeft
<1>1. Running = {} /\ ToSet(runable) = {}
  BY DEF Running, ToSet
<1>2. visor \in blocked
  BY <1>1 DEF VInv, BraidInv, Accounted, VisorLives, Dead
<1>3. entries = << >>
  BY <1>2 DEF VInv, NoLostWakeup
<1>4. ToSet(entries) = {}
  BY <1>3 DEF ToSet
<1>5. \A c \in Cords : ~Waiting(c)
  BY <1>4 DEF VInv, WaitersListed
<1> QED BY <1>5, VFacts DEF Waiting

-----------------------------------------------------------------------------
(* Every call keeps the invariant. *)

(* A step that leaves the list alone, and blocks nobody: whoever it takes  *)
(* out of the blocked cords is dead or may be woken by others.             *)
LEMMA QuietKeepsVInv ==
  ASSUME VInv, BraidInv',
         0 .. count - 1 \subseteq 0 .. count' - 1,
         Dead \subseteq Dead',
         blocked' \subseteq blocked,
         blocked \ blocked' \subseteq (Dead' \cup Interruptible) \ {visor},
         phase # "done", phase' # "done",
         phase' = "init" => phase = "init",
         phase' # "init" => visor # NULL,
         visor \notin Dead',
         Drained',
         UNCHANGED <<visor, owner, entries, cap, home, isBlocked, current, failed>>,
         vpc' \in {"start", "top", "again"},
         vpc' = "start" <=> vpc = "start"
  PROVE  VInv'
<1>1. VTypeOK'
  BY DEF VInv, VTypeOK
<1>2. VisorLives'
  BY DEF VInv, VisorLives
<1>3. OwnerKnown' /\ IdleAtFirst'
  BY DEF VInv, OwnerKnown, IdleAtFirst
<1>4. NoLostWakeup'
  BY DEF VInv, NoLostWakeup
<1>5. WaitersListed'
  <2>1. ASSUME NEW c \in Cords, Waiting(c)' PROVE CurrentEntry(c)' \in ToSet(entries)'
    BY <2>1 DEF VInv, WaitersListed, Waiting, CurrentEntry
  <2>2. ASSUME NEW e \in ToSet(entries)
        PROVE  \/ e[1] \in zombies' \cup freed' \cup Interruptible
               \/ Waiting(e[1])' /\ e = CurrentEntry(e[1])'
    BY <2>2 DEF VInv, WaitersListed, Waiting, CurrentEntry, Dead
  <2> QED BY <2>1, <2>2 DEF VInv, WaitersListed
<1>6. ArraysInVisor'
  BY DEF VInv, ArraysInVisor
<1> QED BY <1>1, <1>2, <1>3, <1>4, <1>5, <1>6 DEF VInv

(* What a call that only ends in schedule() does to the lists.             *)
LEMMA YieldFacts ==
  ASSUME VInv, Yield
  PROVE  /\ BraidInv' /\ Drained'
         /\ blocked' = blocked /\ Dead' = Dead /\ count' = count
         /\ phase = "running" /\ phase' \in {"running", "returning"}
<1>1. BraidInv'
  BY SwitchKeepsInv DEF VInv
<1>2. /\ blocked' = blocked /\ zombies' \cup freed' = zombies \cup freed
      /\ phase' \in {"running", "returning"}
      /\ phase' = "returning" => runable' = << >> \/ blocked' = {}
  BY ScheduleLists DEF Yield
<1> QED BY <1>1, <1>2 DEF Yield, Dead, Drained

LEMMA AddKeepsVInv ==
  ASSUME VInv, AddCord
  PROVE  VInv'
<1>1. Add("normal") /\ "normal" \in Flags
  BY DEF AddCord, Flags
<1>2. BraidInv'
  BY <1>1, AddKeepsInv DEF VInv
<1>3. count' = count + 1
  BY <1>1, NextIdIsCount DEF Add, VInv, BraidInv
<1>4. UNCHANGED <<phase, blocked, zombies, freed>> /\ phase \in {"init", "running"}
  BY <1>1 DEF Add, Usable
<1>5. count \in Nat
  BY MaxCordsAssumption DEF VInv, BraidInv, TypeOK
<1>6. UNCHANGED <<visor, vpc, owner, entries, cap, home, isBlocked, current, failed>>
  BY DEF AddCord, ioVars
<1>7. phase # "init" => visor # NULL
  BY <1>4 DEF VInv, VisorLives
<1>8. visor \notin Dead /\ Dead' = Dead /\ Drained'
  BY <1>4 DEF VInv, VisorLives, Dead, Drained
<1>9. vpc \in {"start", "top", "again"}
  BY DEF VInv, VTypeOK
<1> QED BY <1>2, <1>3, <1>4, <1>5, <1>6, <1>7, <1>8, <1>9, QuietKeepsVInv

LEMMA StartKeepsVInv ==
  ASSUME VInv, VStart
  PROVE  VInv'
<1>1. visor # NULL /\ Start /\ phase = "init" /\ count' = count
  BY DEF VStart, Start
<1>2. BraidInv'
  BY <1>1, SwitchKeepsInv DEF VInv
<1>3. /\ blocked' = blocked /\ zombies' \cup freed' = zombies \cup freed
      /\ phase' \in {"running", "returning"}
      /\ phase' = "returning" => runable' = << >> \/ blocked' = {}
  BY <1>1, ScheduleLists DEF Start
<1>4. UNCHANGED <<visor, vpc, owner, entries, cap, home, isBlocked, current, failed>>
  BY DEF VStart, ioVars
<1>5. visor \notin Dead /\ Dead' = Dead /\ Drained'
  BY <1>1, <1>3 DEF VInv, VisorLives, Dead, Drained
<1>6. vpc \in {"start", "top", "again"}
  BY DEF VInv, VTypeOK
<1> QED BY <1>1, <1>2, <1>3, <1>4, <1>5, <1>6, QuietKeepsVInv

LEMMA InterruptKeepsVInv ==
  ASSUME VInv, Interrupt
  PROVE  VInv'
<1>1. PICK c \in Interruptible \ {visor} : Unblock(c, 0)
  BY DEF Interrupt
<1>2. c \in Cords /\ 0 \in Vals
  BY VisorAssumption, ValsAssumption
<1>3. BraidInv'
  BY <1>1, <1>2, UnblockKeepsInv DEF VInv
<1>4. blocked' = blocked \ {c} /\ UNCHANGED <<phase, zombies, freed, count>>
  BY <1>1 DEF Unblock
<1>5. /\ UNCHANGED <<visor, vpc, owner, entries, cap, home, isBlocked, current, failed>>
      /\ phase = "running"
  BY DEF Interrupt, ioVars, InCord
<1>6. visor # NULL /\ visor \notin Dead /\ Dead' = Dead /\ Drained'
  BY <1>4, <1>5 DEF VInv, VisorLives, Dead, Drained
<1>7. vpc \in {"start", "top", "again"}
  BY DEF VInv, VTypeOK
<1> QED BY <1>1, <1>3, <1>4, <1>5, <1>6, <1>7, QuietKeepsVInv

LEMMA OthersKeepVInv ==
  ASSUME VInv, VOthers
  PROVE  VInv'
<1>1. /\ UNCHANGED <<visor, vpc, owner, entries, cap, home, isBlocked, current, failed>>
      /\ phase = "running" /\ curr # visor
  BY DEF VOthers, ioVars, InCord
<1>2. visor # NULL /\ visor \notin Dead
  BY <1>1 DEF VInv, VisorLives
<1>3. vpc \in {"start", "top", "again"}
  BY DEF VInv, VTypeOK
<1>4. CASE Yield
  BY <1>1, <1>2, <1>3, <1>4, YieldFacts, QuietKeepsVInv
<1>5. CASE Exit
  <2>1. BraidInv' /\ count' = count
    BY <1>5, SwitchKeepsInv DEF VInv, Exit
  <2>2. /\ blocked' = blocked /\ zombies' \cup freed' = (zombies \cup {curr}) \cup freed
        /\ phase' \in {"running", "returning"}
        /\ phase' = "returning" => runable' = << >> \/ blocked' = {}
    BY <1>5, ScheduleLists DEF Exit
  <2>3. Dead' = Dead \cup {curr} /\ Drained'
    BY <2>2 DEF Dead, Drained
  <2> QED BY <1>1, <1>2, <1>3, <2>1, <2>2, <2>3, QuietKeepsVInv
<1>6. CASE \E c \in Cords \ {visor} : Halt(c)
  <2>1. PICK c \in Cords \ {visor} : Halt(c)
    BY <1>6
  <2>2. BraidInv'
    BY <2>1, HaltKeepsInv DEF VInv
  <2>3. /\ UNCHANGED <<phase, freed, count>> /\ zombies' = zombies \cup {c}
        /\ blocked' = blocked \/ blocked' = blocked \ {c}
    BY <2>1 DEF Halt, HaltRunable, HaltBlocked
  <2>4. Dead' = Dead \cup {c} /\ Drained'
    BY <1>1, <2>3 DEF Dead, Drained
  <2> QED BY <1>1, <1>2, <1>3, <2>1, <2>2, <2>3, <2>4, QuietKeepsVInv
<1> QED BY <1>4, <1>5, <1>6 DEF VOthers

(* The visor looks at the list in vain, and yields.                        *)
LEMMA VisorYieldsKeepsVInv ==
  ASSUME VInv, VisorFindsNothing \/ VisorYieldsAgain
  PROVE  VInv'
<1>1. /\ Yield /\ vpc \in {"top", "again"} /\ vpc' \in {"top", "again"}
      /\ UNCHANGED <<visor, owner, entries, cap, home, isBlocked, current, failed>>
  BY DEF VisorFindsNothing, VisorYieldsAgain
<1>2. visor # NULL /\ visor \notin Dead
  BY <1>1, YieldFacts DEF VInv, VisorLives
<1>3. vpc' \in {"start", "top", "again"}
  BY <1>1
<1> QED BY <1>1, <1>2, <1>3, YieldFacts, QuietKeepsVInv

(* Steps that leave the scheduler alone.                                   *)
LEMMA StandStillKeepsVInv ==
  ASSUME VInv, FdWaitFails \/ VisorStarts \/ DescriptorReady \/ UNCHANGED allVars
  PROVE  VInv'
<1>1. UNCHANGED vars /\ UNCHANGED <<visor, entries, cap, home, isBlocked, current>>
  BY DEF FdWaitFails, VisorStarts, DescriptorReady, allVars, ioVars
<1>2. UNCHANGED <<phase, curr, runable, blocked, zombies, freed, started, flags, val, count>>
  BY <1>1 DEF vars
<1>3. BraidInv'
  BY <1>1, BraidInvStep DEF VInv
<1>4. VisorLives' /\ Drained' /\ NoLostWakeup' /\ WaitersListed'
  BY <1>1, <1>2 DEF VInv, VisorLives, Drained, NoLostWakeup, WaitersListed, Waiting,
                    CurrentEntry, Dead
<1>5. CASE FdWaitFails
  <2>1. failed' = TRUE /\ UNCHANGED <<vpc, owner>> /\ phase = "running" /\ curr # visor
    BY <1>5 DEF FdWaitFails, InCord
  <2>2. visor # 0
    <3> SUFFICES ASSUME visor = 0 PROVE FALSE
      OBVIOUS
    <3>1. owner = visor
      BY DEF VInv, OwnerKnown, VTypeOK
    <3>2. visor \in ToSet(runable) \cup blocked
      BY <2>1, VFacts DEF VInv, VisorLives, BraidInv, Accounted, Dead
    <3> QED BY <1>5, <3>1, <3>2 DEF FdWaitFails, CanGrow
  <2> QED BY <1>1, <1>2, <1>3, <1>4, <2>1, <2>2
          DEF VInv, VTypeOK, OwnerKnown, IdleAtFirst, ArraysInVisor
<1>6. CASE VisorStarts
  <2>1. /\ owner' = curr /\ vpc' = "top" /\ UNCHANGED failed
        /\ phase = "running" /\ curr = visor /\ curr \in Cords /\ curr # NULL
    BY <1>6, VFacts DEF VisorStarts, InVisor
  <2> QED BY <1>1, <1>2, <1>3, <1>4, <2>1
          DEF VInv, VTypeOK, OwnerKnown, IdleAtFirst, ArraysInVisor
<1>7. CASE DescriptorReady \/ UNCHANGED allVars
  <2>1. UNCHANGED <<vpc, owner, failed>>
    BY <1>7 DEF DescriptorReady, allVars, ioVars
  <2> QED BY <1>1, <1>2, <1>3, <1>4, <2>1
          DEF VInv, VTypeOK, OwnerKnown, IdleAtFirst, ArraysInVisor
<1> QED BY <1>5, <1>6, <1>7

LEMMA AddVisorKeepsVInv ==
  ASSUME VInv, AddVisor
  PROVE  VInv'
<1>1. /\ Add("system") /\ "system" \in Flags /\ phase = "init" /\ visor = NULL
      /\ UNCHANGED <<vpc, owner, entries, cap, home, isBlocked, current, failed>>
  BY DEF AddVisor, Flags
<1>2. BraidInv'
  BY <1>1, AddKeepsInv DEF VInv
<1>3. visor' = count /\ count' = count + 1 /\ count \in Cords
  BY <1>1, NextIdIsCount DEF Add, AddVisor, VInv, BraidInv
<1>4. UNCHANGED <<phase, blocked, zombies, freed>>
  BY <1>1 DEF Add
<1>5. count \in Nat /\ count \notin Dead
  BY MaxCordsAssumption DEF VInv, BraidInv, TypeOK, Accounted, Dead
<1>6. vpc = "start" /\ owner = 0 /\ ~isBlocked /\ entries = << >> /\ blocked = {}
      /\ home = NULL /\ ~failed
  BY <1>1 DEF VInv, OwnerKnown, IdleAtFirst, VTypeOK
<1>7. ToSet(entries) = {}
  BY <1>6 DEF ToSet
<1>8. VTypeOK' /\ VisorLives'
  BY <1>1, <1>3, <1>4, <1>5 DEF VInv, VTypeOK, VisorLives, Dead
<1>9. OwnerKnown' /\ IdleAtFirst' /\ Drained' /\ NoLostWakeup' /\ ArraysInVisor'
  BY <1>1, <1>3, <1>4, <1>6 DEF OwnerKnown, IdleAtFirst, Drained, NoLostWakeup, ArraysInVisor
<1>10. WaitersListed'
  BY <1>1, <1>4, <1>6, <1>7 DEF VInv, WaitersListed, Waiting
<1> QED BY <1>2, <1>8, <1>9, <1>10 DEF VInv

(* The visor goes to sleep with an empty list.                             *)
LEMMA VisorSleepsKeepsVInv ==
  ASSUME VInv, VisorSleeps
  PROVE  VInv'
<1>1. /\ Block /\ phase = "running" /\ curr = visor /\ vpc = "top" /\ entries = << >>
      /\ isBlocked' = TRUE /\ count' = count
      /\ UNCHANGED <<visor, vpc, owner, entries, cap, home, current, failed>>
  BY DEF VisorSleeps, InVisor, Block
<1>2. BraidInv'
  BY <1>1, SwitchKeepsInv DEF VInv
<1>3. /\ blocked' = blocked \cup {visor} /\ zombies' \cup freed' = zombies \cup freed
      /\ phase' \in {"running", "returning"}
      /\ phase' = "returning" => runable' = << >> \/ blocked' = {}
  BY <1>1, ScheduleLists DEF Block
<1>4. ToSet(entries) = {}
  BY <1>1 DEF ToSet
<1>5. VTypeOK' /\ OwnerKnown' /\ IdleAtFirst' /\ Drained' /\ NoLostWakeup' /\ ArraysInVisor'
  BY <1>1, <1>3 DEF VInv, VTypeOK, OwnerKnown, IdleAtFirst, Drained, NoLostWakeup,
                    ArraysInVisor
<1>6. VisorLives'
  BY <1>1, <1>3 DEF VInv, VisorLives, Dead
<1>7. WaitersListed'
  BY <1>1, <1>3, <1>4 DEF VInv, WaitersListed, Waiting, CurrentEntry
<1> QED BY <1>2, <1>5, <1>6, <1>7 DEF VInv

(* braidstart returns: nobody is left to wait.                             *)
LEMMA VReturnKeepsVInv ==
  ASSUME VInv, VReturn
  PROVE  VInv'
<1>1. /\ Return /\ phase' = "done" /\ phase = "returning" /\ blocked' = {} /\ count' = count
      /\ UNCHANGED <<visor, vpc, owner, entries, cap, home, isBlocked, current, failed>>
  BY DEF VReturn, Return, ioVars
<1>2. BraidInv'
  BY <1>1, ReturnKeepsInv DEF VInv
<1> QED BY <1>1, <1>2 DEF VInv, VTypeOK, VisorLives, OwnerKnown, IdleAtFirst, Drained,
                          NoLostWakeup, WaitersListed, ArraysInVisor

-----------------------------------------------------------------------------
(* fdwait finds a number for the entry that its cord has not in the list.  *)
LEMMA NewWaitIsNew ==
  ASSUME entries \in Seq(Entry), NewWait <= MaxWaits
  PROVE  NewWait \in 1 .. MaxWaits /\ <<curr, NewWait>> \notin ToSet(entries)
<1> DEFINE P(k) == /\ <<curr, k>> \notin ToSet(entries)
                   /\ \A j \in 1 .. k - 1 : <<curr, j>> \in ToSet(entries)
           T == {k \in 1 .. MaxWaits + 1 : <<curr, k>> \notin ToSet(entries)}
<1>1. MaxWaits \in Nat
  BY VisorAssumption
<1>2. ToSet(entries) \subseteq Entry
  BY DEF ToSet
<1>3. MaxWaits + 1 \in T
  BY <1>1, <1>2 DEF Entry
<1>4. PICK k \in T : \A m \in T : k <= m
  <2>1. T \in SUBSET Nat
    BY <1>1
  <2> HIDE DEF T
  <2> QED BY <2>1, <1>3, LeastNumber
<1>5. k \in 1 .. MaxWaits + 1 /\ P(k)
  BY <1>1, <1>4
<1>6. NewWait = CHOOSE n \in 1 .. MaxWaits + 1 : P(n)
  BY DEF NewWait
<1> HIDE DEF P
<1>7. NewWait \in 1 .. MaxWaits + 1 /\ P(NewWait)
  BY <1>5, <1>6
<1> QED BY <1>1, <1>7 DEF P

(* Whom fdwait wakes: the visor if it sleeps, nobody else.                 *)
LEMMA WakesTheVisor ==
  ASSUME VInv, phase # "done"
  PROVE  /\ Wakes \in Seq(Cords) /\ IsInjective(Wakes)
         /\ ToSet(Wakes) = IF isBlocked THEN {visor} ELSE {}
         /\ isBlocked => visor \in blocked
         /\ ~isBlocked => visor \notin blocked
<1>1. isBlocked <=> visor \in blocked
  BY DEF VInv, NoLostWakeup
<1>2. CASE isBlocked
  <2>1. owner = visor /\ owner \in Cords
    BY <1>2 DEF VInv, OwnerKnown, VTypeOK
  <2>2. <<owner>> \in Seq(Cords) /\ IsInjective(<<owner>>) /\ ToSet(<<owner>>) = {owner}
    BY <2>1 DEF IsInjective, ToSet
  <2>3. /\ Woken(<<owner>>) \in Seq(Cords) /\ IsInjective(Woken(<<owner>>))
        /\ ToSet(Woken(<<owner>>)) = {owner} \cap blocked
    BY <2>2, WokenElements
  <2> QED BY <1>1, <1>2, <2>1, <2>3 DEF Wakes
<1>3. CASE ~isBlocked
  <2>1. Wakes = << >>
    BY <1>3 DEF Wakes
  <2> QED BY <1>1, <1>3, <2>1 DEF IsInjective, ToSet
<1> QED BY <1>2, <1>3

(* fdwait hands every cord to schedule() once.                             *)
LEMMA FdWaitAccounts ==
  ASSUME BraidInv, owner \in Cords, FdWait
  PROVE  /\ BraidInv'
         /\ ToSet(Wakes) \subseteq {owner}
         /\ blocked' = (blocked \ ToSet(Wakes)) \cup {curr}
         /\ zombies' \cup freed' = zombies \cup freed
         /\ phase = "running" /\ phase' \in {"running", "returning"}
         /\ phase' = "returning" => runable' = << >> \/ blocked' = {}
         /\ Split(runable \o Wakes, (blocked \ ToSet(Wakes)) \cup {curr}, zombies, freed)
<1> DEFINE q == runable \o Wakes
           blk == (blocked \ ToSet(Wakes)) \cup {curr}
<1>1. /\ phase = "running" /\ Running = {curr}
      /\ Schedule(q, blk, zombies, freed) /\ UNCHANGED <<flags, val, count>>
  BY DEF FdWait, InCord, Running
<1>2. /\ q \in Seq(Cords) /\ IsInjective(q)
      /\ ToSet(q) = ToSet(runable) \cup ToSet(Wakes)
      /\ ToSet(Wakes) \subseteq {owner} \cap blocked
  <2>1. CASE isBlocked
    <3>1. <<owner>> \in Seq(Cords) /\ IsInjective(<<owner>>) /\ ToSet(<<owner>>) = {owner}
      BY DEF IsInjective, ToSet
    <3>2. Wakes = Woken(<<owner>>)
      BY <2>1 DEF Wakes
    <3> QED BY <3>1, <3>2, WokenJoin
  <2>2. CASE ~isBlocked
    <3>1. Wakes = << >> /\ ToSet(<< >>) = {}
      BY <2>2 DEF Wakes, ToSet
    <3>2. runable \o << >> = runable
      BY WhereCordsAre
    <3> QED BY <3>1, <3>2, WhereCordsAre
  <2> QED BY <2>1, <2>2
<1>3. curr \in Cords /\ curr \notin ToSet(runable) \cup blocked \cup zombies \cup freed
  BY <1>1, WhereCordsAre
<1>4. blk \cup ToSet(Wakes) = blocked \cup {curr} /\ blk \cap ToSet(q) = {}
      /\ blk \subseteq blocked \cup {curr}
  BY <1>2, <1>3, WhereCordsAre
<1> HIDE DEF q, blk
<1>5. Split(q, blk, zombies, freed)
  BY <1>1, <1>2, <1>3, <1>4 DEF BraidInv, TypeOK, Accounted, Split
<1>6. BraidInv'
  BY <1>1, <1>5, ScheduleAccounts DEF BraidInv, TypeOK
<1>7. /\ blocked' = blk /\ zombies' \cup freed' = zombies \cup freed
      /\ phase' \in {"running", "returning"}
      /\ phase' = "returning" => runable' = << >> \/ blocked' = {}
  BY <1>1, ScheduleLists
<1> QED BY <1>1, <1>2, <1>5, <1>6, <1>7 DEF q, blk

LEMMA FdWaitFacts ==
  ASSUME VInv, FdWait
  PROVE  /\ BraidInv' /\ Drained'
         /\ blocked' = (blocked \ {visor}) \cup {curr}
         /\ Dead' = Dead
         /\ phase = "running" /\ phase' \in {"running", "returning"}
<1>1. /\ BraidInv'
      /\ blocked' = (blocked \ ToSet(Wakes)) \cup {curr}
      /\ zombies' \cup freed' = zombies \cup freed
      /\ phase = "running" /\ phase' \in {"running", "returning"}
      /\ phase' = "returning" => runable' = << >> \/ blocked' = {}
  BY FdWaitAccounts DEF VInv, VTypeOK
<1>2. ToSet(Wakes) \cap blocked = blocked \cap {visor}
  BY <1>1, WakesTheVisor
<1> QED BY <1>1, <1>2 DEF Dead, Drained

(* A cord waits: its entry is in the list, and the visor does not sleep.   *)
LEMMA FdWaitKeepsVInv ==
  ASSUME VInv, FdWait
  PROVE  VInv'
<1>1. /\ curr # visor /\ NewWait <= MaxWaits /\ count' = count
      /\ entries' = Append(entries, <<curr, NewWait>>)
      /\ current' = [current EXCEPT ![curr] = NewWait]
      /\ cap' = IF MustGrow THEN (IF cap = 0 THEN FirstCap ELSE cap * 2) ELSE cap
      /\ home' = IF MustGrow THEN owner ELSE home
      /\ isBlocked' = FALSE
      /\ UNCHANGED <<visor, vpc, owner, failed>>
  BY DEF FdWait, InCord
<1>2. /\ blocked' = (blocked \ {visor}) \cup {curr} /\ Dead' = Dead
      /\ phase = "running" /\ phase' \in {"running", "returning"}
      /\ BraidInv' /\ Drained'
  BY FdWaitFacts
<1>3. curr \in Cords /\ curr \notin blocked \cup Dead /\ visor # NULL
  BY <1>2, VFacts DEF VInv, VisorLives
<1> DEFINE e0 == <<curr, NewWait>>
<1>4. NewWait \in 1 .. MaxWaits /\ e0 \notin ToSet(entries) /\ e0 \in Entry
  BY <1>1, <1>3, NewWaitIsNew DEF Entry, VInv, VTypeOK
<1>5. /\ entries \in Seq(Entry) /\ IsInjective(entries) /\ Len(entries) <= cap
      /\ cap \in Nat /\ Len(entries) \in Nat /\ current \in [Cords -> 0 .. MaxWaits]
      /\ FirstCap \in Nat \ {0} /\ MaxWaits \in Nat
  BY VisorAssumption, LenProperties DEF VInv, VTypeOK, WaitersListed
<1>6. /\ entries' \in Seq(Entry) /\ ToSet(entries') = ToSet(entries) \cup {e0}
      /\ IsInjective(entries') /\ Len(entries') = Len(entries) + 1
  <2> HIDE DEF e0
  <2>1. entries' = Append(entries, e0)
    BY <1>1 DEF e0
  <2>2. Len(entries') = Len(entries) + 1
    BY <1>4, <1>5, <2>1, AppendProperties
  <2>3. /\ entries' \in Seq(Entry) /\ ToSet(entries') = ToSet(entries) \cup {e0}
        /\ IsInjective(entries')
    BY <1>4, <1>5, <2>1, AppendElements
  <2> QED BY <2>2, <2>3
<1>7. cap' \in Nat /\ Len(entries') <= cap'
  BY <1>1, <1>5, <1>6 DEF MustGrow
<1>8. /\ current' \in [Cords -> 0 .. MaxWaits]
      /\ \A c \in Cords : CurrentEntry(c)' = IF c = curr THEN e0 ELSE CurrentEntry(c)
  BY <1>1, <1>3, <1>4, <1>5 DEF CurrentEntry
<1>9. VTypeOK'
  BY <1>1, <1>6, <1>7, <1>8 DEF VInv, VTypeOK
<1>10. VisorLives' /\ OwnerKnown' /\ IdleAtFirst' /\ NoLostWakeup'
  BY <1>1, <1>2, <1>3 DEF VInv, VisorLives, OwnerKnown, IdleAtFirst, NoLostWakeup, Dead
<1>11. WaitersListed'
  <2>1. \A c \in Cords : Waiting(c)' <=> Waiting(c) \/ c = curr
    BY <1>1, <1>2 DEF Waiting
  <2>2. ASSUME NEW c \in Cords, Waiting(c)' PROVE CurrentEntry(c)' \in ToSet(entries)'
    <3>1. CASE c = curr
      BY <3>1, <1>6, <1>8
    <3>2. CASE c # curr
      <4>1. CurrentEntry(c) \in ToSet(entries)
        BY <2>1, <2>2, <3>2, <1>2 DEF VInv, WaitersListed
      <4> QED BY <3>2, <4>1, <1>6, <1>8
    <3> QED BY <3>1, <3>2
  <2>3. ASSUME NEW e \in ToSet(entries)'
        PROVE  \/ e[1] \in zombies' \cup freed' \cup Interruptible
               \/ Waiting(e[1])' /\ e = CurrentEntry(e[1])'
    <3>1. CASE e = e0
      <4>1. e[1] = curr
        BY <3>1
      <4> HIDE DEF e0
      <4> QED BY <2>1, <3>1, <4>1, <1>3, <1>8
    <3>2. CASE e \in ToSet(entries)
      <4>1. e[1] \in Cords
        BY <3>2, <1>5 DEF Entry, ToSet
      <4>2. CASE e[1] \in Dead \cup Interruptible
        BY <4>2, <1>2 DEF Dead
      <4>3. CASE Waiting(e[1]) /\ e = CurrentEntry(e[1])
        <5>1. e[1] # curr
          BY <4>3, <1>3 DEF Waiting
        <5> QED BY <2>1, <4>1, <4>3, <5>1, <1>8
      <4> QED BY <3>2, <4>2, <4>3, <1>2 DEF VInv, WaitersListed, Dead
    <3> QED BY <3>1, <3>2, <1>6
  <2> QED BY <2>2, <2>3, <1>6, <1>7 DEF WaitersListed
<1>12. ArraysInVisor'
  <2> SUFFICES ASSUME visor = 0 PROVE ~failed' /\ home' \in {visor, NULL}
    BY <1>1 DEF ArraysInVisor
  <2>1. owner = visor
    BY DEF VInv, OwnerKnown, VTypeOK
  <2> QED BY <2>1, <1>1 DEF VInv, ArraysInVisor
<1> QED BY <1>2, <1>9, <1>10, <1>11, <1>12 DEF VInv

-----------------------------------------------------------------------------
(* What the loop over the list makes of it. *)

LEMMA PositionsElements ==
  ASSUME NEW S \in SUBSET DOMAIN entries, entries \in Seq(Entry)
  PROVE  /\ Positions(S) \in Seq(DOMAIN entries)
         /\ ToSet(Positions(S)) = S
         /\ IsInjective(Positions(S))
         /\ Len(Positions(S)) <= Len(entries)
<1> DEFINE D == DOMAIN entries
           all == [p \in D |-> p]
<1>1. D = 1 .. Len(entries) /\ Len(entries) \in Nat
  BY LenProperties
<1>2. all \in Seq(D) /\ Len(all) = Len(entries) /\ DOMAIN all = D
  BY <1>1
<1>3. ToSet(all) = D /\ IsInjective(all)
  BY DEF ToSet, IsInjective
<1>4. Positions(S) = Filter(all, S)
  BY DEF Positions
<1> HIDE DEF all, D
<1>5. ToSet(all) \cap S = S
  BY <1>3 DEF D
<1>6. /\ Filter(all, S) \in Seq(D)
      /\ ToSet(Filter(all, S)) = ToSet(all) \cap S
      /\ Len(Filter(all, S)) <= Len(all)
      /\ IsInjective(Filter(all, S))
  BY <1>2, <1>3, FilterElements
<1> QED BY <1>2, <1>4, <1>5, <1>6 DEF D

(* The list keeps its order, and no entry twice. *)
LEMMA LeftElements ==
  ASSUME entries \in Seq(Entry)
  PROVE  /\ Left \in Seq(Entry)
         /\ ToSet(Left) = {entries[p] : p \in {q \in DOMAIN entries : ~Removed(q)}}
         /\ IsInjective(entries) => IsInjective(Left)
         /\ Len(Left) <= Len(entries)
<1> DEFINE S == {p \in DOMAIN entries : ~Removed(p)}
           at == Positions(S)
<1>1. /\ at \in Seq(DOMAIN entries) /\ ToSet(at) = S /\ IsInjective(at)
      /\ Len(at) <= Len(entries)
  BY PositionsElements
<1>2. Left = [i \in DOMAIN at |-> entries[at[i]]]
  BY DEF Left
<1> HIDE DEF S, at
<1>3. /\ DOMAIN at = 1 .. Len(at) /\ Len(at) \in Nat
      /\ \A i \in 1 .. Len(at) : at[i] \in DOMAIN entries
  BY <1>1, LenProperties
<1>4. \A p \in DOMAIN entries : entries[p] \in Entry
  BY LenProperties
<1>5. Left \in Seq(Entry) /\ Len(Left) = Len(at)
  BY <1>2, <1>3, <1>4
<1>6. ToSet(Left) = {entries[p] : p \in S}
  BY <1>1, <1>2 DEF ToSet
<1>7. IsInjective(entries) => IsInjective(Left)
  BY <1>1, <1>2, <1>3 DEF IsInjective
<1> QED BY <1>1, <1>5, <1>6, <1>7 DEF S

(* The cords that are unblocked are those with a reported entry, each once.*)
LEMMA ReportedElements ==
  ASSUME entries \in Seq(Entry)
  PROVE  /\ Reported \in Seq(Cords)
         /\ IsInjective(Reported)
         /\ \A c \in Cords : c \in ToSet(Reported) <=>
              \E p \in DOMAIN entries : entries[p][1] = c /\ IsReady(entries[p])
<1> DEFINE at == Positions(FirstHits)
<1>1. FirstHits \in SUBSET DOMAIN entries
  BY DEF FirstHits
<1>2. at \in Seq(DOMAIN entries) /\ ToSet(at) = FirstHits /\ IsInjective(at)
  BY <1>1, PositionsElements
<1>3. Reported = [i \in DOMAIN at |-> entries[at[i]][1]]
  BY DEF Reported, CordsAt
<1> HIDE DEF at
<1>4. /\ DOMAIN at = 1 .. Len(at) /\ Len(at) \in Nat
      /\ \A i \in 1 .. Len(at) : at[i] \in DOMAIN entries
  BY <1>2, LenProperties
<1>5. /\ \A p \in DOMAIN entries : entries[p] \in Entry /\ entries[p][1] \in Cords
      /\ DOMAIN entries = 1 .. Len(entries) /\ Len(entries) \in Nat
  BY LenProperties DEF Entry
<1>6. Reported \in Seq(Cords) /\ Len(Reported) = Len(at)
  BY <1>3, <1>4, <1>5
<1>7. ToSet(Reported) = {entries[p][1] : p \in FirstHits}
  BY <1>2, <1>3 DEF ToSet
<1>8. \A p, q \in FirstHits : entries[p][1] = entries[q][1] => p = q
  <2> SUFFICES ASSUME NEW p \in FirstHits, NEW q \in FirstHits,
                      entries[p][1] = entries[q][1], p < q
               PROVE  FALSE
    BY <1>5 DEF FirstHits
  <2> QED BY <1>5 DEF FirstHits, SameCord
<1>9. IsInjective(Reported)
  <2> SUFFICES ASSUME NEW i \in DOMAIN at, NEW j \in DOMAIN at,
                      entries[at[i]][1] = entries[at[j]][1]
               PROVE  i = j
    BY <1>3 DEF IsInjective
  <2>1. at[i] \in FirstHits /\ at[j] \in FirstHits
    BY <1>2 DEF ToSet
  <2>2. at[i] = at[j]
    BY <1>8, <2>1
  <2> QED BY <1>2, <2>2 DEF IsInjective
<1>10. ASSUME NEW c \in Cords, NEW p \in DOMAIN entries, entries[p][1] = c, IsReady(entries[p])
       PROVE  c \in ToSet(Reported)
  <2> DEFINE T == {q \in DOMAIN entries : entries[q][1] = c /\ IsReady(entries[q])}
  <2>1. T \in SUBSET Nat /\ T # {}
    BY <1>5, <1>10
  <2>2. PICK q \in T : \A r \in T : q <= r
    <3> HIDE DEF T
    <3> QED BY <2>1, LeastNumber
  <2>3. q \in FirstHits
    BY <1>5, <2>2 DEF FirstHits, SameCord
  <2> QED BY <1>7, <2>2, <2>3
<1>11. \A c \in ToSet(Reported) : \E p \in DOMAIN entries : entries[p][1] = c /\ IsReady(entries[p])
  BY <1>7 DEF FirstHits
<1> QED BY <1>6, <1>9, <1>10, <1>11

(* poll_remove takes no entry of a cord that is not reported, and the only *)
(* entry of a cord that is.                                                *)
LEMMA RemovedEntries ==
  ASSUME entries \in Seq(Entry), NEW p \in DOMAIN entries
  PROVE  /\ entries[p][1] \notin ToSet(Reported) => ~Removed(p)
         /\ IsReady(entries[p]) /\ (\A q \in DOMAIN entries : SameCord(p, q) => q = p)
              => Removed(p)
<1> DEFINE hits == {q \in DOMAIN entries : SameCord(p, q) /\ IsReady(entries[q])}
           upto == {q \in 1 .. p : SameCord(p, q)}
<1>1. p \in Nat \ {0} /\ DOMAIN entries = 1 .. Len(entries) /\ Len(entries) \in Nat
      /\ entries[p][1] \in Cords
  BY LenProperties DEF Entry
<1>2. IsFiniteSet(upto) /\ p \in upto /\ upto \subseteq DOMAIN entries
  <2>1. IsFiniteSet(1 .. p)
    BY <1>1, FS_Interval
  <2>2. upto \subseteq 1 .. p
    OBVIOUS
  <2>3. IsFiniteSet(upto)
    BY <2>1, <2>2, FS_Subset
  <2>4. p \in 1 .. p /\ SameCord(p, p) /\ 1 .. p \subseteq DOMAIN entries
    BY <1>1 DEF SameCord
  <2> QED BY <2>2, <2>3, <2>4
<1>3. Removed(p) <=> Cardinality(upto) <= Cardinality(hits)
  BY DEF Removed, Hits
<1>4. ASSUME entries[p][1] \notin ToSet(Reported) PROVE ~Removed(p)
  <2>1. hits = {}
    BY <1>1, <1>4, ReportedElements DEF SameCord
  <2>2. Cardinality(hits) = 0
    BY <2>1, FS_EmptySet
  <2> HIDE DEF upto, hits
  <2>3. Cardinality(upto) \in Nat /\ Cardinality(upto) # 0
    BY <1>2, FS_CardinalityType, FS_EmptySet
  <2> QED BY <1>3, <2>2, <2>3
<1>5. ASSUME IsReady(entries[p]), \A q \in DOMAIN entries : SameCord(p, q) => q = p
      PROVE  Removed(p)
  <2>1. upto = {p} /\ hits = {p}
    BY <1>2, <1>5 DEF SameCord
  <2>2. Cardinality({p}) = 1
    BY FS_Singleton
  <2>3. Cardinality(upto) = 1 /\ Cardinality(hits) = 1
    BY <2>1, <2>2
  <2> HIDE DEF upto, hits
  <2> QED BY <1>3, <2>3
<1> QED BY <1>4, <1>5

-----------------------------------------------------------------------------
(* So does the visor when it serves the list.                              *)
LEMMA VisorWakesAccounts ==
  ASSUME BraidInv, entries \in Seq(Entry), VisorWakes
  PROVE  /\ BraidInv'
         /\ blocked' = blocked \ ToSet(Reported)
         /\ zombies' \cup freed' = zombies \cup freed
         /\ phase = "running" /\ phase' \in {"running", "returning"}
         /\ phase' = "returning" => runable' = << >> \/ blocked' = {}
<1> DEFINE woken == Woken(Reported)
           both == runable \o woken
           q == Append(both, curr)
           blk == blocked \ ToSet(woken)
<1>1. /\ phase = "running" /\ Running = {curr}
      /\ Schedule(q, blk, zombies, freed) /\ UNCHANGED <<flags, val, count>>
  BY DEF VisorWakes, InVisor, Running
<1>2. /\ both \in Seq(Cords) /\ IsInjective(both)
      /\ ToSet(both) = ToSet(runable) \cup ToSet(woken)
      /\ ToSet(woken) = ToSet(Reported) \cap blocked
  BY ReportedElements, WokenJoin
<1>3. curr \in Cords /\ curr \notin ToSet(runable) \cup blocked \cup zombies \cup freed
  BY <1>1, WhereCordsAre
<1> HIDE DEF woken, both
<1>4. /\ q \in Seq(Cords) /\ ToSet(q) = ToSet(runable) \cup ToSet(woken) \cup {curr}
      /\ IsInjective(q)
  BY <1>2, <1>3, AppendElements
<1>5. blk = blocked \ ToSet(Reported)
  BY <1>2
<1>6. blk \cup ToSet(woken) = blocked /\ blk \cap ToSet(woken) = {}
  BY <1>2
<1> HIDE DEF q, blk
<1>7. Split(q, blk, zombies, freed)
  BY <1>1, <1>3, <1>4, <1>6 DEF BraidInv, TypeOK, Accounted, Split
<1>8. BraidInv'
  BY <1>1, <1>7, ScheduleAccounts DEF BraidInv, TypeOK
<1>9. /\ blocked' = blk /\ zombies' \cup freed' = zombies \cup freed
      /\ phase' \in {"running", "returning"}
      /\ phase' = "returning" => runable' = << >> \/ blocked' = {}
  <2>1. Schedule(q, blk, zombies, freed)
    BY <1>1
  <2> QED BY <2>1, ScheduleLists
<1> QED BY <1>1, <1>5, <1>8, <1>9

LEMMA VisorWakesFacts ==
  ASSUME VInv, VisorWakes
  PROVE  /\ BraidInv' /\ Drained'
         /\ blocked' = blocked \ ToSet(Reported)
         /\ Dead' = Dead
         /\ phase = "running" /\ phase' \in {"running", "returning"}
BY VisorWakesAccounts DEF VInv, VTypeOK, Dead, Drained

(* The visor serves the list: it drops the entries of the cords it wakes,  *)
(* and of no other.                                                        *)
LEMMA VisorWakesKeepsVInv ==
  ASSUME VInv, VisorWakes
  PROVE  VInv'
<1>1. /\ entries' = Left /\ curr = visor /\ count' = count
      /\ UNCHANGED <<visor, vpc, owner, cap, home, isBlocked, current, failed>>
  BY DEF VisorWakes, InVisor
<1>2. /\ BraidInv' /\ Drained'
      /\ blocked' = blocked \ ToSet(Reported)
      /\ Dead' = Dead
      /\ phase = "running" /\ phase' \in {"running", "returning"}
  BY VisorWakesFacts
<1>3. /\ entries \in Seq(Entry) /\ IsInjective(entries) /\ Len(entries) <= cap
      /\ cap \in Nat /\ Len(entries) \in Nat
  BY LenProperties DEF VInv, VTypeOK, WaitersListed
<1>4. /\ entries' \in Seq(Entry) /\ IsInjective(entries') /\ Len(entries') <= Len(entries)
      /\ ToSet(entries') = {entries[p] : p \in {q \in DOMAIN entries : ~Removed(q)}}
  BY <1>1, <1>3, LeftElements
<1>5. Len(entries') \in Nat /\ ToSet(entries) = {entries[p] : p \in DOMAIN entries}
  BY <1>4, LenProperties DEF ToSet
<1>6. visor \in Cords /\ visor \notin blocked /\ visor # NULL /\ visor \notin Dead
  BY <1>1, <1>2, VFacts
<1>7. VTypeOK' /\ VisorLives' /\ OwnerKnown' /\ IdleAtFirst' /\ NoLostWakeup' /\ ArraysInVisor'
  BY <1>1, <1>2, <1>4, <1>6 DEF VInv, VTypeOK, VisorLives, OwnerKnown, IdleAtFirst,
                                NoLostWakeup, ArraysInVisor, Dead
<1>8. \A p \in DOMAIN entries : entries[p] \in Entry /\ entries[p][1] \in Cords
  BY <1>3, LenProperties DEF Entry
<1>9. WaitersListed'
  <2>1. ASSUME NEW c \in Cords, Waiting(c)' PROVE CurrentEntry(c)' \in ToSet(entries)'
    <3>1. Waiting(c) /\ c \notin ToSet(Reported) /\ CurrentEntry(c)' = CurrentEntry(c)
      BY <2>1, <1>1, <1>2 DEF Waiting, CurrentEntry
    <3>2. PICK p \in DOMAIN entries : entries[p] = CurrentEntry(c)
      BY <3>1, <1>2, <1>5 DEF VInv, WaitersListed
    <3>3. entries[p][1] = c
      BY <3>2 DEF CurrentEntry
    <3>4. ~Removed(p)
      BY <3>1, <3>3, <1>3, RemovedEntries
    <3> QED BY <3>1, <3>2, <3>4, <1>4
  <2>2. ASSUME NEW e \in ToSet(entries)'
        PROVE  \/ e[1] \in zombies' \cup freed' \cup Interruptible
               \/ Waiting(e[1])' /\ e = CurrentEntry(e[1])'
    <3>1. PICK p \in DOMAIN entries : e = entries[p] /\ ~Removed(p)
      BY <1>4
    <3>2. e \in ToSet(entries) /\ e[1] \in Cords
      BY <3>1, <1>5, <1>8
    <3>3. CASE e[1] \in Dead \cup Interruptible
      BY <3>3, <1>2 DEF Dead
    <3>4. CASE e[1] \notin Dead \cup Interruptible
      <4>1. Waiting(e[1]) /\ e = CurrentEntry(e[1])
        BY <3>2, <3>4, <1>2 DEF VInv, WaitersListed, Dead
      <4>2. ASSUME NEW q \in DOMAIN entries, entries[q][1] = e[1] PROVE q = p
        <5>1. entries[q] = CurrentEntry(e[1])
          BY <4>2, <3>4, <1>2, <1>5 DEF VInv, WaitersListed, Dead
        <5> QED BY <5>1, <4>1, <3>1, <1>3 DEF IsInjective
      <4>3. e[1] \notin ToSet(Reported)
        <5> SUFFICES ASSUME e[1] \in ToSet(Reported) PROVE FALSE
          OBVIOUS
        <5>1. PICK q \in DOMAIN entries : entries[q][1] = e[1] /\ IsReady(entries[q])
          BY <3>2, <1>3, ReportedElements
        <5>2. IsReady(entries[p])
          BY <5>1, <4>2
        <5> QED BY <5>2, <4>2, <3>1, <1>3, RemovedEntries DEF SameCord
      <4>4. Waiting(e[1])' /\ CurrentEntry(e[1])' = CurrentEntry(e[1])
        <5>1. e[1] \in blocked' \ {visor}
          BY <4>1, <4>3, <1>2 DEF Waiting
        <5>2. e' = e
          OBVIOUS
        <5> QED BY <5>1, <1>1 DEF Waiting, CurrentEntry
      <4> QED BY <4>1, <4>4
    <3> QED BY <3>3, <3>4
  <2> QED BY <2>1, <2>2, <1>1, <1>3, <1>4, <1>5 DEF WaitersListed
<1> QED BY <1>2, <1>7, <1>9 DEF VInv

-----------------------------------------------------------------------------
LEMMA VInvInit == VInit => VInv
<1> SUFFICES ASSUME VInit PROVE VInv
  OBVIOUS
<1>1. Init /\ BraidInv
  BY BraidInvInit DEF VInit
<1>2. 0 \in Cords /\ NULL \notin Cords
  BY MaxCordsAssumption, NullAssumption DEF Cords
<1>3. ToSet(<< >>) = {} /\ IsInjective(<< >>) /\ << >> \in Seq(Entry) /\ Len(<< >>) = 0
  BY DEF ToSet, IsInjective
<1>4. MaxWaits \in Nat
  BY VisorAssumption
<1>5. VTypeOK
  BY <1>2, <1>3, <1>4 DEF VInit, VTypeOK
<1>6. phase = "init" /\ blocked = {} /\ zombies = {} /\ freed = {}
  BY <1>1 DEF Init
<1>7. WaitersListed
  BY <1>3, <1>6 DEF VInit, WaitersListed, Waiting
<1>8. NULL # 0
  BY NullAssumption
<1> QED BY <1>1, <1>5, <1>6, <1>7, <1>8
        DEF VInit, VInv, VisorLives, OwnerKnown, IdleAtFirst, Drained, NoLostWakeup,
            ArraysInVisor, Dead

LEMMA VInvStep == VInv /\ [VNext]_allVars => VInv'
<1> SUFFICES ASSUME VInv, [VNext]_allVars PROVE VInv'
  OBVIOUS
<1>1. CASE AddVisor
  BY <1>1, AddVisorKeepsVInv
<1>2. CASE AddCord
  BY <1>2, AddKeepsVInv
<1>3. CASE VStart
  BY <1>3, StartKeepsVInv
<1>4. CASE FdWait
  BY <1>4, FdWaitKeepsVInv
<1>5. CASE Interrupt
  BY <1>5, InterruptKeepsVInv
<1>6. CASE VOthers
  BY <1>6, OthersKeepVInv
<1>7. CASE VisorSleeps
  BY <1>7, VisorSleepsKeepsVInv
<1>8. CASE VisorWakes
  BY <1>8, VisorWakesKeepsVInv
<1>9. CASE VisorFindsNothing \/ VisorYieldsAgain
  BY <1>9, VisorYieldsKeepsVInv
<1>10. CASE FdWaitFails \/ VisorStarts \/ DescriptorReady \/ UNCHANGED allVars
  BY <1>10, StandStillKeepsVInv
<1>11. CASE VReturn
  BY <1>11, VReturnKeepsVInv
<1> QED BY <1>1, <1>2, <1>3, <1>4, <1>5, <1>6, <1>7, <1>8, <1>9, <1>10, <1>11
        DEF VNext, Over

(* The inductive invariant of the visor. *)
THEOREM VisorInvariant == VSpec => []VInv
<1> QED BY VInvInit, VInvStep, PTL DEF VSpec

(* No fdwait goes unnoticed: the visor is awake while somebody waits.      *)
THEOREM WakeupsNeverLost == VSpec => []NoLostWakeup
<1>1. VInv => NoLostWakeup
  BY DEF VInv
<1> QED BY <1>1, VisorInvariant, PTL

(* A cord in fdwait has its entry in the list, and only cords that died or *)
(* were woken by others leave one behind.                                  *)
THEOREM WaitersAlwaysListed == VSpec => []WaitersListed
<1>1. VInv => WaitersListed
  BY DEF VInv
<1> QED BY <1>1, VisorInvariant, PTL

(* With the visor as the first cord the arrays live as long as it does,    *)
(* and can always grow.                                                    *)
THEOREM ArraysStayInVisor == VSpec => []ArraysInVisor
<1>1. VInv => ArraysInVisor
  BY DEF VInv
<1> QED BY <1>1, VisorInvariant, PTL

-----------------------------------------------------------------------------
(* Who stops being blocked is woken by the visor, halted, or may be woken  *)
(* by others.                                                              *)
LEMMA LeavesBlocked ==
  ASSUME VInv, [VNext]_allVars, phase = "running",
         NEW c \in Cords \ Interruptible, Waiting(c), c \notin blocked'
  PROVE  VisorWakes \/ Halt(c)
<1>1. CASE AddVisor \/ AddCord
  BY <1>1 DEF AddVisor, AddCord, Add, Waiting
<1>2. CASE VStart \/ VReturn
  BY <1>2 DEF VStart, Start, VReturn, Return
<1>3. CASE FdWait
  BY <1>3, FdWaitFacts DEF Waiting
<1>4. CASE Interrupt
  BY <1>4 DEF Interrupt, Unblock, Waiting
<1>5. CASE VisorFindsNothing \/ VisorYieldsAgain \/ Yield
  BY <1>5, YieldFacts DEF VisorFindsNothing, VisorYieldsAgain, Waiting
<1>6. CASE Exit \/ VisorSleeps
  <2>1. blocked \subseteq blocked'
    BY <1>6, ScheduleLists DEF Exit, VisorSleeps, Block
  <2> QED BY <2>1 DEF Waiting
<1>7. CASE \E d \in Cords : Halt(d)
  BY <1>7 DEF Halt, HaltRunable, HaltBlocked, Waiting
<1>8. CASE FdWaitFails \/ VisorStarts \/ DescriptorReady \/ UNCHANGED allVars
  BY <1>8 DEF FdWaitFails, VisorStarts, DescriptorReady, allVars, vars, Waiting
<1> QED BY <1>1, <1>2, <1>3, <1>4, <1>5, <1>6, <1>7, <1>8 DEF VNext, VOthers, Over

LEMMA WokenStep ==
  ASSUME VInv, OnlyVisorLeft', [VNext]_allVars, NEW c \in Cords \ Interruptible,
         Waiting(c), c \in ToSet(runable') \/ curr' = c
  PROVE  CurrentEntry(c) \in ready
<1>1. VInv'
  BY VInvStep
<1>2. phase = "running" /\ c \notin ToSet(runable) /\ c # curr
  <2>1. phase \notin {"init", "done"}
    BY DEF VInv, IdleAtFirst, BraidInv, ClearedWhenDone, Waiting
  <2>2. phase # "returning"
    BY ReturnsAlone DEF OnlyVisorLeft, Waiting
  <2>3. phase = "running"
    BY <2>1, <2>2 DEF VInv, BraidInv, TypeOK
  <2> QED BY <2>3, VFacts DEF Waiting
<1>3. visor' = visor
  BY <1>2 DEF VNext, AddVisor, AddCord, VStart, FdWait, FdWaitFails, Interrupt, VOthers,
       VisorStarts, VisorSleeps, VisorWakes, VisorFindsNothing, VisorYieldsAgain,
       DescriptorReady, VReturn, Over, ioVars, allVars
<1>4. c \notin blocked'
  <2> SUFFICES ASSUME c \in blocked' PROVE FALSE
    OBVIOUS
  <2>1. phase' \notin {"init", "done"}
    BY <1>1 DEF VInv, IdleAtFirst, BraidInv, ClearedWhenDone
  <2>2. phase' # "returning"
    BY <1>3 DEF OnlyVisorLeft, Waiting
  <2>3. phase' = "running"
    BY <2>1, <2>2, <1>1 DEF VInv, BraidInv, TypeOK
  <2>4. Running' = {curr'}
    BY <2>3 DEF Running
  <2> QED BY <2>3, <2>4, <1>1 DEF VInv, BraidInv, Accounted
<1>5. CASE Halt(c)
  <2>1. c \notin ToSet(runable) /\ UNCHANGED <<runable, curr>>
    BY <1>2, <1>5 DEF Halt, HaltRunable, HaltBlocked, ToSet
  <2> QED BY <2>1, <1>2
<1>6. CASE VisorWakes
  <2>1. c \in ToSet(Reported) /\ c \notin Dead
    BY <1>4, <1>6, VisorWakesFacts, VFacts DEF Waiting
  <2>2. entries \in Seq(Entry)
    BY DEF VInv, VTypeOK
  <2>3. PICK p \in DOMAIN entries : entries[p][1] = c /\ IsReady(entries[p])
    BY <2>1, <2>2, ReportedElements
  <2>4. entries[p] \in ToSet(entries)
    BY DEF ToSet
  <2>5. entries[p] = CurrentEntry(c)
    BY <2>1, <2>3, <2>4, <1>2 DEF VInv, WaitersListed, Dead
  <2> QED BY <2>3, <2>5 DEF IsReady
<1> QED BY <1>2, <1>4, <1>5, <1>6, LeavesBlocked

(* A cord that only the visor may wake comes back from fdwait when its     *)
(* descriptor is ready, and not before.                                    *)
THEOREM WokenOnlyWhenReady == VSpec => WokenWhenReady
<1>1. VInv /\ OnlyVisorLeft' /\ [VNext]_allVars =>
        [\A c \in Cords \ Interruptible :
           Waiting(c) /\ (c \in ToSet(runable') \/ curr' = c) => CurrentEntry(c) \in ready]_allVars
  BY WokenStep
<1> QED BY <1>1, ReturnsAlone, VisorInvariant, PTL DEF VSpec, WokenWhenReady
=============================================================================
