----------------------------- MODULE UringProofs -----------------------------
(***************************************************************************)
(* Proofs about the io_uring visor, for every number of cords, size of the *)
(* submission queue and set of cords that others wake: the visor's count   *)
(* is the number of outstanding operations and it sleeps only when there   *)
(* is none, every operation has its caller, and an I/O call returns the    *)
(* result of its own operation.                                            *)
(***************************************************************************)
EXTENDS Uring, BraidProofs

Op == Cords \X (1 .. MaxOps)

UTypeOK ==
  /\ visor \in Cords \cup {NULL}
  /\ owner \in Cords
  /\ looping \in BOOLEAN
  /\ cnt \in Nat
  /\ isBlocked \in BOOLEAN
  /\ Outstanding \subseteq Op
  /\ IsFiniteSet(Outstanding)
  /\ ripe \subseteq inflight
  /\ current \in [Cords -> 0 .. MaxOps]

Dead == zombies \cup freed

(* The visor is there when braidstart is called, and does not die before   *)
(* braidstart cleans up.                                                   *)
VisorLives ==
  /\ visor # NULL => visor \in 0 .. count - 1
  /\ phase \in {"running", "returning"} => visor # NULL
  /\ phase # "done" => visor \notin Dead

(* ctx->cord is the visor's as soon as it has run.                         *)
OwnerKnown ==
  /\ ~looping => ~isBlocked
  /\ looping => owner = visor /\ visor # NULL

(* Before braidstart nobody waits and nothing is outstanding.              *)
IdleAtFirst == phase = "init" => Outstanding = {} /\ blocked = {}

(* schedule() returns to braidstart with no cord to run, or none blocked.  *)
Drained == phase = "returning" => runable = << >> \/ blocked = {}

UInv ==
  /\ BraidInv
  /\ UTypeOK
  /\ VisorLives
  /\ OwnerKnown
  /\ IdleAtFirst
  /\ Drained
  /\ VisorWatches
  /\ OpsOwned

-----------------------------------------------------------------------------
(* Where the cords are, and where they are not.                            *)
LEMMA UFacts ==
  ASSUME UInv
  PROVE  /\ runable \in Seq(Cords) /\ IsInjective(runable)
         /\ ToSet(runable) \subseteq Cords
         /\ blocked \subseteq Cords
         /\ blocked \cap Dead = {} /\ ToSet(runable) \cap (blocked \cup Dead) = {}
         /\ phase = "running" => /\ curr \in Cords /\ curr # NULL
                                 /\ curr \notin ToSet(runable) \cup blocked \cup Dead
                                 /\ Running = {curr}
         /\ phase # "running" => Running = {}
         /\ NULL \notin Cords /\ 0 \in Cords
BY WhereCordsAre DEF UInv, Dead, Running

(* When schedule() has returned to braidstart nobody but the visor is      *)
(* blocked: while a cord waits the visor can run.                          *)
OnlyVisorLeft == phase = "returning" => blocked \subseteq {visor} \cup Interruptible

LEMMA ReturnsAlone == UInv => OnlyVisorLeft
<1> SUFFICES ASSUME UInv, phase = "returning", runable = << >>
             PROVE  blocked \subseteq {visor} \cup Interruptible
  BY DEF UInv, Drained, OnlyVisorLeft
<1>1. Running = {} /\ ToSet(runable) = {}
  BY DEF Running, ToSet
<1>2. visor \in blocked
  BY <1>1 DEF UInv, BraidInv, Accounted, VisorLives, Dead
<1>3. Outstanding = {}
  BY <1>2 DEF UInv, VisorWatches
<1> QED BY <1>3 DEF UInv, OpsOwned

-----------------------------------------------------------------------------
(* Every call keeps the invariant. *)

(* A step that starts and finishes no operation, and blocks nobody:        *)
(* whoever it takes out of the blocked cords is dead or may be woken by    *)
(* others.                                                                 *)
LEMMA QuietKeepsUInv ==
  ASSUME UInv, BraidInv',
         0 .. count - 1 \subseteq 0 .. count' - 1,
         Dead \subseteq Dead',
         blocked' \subseteq blocked,
         blocked \ blocked' \subseteq (Dead' \cup Interruptible) \ {visor},
         phase' = "done" <=> phase = "done",
         phase' = "init" => phase = "init",
         phase' \in {"running", "returning"} => visor # NULL,
         phase' # "done" => visor \notin Dead',
         Drained', OwnerKnown',
         UNCHANGED <<visor, cnt, isBlocked, current>>,
         Outstanding' = Outstanding, ripe' \subseteq inflight',
         owner' \in Cords, looping' \in BOOLEAN
  PROVE  UInv'
<1>1. UTypeOK'
  BY DEF UInv, UTypeOK
<1>2. VisorLives' /\ IdleAtFirst'
  BY DEF UInv, VisorLives, IdleAtFirst
<1>3. VisorWatches'
  BY DEF UInv, VisorWatches
<1>4. OpsOwned'
  <2> SUFFICES ASSUME phase' # "done"
               PROVE  /\ \A op \in Outstanding :
                           op[1] \in (blocked' \cup zombies' \cup freed') \cup Interruptible
                      /\ \A c \in blocked' \ ({visor} \cup Interruptible) :
                           {op \in Outstanding : op[1] = c} = {CurrentOp(c)}
    BY DEF OpsOwned, CurrentOp
  <2> QED BY DEF UInv, OpsOwned, Dead
<1> QED BY <1>1, <1>2, <1>3, <1>4 DEF UInv

(* What a call that only ends in schedule() does to the lists.             *)
LEMMA YieldFacts ==
  ASSUME UInv, Yield
  PROVE  /\ BraidInv' /\ Drained'
         /\ blocked' = blocked /\ Dead' = Dead /\ count' = count
         /\ phase = "running" /\ phase' \in {"running", "returning"}
<1>1. BraidInv'
  BY SwitchKeepsInv DEF UInv
<1>2. /\ blocked' = blocked /\ zombies' \cup freed' = zombies \cup freed
      /\ phase' \in {"running", "returning"}
      /\ phase' = "returning" => runable' = << >> \/ blocked' = {}
  BY ScheduleLists DEF Yield
<1> QED BY <1>1, <1>2 DEF Yield, Dead, Drained

(* What the steps that are no I/O leave of the ring.                       *)
LEMMA RingStays ==
  ASSUME UInv, UNCHANGED uVars
  PROVE  /\ UNCHANGED <<visor, owner, looping, cnt, isBlocked, current>>
         /\ Outstanding' = Outstanding /\ ripe' \subseteq inflight'
         /\ owner' \in Cords /\ looping' \in BOOLEAN /\ OwnerKnown'
<1>1. UNCHANGED <<visor, owner, looping, cnt, isBlocked, sq, inflight, ripe, current>>
  BY DEF uVars, ringVars
<1> QED BY <1>1 DEF UInv, UTypeOK, OwnerKnown, Outstanding

LEMMA AddKeepsUInv ==
  ASSUME UInv, AddCord
  PROVE  UInv'
<1>1. Add("normal") /\ "normal" \in Flags /\ UNCHANGED uVars
  BY DEF AddCord, Flags
<1>2. BraidInv'
  BY <1>1, AddKeepsInv DEF UInv
<1>3. count' = count + 1
  BY <1>1, NextIdIsCount DEF Add, UInv, BraidInv
<1>4. UNCHANGED <<phase, blocked, zombies, freed>> /\ phase \in {"init", "running"}
  BY <1>1 DEF Add, Usable
<1>5. count \in Nat
  BY MaxCordsAssumption DEF UInv, BraidInv, TypeOK
<1>6. phase # "init" => visor # NULL
  BY <1>4 DEF UInv, VisorLives
<1>7. visor \notin Dead /\ Dead' = Dead /\ Drained'
  BY <1>4 DEF UInv, VisorLives, Dead, Drained
<1> QED BY <1>1, <1>2, <1>3, <1>4, <1>5, <1>6, <1>7, RingStays, QuietKeepsUInv

LEMMA StartKeepsUInv ==
  ASSUME UInv, UStart
  PROVE  UInv'
<1>1. visor # NULL /\ Start /\ phase = "init" /\ count' = count /\ UNCHANGED uVars
  BY DEF UStart, Start
<1>2. BraidInv'
  BY <1>1, SwitchKeepsInv DEF UInv
<1>3. /\ blocked' = blocked /\ zombies' \cup freed' = zombies \cup freed
      /\ phase' \in {"running", "returning"}
      /\ phase' = "returning" => runable' = << >> \/ blocked' = {}
  BY <1>1, ScheduleLists DEF Start
<1>4. visor \notin Dead /\ Dead' = Dead /\ Drained'
  BY <1>1, <1>3 DEF UInv, VisorLives, Dead, Drained
<1> QED BY <1>1, <1>2, <1>3, <1>4, RingStays, QuietKeepsUInv

LEMMA InterruptKeepsUInv ==
  ASSUME UInv, Interrupt
  PROVE  UInv'
<1>1. PICK c \in Interruptible \ {visor} : Unblock(c, 0)
  BY DEF Interrupt
<1>2. c \in Cords /\ 0 \in Vals
  BY UringAssumption, ValsAssumption
<1>3. BraidInv'
  BY <1>1, <1>2, UnblockKeepsInv DEF UInv
<1>4. blocked' = blocked \ {c} /\ UNCHANGED <<phase, zombies, freed, count>>
  BY <1>1 DEF Unblock
<1>5. UNCHANGED uVars /\ phase = "running"
  BY DEF Interrupt, InCord
<1>6. visor # NULL /\ visor \notin Dead /\ Dead' = Dead /\ Drained'
  BY <1>4, <1>5 DEF UInv, VisorLives, Dead, Drained
<1> QED BY <1>1, <1>3, <1>4, <1>5, <1>6, RingStays, QuietKeepsUInv

LEMMA OthersKeepUInv ==
  ASSUME UInv, UOthers
  PROVE  UInv'
<1>1. UNCHANGED uVars /\ phase = "running" /\ curr # visor
  BY DEF UOthers, InCord
<1>2. visor # NULL /\ visor \notin Dead
  BY <1>1 DEF UInv, VisorLives
<1>3. CASE Yield
  BY <1>1, <1>2, <1>3, YieldFacts, RingStays, QuietKeepsUInv
<1>4. CASE Exit
  <2>1. BraidInv' /\ count' = count
    BY <1>4, SwitchKeepsInv DEF UInv, Exit
  <2>2. /\ blocked' = blocked /\ zombies' \cup freed' = (zombies \cup {curr}) \cup freed
        /\ phase' \in {"running", "returning"}
        /\ phase' = "returning" => runable' = << >> \/ blocked' = {}
    BY <1>4, ScheduleLists DEF Exit
  <2>3. Dead' = Dead \cup {curr} /\ Drained'
    BY <2>2 DEF Dead, Drained
  <2> QED BY <1>1, <1>2, <2>1, <2>2, <2>3, RingStays, QuietKeepsUInv
<1>5. CASE \E c \in Cords \ {visor} : Halt(c)
  <2>1. PICK c \in Cords \ {visor} : Halt(c)
    BY <1>5
  <2>2. BraidInv'
    BY <2>1, HaltKeepsInv DEF UInv
  <2>3. /\ UNCHANGED <<phase, freed, count>> /\ zombies' = zombies \cup {c}
        /\ blocked' = blocked \/ blocked' = blocked \ {c}
    BY <2>1 DEF Halt, HaltRunable, HaltBlocked
  <2>4. Dead' = Dead \cup {c} /\ Drained'
    BY <1>1, <2>3 DEF Dead, Drained
  <2> QED BY <1>1, <1>2, <2>1, <2>2, <2>3, <2>4, RingStays, QuietKeepsUInv
<1> QED BY <1>3, <1>4, <1>5 DEF UOthers

(* Steps that leave the scheduler alone, and the set of operations.        *)
LEMMA StandStillKeepsUInv ==
  ASSUME UInv, VisorStarts \/ VisorWaits \/ Completes \/ Idle \/ UNCHANGED allVars
  PROVE  UInv'
<1>1. UNCHANGED vars /\ UNCHANGED <<visor, cnt, isBlocked, current>>
  BY DEF VisorStarts, VisorWaits, Completes, Idle, allVars, uVars, ringVars
<1>2. UNCHANGED <<phase, curr, runable, blocked, zombies, freed, count>>
  BY <1>1 DEF vars
<1>3. BraidInv'
  BY <1>1, BraidInvStep DEF UInv
<1>4. Drained' /\ Dead' = Dead
  BY <1>2 DEF UInv, Drained, Dead
<1>5. /\ phase \in {"running", "returning"} => visor # NULL
      /\ phase # "done" => visor \notin Dead
  BY DEF UInv, VisorLives
<1>6. /\ Outstanding' = Outstanding /\ ripe' \subseteq inflight'
      /\ owner' \in Cords /\ looping' \in BOOLEAN /\ OwnerKnown'
  <2>1. CASE VisorStarts
    <3>1. /\ owner' = curr /\ looping' = TRUE /\ curr = visor /\ phase = "running"
          /\ UNCHANGED <<visor, sq, inflight, ripe>>
      BY <2>1 DEF VisorStarts, InVisor, ringVars
    <3> QED BY <3>1, UFacts DEF UInv, UTypeOK, OwnerKnown, Outstanding
  <2>2. CASE VisorWaits
    <3>1. /\ sq' = {} /\ inflight' = sq \cup inflight /\ UNCHANGED <<owner, looping, ripe>>
      BY <2>2 DEF VisorWaits, Outstanding
    <3> QED BY <3>1, <1>1 DEF UInv, UTypeOK, OwnerKnown, Outstanding
  <2>3. CASE Completes
    <3>1. /\ ripe' \subseteq ripe \cup inflight
          /\ UNCHANGED <<owner, looping, sq, inflight>>
      BY <2>3 DEF Completes
    <3> QED BY <3>1, <1>1 DEF UInv, UTypeOK, OwnerKnown, Outstanding
  <2>4. CASE Idle \/ UNCHANGED allVars
    <3>1. UNCHANGED uVars
      BY <2>4 DEF Idle, allVars
    <3> QED BY <3>1, RingStays
  <2> QED BY <2>1, <2>2, <2>3, <2>4
<1> QED BY <1>1, <1>2, <1>3, <1>4, <1>5, <1>6, QuietKeepsUInv

LEMMA AddVisorKeepsUInv ==
  ASSUME UInv, AddVisor
  PROVE  UInv'
<1>1. /\ Add("system") /\ "system" \in Flags /\ phase = "init" /\ visor = NULL
      /\ UNCHANGED <<owner, looping, cnt, isBlocked, sq, inflight, ripe, current>>
  BY DEF AddVisor, Flags, ringVars
<1>2. BraidInv'
  BY <1>1, AddKeepsInv DEF UInv
<1>3. visor' = count /\ count' = count + 1 /\ count \in Cords
  BY <1>1, NextIdIsCount DEF Add, AddVisor, UInv, BraidInv
<1>4. UNCHANGED <<phase, blocked, zombies, freed>>
  BY <1>1 DEF Add
<1>5. count \in Nat /\ count \notin Dead
  BY MaxCordsAssumption DEF UInv, BraidInv, TypeOK, Accounted, Dead
<1>6. ~looping /\ ~isBlocked /\ Outstanding = {} /\ blocked = {} /\ Outstanding' = Outstanding
  BY <1>1 DEF UInv, OwnerKnown, IdleAtFirst, UTypeOK, Outstanding
<1>7. UTypeOK' /\ VisorLives'
  BY <1>1, <1>3, <1>4, <1>5, <1>6 DEF UInv, UTypeOK, VisorLives, Dead
<1>8. OwnerKnown' /\ IdleAtFirst' /\ Drained' /\ VisorWatches' /\ OpsOwned'
  BY <1>1, <1>4, <1>6 DEF UInv, OwnerKnown, IdleAtFirst, Drained, VisorWatches, OpsOwned
<1> QED BY <1>2, <1>7, <1>8 DEF UInv

(* The visor goes to sleep when it counts no operation.                    *)
LEMMA VisorSleepsKeepsUInv ==
  ASSUME UInv, VisorSleeps
  PROVE  UInv'
<1>1. /\ Block /\ phase = "running" /\ curr = visor /\ looping /\ cnt = 0
      /\ isBlocked' = TRUE /\ count' = count
      /\ UNCHANGED <<visor, owner, looping, cnt, sq, inflight, ripe, current>>
  BY DEF VisorSleeps, InVisor, Block
<1>2. BraidInv'
  BY <1>1, SwitchKeepsInv DEF UInv
<1>3. /\ blocked' = blocked \cup {visor} /\ zombies' \cup freed' = zombies \cup freed
      /\ phase' \in {"running", "returning"}
      /\ phase' = "returning" => runable' = << >> \/ blocked' = {}
  BY <1>1, ScheduleLists DEF Block
<1>4. Outstanding = {}
  BY <1>1, FS_EmptySet DEF UInv, UTypeOK, VisorWatches
<1>5. Outstanding' = Outstanding
  BY <1>1 DEF Outstanding
<1>6. UTypeOK' /\ OwnerKnown' /\ IdleAtFirst' /\ Drained' /\ VisorWatches'
  BY <1>1, <1>3, <1>4, <1>5 DEF UInv, UTypeOK, OwnerKnown, IdleAtFirst, Drained, VisorWatches
<1>7. VisorLives'
  BY <1>1, <1>3 DEF UInv, VisorLives, Dead
<1>8. OpsOwned'
  BY <1>1, <1>3, <1>4, <1>5 DEF UInv, OpsOwned, CurrentOp
<1> QED BY <1>2, <1>6, <1>7, <1>8 DEF UInv

LEMMA UReturnKeepsUInv ==
  ASSUME UInv, UReturn
  PROVE  UInv'
<1>1. /\ Return /\ phase' = "done" /\ phase = "returning" /\ blocked' = {} /\ count' = count
      /\ UNCHANGED uVars /\ UNCHANGED <<visor, owner, looping, cnt, isBlocked, current>>
  BY DEF UReturn, Return, uVars, ringVars
<1>2. BraidInv'
  BY <1>1, ReturnKeepsInv DEF UInv
<1>3. Outstanding' = Outstanding /\ ripe' \subseteq inflight'
  BY <1>1, RingStays
<1> QED BY <1>1, <1>2, <1>3 DEF UInv, UTypeOK, VisorLives, OwnerKnown, IdleAtFirst, Drained,
                                VisorWatches, OpsOwned

-----------------------------------------------------------------------------
(* An I/O call finds a number for the operation that its cord has not      *)
(* outstanding.                                                            *)
LEMMA NewOpIsNew ==
  ASSUME UInv, NewOp[2] <= MaxOps
  PROVE  /\ NewOp[2] \in 1 .. MaxOps /\ NewOp = <<curr, NewOp[2]>>
         /\ NewOp \notin Outstanding
<1> DEFINE P(k) == /\ <<curr, k>> \notin Outstanding
                   /\ \A j \in 1 .. k - 1 : <<curr, j>> \in Outstanding
           T == {k \in 1 .. MaxOps + 1 : <<curr, k>> \notin Outstanding}
           new == CHOOSE k \in 1 .. MaxOps + 1 : P(k)
<1>1. MaxOps \in Nat
  BY UringAssumption
<1>2. MaxOps + 1 \in T
  BY <1>1 DEF UInv, UTypeOK, Op
<1>3. PICK k \in T : \A m \in T : k <= m
  <2>1. T \in SUBSET Nat /\ T # {}
    BY <1>1, <1>2
  <2> HIDE DEF T
  <2> QED BY <2>1, LeastNumber
<1>4. k \in 1 .. MaxOps + 1 /\ P(k)
  BY <1>1, <1>3
<1>5. NewOp = <<curr, new>>
  BY DEF NewOp
<1>6. new \in 1 .. MaxOps + 1 /\ P(new)
  <2> HIDE DEF P
  <2> QED BY <1>4
<1> HIDE DEF new
<1>7. NewOp[2] = new
  BY <1>5
<1> QED BY <1>1, <1>5, <1>6, <1>7

(* Whom get_sqe wakes: the visor if it sleeps, nobody else.                *)
LEMMA WakesTheVisor ==
  ASSUME UInv, phase # "done"
  PROVE  /\ Wakes \in Seq(Cords) /\ IsInjective(Wakes)
         /\ ToSet(Wakes) = blocked \cap {visor}
<1>1. isBlocked <=> visor \in blocked
  BY DEF UInv, VisorWatches
<1>2. CASE isBlocked
  <2>1. owner = visor /\ owner \in Cords
    BY <1>2 DEF UInv, OwnerKnown, UTypeOK
  <2>2. <<owner>> \in Seq(Cords) /\ IsInjective(<<owner>>) /\ ToSet(<<owner>>) = {owner}
    BY <2>1 DEF IsInjective, ToSet
  <2>3. /\ Woken(<<owner>>) \in Seq(Cords) /\ IsInjective(Woken(<<owner>>))
        /\ ToSet(Woken(<<owner>>)) = {owner} \cap blocked
    BY <2>2, WokenElements
  <2> QED BY <1>1, <1>2, <2>1, <2>3 DEF Wakes
<1>3. CASE ~isBlocked
  <2>1. Wakes = << >>
    BY <1>3 DEF Wakes
  <2> QED BY <1>1, <1>3, <2>1 DEF IsInjective, ToSet
<1> QED BY <1>2, <1>3

LEMMA IoCallFacts ==
  ASSUME UInv, IoCall
  PROVE  /\ BraidInv' /\ Drained'
         /\ blocked' = (blocked \ {visor}) \cup {curr}
         /\ Dead' = Dead
         /\ phase = "running" /\ phase' \in {"running", "returning"}
<1> DEFINE q == runable \o Wakes
           blk == (blocked \ ToSet(Wakes)) \cup {curr}
<1>1. /\ phase = "running" /\ curr # visor
      /\ Schedule(q, blk, zombies, freed) /\ UNCHANGED <<flags, count>>
      /\ val' = [c \in Cords |-> IF c \in ToSet(Wakes) THEN 0 ELSE val[c]]
  BY DEF IoCall, InCord
<1>2. /\ Wakes \in Seq(Cords) /\ IsInjective(Wakes) /\ ToSet(Wakes) = blocked \cap {visor}
  BY <1>1, WakesTheVisor
<1>3. /\ q \in Seq(Cords) /\ ToSet(q) = ToSet(runable) \cup (blocked \cap {visor})
      /\ IsInjective(q)
  <2>1. ToSet(runable) \cap ToSet(Wakes) = {}
    BY <1>2, UFacts
  <2> QED BY <2>1, <1>2, UFacts, ConcatElements
<1>4. blk = (blocked \ {visor}) \cup {curr}
  BY <1>2
<1> HIDE DEF q, blk
<1>5. Split(q, blk, zombies, freed)
  BY <1>1, <1>3, <1>4, UFacts DEF UInv, BraidInv, TypeOK, Accounted, Split, Dead
<1>6. val' \in [Cords -> Vals]
  BY <1>1, ValsAssumption DEF UInv, BraidInv, TypeOK
<1>7. BraidInv'
  BY <1>1, <1>5, <1>6, ScheduleAccounts DEF UInv, BraidInv
<1>8. /\ blocked' = blk /\ zombies' \cup freed' = zombies \cup freed
      /\ phase' \in {"running", "returning"}
      /\ phase' = "returning" => runable' = << >> \/ blocked' = {}
  BY <1>1, ScheduleLists
<1> QED BY <1>1, <1>4, <1>7, <1>8 DEF Dead, Drained

(* A cord starts an operation and waits for it.                            *)
LEMMA IoCallKeepsUInv ==
  ASSUME UInv, IoCall
  PROVE  UInv'
<1>1. /\ curr # visor /\ NewOp[2] <= MaxOps /\ count' = count
      /\ cnt' = cnt + 1 /\ isBlocked' = FALSE
      /\ current' = [current EXCEPT ![curr] = NewOp[2]]
      /\ UNCHANGED <<visor, owner, looping, ripe>>
  BY DEF IoCall, InCord, get_sqe
<1>2. /\ BraidInv' /\ Drained'
      /\ blocked' = (blocked \ {visor}) \cup {curr}
      /\ Dead' = Dead
      /\ phase = "running" /\ phase' \in {"running", "returning"}
  BY IoCallFacts
<1>3. curr \in Cords /\ curr \notin blocked \cup Dead
  BY <1>2, UFacts
<1> DEFINE new == NewOp
<1>4. new = <<curr, new[2]>> /\ new[2] \in 1 .. MaxOps /\ new \notin Outstanding
  BY <1>1, NewOpIsNew
<1>5. Outstanding' = Outstanding \cup {new} /\ inflight \subseteq inflight'
  BY DEF IoCall, get_sqe, Tag, Outstanding
<1>6. current' = [current EXCEPT ![curr] = new[2]]
  BY <1>1
<1> HIDE DEF new
<1>7. MaxOps \in Nat /\ current \in [Cords -> 0 .. MaxOps] /\ cnt \in Nat
  BY UringAssumption DEF UInv, UTypeOK
<1>8. IsFiniteSet(Outstanding') /\ cnt' = Cardinality(Outstanding')
  <2>1. IsFiniteSet(Outstanding) /\ cnt = Cardinality(Outstanding)
    BY DEF UInv, UTypeOK, VisorWatches
  <2> QED BY <2>1, <1>1, <1>4, <1>5, FS_AddElement
<1>9. new \in Op
  BY <1>3, <1>4 DEF Op
<1>10. UTypeOK'
  <2>1. current' \in [Cords -> 0 .. MaxOps]
    BY <1>3, <1>4, <1>6, <1>7
  <2>2. cnt' \in Nat
    BY <1>1, <1>7
  <2>3. ripe' \subseteq inflight'
    BY <1>1, <1>5 DEF UInv, UTypeOK
  <2> QED BY <1>1, <1>5, <1>8, <1>9, <2>1, <2>2, <2>3 DEF UInv, UTypeOK
<1>11. VisorLives' /\ OwnerKnown' /\ IdleAtFirst'
  BY <1>1, <1>2 DEF UInv, VisorLives, OwnerKnown, IdleAtFirst
<1>12. VisorWatches'
  BY <1>1, <1>2, <1>8 DEF VisorWatches
<1>13. \A c \in Cords : CurrentOp(c)' = IF c = curr THEN new ELSE CurrentOp(c)
  BY <1>3, <1>4, <1>6, <1>7 DEF CurrentOp
<1>14. OpsOwned'
  <2>1. ASSUME NEW op \in Outstanding'
        PROVE  op[1] \in (blocked' \cup zombies' \cup freed') \cup Interruptible
    <3>1. CASE op = new
      BY <3>1, <1>2, <1>4
    <3>2. CASE op \in Outstanding
      <4>1. op[1] \in (blocked \cup Dead) \cup Interruptible
        BY <3>2, <1>2 DEF UInv, OpsOwned, Dead
      <4>2. visor \notin blocked
        BY <3>2 DEF UInv, VisorWatches
      <4> QED BY <4>1, <4>2, <1>2 DEF Dead
    <3> QED BY <3>1, <3>2, <1>5
  <2>2. ASSUME NEW c \in blocked' \ ({visor'} \cup Interruptible)
        PROVE  {op \in Outstanding' : op[1] = c} = {CurrentOp(c)'}
    <3>1. c \in Cords /\ (c = curr \/ c \in blocked \ ({visor} \cup Interruptible))
      BY <2>2, <1>1, <1>2, <1>3, UFacts
    <3>2. CASE c = curr
      <4>1. \A op \in Outstanding : op[1] # c
        BY <3>2, <2>2, <1>2, <1>3 DEF UInv, OpsOwned, Dead
      <4> QED BY <4>1, <3>1, <3>2, <1>4, <1>5, <1>13
    <3>3. CASE c # curr
      <4>1. {op \in Outstanding : op[1] = c} = {CurrentOp(c)}
        BY <3>1, <3>3, <1>2 DEF UInv, OpsOwned
      <4> QED BY <4>1, <3>1, <3>3, <1>4, <1>5, <1>13
    <3> QED BY <3>2, <3>3
  <2> QED BY <2>1, <2>2 DEF OpsOwned
<1> QED BY <1>2, <1>10, <1>11, <1>12, <1>14 DEF UInv

-----------------------------------------------------------------------------
(* What one call of io_uring_submit_and_wait_timeout and the loop over its *)
(* completions do.                                                         *)
Serves(done) ==
  /\ done \subseteq Outstanding
  /\ blocked' = blocked \ Found(done)
  /\ val' = [c \in Cords |-> IF c \in Found(done) THEN 1 ELSE val[c]]
  /\ cnt' = cnt - Cardinality(done)
  /\ Outstanding' = Outstanding \ done
  /\ ripe' = {}

LEMMA VisorCallFacts ==
  ASSUME UInv, VisorCall
  PROVE  /\ BraidInv' /\ Drained'
         /\ Dead' = Dead
         /\ phase = "running" /\ phase' \in {"running", "returning"}
         /\ \E done : Serves(done)
<1>1. PICK now \in SUBSET sq :
        LET done == ripe \cup now IN
          /\ \E woken \in SetToSeqs(Found(done)) :
               Schedule(Append(runable \o woken, curr), blocked \ ToSet(woken), zombies, freed)
          /\ val' = [c \in Cords |-> IF c \in Found(done) THEN 1 ELSE val[c]]
          /\ cnt' = cnt - Counted(done)
          /\ inflight' = Outstanding \ Taken(done)
          /\ ripe' = done \ Taken(done)
  BY DEF VisorCall
<1> DEFINE done == ripe \cup now
<1>2. PICK woken \in SetToSeqs(Found(done)) :
        Schedule(Append(runable \o woken, curr), blocked \ ToSet(woken), zombies, freed)
  BY <1>1
<1>3. done \subseteq Outstanding
  BY DEF UInv, UTypeOK, Outstanding
<1>4. /\ val' = [c \in Cords |-> IF c \in Found(done) THEN 1 ELSE val[c]]
      /\ cnt' = cnt - Cardinality(done)
      /\ inflight' = Outstanding \ done
      /\ ripe' = {}
  BY <1>1 DEF Counted, Taken
<1>5. sq' = {} /\ phase = "running" /\ UNCHANGED <<flags, count>>
  BY DEF VisorCall, InVisor
<1> HIDE DEF done
<1> DEFINE both == runable \o woken
           q == Append(both, curr)
           blk == blocked \ ToSet(woken)
<1>6. /\ woken \in Seq(Cords) /\ IsInjective(woken)
      /\ ToSet(woken) = Found(done)
  <2>1. Found(done) \in SUBSET Cords
    BY UFacts DEF Found
  <2>2. IsFiniteSet(Cords)
    BY MaxCordsAssumption, FS_Interval DEF Cords
  <2>3. IsFiniteSet(Found(done))
    BY <2>1, <2>2, FS_Subset
  <2> HIDE DEF both, q, blk
  <2> QED BY <2>1, <2>3, ListingElements
<1>7. Found(done) \subseteq blocked
  BY DEF Found
<1>8. /\ both \in Seq(Cords) /\ IsInjective(both)
      /\ ToSet(both) = ToSet(runable) \cup Found(done)
  <2>1. ToSet(runable) \cap ToSet(woken) = {}
    BY <1>6, <1>7, UFacts
  <2> QED BY <2>1, <1>6, UFacts, ConcatElements
<1>9. /\ q \in Seq(Cords) /\ ToSet(q) = ToSet(runable) \cup Found(done) \cup {curr}
      /\ IsInjective(q)
  <2>1. curr \in Cords /\ curr \notin ToSet(both)
    BY <1>5, <1>7, <1>8, UFacts
  <2> HIDE DEF both
  <2> QED BY <2>1, <1>8, AppendElements
<1>10. blk = blocked \ Found(done)
  BY <1>6
<1>11. Schedule(q, blk, zombies, freed)
  BY <1>2
<1> HIDE DEF both, q, blk
<1>12. Split(q, blk, zombies, freed)
  BY <1>5, <1>7, <1>9, <1>10, UFacts DEF UInv, BraidInv, TypeOK, Accounted, Split, Dead
<1>13. val' \in [Cords -> Vals]
  BY <1>4, UringAssumption DEF UInv, BraidInv, TypeOK
<1>14. BraidInv'
  BY <1>5, <1>11, <1>12, <1>13, ScheduleAccounts DEF UInv, BraidInv
<1>15. /\ blocked' = blk /\ zombies' \cup freed' = zombies \cup freed
       /\ phase' \in {"running", "returning"}
       /\ phase' = "returning" => runable' = << >> \/ blocked' = {}
  BY <1>11, ScheduleLists
<1>16. Outstanding' = Outstanding \ done
  BY <1>4, <1>5 DEF Outstanding
<1>17. Serves(done)
  BY <1>3, <1>4, <1>10, <1>15, <1>16 DEF Serves
<1> QED BY <1>5, <1>14, <1>15, <1>17 DEF Dead, Drained

(* The visor takes the completed operations off its count and wakes those  *)
(* that still wait for one.                                                *)
LEMMA VisorCallKeepsUInv ==
  ASSUME UInv, VisorCall
  PROVE  UInv'
<1>1. /\ curr = visor /\ looping /\ count' = count
      /\ UNCHANGED <<visor, owner, looping, isBlocked, current>>
  BY DEF VisorCall, InVisor
<1>2. /\ BraidInv' /\ Drained' /\ Dead' = Dead
      /\ phase = "running" /\ phase' \in {"running", "returning"}
  BY VisorCallFacts
<1>3. PICK done : Serves(done)
  BY VisorCallFacts
<1>4. /\ done \subseteq Outstanding /\ Outstanding' = Outstanding \ done
      /\ blocked' = blocked \ Found(done)
      /\ cnt' = cnt - Cardinality(done) /\ ripe' = {}
  BY <1>3 DEF Serves
<1>5. /\ IsFiniteSet(Outstanding') /\ cnt' = Cardinality(Outstanding') /\ cnt' \in Nat
  <2>1. IsFiniteSet(Outstanding) /\ cnt = Cardinality(Outstanding)
    BY DEF UInv, UTypeOK, VisorWatches
  <2>2. Outstanding \cap done = done
    BY <1>4
  <2>3. /\ IsFiniteSet(Outstanding \ done)
        /\ Cardinality(Outstanding \ done) = Cardinality(Outstanding) - Cardinality(done)
    BY <2>1, <2>2, FS_Difference
  <2>4. Cardinality(Outstanding \ done) \in Nat
    BY <2>3, FS_CardinalityType
  <2> QED BY <2>1, <2>3, <2>4, <1>4
<1>6. visor \in Cords /\ visor \notin blocked
  BY <1>1, <1>2, UFacts
<1>7. UTypeOK' /\ VisorLives' /\ OwnerKnown' /\ IdleAtFirst' /\ VisorWatches'
  BY <1>1, <1>2, <1>4, <1>5, <1>6 DEF UInv, UTypeOK, VisorLives, OwnerKnown, IdleAtFirst,
                                     VisorWatches
<1>8. OpsOwned'
  <2>1. ASSUME NEW op \in Outstanding'
        PROVE  op[1] \in (blocked' \cup zombies' \cup freed') \cup Interruptible
    <3> SUFFICES ASSUME op[1] \in Found(done), op[1] \notin Interruptible PROVE FALSE
      BY <1>2, <1>4 DEF UInv, OpsOwned, Dead
    <3>1. PICK o2 \in done : o2[1] = op[1]
      BY DEF Found
    <3>2. op[1] \in blocked \ ({visor} \cup Interruptible)
      BY <1>6 DEF Found
    <3>3. {o \in Outstanding : o[1] = op[1]} = {CurrentOp(op[1])}
      BY <3>2, <1>2 DEF UInv, OpsOwned
    <3>4. op = o2
      BY <3>1, <3>3, <1>4
    <3> QED BY <3>1, <3>4, <1>4
  <2>2. ASSUME NEW c \in blocked' \ ({visor'} \cup Interruptible)
        PROVE  {op \in Outstanding' : op[1] = c} = {CurrentOp(c)'}
    <3>1. c \in blocked \ ({visor} \cup Interruptible) /\ \A op \in done : op[1] # c
      BY <1>1, <1>4 DEF Found
    <3>2. {op \in Outstanding : op[1] = c} = {CurrentOp(c)}
      BY <3>1, <1>2 DEF UInv, OpsOwned
    <3>3. CurrentOp(c)' = CurrentOp(c)
      BY <1>1 DEF CurrentOp
    <3> QED BY <3>1, <3>2, <3>3, <1>4
  <2> QED BY <2>1, <2>2 DEF OpsOwned
<1> QED BY <1>2, <1>7, <1>8 DEF UInv

-----------------------------------------------------------------------------
LEMMA UInvInit == UInit => UInv
<1> SUFFICES ASSUME UInit PROVE UInv
  OBVIOUS
<1>1. Init /\ BraidInv
  BY BraidInvInit DEF UInit
<1>2. 0 \in Cords /\ MaxOps \in Nat
  BY MaxCordsAssumption, UringAssumption DEF Cords
<1>3. Outstanding = {} /\ IsFiniteSet(Outstanding) /\ cnt = Cardinality(Outstanding)
  BY FS_EmptySet DEF UInit, Outstanding
<1>4. UTypeOK
  <2>1. current \in [Cords -> 0 .. MaxOps]
    BY <1>2 DEF UInit
  <2>2. ripe \subseteq inflight /\ cnt \in Nat
    BY DEF UInit
  <2> QED BY <1>2, <1>3, <2>1, <2>2 DEF UInit, UTypeOK
<1>5. phase = "init" /\ blocked = {} /\ zombies = {} /\ freed = {}
  BY <1>1 DEF Init
<1> QED BY <1>1, <1>3, <1>4, <1>5
        DEF UInit, UInv, VisorLives, OwnerKnown, IdleAtFirst, Drained, VisorWatches,
            OpsOwned, Dead

LEMMA UInvStep == UInv /\ [UNext]_allVars => UInv'
<1> SUFFICES ASSUME UInv, [UNext]_allVars PROVE UInv'
  OBVIOUS
<1>1. CASE AddVisor
  BY <1>1, AddVisorKeepsUInv
<1>2. CASE AddCord
  BY <1>2, AddKeepsUInv
<1>3. CASE UStart
  BY <1>3, StartKeepsUInv
<1>4. CASE IoCall
  BY <1>4, IoCallKeepsUInv
<1>5. CASE Interrupt
  BY <1>5, InterruptKeepsUInv
<1>6. CASE UOthers
  BY <1>6, OthersKeepUInv
<1>7. CASE VisorSleeps
  BY <1>7, VisorSleepsKeepsUInv
<1>8. CASE VisorCall
  BY <1>8, VisorCallKeepsUInv
<1>9. CASE VisorStarts \/ VisorWaits \/ Completes \/ Idle \/ UNCHANGED allVars
  BY <1>9, StandStillKeepsUInv
<1>10. CASE UReturn
  BY <1>10, UReturnKeepsUInv
<1>11. CASE Over
  <2>1. UNCHANGED allVars
    BY <1>11 DEF Over, Terminated, allVars
  <2> QED BY <2>1, StandStillKeepsUInv
<1> QED BY <1>1, <1>2, <1>3, <1>4, <1>5, <1>6, <1>7, <1>8, <1>9, <1>10, <1>11 DEF UNext

(* The inductive invariant of the io_uring visor. *)
THEOREM UringInvariant == USpec => []UInv
<1> QED BY UInvInit, UInvStep, PTL DEF USpec

(* ctx->cnt counts the outstanding operations, and while there is one the  *)
(* visor does not sleep.                                                   *)
THEOREM VisorAlwaysWatches == USpec => []VisorWatches
<1>1. UInv => VisorWatches
  BY DEF UInv
<1> QED BY <1>1, UringInvariant, PTL

(* The caller of an outstanding operation is in that very call, unless it  *)
(* died or was woken by others.                                            *)
THEOREM OpsAlwaysOwned == USpec => []OpsOwned
<1>1. UInv => OpsOwned
  BY DEF UInv
<1> QED BY <1>1, UringInvariant, PTL

-----------------------------------------------------------------------------
(* Who stops being blocked is woken by the visor, halted, or may be woken  *)
(* by others.                                                              *)
LEMMA LeavesBlocked ==
  ASSUME UInv, [UNext]_allVars, phase = "running",
         NEW c \in Cords \ Interruptible, Calling(c), c \notin blocked'
  PROVE  VisorCall \/ Halt(c)
<1>1. CASE AddVisor \/ AddCord
  BY <1>1 DEF AddVisor, AddCord, Add, Calling
<1>2. CASE UStart \/ UReturn
  BY <1>2 DEF UStart, Start, UReturn, Return
<1>3. CASE IoCall
  BY <1>3, IoCallFacts DEF Calling
<1>4. CASE Interrupt
  BY <1>4 DEF Interrupt, Unblock, Calling
<1>5. CASE Exit \/ VisorSleeps \/ Yield
  <2>1. blocked \subseteq blocked'
    BY <1>5, ScheduleLists DEF Exit, VisorSleeps, Block, Yield
  <2> QED BY <2>1 DEF Calling
<1>6. CASE \E d \in Cords : Halt(d)
  BY <1>6 DEF Halt, HaltRunable, HaltBlocked, Calling
<1>7. CASE VisorStarts \/ VisorWaits \/ Completes \/ Idle \/ Over \/ UNCHANGED allVars
  BY <1>7 DEF VisorStarts, VisorWaits, Completes, Idle, Over, Terminated, allVars, vars, Calling
<1> QED BY <1>1, <1>2, <1>3, <1>4, <1>5, <1>6, <1>7 DEF UNext, UOthers

LEMMA OwnResultStep ==
  ASSUME UInv, UInv', OnlyVisorLeft', [UNext]_allVars, NEW c \in Cords \ Interruptible,
         Calling(c), c \in ToSet(runable') \/ curr' = c
  PROVE  /\ val'[c] = 1
         /\ CurrentOp(c) \in Outstanding
         /\ CurrentOp(c) \notin sq' \cup inflight'
<1>1. phase = "running" /\ c \notin ToSet(runable) /\ c # curr
  <2>1. phase \notin {"init", "done"}
    BY DEF UInv, IdleAtFirst, BraidInv, ClearedWhenDone, Calling
  <2>2. phase # "returning"
    BY ReturnsAlone DEF OnlyVisorLeft, Calling
  <2>3. phase = "running"
    BY <2>1, <2>2 DEF UInv, BraidInv, TypeOK
  <2> QED BY <2>3, UFacts DEF Calling
<1>2. visor' = visor
  BY <1>1 DEF UNext, AddVisor, AddCord, UStart, IoCall, Interrupt, UOthers, VisorStarts,
       VisorSleeps, VisorCall, VisorWaits, Completes, UReturn, Over, Idle, uVars, allVars
<1>3. c \notin blocked'
  <2> SUFFICES ASSUME c \in blocked' PROVE FALSE
    OBVIOUS
  <2>1. phase' \notin {"init", "done"}
    BY DEF UInv, IdleAtFirst, BraidInv, ClearedWhenDone
  <2>2. phase' # "returning"
    BY <1>2 DEF OnlyVisorLeft, Calling
  <2>3. phase' = "running"
    BY <2>1, <2>2 DEF UInv, BraidInv, TypeOK
  <2>4. Running' = {curr'}
    BY <2>3 DEF Running
  <2> QED BY <2>3, <2>4 DEF UInv, BraidInv, Accounted
<1>4. CASE Halt(c)
  <2>1. c \notin ToSet(runable) /\ UNCHANGED <<runable, curr>>
    BY <1>1, <1>4 DEF Halt, HaltRunable, HaltBlocked, ToSet
  <2> QED BY <2>1, <1>1
<1>5. CASE VisorCall
  <2>1. PICK done : Serves(done)
    BY <1>5, VisorCallFacts
  <2>2. c \in Found(done)
    BY <2>1, <1>3 DEF Serves, Calling
  <2>3. PICK op \in done : op[1] = c
    BY <2>2 DEF Found
  <2>4. op \in Outstanding /\ op \notin Outstanding'
    BY <2>1, <2>3 DEF Serves
  <2>5. c \in blocked \ ({visor} \cup Interruptible)
    BY DEF Calling
  <2>6. op = CurrentOp(c)
    <3>1. {o \in Outstanding : o[1] = c} = {CurrentOp(c)}
      BY <2>5, <1>1 DEF UInv, OpsOwned
    <3> QED BY <3>1, <2>3, <2>4
  <2>7. val'[c] = 1
    BY <2>1, <2>2 DEF Serves
  <2> QED BY <2>4, <2>6, <2>7 DEF Outstanding
<1> QED BY <1>1, <1>3, <1>4, <1>5, LeavesBlocked

(* A cord that only the visor wakes returns from an I/O call with the      *)
(* result of the operation it started, when that has completed.            *)
THEOREM CallsReturnOwnResult == USpec => OwnResult
<1>1. UInv /\ UInv' /\ OnlyVisorLeft' /\ [UNext]_allVars =>
        [\A c \in Cords \ Interruptible :
           Calling(c) /\ (c \in ToSet(runable') \/ curr' = c) =>
             /\ val'[c] = 1
             /\ CurrentOp(c) \in Outstanding
             /\ CurrentOp(c) \notin sq' \cup inflight']_allVars
  BY OwnResultStep
<1> QED BY <1>1, ReturnsAlone, UringInvariant, PTL DEF USpec, OwnResult
=============================================================================
