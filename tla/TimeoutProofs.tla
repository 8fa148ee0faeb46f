---------------------------- MODULE TimeoutProofs ----------------------------
(***************************************************************************)
(* Proofs about cktimeout, for every set of values that f returns and      *)
(* every capacity of the visor's list: it returns 0 only if f was cut      *)
(* short, and f is cut short before anything it needs is gone.  And about  *)
(* the contexts that it and every other program switch between, for both   *)
(* architectures, any program and any number of cords: whoever is switched *)
(* to finds its registers.                                                 *)
(***************************************************************************)
EXTENDS TimeoutContexts, IoProofs

-----------------------------------------------------------------------------
(* CKTIMEOUT *)

CallerLabels ==
  {"addWork", "addWait", "receive", "received", "halt", "close", "unmap", "returned"}
Labels == CallerLabels \cup {"call", "sleep", "exit"}

TTypeOK ==
  /\ pc \in [{M, W, T} -> Labels] /\ pc[M] \in CallerLabels
  /\ visor \in {NULL, 0}
  /\ owner = 0
  /\ entries \in Seq(Entry)

(* cktimeout has not come to its chrecv yet. *)
Before == pc[M] \in {"addWork", "addWait", "receive"}

(* Up to there the caller is never interrupted, and the scheduler does not *)
(* give up before it has begun.  After it all the cords have been added.   *)
CallerAlone ==
  /\ Before => /\ phase \in {"init", "running"}
               /\ pc[W] = "call" /\ pc[T] = "sleep"
               /\ queue = << >> /\ ~closed /\ ~chfreed /\ mapped
  /\ pc[M] = "addWork" =>
       /\ count <= 2
       /\ phase = "running" => count = 2
       /\ count = 2 => flags[M] = "normal" /\ M \in Running \cup ToSet(runable)
  /\ pc[M] = "addWait" => Running = {M} /\ count = 3
  /\ pc[M] = "receive" => Running = {M} /\ count = 4
  /\ ~Before => count = 4

(* The caller does not call fdwait: the visor cannot wake it.              *)
CallerNotListed == \A e \in ToSet(entries) : e[1] # M

(* The elts that can be in the channel. *)
QueueOf ==
  /\ queue \in {<< >>, <<M>>, <<W>>}
  /\ queue = <<M>> => pc[M] = "received" /\ M \in blocked \cup Dead /\ IsRecv(M)
  /\ queue = <<W>> => pc[W] = "exit"

(* While the caller waits the channel is open, and f runs.                 *)
CallerWaits ==
  pc[M] = "received" /\ M \in blocked =>
    queue = <<M>> /\ pc[W] = "call" /\ ~closed /\ ~chfreed

(* The timer cord closes the channel when f is over, one way or the other. *)
TimerHalts == pc[T] \in {"close", "exit"} => pc[W] = "exit" \/ W \in Dead

(* What the caller has been woken with, has received and will return tells *)
(* how f has ended.                                                        *)
Outcome ==
  /\ Before \/ pc[M] = "received" => got = << >>
  /\ pc[M] = "received" /\ M \notin blocked \cup Dead =>
       IF val[M] = 0 THEN pc[W] = "call" /\ W \in Dead ELSE pc[W] = "exit"
  /\ pc[M] \in {"halt", "close"} => got # << >> /\ pc[W] = "exit"
  /\ pc[M] \in {"unmap", "returned"} =>
       \/ got # << >> /\ pc[W] = "exit"
       \/ got = << >> /\ pc[W] = "call" /\ W \in Dead

TInv ==
  /\ BraidInv
  /\ TTypeOK
  /\ CallerAlone
  /\ CallerNotListed
  /\ QueueOf
  /\ CallerWaits
  /\ TimerHalts
  /\ Outcome
  /\ CutBeforeFree

-----------------------------------------------------------------------------
LEMMA TFacts ==
  ASSUME TInv
  PROVE  /\ M # W /\ M # T /\ W # T
         /\ Cords = 0 .. 3 /\ {M, W, T} \subseteq Cords /\ NULL # 0 /\ 0 # M
         /\ blocked \cap Dead = {}
         /\ phase = "running" => Running = {curr} /\ curr \notin blocked \cup Dead
                                 /\ curr \notin ToSet(runable)
         /\ phase # "running" => Running = {}
         /\ Running \cup ToSet(runable) \cup blocked \cup Dead = 0 .. count - 1
         /\ count \in 0 .. 4
<1>1. Cords = 0 .. 3 /\ MaxCords = 4
  BY TimeoutAssumption DEF Cords
<1>2. M # W /\ M # T /\ W # T /\ {M, W, T} \subseteq 0 .. 3 /\ NULL # 0 /\ 0 # M
  BY NullAssumption DEF M, W, T
<1>3. count \in 0 .. 4
  BY <1>1 DEF TInv, BraidInv, TypeOK
<1>4. blocked \cap Dead = {}
  BY DEF TInv, BraidInv, Accounted, Dead
<1>5. phase = "running" => Running = {curr}
  BY DEF Running
<1>6. phase # "running" => Running = {}
  BY DEF Running
<1>7. Running \cap (ToSet(runable) \cup blocked \cup Dead) = {}
  BY DEF TInv, BraidInv, Accounted, Dead
<1>8. Running \cup ToSet(runable) \cup blocked \cup Dead = 0 .. count - 1
  BY DEF TInv, BraidInv, Accounted, Dead
<1> QED BY <1>1, <1>2, <1>3, <1>4, <1>5, <1>6, <1>7, <1>8

(* A step at label l of c is made while c runs and the visor does not.     *)
LEMMA AtFacts ==
  ASSUME TInv, NEW c \in {M, W, T}, NEW l, At(c, l)
  PROVE  /\ phase = "running" /\ curr = c /\ pc[c] = l
         /\ Running = {c} /\ c \in 0 .. count - 1
         /\ c \notin blocked \cup Dead
         /\ c # M => ~Before
<1>1. phase = "running" /\ curr = c /\ pc[c] = l
  BY DEF At, InCord
<1>2. Running = {c} /\ c \notin blocked \cup Dead /\ c \in 0 .. count - 1
  BY <1>1, TFacts
<1>3. ASSUME c # M PROVE ~Before
  <2>1. pc[M] # "addWork"
    <3>1. c >= 2
      BY <1>3 DEF M, W, T
    <3> QED BY <3>1, <1>2, TFacts DEF TInv, CallerAlone
  <2>2. pc[M] \notin {"addWait", "receive"}
    BY <1>2, <1>3 DEF TInv, CallerAlone
  <2> QED BY <2>1, <2>2 DEF Before
<1> QED BY <1>1, <1>2, <1>3

(* A normal cord that runs or can run keeps the scheduler going.           *)
LEMMA NormalGoesOn ==
  ASSUME BraidInv, BraidInv', NEW c \in Running \cup ToSet(runable),
         flags'[c] = "normal", count' = count,
         c \notin blocked', Dead' = Dead,
         phase' \in {"init", "running", "returning"}
  PROVE  /\ c \in Running' \cup ToSet(runable')
         /\ phase' \in {"init", "running"}
<1>1. c \in 0 .. count - 1 /\ c \notin Dead
  BY DEF BraidInv, Accounted, Dead
<1>2. c \in Running' \cup ToSet(runable')
  BY <1>1 DEF BraidInv, Accounted, Dead
<1>3. ASSUME phase' = "returning" PROVE FALSE
  <2>1. c \in ToSet(runable')
    BY <1>2, <1>3 DEF Running
  <2>2. HasNormal(runable)'
    BY <2>1 DEF HasNormal
  <2> QED BY <2>2, <1>3 DEF BraidInv, ShutdownJustified
<1> QED BY <1>2, <1>3

(* A step that leaves the caller, f and the channel where they are.        *)
LEMMA QuietKeepsTInv ==
  ASSUME TInv, BraidInv', TTypeOK', CallerAlone', CallerNotListed', TimerHalts',
         Dead \subseteq Dead',
         M \in blocked' => M \in blocked,
         M \in blocked => M \in blocked' \cup Dead',
         val'[M] = val[M],
         pc'[M] = pc[M], pc'[W] = pc[W],
         UNCHANGED <<chVars, mapped>>
  PROVE  TInv'
<1>1. UNCHANGED <<closed, chfreed, queue, elts, got, mapped>>
  BY DEF chVars
<1>2. Before' <=> Before
  BY DEF Before
<1>3. QueueOf'
  BY <1>1 DEF TInv, QueueOf, IsRecv
<1>4. CallerWaits'
  BY <1>1 DEF TInv, CallerWaits
<1>5. Outcome'
  BY <1>1, <1>2 DEF TInv, Outcome
<1>6. CutBeforeFree'
  BY <1>1 DEF TInv, CutBeforeFree
<1> QED BY <1>3, <1>4, <1>5, <1>6 DEF TInv

(* The same once the caller waits or has been served.                      *)
LEMMA LaterKeepsTInv ==
  ASSUME TInv, BraidInv', TTypeOK', CallerNotListed', TimerHalts', ~Before,
         Dead \subseteq Dead',
         M \in blocked' => M \in blocked,
         M \in blocked => M \in blocked' \cup Dead',
         val'[M] = val[M], count' = count,
         pc'[M] = pc[M], pc'[W] = pc[W],
         UNCHANGED <<chVars, mapped>>
  PROVE  TInv'
<1>1. ~Before' /\ pc'[M] \notin {"addWork", "addWait", "receive"}
  BY DEF Before
<1>2. CallerAlone'
  BY <1>1 DEF TInv, CallerAlone
<1> QED BY <1>2, QuietKeepsTInv

(* fdwait, called by f or by the timer cord, does not touch the caller.    *)
LEMMA FdWaitQuiet ==
  ASSUME TInv, FdWait, curr \in {W, T}
  PROVE  /\ BraidInv' /\ CallerNotListed'
         /\ entries' \in Seq(Entry)
         /\ Dead' = Dead
         /\ M \in blocked' <=> M \in blocked
         /\ UNCHANGED <<val, count, visor, owner>>
<1> DEFINE e0 == <<curr, NewWait>>
<1>1. /\ NewWait <= MaxWaits /\ entries' = Append(entries, e0)
      /\ UNCHANGED <<val, count, visor, owner>>
  BY DEF FdWait
<1>2. owner = 0 /\ 0 \in Cords /\ entries \in Seq(Entry) /\ curr \in Cords /\ curr # M
  BY TFacts DEF TInv, TTypeOK
<1>3. /\ BraidInv' /\ ToSet(Wakes) \subseteq {0}
      /\ blocked' = (blocked \ ToSet(Wakes)) \cup {curr}
      /\ zombies' \cup freed' = zombies \cup freed
  BY <1>2, FdWaitAccounts DEF TInv
<1>4. NewWait \in 1 .. MaxWaits
  BY <1>1, <1>2, NewWaitIsNew
<1>5. e0 \in Entry /\ e0[1] = curr
  BY <1>2, <1>4 DEF Entry
<1> HIDE DEF e0
<1>6. entries' \in Seq(Entry) /\ ToSet(entries') = ToSet(entries) \cup {e0}
  BY <1>1, <1>2, <1>5, AppendElements
<1>7. CallerNotListed'
  BY <1>2, <1>5, <1>6 DEF TInv, CallerNotListed
<1>8. M # 0
  BY TFacts
<1> QED BY <1>1, <1>2, <1>3, <1>6, <1>7, <1>8 DEF Dead

(* Nor does the visor, but for the processor.                              *)
LEMMA VisorQuiet ==
  ASSUME TInv, VisorSteps, UNCHANGED pc
  PROVE  /\ BraidInv' /\ TTypeOK' /\ CallerNotListed'
         /\ Dead' = Dead
         /\ M \in blocked' <=> M \in blocked
         /\ UNCHANGED <<val, count, flags>>
         /\ phase = "running" /\ phase' \in {"running", "returning"}
         /\ Running = {0}
<1>1. phase = "running" /\ curr = visor /\ curr = 0 /\ Running = {0}
  <2>1. phase = "running" /\ curr = visor
    BY DEF VisorSteps, VisorStarts, VisorSleeps, VisorWakes, VisorFindsNothing,
           VisorYieldsAgain, InVisor
  <2>2. curr \in Cords /\ NULL \notin Cords
    BY <2>1, WhereCordsAre DEF TInv
  <2> QED BY <2>1, <2>2, TFacts DEF TInv, TTypeOK
<1>2. M # 0 /\ entries \in Seq(Entry)
  BY TFacts DEF TInv, TTypeOK
<1>3. CASE VisorStarts
  <2>1. UNCHANGED vars /\ owner' = curr /\ UNCHANGED <<visor, entries>>
    BY <1>3 DEF VisorStarts
  <2>2. BraidInv'
    BY <2>1, BraidInvStep DEF TInv
  <2> QED BY <1>1, <2>1, <2>2 DEF vars, TInv, TTypeOK, CallerNotListed, Dead
<1>4. CASE VisorSleeps
  <2>1. Block /\ UNCHANGED <<visor, owner, entries>>
    BY <1>4 DEF VisorSleeps
  <2>2. BraidInv'
    BY <2>1, SwitchKeepsInv DEF TInv
  <2>3. /\ blocked' = blocked \cup {0} /\ zombies' \cup freed' = zombies \cup freed
        /\ phase' \in {"running", "returning"}
    BY <1>1, <2>1, ScheduleLists DEF Block
  <2> QED BY <1>1, <1>2, <2>1, <2>2, <2>3 DEF Block, TInv, TTypeOK, CallerNotListed, Dead
<1>5. CASE VisorWakes
  <2>1. /\ BraidInv' /\ blocked' = blocked \ ToSet(Reported)
        /\ zombies' \cup freed' = zombies \cup freed
        /\ phase' \in {"running", "returning"}
    BY <1>2, <1>5, VisorWakesAccounts DEF TInv
  <2>2. entries' = Left /\ UNCHANGED <<flags, val, count, visor, owner>>
    BY <1>5 DEF VisorWakes
  <2>3. Left \in Seq(Entry) /\ ToSet(Left) \subseteq ToSet(entries)
    BY <1>2, LeftElements DEF ToSet
  <2>4. M \notin ToSet(Reported)
    <3>1. \A p \in DOMAIN entries : entries[p][1] # M
      BY DEF TInv, CallerNotListed, ToSet
    <3> QED BY <3>1, <1>2, TFacts, ReportedElements
  <2> QED BY <1>1, <2>1, <2>2, <2>3, <2>4 DEF TInv, TTypeOK, CallerNotListed, Dead
<1>6. CASE VisorFindsNothing \/ VisorYieldsAgain
  <2>1. Yield /\ UNCHANGED <<visor, owner, entries>>
    BY <1>6 DEF VisorFindsNothing, VisorYieldsAgain
  <2>2. BraidInv'
    BY <2>1, SwitchKeepsInv DEF TInv
  <2>3. /\ blocked' = blocked /\ zombies' \cup freed' = zombies \cup freed
        /\ phase' \in {"running", "returning"}
    BY <2>1, ScheduleLists DEF Yield
  <2> QED BY <1>1, <2>1, <2>2, <2>3 DEF Yield, TInv, TTypeOK, CallerNotListed, Dead
<1> QED BY <1>3, <1>4, <1>5, <1>6 DEF VisorSteps

LEMMA VisorStepsKeepTInv ==
  ASSUME TInv, VisorSteps, UNCHANGED <<chVars, pc, mapped>>
  PROVE  TInv'
<1>1. /\ BraidInv' /\ TTypeOK' /\ CallerNotListed'
      /\ Dead' = Dead
      /\ M \in blocked' <=> M \in blocked
      /\ UNCHANGED <<val, count, flags>>
      /\ phase = "running" /\ phase' \in {"running", "returning"}
      /\ Running = {0}
  BY VisorQuiet
<1>2. CASE ~Before
  BY <1>1, <1>2, LaterKeepsTInv DEF TInv, TimerHalts
<1>3. CASE Before
  <2>1. pc[M] = "addWork"
    BY <1>1, <1>3, TFacts DEF TInv, CallerAlone, Before
  <2>2. count = 2 /\ flags[M] = "normal" /\ M \in Running \cup ToSet(runable)
    BY <1>1, <2>1 DEF TInv, CallerAlone
  <2>3. M \notin blocked
    BY <2>2 DEF TInv, BraidInv, Accounted
  <2>4. M \in Running' \cup ToSet(runable') /\ phase' \in {"init", "running"}
    BY <1>1, <2>2, <2>3, NormalGoesOn DEF TInv
  <2>5. UNCHANGED <<queue, closed, chfreed>>
    BY DEF chVars
  <2>6. CallerAlone'
    BY <1>1, <1>3, <2>1, <2>2, <2>4, <2>5 DEF TInv, CallerAlone, Before
  <2> QED BY <1>1, <2>6, QuietKeepsTInv DEF TInv, TimerHalts
<1> QED BY <1>2, <1>3

-----------------------------------------------------------------------------
(* The caller. *)

(* It adds its two cords.                                                  *)
LEMMA AddsKeepTInv ==
  ASSUME TInv, AddWork \/ AddWait
  PROVE  TInv'
<1> DEFINE l == IF pc[M] = "addWork" THEN "addWait" ELSE "receive"
<1>1. /\ Add("normal") /\ pc' = [pc EXCEPT ![M] = l]
      /\ pc[M] \in {"addWork", "addWait"}
      /\ UNCHANGED <<closed, chfreed, queue, elts, got, visor, owner, entries, mapped>>
  BY DEF AddWork, AddWait, At, Goto, chVars, ioVars
<1>2. phase = "running" /\ Running = {M}
  BY AtFacts DEF AddWork, AddWait
<1>3. "normal" \in Flags
  BY DEF Flags
<1>4. BraidInv'
  BY <1>1, <1>3, AddKeepsInv DEF TInv
<1>5. count' = count + 1 /\ UNCHANGED <<phase, curr, blocked, zombies, freed, val>>
  BY <1>1, NextIdIsCount DEF Add, TInv, BraidInv
<1>6. Running' = Running /\ Dead' = Dead
  BY <1>5 DEF Running, Dead
<1>7. /\ l \in {"addWait", "receive"} /\ pc'[M] = l /\ pc'[W] = pc[W] /\ pc'[T] = pc[T]
      /\ Before /\ Before'
  BY <1>1, TFacts DEF TInv, TTypeOK, Before
<1>8. TTypeOK'
  BY <1>1 DEF TInv, TTypeOK, CallerLabels, Labels
<1>9. CallerAlone'
  <2>1. pc[M] = "addWork" => count = 2
    BY <1>2 DEF TInv, CallerAlone
  <2>2. pc[M] = "addWait" => count = 3
    BY DEF TInv, CallerAlone
  <2> QED BY <1>1, <1>2, <1>5, <1>6, <1>7, <2>1, <2>2 DEF TInv, CallerAlone
<1>10. CallerNotListed' /\ TimerHalts'
  BY <1>1, <1>6, <1>7 DEF TInv, CallerNotListed, TimerHalts
<1>11. queue = << >> /\ << >> # <<M>> /\ << >> # <<W>>
  BY <1>7 DEF TInv, CallerAlone
<1>12. QueueOf' /\ CallerWaits' /\ Outcome' /\ CutBeforeFree'
  BY <1>1, <1>6, <1>7, <1>11 DEF TInv, QueueOf, CallerWaits, Outcome, CutBeforeFree
<1> QED BY <1>4, <1>8, <1>9, <1>10, <1>12 DEF TInv

(* It waits for the result.                                                *)
LEMMA ReceiveKeepsTInv ==
  ASSUME TInv, Receive
  PROVE  TInv'
<1>1. /\ pc[M] = "receive" /\ curr = M /\ phase = "running" /\ Running = {M}
  BY AtFacts DEF Receive
<1>2. /\ Block
      /\ queue' = Append(queue, M)
      /\ elts' = WithElt(elts, M, "RECV", NONE)
      /\ pc' = [pc EXCEPT ![M] = "received"]
      /\ UNCHANGED <<closed, chfreed, got, visor, owner, entries, mapped>>
  BY <1>1 DEF Receive, RecvWaits, Goto, ioVars
<1>3. BraidInv'
  BY <1>2, SwitchKeepsInv DEF TInv
<1>4. /\ blocked' = blocked \cup {M} /\ Dead' = Dead /\ count' = count
  BY <1>1, <1>2, ScheduleLists DEF Block, Dead
<1>5. queue' = <<M>> /\ <<M>> # << >> /\ IsRecv(M)'
  BY <1>1, <1>2 DEF TInv, CallerAlone, Before, WithElt, IsRecv
<1>6. pc'[M] = "received" /\ pc'[W] = pc[W] /\ pc'[T] = pc[T] /\ Before /\ ~Before'
  BY <1>1, <1>2, TFacts DEF TInv, TTypeOK, Before
<1>7. TTypeOK'
  BY <1>2 DEF TInv, TTypeOK, CallerLabels, Labels
<1>8. CallerAlone'
  BY <1>1, <1>4, <1>6 DEF TInv, CallerAlone
<1>9. CallerNotListed' /\ TimerHalts' /\ CutBeforeFree'
  BY <1>2, <1>4, <1>6 DEF TInv, CallerNotListed, TimerHalts, CutBeforeFree
<1>10. QueueOf'
  <2>1. <<M>> # <<W>>
    BY TFacts
  <2> QED BY <2>1, <1>4, <1>5, <1>6 DEF QueueOf
<1>11. CallerWaits' /\ Outcome'
  BY <1>2, <1>4, <1>5, <1>6 DEF TInv, CallerAlone, CallerWaits, Outcome
<1> QED BY <1>3, <1>7, <1>8, <1>9, <1>10, <1>11 DEF TInv

(* It is back, with the value of f or without.                             *)
LEMMA ReceivedKeepsTInv ==
  ASSUME TInv, Received
  PROVE  TInv'
<1> DEFINE l == IF val[M] # 0 THEN "halt" ELSE "unmap"
<1>1. /\ pc[M] = "received" /\ curr = M /\ M \notin blocked \cup Dead
  BY AtFacts DEF Received
<1>2. /\ UNCHANGED vars
      /\ pc' = [pc EXCEPT ![M] = l]
      /\ got' = IF val[M] # 0 THEN <<M, elts[M].val>> ELSE got
      /\ UNCHANGED <<closed, chfreed, queue, visor, owner, entries, mapped>>
  BY <1>1 DEF Received, RecvReturns, Goto, ioVars
<1>3. BraidInv'
  BY <1>2, BraidInvStep DEF TInv
<1>4. UNCHANGED <<phase, curr, runable, blocked, zombies, freed, flags, val, count>>
      /\ Dead' = Dead
  BY <1>2 DEF vars, Dead
<1>5. /\ l \in {"halt", "unmap"} /\ pc'[M] = l /\ pc'[W] = pc[W] /\ pc'[T] = pc[T]
      /\ ~Before /\ ~Before'
  BY <1>1, <1>2, TFacts DEF TInv, TTypeOK, Before
<1>6. TTypeOK'
  BY <1>2 DEF TInv, TTypeOK, CallerLabels, Labels
<1>7. CallerAlone'
  BY <1>4, <1>5 DEF TInv, CallerAlone
<1>8. CallerNotListed' /\ TimerHalts' /\ CutBeforeFree'
  BY <1>2, <1>4, <1>5 DEF TInv, CallerNotListed, TimerHalts, CutBeforeFree
<1>9. QueueOf' /\ CallerWaits'
  BY <1>1, <1>2, <1>4, <1>5 DEF TInv, QueueOf, CallerWaits
<1>10. Outcome'
  <2>1. got = << >> /\ IF val[M] = 0 THEN pc[W] = "call" /\ W \in Dead ELSE pc[W] = "exit"
    BY <1>1 DEF TInv, Outcome
  <2>2. <<M, elts[M].val>> # << >>
    OBVIOUS
  <2> QED BY <2>1, <2>2, <1>2, <1>4, <1>5 DEF Outcome
<1> QED BY <1>3, <1>6, <1>7, <1>8, <1>9, <1>10 DEF TInv

(* cordhalt, whether it finds the cord or not: the cord is dead, unless it *)
(* runs.                                                                   *)
LEMMA HaltIfFoundFacts ==
  ASSUME TInv, NEW c \in {M, W, T}, HaltIfFound(c), count = 4, phase = "running", curr # c
  PROVE  /\ BraidInv'
         /\ Dead' = Dead \cup {c}
         /\ blocked' = blocked \ {c}
         /\ UNCHANGED <<val, count>>
<1>1. c \in Cords
  BY TFacts
<1>2. CASE Halt(c)
  <2>1. BraidInv'
    BY <1>1, <1>2, HaltKeepsInv DEF TInv
  <2>2. zombies' = zombies \cup {c} /\ UNCHANGED <<freed, val, count>>
    BY <1>2 DEF Halt, HaltRunable, HaltBlocked
  <2>3. blocked' = blocked \ {c}
    <3>1. CASE HaltRunable(c)
      <4>1. c \in ToSet(runable) /\ blocked' = blocked
        BY <3>1 DEF HaltRunable, ToSet
      <4> QED BY <4>1 DEF TInv, BraidInv, Accounted
    <3>2. CASE HaltBlocked(c)
      BY <3>2 DEF HaltBlocked
    <3> QED BY <1>2, <3>1, <3>2 DEF Halt
  <2> QED BY <2>1, <2>2, <2>3 DEF Dead
<1>3. CASE c \notin ToSet(runable) \cup blocked /\ UNCHANGED vars
  <2>1. BraidInv'
    BY <1>3, BraidInvStep DEF TInv
  <2>2. c \in 0 .. count - 1 /\ c \notin Running
    BY TFacts DEF M, W, T
  <2>3. c \in Dead
    BY <1>3, <2>2, TFacts
  <2> QED BY <1>3, <2>1, <2>3 DEF vars, Dead
<1> QED BY <1>2, <1>3 DEF HaltIfFound

(* The caller halts the timer cord.                                        *)
LEMMA HaltWaitKeepsTInv ==
  ASSUME TInv, HaltWait
  PROVE  TInv'
<1>1. /\ pc[M] = "halt" /\ curr = M /\ phase = "running"
  BY AtFacts DEF HaltWait
<1>2. ~Before /\ count = 4
  BY <1>1 DEF TInv, CallerAlone, Before
<1>3. /\ pc' = [pc EXCEPT ![M] = "close"]
      /\ UNCHANGED <<closed, chfreed, queue, elts, got, visor, owner, entries, mapped>>
  BY DEF HaltWait, Goto, chVars, ioVars
<1>4. /\ BraidInv' /\ Dead' = Dead \cup {T} /\ blocked' = blocked \ {T}
      /\ UNCHANGED <<val, count>>
  BY <1>1, <1>2, TFacts, HaltIfFoundFacts DEF HaltWait
<1>5. pc'[M] = "close" /\ pc'[W] = pc[W] /\ pc'[T] = pc[T] /\ ~Before'
  BY <1>3, TFacts DEF TInv, TTypeOK, Before
<1>6. TTypeOK'
  BY <1>3 DEF TInv, TTypeOK, CallerLabels, Labels
<1>7. CallerAlone'
  BY <1>2, <1>4, <1>5 DEF CallerAlone
<1>8. CallerNotListed' /\ TimerHalts' /\ CutBeforeFree'
  BY <1>3, <1>4, <1>5 DEF TInv, CallerNotListed, TimerHalts, CutBeforeFree
<1>9. QueueOf' /\ CallerWaits' /\ Outcome'
  BY <1>1, <1>2, <1>3, <1>4, <1>5 DEF TInv, QueueOf, CallerWaits, Outcome
<1> QED BY <1>4, <1>6, <1>7, <1>8, <1>9 DEF TInv

(* It releases the code of f, which is over.                               *)
LEMMA UnmapKeepsTInv ==
  ASSUME TInv, Unmap
  PROVE  TInv'
<1>1. pc[M] = "unmap"
  BY AtFacts DEF Unmap
<1>2. /\ UNCHANGED vars /\ pc' = [pc EXCEPT ![M] = "returned"]
      /\ UNCHANGED <<closed, chfreed, queue, elts, got, visor, owner, entries>>
  BY DEF Unmap, Goto, chVars, ioVars
<1>3. BraidInv'
  BY <1>2, BraidInvStep DEF TInv
<1>4. UNCHANGED <<phase, curr, runable, blocked, zombies, freed, flags, val, count>>
      /\ Dead' = Dead
  BY <1>2 DEF vars, Dead
<1>5. /\ pc'[M] = "returned" /\ pc'[W] = pc[W] /\ pc'[T] = pc[T]
      /\ ~Before /\ ~Before'
  BY <1>1, <1>2, TFacts DEF TInv, TTypeOK, Before
<1>6. TTypeOK'
  BY <1>2 DEF TInv, TTypeOK, CallerLabels, Labels
<1>7. CallerAlone'
  BY <1>4, <1>5 DEF TInv, CallerAlone
<1>8. CallerNotListed' /\ TimerHalts'
  BY <1>2, <1>4, <1>5 DEF TInv, CallerNotListed, TimerHalts
<1>9. QueueOf' /\ CallerWaits' /\ Outcome'
  BY <1>1, <1>2, <1>4, <1>5 DEF TInv, QueueOf, CallerWaits, Outcome
<1>10. CutBeforeFree'
  BY <1>1, <1>4, <1>5 DEF TInv, Outcome, CutBeforeFree
<1> QED BY <1>3, <1>6, <1>7, <1>8, <1>9, <1>10 DEF TInv

-----------------------------------------------------------------------------
(* chclose. *)

LEMMA CloseFacts ==
  ASSUME TInv, Close, phase = "running"
  PROVE  /\ BraidInv' /\ Dead' = Dead
         /\ UNCHANGED <<elts, got, count>>
         /\ queue' = queue \/ queue' = << >>
         /\ queue' = <<M>> => M \in Dead
         /\ pc[M] = "received" => M \notin blocked'
         /\ pc[M] = "received" /\ M \notin blocked => val'[M] = val[M]
         /\ pc[M] = "received" /\ M \in blocked => val'[M] = 0
<1>1. /\ queue \in Seq(Cords) /\ IsInjective(queue)
      /\ <<M>> # << >> /\ Head(<<M>>) = M /\ ToSet(<<M>>) = {M}
  <2>1. << >> \in Seq(Cords) /\ <<M>> \in Seq(Cords) /\ <<W>> \in Seq(Cords)
    BY TFacts
  <2>2. IsInjective(<< >>) /\ IsInjective(<<M>>) /\ IsInjective(<<W>>)
    BY DEF IsInjective
  <2>3. <<M>> # << >> /\ Head(<<M>>) = M
    OBVIOUS
  <2>4. ToSet(<<M>>) = {M}
    BY DEF ToSet
  <2>5. queue \in {<< >>, <<M>>, <<W>>}
    BY DEF TInv, QueueOf
  <2>6. queue \in Seq(Cords) /\ IsInjective(queue)
    BY <2>1, <2>2, <2>5
  <2> QED BY <2>3, <2>4, <2>6
<1>2. pc[M] = "received" /\ M \in blocked => queue = <<M>> /\ ~chfreed
  BY DEF TInv, CallerWaits
<1>3. queue = <<M>> => ~SenderFirst /\ M \in blocked \cup Dead
  BY <1>1 DEF TInv, QueueOf, SenderFirst, IsSend, IsRecv
<1>4. CASE CloseKeepsSenders
  <2>1. UNCHANGED vars /\ SenderFirst /\ UNCHANGED <<queue, elts, got>>
    BY <1>4 DEF CloseKeepsSenders
  <2>2. BraidInv'
    BY <2>1, BraidInvStep DEF TInv
  <2> QED BY <1>2, <1>3, <2>1, <2>2 DEF vars, Dead
<1>5. CASE CloseFrees
  <2>1. /\ blocked' = blocked \ ToSet(queue)
        /\ val' = [c \in Cords |-> IF c \in ToSet(Woken(queue)) THEN 0 ELSE val[c]]
        /\ queue' = << >>
        /\ UNCHANGED <<zombies, freed, count, elts, got>>
    BY <1>5 DEF CloseFrees
  <2>2. BraidInv' /\ ToSet(Woken(queue)) = ToSet(queue) \cap blocked
    BY <1>1, <1>5, CloseFreesFacts DEF TInv
  <2>3. M \in Cords
    BY TFacts
  <2> QED BY <1>1, <1>2, <2>1, <2>2, <2>3 DEF Dead
<1>6. CASE chfreed /\ UNCHANGED <<vars, chVars>>
  <2>1. BraidInv'
    BY <1>6, BraidInvStep DEF TInv
  <2>2. pc[M] = "received" => M \notin blocked
    BY <1>2, <1>6
  <2>3. queue = <<M>> => M \in Dead
    BY <1>3, <2>2 DEF TInv, QueueOf
  <2> QED BY <1>6, <2>1, <2>2, <2>3 DEF vars, chVars, Dead
<1> QED BY <1>4, <1>5, <1>6 DEF Close

(* The caller closes the channel after it has received from it.            *)
LEMMA CloseAfterWorkKeepsTInv ==
  ASSUME TInv, CloseAfterWork
  PROVE  TInv'
<1>1. pc[M] = "close" /\ phase = "running"
  BY AtFacts DEF CloseAfterWork
<1>2. /\ pc' = [pc EXCEPT ![M] = "unmap"]
      /\ UNCHANGED <<visor, owner, entries, mapped>>
  BY DEF CloseAfterWork, Goto, ioVars
<1>3. /\ BraidInv' /\ Dead' = Dead /\ UNCHANGED <<got, count>>
      /\ queue' = queue \/ queue' = << >>
  BY <1>1, CloseFacts DEF CloseAfterWork
<1>4. /\ pc'[M] = "unmap" /\ pc'[W] = pc[W] /\ pc'[T] = pc[T]
      /\ ~Before /\ ~Before'
  BY <1>1, <1>2, TFacts DEF TInv, TTypeOK, Before
<1>5. TTypeOK'
  BY <1>2 DEF TInv, TTypeOK, CallerLabels, Labels
<1>6. CallerAlone'
  BY <1>3, <1>4 DEF TInv, CallerAlone
<1>7. CallerNotListed' /\ TimerHalts'
  BY <1>2, <1>3, <1>4 DEF TInv, CallerNotListed, TimerHalts
<1>8. pc[W] = "exit"
  BY <1>1 DEF TInv, Outcome
<1>9. QueueOf'
  <2>1. queue # <<M>>
    BY <1>1 DEF TInv, QueueOf
  <2>2. queue' # <<M>> /\ queue' \in {<< >>, <<M>>, <<W>>}
    BY <1>3, <2>1 DEF TInv, QueueOf
  <2> QED BY <2>2, <1>4, <1>8 DEF QueueOf
<1>10. CallerWaits' /\ Outcome' /\ CutBeforeFree'
  BY <1>1, <1>3, <1>4, <1>8 DEF TInv, CallerWaits, Outcome, CutBeforeFree
<1> QED BY <1>3, <1>5, <1>6, <1>7, <1>9, <1>10 DEF TInv

(* The timer cord closes it after it has halted f.                         *)
LEMMA CloseAfterWaitKeepsTInv ==
  ASSUME TInv, CloseAfterWait
  PROVE  TInv'
<1>1. pc[T] = "close" /\ phase = "running" /\ ~Before
  BY AtFacts, TFacts DEF CloseAfterWait
<1>2. /\ pc' = [pc EXCEPT ![T] = "exit"]
      /\ UNCHANGED <<visor, owner, entries, mapped>>
  BY DEF CloseAfterWait, Goto, ioVars
<1>3. /\ BraidInv' /\ Dead' = Dead /\ UNCHANGED <<elts, got, count>>
      /\ queue' = queue \/ queue' = << >>
      /\ queue' = <<M>> => M \in Dead
      /\ pc[M] = "received" => M \notin blocked'
      /\ pc[M] = "received" /\ M \notin blocked => val'[M] = val[M]
      /\ pc[M] = "received" /\ M \in blocked => val'[M] = 0
  BY <1>1, CloseFacts DEF CloseAfterWait
<1>4. /\ pc'[M] = pc[M] /\ pc'[W] = pc[W] /\ pc'[T] = "exit"
      /\ ~Before'
  BY <1>1, <1>2, TFacts DEF TInv, TTypeOK, Before
<1>5. pc[W] = "exit" \/ W \in Dead
  BY <1>1 DEF TInv, TimerHalts
<1>6. TTypeOK'
  BY <1>2, <1>4 DEF TInv, TTypeOK, CallerLabels, Labels
<1>7. CallerAlone'
  <2>1. pc'[M] \notin {"addWork", "addWait", "receive"}
    BY <1>4 DEF Before
  <2> QED BY <1>1, <1>3, <1>4, <2>1 DEF TInv, CallerAlone
<1>8. CallerNotListed' /\ TimerHalts' /\ CutBeforeFree' /\ CallerWaits'
  BY <1>2, <1>3, <1>4, <1>5 DEF TInv, CallerNotListed, TimerHalts, CutBeforeFree, CallerWaits
<1>9. QueueOf'
  <2>1. << >> # <<M>> /\ << >> # <<W>>
    OBVIOUS
  <2> QED BY <2>1, <1>3, <1>4 DEF TInv, QueueOf, IsRecv
<1>10. Outcome'
  <2>1. ASSUME pc[M] = "received", M \notin Dead
        PROVE  IF val'[M] = 0 THEN pc[W] = "call" /\ W \in Dead ELSE pc[W] = "exit"
    <3>1. CASE M \in blocked
      BY <1>3, <1>5, <2>1, <3>1 DEF TInv, CallerWaits
    <3>2. CASE M \notin blocked
      BY <1>3, <2>1, <3>2 DEF TInv, Outcome
    <3> QED BY <3>1, <3>2
  <2> QED BY <2>1, <1>1, <1>3, <1>4 DEF TInv, Outcome
<1> QED BY <1>3, <1>6, <1>7, <1>8, <1>9, <1>10 DEF TInv

-----------------------------------------------------------------------------
(* The two cords it has added. *)

(* f waits for a descriptor, or yields.                                    *)
LEMMA WorkingKeepsTInv ==
  ASSUME TInv, Working
  PROVE  TInv'
<1>1. curr = W /\ ~Before
  BY AtFacts, TFacts DEF Working
<1>2. UNCHANGED <<chVars, pc, mapped>>
  BY DEF Working
<1>3. CASE FdWait
  <2>1. /\ BraidInv' /\ CallerNotListed' /\ entries' \in Seq(Entry)
        /\ Dead' = Dead
        /\ M \in blocked' <=> M \in blocked
        /\ UNCHANGED <<val, count, visor, owner>>
    BY <1>1, <1>3, FdWaitQuiet
  <2>2. TTypeOK' /\ TimerHalts'
    BY <1>2, <2>1 DEF TInv, TTypeOK, TimerHalts
  <2> QED BY <1>1, <1>2, <2>1, <2>2, LaterKeepsTInv
<1>4. CASE Yield /\ UNCHANGED ioVars
  <2>1. BraidInv'
    BY <1>4, SwitchKeepsInv DEF TInv
  <2>2. blocked' = blocked /\ Dead' = Dead /\ UNCHANGED <<val, count>>
    BY <1>4, ScheduleLists DEF Yield, Dead
  <2>3. TTypeOK' /\ TimerHalts' /\ CallerNotListed'
    BY <1>2, <1>4, <2>2 DEF TInv, TTypeOK, TimerHalts, CallerNotListed, ioVars
  <2> QED BY <1>1, <1>2, <2>1, <2>2, <2>3, LaterKeepsTInv
<1> QED BY <1>3, <1>4 DEF Working

(* The timer cord sleeps. *)
LEMMA SleepKeepsTInv ==
  ASSUME TInv, Sleep
  PROVE  TInv'
<1>1. curr = T /\ ~Before
  BY AtFacts, TFacts DEF Sleep
<1>2. FdWait /\ pc' = [pc EXCEPT ![T] = "halt"] /\ UNCHANGED <<chVars, mapped>>
  BY DEF Sleep, Goto
<1>3. /\ BraidInv' /\ CallerNotListed' /\ entries' \in Seq(Entry)
      /\ Dead' = Dead
      /\ M \in blocked' <=> M \in blocked
      /\ UNCHANGED <<val, count, visor, owner>>
  BY <1>1, <1>2, FdWaitQuiet
<1>4. pc'[M] = pc[M] /\ pc'[W] = pc[W] /\ pc'[T] = "halt"
  BY <1>2, TFacts DEF TInv, TTypeOK
<1>5. TTypeOK' /\ TimerHalts'
  BY <1>2, <1>3, <1>4 DEF TInv, TTypeOK, TimerHalts, CallerLabels, Labels
<1> QED BY <1>1, <1>2, <1>3, <1>4, <1>5, LaterKeepsTInv

(* It halts f: whether cordhalt finds it or not, it will not run again.    *)
LEMMA HaltWorkKeepsTInv ==
  ASSUME TInv, HaltWork
  PROVE  TInv'
<1>1. curr = T /\ ~Before /\ phase = "running"
  BY AtFacts, TFacts DEF HaltWork
<1>2. count = 4
  BY <1>1 DEF TInv, CallerAlone
<1>3. pc' = [pc EXCEPT ![T] = "close"] /\ UNCHANGED <<chVars, ioVars, mapped>>
  BY DEF HaltWork, Goto
<1>4. /\ BraidInv' /\ Dead' = Dead \cup {W} /\ blocked' = blocked \ {W}
      /\ UNCHANGED <<val, count>>
  BY <1>1, <1>2, TFacts, HaltIfFoundFacts DEF HaltWork
<1>5. pc'[M] = pc[M] /\ pc'[W] = pc[W]
  BY <1>3, TFacts DEF TInv, TTypeOK
<1>6. TTypeOK' /\ TimerHalts' /\ CallerNotListed'
  BY <1>3, <1>4 DEF TInv, TTypeOK, TimerHalts, CallerLabels, Labels, CallerNotListed, ioVars
<1>7. M \in blocked => M \in blocked'
  BY <1>4, TFacts
<1> QED BY <1>1, <1>3, <1>4, <1>5, <1>6, <1>7, LaterKeepsTInv

(* A cord returns from its entry point. *)
LEMMA LeaveKeepsTInv ==
  ASSUME TInv, Leave
  PROVE  TInv'
<1>1. phase = "running" /\ ~Before
  <2>1. CASE At(M, "returned")
    BY <2>1, AtFacts DEF Before
  <2>2. CASE At(W, "exit")
    BY <2>2, AtFacts, TFacts
  <2>3. CASE At(T, "exit")
    BY <2>3, AtFacts, TFacts
  <2> QED BY <2>1, <2>2, <2>3 DEF Leave
<1>2. Exit /\ UNCHANGED <<chVars, ioVars, pc, mapped>>
  BY DEF Leave
<1>3. BraidInv'
  BY <1>2, SwitchKeepsInv DEF TInv
<1>4. blocked' = blocked /\ Dead' = Dead \cup {curr} /\ UNCHANGED <<val, count>>
  BY <1>2, ScheduleLists DEF Exit, Dead
<1>5. TTypeOK' /\ TimerHalts' /\ CallerNotListed'
  BY <1>2, <1>4 DEF TInv, TTypeOK, TimerHalts, CallerNotListed, ioVars
<1> QED BY <1>1, <1>2, <1>3, <1>4, <1>5, LaterKeepsTInv

(* f returns: chsend hands its value to the caller, if that still waits,   *)
(* and otherwise queues it.                                                *)
LEMMA SendFacts ==
  ASSUME TInv, Send
  PROVE  /\ curr = W /\ phase = "running" /\ Running = {W}
         /\ pc[M] = "received" /\ pc[W] = "call" /\ ~closed /\ ~chfreed
         /\ M \in blocked \cup Dead /\ W \notin blocked \cup Dead
         /\ queue \in {<< >>, <<M>>}
         /\ count = 4
<1>1. curr = W /\ phase = "running" /\ Running = {W} /\ pc[W] = "call" /\ ~Before
      /\ W \notin blocked \cup Dead
  BY AtFacts, TFacts DEF Send
<1>2. ~closed /\ ~chfreed
  BY DEF Send, SendHandsOver, SendWaits, Calling
<1>3. pc[M] \notin {"halt", "close"}
  BY <1>1 DEF TInv, Outcome
<1>4. pc[M] \notin {"unmap", "returned"}
  BY <1>1 DEF TInv, Outcome
<1>5. pc[M] \in CallerLabels
  BY DEF TInv, TTypeOK
<1>6. pc[M] = "received"
  BY <1>1, <1>3, <1>4, <1>5 DEF Before, CallerLabels
<1>7. M \in blocked \cup Dead
  BY <1>1, <1>6 DEF TInv, Outcome
<1>8. queue \in {<< >>, <<M>>}
  BY <1>1 DEF TInv, QueueOf
<1>9. count = 4
  BY <1>1 DEF TInv, CallerAlone
<1> QED BY <1>1, <1>2, <1>6, <1>7, <1>8, <1>9

(* The caller gets the value: it is woken with a braidblock that is not 0. *)
LEMMA SendHandsOverKeepsTInv ==
  ASSUME TInv, Send, NEW d, SendHandsOver(d)
  PROVE  TInv'
<1>1. /\ curr = W /\ pc[M] = "received" /\ pc[W] = "call" /\ ~closed /\ ~chfreed
      /\ queue \in {<< >>, <<M>>} /\ count = 4
  BY SendFacts
<1>2. /\ pc' = [pc EXCEPT ![W] = "exit"]
      /\ UNCHANGED <<closed, chfreed, got, visor, owner, entries, mapped>>
  BY DEF Send, SendHandsOver, Goto, ioVars
<1>3. PICK k \in DOMAIN queue : Unblock(queue[k], 1) /\ queue' = Rest(k)
  BY DEF SendHandsOver
<1>4. queue = <<M>> /\ k = 1 /\ queue[k] = M
  <2>1. DOMAIN << >> = {} /\ DOMAIN <<M>> = {1} /\ <<M>>[1] = M
    OBVIOUS
  <2> QED BY <1>1, <2>1
<1>5. queue' = << >>
  <2>1. SubSeq(<<M>>, 2, 1) = << >> /\ Len(<<M>>) = 1
    OBVIOUS
  <2> QED BY <1>3, <1>4, <2>1 DEF Rest
<1>6. BraidInv'
  <2>1. M \in Cords /\ 1 \in Vals
    BY TFacts, ChannelAssumption
  <2> QED BY <1>3, <1>4, <2>1, UnblockKeepsInv DEF TInv
<1>7. /\ blocked' = blocked \ {M} /\ val'[M] = 1
      /\ Dead' = Dead /\ count' = count
  <2>1. val \in [Cords -> Vals] /\ M \in Cords
    BY TFacts DEF TInv, BraidInv, TypeOK
  <2> QED BY <1>3, <1>4, <2>1 DEF Unblock, Dead
<1>8. pc'[M] = "received" /\ pc'[W] = "exit" /\ pc'[T] = pc[T] /\ ~Before'
  BY <1>1, <1>2, TFacts DEF TInv, TTypeOK, Before
<1>9. TTypeOK'
  BY <1>2, <1>8 DEF TInv, TTypeOK, CallerLabels, Labels
<1>10. CallerAlone'
  BY <1>1, <1>7, <1>8 DEF CallerAlone
<1>11. CallerNotListed' /\ TimerHalts' /\ CutBeforeFree' /\ CallerWaits'
  BY <1>2, <1>7, <1>8 DEF TInv, CallerNotListed, TimerHalts, CutBeforeFree, CallerWaits
<1>12. QueueOf'
  <2>1. << >> # <<M>> /\ << >> # <<W>>
    OBVIOUS
  <2> QED BY <2>1, <1>5 DEF QueueOf
<1>13. Outcome'
  BY <1>1, <1>2, <1>7, <1>8 DEF TInv, Outcome
<1> QED BY <1>6, <1>9, <1>10, <1>11, <1>12, <1>13 DEF TInv

(* The caller was halted: f queues its value, and sleeps for ever.         *)
LEMMA SendWaitsKeepsTInv ==
  ASSUME TInv, Send, NEW d, SendWaits(d)
  PROVE  TInv'
<1>1. /\ curr = W /\ phase = "running" /\ pc[M] = "received" /\ pc[W] = "call"
      /\ ~closed /\ ~chfreed /\ M \in blocked \cup Dead
      /\ queue \in {<< >>, <<M>>} /\ count = 4
  BY SendFacts
<1>2. /\ Block /\ pc' = [pc EXCEPT ![W] = "exit"]
      /\ UNCHANGED <<closed, chfreed, got, visor, owner, entries, mapped>>
  BY DEF Send, SendWaits, Goto, ioVars
<1>3. PICK k \in 0 .. Len(queue) : /\ Stale(k)
                                   /\ Rest(k) # << >> => IsSend(Head(Rest(k)))
                                   /\ queue' = Append(Rest(k), curr)
  BY DEF SendWaits
<1>4. queue' = <<W>> /\ M \notin blocked
  <2>1. Append(<< >>, W) = <<W>>
    OBVIOUS
  <2>2. CASE queue = << >>
    <3>1. k = 0 /\ SubSeq(<< >>, 1, 0) = << >> /\ Len(<< >>) = 0
      BY <1>3, <2>2
    <3>2. M \notin blocked
      BY <1>1, <2>2 DEF TInv, CallerWaits
    <3>3. Rest(k) = << >>
      BY <2>2, <3>1 DEF Rest
    <3> QED BY <1>1, <1>3, <3>2, <3>3, <2>1
  <2>3. CASE queue = <<M>>
    <3>1. /\ SubSeq(<<M>>, 1, 1) # << >> /\ Head(SubSeq(<<M>>, 1, 1)) = M
          /\ SubSeq(<<M>>, 2, 1) = << >>
          /\ Len(<<M>>) = 1 /\ <<M>>[1] = M
      <4>1. <<M>> \in Seq(Cords) /\ Len(<<M>>) = 1 /\ <<M>>[1] = M
        BY TFacts
      <4>2. /\ SubSeq(<<M>>, 1, 1) \in Seq(Cords)
            /\ Len(SubSeq(<<M>>, 1, 1)) = 1 /\ SubSeq(<<M>>, 1, 1)[1] = M
        BY <4>1, CutElements
      <4>3. SubSeq(<<M>>, 2, 1) = << >>
        OBVIOUS
      <4> QED BY <4>1, <4>2, <4>3
    <3>2. ~IsSend(M)
      BY <2>3 DEF TInv, QueueOf, IsSend, IsRecv
    <3>3. k = 1
      BY <1>3, <2>3, <3>1, <3>2 DEF Rest
    <3>4. M \notin blocked
      BY <1>3, <2>3, <3>1, <3>3 DEF Stale
    <3>5. Rest(k) = << >>
      BY <2>3, <3>1, <3>3 DEF Rest
    <3> QED BY <1>1, <1>3, <3>4, <3>5, <2>1
  <2> QED BY <1>1, <2>2, <2>3
<1>5. BraidInv'
  BY <1>2, SwitchKeepsInv DEF TInv
<1>6. blocked' = blocked \cup {W} /\ Dead' = Dead /\ count' = count
  BY <1>1, <1>2, ScheduleLists DEF Block, Dead
<1>7. pc'[M] = "received" /\ pc'[W] = "exit" /\ pc'[T] = pc[T] /\ ~Before'
  BY <1>1, <1>2, TFacts DEF TInv, TTypeOK, Before
<1>8. TTypeOK'
  BY <1>2, <1>7 DEF TInv, TTypeOK, CallerLabels, Labels
<1>9. M \notin blocked' /\ M \in Dead'
  BY <1>1, <1>4, <1>6, TFacts
<1>10. CallerAlone'
  BY <1>1, <1>6, <1>7 DEF CallerAlone
<1>11. CallerNotListed' /\ TimerHalts' /\ CutBeforeFree' /\ CallerWaits'
  BY <1>2, <1>7, <1>9 DEF TInv, CallerNotListed, TimerHalts, CutBeforeFree, CallerWaits
<1>12. QueueOf'
  <2>1. <<W>> # <<M>>
    BY TFacts
  <2> QED BY <2>1, <1>4, <1>7 DEF QueueOf
<1>13. Outcome'
  BY <1>1, <1>2, <1>7, <1>9 DEF TInv, Outcome
<1> QED BY <1>5, <1>8, <1>10, <1>11, <1>12, <1>13 DEF TInv

LEMMA SendKeepsTInv ==
  ASSUME TInv, Send
  PROVE  TInv'
BY SendHandsOverKeepsTInv, SendWaitsKeepsTInv DEF Send

-----------------------------------------------------------------------------
(* main() adds the visor and the caller, and starts the braid.             *)
LEMMA SetUpKeepsTInv ==
  ASSUME TInv, SetUp, UNCHANGED <<chVars, pc, mapped>>
  PROVE  TInv'
<1>1. phase = "init" /\ count \in 0 .. 2
  BY DEF SetUp, AddVisor, VStart, Start, M
<1>2. pc[M] = "addWork" /\ Before
  BY <1>1, TFacts DEF TInv, CallerAlone, Before
<1>3. UNCHANGED <<queue, closed, chfreed, owner, entries>>
  BY DEF SetUp, AddVisor, AddCord, VStart, ioVars, chVars
<1>5. CallerNotListed'
  BY <1>3 DEF TInv, CallerNotListed
<1>6. ASSUME NEW fl \in Flags, Add(fl)
      PROVE  /\ BraidInv' /\ count' = count + 1 /\ ToSet(runable') = ToSet(runable) \cup {count}
             /\ UNCHANGED <<phase, blocked, val>> /\ Dead' = Dead
             /\ flags'[count] = fl
  <2>1. BraidInv'
    BY <1>6, AddKeepsInv DEF TInv
  <2>2. NextId = count /\ runable \in Seq(Cords) /\ flags \in [Cords -> Flags]
    BY NextIdIsCount DEF TInv, BraidInv, TypeOK
  <2>3. /\ count \in Cords /\ runable' = Append(runable, count) /\ count' = count + 1
        /\ flags' = [flags EXCEPT ![count] = fl]
        /\ UNCHANGED <<phase, blocked, zombies, freed, val>>
    BY <1>6, <2>2 DEF Add
  <2>4. ToSet(runable') = ToSet(runable) \cup {count}
    BY <2>2, <2>3, AppendElements
  <2> QED BY <2>1, <2>2, <2>3, <2>4 DEF Dead
<1>7. CASE AddVisor /\ count = 0
  <2>1. Add("system") /\ visor' = NextId
    BY <1>7 DEF AddVisor
  <2>2. NextId = 0
    BY <1>7, NextIdIsCount DEF TInv, BraidInv
  <2>3. /\ BraidInv' /\ count' = 1
        /\ UNCHANGED <<phase, blocked, val>> /\ Dead' = Dead
    BY <1>6, <1>7, <2>1 DEF Flags
  <2>4. TTypeOK' /\ TimerHalts'
    BY <1>3, <2>1, <2>2, <2>3 DEF TInv, TTypeOK, TimerHalts
  <2>5. CallerAlone'
    BY <1>1, <1>2, <1>3, <2>3 DEF TInv, CallerAlone, Before
  <2> QED BY <1>5, <2>3, <2>4, <2>5, QuietKeepsTInv
<1>8. CASE AddCord /\ phase = "init" /\ count = M
  <2>1. Add("normal") /\ visor' = visor
    BY <1>8 DEF AddCord, ioVars
  <2>2. /\ BraidInv' /\ count' = 2 /\ M \in ToSet(runable') /\ flags'[M] = "normal"
        /\ UNCHANGED <<phase, blocked, val>> /\ Dead' = Dead
    BY <1>6, <1>8, <2>1 DEF Flags, M
  <2>3. TTypeOK' /\ TimerHalts'
    BY <1>3, <2>1, <2>2 DEF TInv, TTypeOK, TimerHalts
  <2>4. CallerAlone'
    BY <1>1, <1>2, <1>3, <2>2 DEF TInv, CallerAlone, Before
  <2> QED BY <1>5, <2>2, <2>3, <2>4, QuietKeepsTInv
<1>9. CASE VStart /\ count = M + 1
  <2>1. Start /\ visor' = visor /\ count = 2
    BY <1>9 DEF VStart, ioVars, M
  <2>2. BraidInv'
    BY <2>1, SwitchKeepsInv DEF TInv
  <2>3. /\ blocked' = blocked /\ Dead' = Dead /\ phase' \in {"running", "returning"}
        /\ UNCHANGED <<flags, val, count>>
    BY <2>1, ScheduleLists DEF Start, Dead
  <2>4. flags[M] = "normal" /\ M \in Running \cup ToSet(runable)
    BY <1>2, <2>1 DEF TInv, CallerAlone
  <2>5. M \notin blocked
    BY <2>4 DEF TInv, BraidInv, Accounted
  <2>6. M \in Running' \cup ToSet(runable') /\ phase' \in {"init", "running"}
    BY <2>2, <2>3, <2>4, <2>5, NormalGoesOn DEF TInv
  <2>7. TTypeOK' /\ TimerHalts'
    BY <1>3, <2>1, <2>3 DEF TInv, TTypeOK, TimerHalts
  <2>8. CallerAlone'
    BY <1>2, <1>3, <2>1, <2>3, <2>4, <2>6 DEF TInv, CallerAlone, Before
  <2> QED BY <1>5, <2>2, <2>3, <2>7, <2>8, QuietKeepsTInv
<1> QED BY <1>7, <1>8, <1>9 DEF SetUp

(* Whatever runs beside the cords of cktimeout.                            *)
LEMMA AroundKeepsTInv ==
  ASSUME TInv, Around
  PROVE  TInv'
BY SetUpKeepsTInv, VisorStepsKeepTInv DEF Around

(* The kernel, and steps that change nothing.                              *)
LEMMA IdleKeepsTInv ==
  ASSUME TInv, UNCHANGED <<vars, chVars, visor, owner, entries, pc, mapped>>
  PROVE  TInv'
<1>1. BraidInv'
  BY BraidInvStep DEF TInv
<1>2. UNCHANGED <<phase, curr, runable, blocked, zombies, freed, flags, val, count>>
      /\ Running' = Running /\ Dead' = Dead
  BY DEF vars, Running, Dead
<1>3. TTypeOK' /\ CallerNotListed' /\ TimerHalts'
  BY <1>2 DEF TInv, TTypeOK, CallerNotListed, TimerHalts
<1>4. CallerAlone'
  BY <1>2 DEF TInv, CallerAlone, Before, chVars
<1> QED BY <1>1, <1>2, <1>3, <1>4, QuietKeepsTInv

(* The caller is halted while it waits, or after it has been woken.        *)
LEMMA CallerHaltedKeepsTInv ==
  ASSUME TInv, CallerHalted
  PROVE  TInv'
<1>1. /\ phase = "running" /\ curr = visor /\ pc[M] = "received" /\ ~Before
      /\ UNCHANGED <<chVars, visor, owner, entries, pc, mapped>>
  BY DEF CallerHalted, Before, ioVars
<1>2. count = 4 /\ curr # M
  BY <1>1, NullAssumption DEF TInv, CallerAlone, TTypeOK, M
<1>3. /\ BraidInv' /\ Dead' = Dead \cup {M} /\ blocked' = blocked \ {M}
      /\ UNCHANGED <<val, count>>
  <2>1. HaltIfFound(M)
    BY DEF CallerHalted, HaltIfFound
  <2> QED BY <1>1, <1>2, <2>1, HaltIfFoundFacts
<1>4. TTypeOK' /\ CallerNotListed' /\ TimerHalts'
  BY <1>1, <1>3 DEF TInv, TTypeOK, CallerNotListed, TimerHalts
<1> QED BY <1>1, <1>3, <1>4, LaterKeepsTInv

(* braidstart cleans up: cktimeout has come to its chrecv, and all the     *)
(* cords it knows of are released.                                         *)
LEMMA TReturnKeepsTInv ==
  ASSUME TInv, TReturn
  PROVE  TInv'
<1>1. /\ Return /\ phase = "returning" /\ queue' = << >>
      /\ UNCHANGED <<got, visor, owner, entries, pc, mapped>>
  BY DEF TReturn, VReturn, ChReturn, Return, ioVars
<1>2. ~Before /\ count = 4
  BY <1>1 DEF TInv, CallerAlone
<1>3. BraidInv'
  BY <1>1, ReturnKeepsInv DEF TInv
<1>4. blocked' = {} /\ Dead' = 0 .. 3 /\ count' = count
  <2>1. ToSet(runable) \cup blocked \cup Dead = 0 .. 3
    BY <1>1, <1>2, TFacts
  <2> QED BY <1>1, <2>1 DEF Return, Dead
<1>5. {M, W, T} \subseteq Dead'
  BY <1>4, TFacts
<1>6. ~Before'
  BY <1>1, <1>2 DEF Before
<1>7. TTypeOK' /\ CallerNotListed' /\ TimerHalts' /\ CallerWaits' /\ CutBeforeFree'
  BY <1>1, <1>4, <1>5
  DEF TInv, TTypeOK, CallerNotListed, TimerHalts, CallerWaits, CutBeforeFree
<1>8. CallerAlone'
  BY <1>2, <1>4, <1>6 DEF CallerAlone, Before
<1>9. QueueOf'
  <2>1. << >> # <<M>> /\ << >> # <<W>>
    OBVIOUS
  <2> QED BY <2>1, <1>1 DEF QueueOf
<1>10. Outcome'
  BY <1>1, <1>2, <1>5, <1>6 DEF TInv, Outcome
<1> QED BY <1>3, <1>7, <1>8, <1>9, <1>10 DEF TInv

-----------------------------------------------------------------------------
LEMMA TInvInit == TInit => TInv
<1> SUFFICES ASSUME TInit PROVE TInv
  OBVIOUS
<1>1. /\ pc = [c \in {M, W, T} |->
                 CASE c = M -> "addWork" [] c = W -> "call" [] c = T -> "sleep"]
      /\ mapped /\ ~closed /\ ~chfreed /\ queue = << >> /\ got = << >>
      /\ visor = NULL /\ owner = 0 /\ entries = << >>
      /\ Init
  BY DEF TInit, ChInit, VInit
<1>2. pc[M] = "addWork" /\ pc[W] = "call" /\ pc[T] = "sleep"
  BY <1>1 DEF M, W, T
<1>3. BraidInv
  BY <1>1, BraidInvInit
<1>4. phase = "init" /\ count = 0 /\ blocked = {}
  BY <1>1 DEF Init
<1>5. TTypeOK
  BY <1>1, <1>2 DEF TTypeOK, CallerLabels, Labels
<1>6. CallerAlone
  BY <1>1, <1>2, <1>4 DEF CallerAlone, Before
<1>7. CallerNotListed
  BY <1>1 DEF CallerNotListed, ToSet
<1>8. QueueOf
  <2>1. << >> # <<M>> /\ << >> # <<W>>
    OBVIOUS
  <2> QED BY <2>1, <1>1 DEF QueueOf
<1>9. CallerWaits /\ TimerHalts /\ Outcome /\ CutBeforeFree
  BY <1>1, <1>2 DEF CallerWaits, TimerHalts, Outcome, CutBeforeFree
<1> QED BY <1>3, <1>5, <1>6, <1>7, <1>8, <1>9 DEF TInv

LEMMA TInvStep == TInv /\ [TNext]_all => TInv'
<1> SUFFICES ASSUME TInv, [TNext]_all PROVE TInv'
  OBVIOUS
<1>1. CASE AddWork \/ AddWait \/ Receive \/ Received \/ HaltWait \/ CloseAfterWork \/ Unmap
  BY <1>1, AddsKeepTInv, ReceiveKeepsTInv, ReceivedKeepsTInv, HaltWaitKeepsTInv,
     CloseAfterWorkKeepsTInv, UnmapKeepsTInv
<1>2. CASE Working \/ Send \/ Sleep \/ HaltWork \/ CloseAfterWait \/ Leave
  BY <1>2, WorkingKeepsTInv, SendKeepsTInv, SleepKeepsTInv, HaltWorkKeepsTInv,
     CloseAfterWaitKeepsTInv, LeaveKeepsTInv
<1>3. CASE Around \/ TReturn \/ CallerHalted
  BY <1>3, AroundKeepsTInv, TReturnKeepsTInv, CallerHaltedKeepsTInv
<1>4. CASE TimerExpires \/ InputArrives
  BY <1>4, IdleKeepsTInv DEF TimerExpires, InputArrives, DescriptorReady
<1>5. CASE Ended \/ UNCHANGED all
  BY <1>5, IdleKeepsTInv DEF Ended, all, ioVars
<1> QED BY <1>1, <1>2, <1>3, <1>4, <1>5 DEF TNext, Progress

(* Whatever f does, whenever the timer expires, and whoever halts the      *)
(* caller, the calls of cktimeout stay in step (ck.c).                     *)
THEOREM TimeoutInvariant == TSpec => []TInv
<1>1. TInit => TInv
  BY TInvInit
<1>2. TInv /\ [TNext]_all => TInv'
  BY TInvStep
<1> QED BY <1>1, <1>2, PTL DEF TSpec

(* cktimeout returns the value of f if f has returned and 0 only if it was *)
(* cut short: a timer that expires at the same time loses no result.       *)
THEOREM ZeroAlwaysIfCut == TSpec => []ZeroOnlyIfCut
<1>1. TInv => ZeroOnlyIfCut
  BY DEF TInv, Outcome, ZeroOnlyIfCut
<1> QED BY <1>1, TimeoutInvariant, PTL

(* f is cut short before its code is unmapped and before the channel it    *)
(* sends its value to is closed or freed.                                  *)
THEOREM AlwaysCutBeforeFree == TSpec => []CutBeforeFree
<1>1. TInv => CutBeforeFree
  BY DEF TInv
<1> QED BY <1>1, TimeoutInvariant, PTL

-----------------------------------------------------------------------------
(* THE CONTEXTS *)

-----------------------------------------------------------------------------
(* The fields that a new context needs on its way to its entry point.      *)
EntryFields == DOMAIN Fields \ {"stack", "mapsize"}

(* The fields that ctxdel reads. *)
Mapping == {"stack", "mapsize"}

(* The words of a struct ctx hold what the code on x must find.            *)
Holds(x, words) ==
  IF turn[x] # 0 THEN \A r \in DOMAIN Saved : words[Saved[r]] = Value(x, r, turn[x])
  ELSE \A f \in EntryFields : words[Fields[f]] = CreatedFields(x)[f]

(* The contexts that somebody can switch to.                               *)
Switchable ==
  ToSet(runable) \cup blocked \cup (IF phase \in {"running", "returning"} THEN {START} ELSE {})

CtxTypeOK ==
  /\ arch \in {"amd64", "aarch64"}
  /\ DOMAIN mem = ContextIds
  /\ turn \in [ContextIds -> 0 .. 2]

CtxInv ==
  /\ BraidInv
  /\ CtxTypeOK
  /\ \A x \in Switchable : Holds(x, mem[x])
  /\ \A c \in Cords : c >= count => turn[c] = 0
  /\ ContextsKept

-----------------------------------------------------------------------------
(* The words of a struct ctx. *)

(* Each register is stored in a word of its own, and none in the words of  *)
(* the mapping.                                                            *)
LEMMA SavedApart ==
  ASSUME arch \in {"amd64", "aarch64"}
  PROVE  /\ \A r \in DOMAIN Saved : Saved[r] \in Words
         /\ \A r, s \in DOMAIN Saved : Saved[r] = Saved[s] => r = s
         /\ \A r \in DOMAIN Saved, f \in Mapping : Saved[r] # Fields[f]
         /\ \A f \in Mapping : f \in DOMAIN Fields /\ Fields[f] \in Words
<1>1. CASE arch = "amd64"
  BY <1>1 DEF Saved, SavedAmd64, Words, Fields, FieldsAmd64, Mapping
<1>2. CASE arch = "aarch64"
  BY <1>2 DEF Saved, SavedAarch64, Words, Fields, FieldsAarch64, Mapping
<1> QED BY <1>1, <1>2

(* Every field has a word of its own. *)
LEMMA FieldsApart ==
  ASSUME arch \in {"amd64", "aarch64"}
  PROVE  /\ \A f \in DOMAIN Fields : Fields[f] \in Words
         /\ \A f, g \in DOMAIN Fields : Fields[f] = Fields[g] => f = g
<1>1. CASE arch = "amd64"
  BY <1>1 DEF Words, Fields, FieldsAmd64
<1>2. CASE arch = "aarch64"
  BY <1>2 DEF Words, Fields, FieldsAarch64
<1> QED BY <1>1, <1>2

(* What ctxcreate writes a new context's registers into is what ctxswap    *)
(* loads them from, although the two are written down in C and in assembly. *)
LEMMA EntryIsLoaded ==
  ASSUME arch \in {"amd64", "aarch64"}, NEW f \in EntryFields
  PROVE  /\ f \in DOMAIN Saved \cup DOMAIN Arg
         /\ Fields[f] = IF f \in DOMAIN Saved THEN Saved[f] ELSE Arg[f]
<1>1. CASE arch = "amd64"
  BY <1>1 DEF Saved, SavedAmd64, Arg, ArgAmd64, EntryFields, Fields, FieldsAmd64
<1>2. CASE arch = "aarch64"
  BY <1>2 DEF Saved, SavedAarch64, Arg, ArgAarch64, EntryFields, Fields, FieldsAarch64
<1> QED BY <1>1, <1>2

(* ctxswap stores the registers and leaves the mapping alone. *)
LEMMA StoredWords ==
  ASSUME arch \in {"amd64", "aarch64"}, NEW words, NEW regs
  PROVE  /\ \A r \in DOMAIN Saved : Stored(words, regs)[Saved[r]] = regs[r]
         /\ \A f \in Mapping : Stored(words, regs)[Fields[f]] = words[Fields[f]]
<1>1. ASSUME NEW r \in DOMAIN Saved
      PROVE  Stored(words, regs)[Saved[r]] = regs[r]
  <2>1. Saved[r] \in Words /\ \A s \in DOMAIN Saved : Saved[s] = Saved[r] => s = r
    BY SavedApart
  <2>2. (CHOOSE s \in DOMAIN Saved : Saved[s] = Saved[r]) = r
    BY <2>1
  <2> QED BY <2>1, <2>2 DEF Stored
<1>2. ASSUME NEW f \in Mapping
      PROVE  Stored(words, regs)[Fields[f]] = words[Fields[f]]
  <2>1. Fields[f] \in Words /\ \A s \in DOMAIN Saved : Saved[s] # Fields[f]
    BY SavedApart
  <2> QED BY <2>1 DEF Stored
<1> QED BY <1>1, <1>2

(* ctxcreate puts into every field what it is to hold. *)
LEMMA CreatedWords ==
  ASSUME arch \in {"amd64", "aarch64"}, NEW c, NEW f \in DOMAIN Fields
  PROVE  ctxcreate(c)[Fields[f]] = CreatedFields(c)[f]
<1>1. Fields[f] \in Words /\ \A g \in DOMAIN Fields : Fields[g] = Fields[f] => g = f
  BY FieldsApart
<1>2. (CHOOSE g \in DOMAIN Fields : Fields[g] = Fields[f]) = f
  BY <1>1
<1> QED BY <1>1, <1>2 DEF ctxcreate

(* Who is switched to finds in the registers what its context holds.       *)
LEMMA LoadedWords ==
  ASSUME arch \in {"amd64", "aarch64"}, NEW x, NEW words, Holds(x, words)
  PROVE  IF turn[x] # 0 THEN \A r \in DOMAIN Saved : Loaded(words)[r] = Value(x, r, turn[x])
         ELSE \A f \in EntryFields : Loaded(words)[f] = CreatedFields(x)[f]
<1>1. CASE turn[x] # 0
  BY <1>1 DEF Holds, Loaded
<1>2. CASE turn[x] = 0
  <2> SUFFICES ASSUME NEW f \in EntryFields
               PROVE  Loaded(words)[f] = CreatedFields(x)[f]
    BY <1>2
  <2>1. Loaded(words)[f] = words[Fields[f]]
    BY EntryIsLoaded DEF Loaded
  <2> QED BY <1>2, <2>1 DEF Holds
<1> QED BY <1>1, <1>2

-----------------------------------------------------------------------------
(* What the contexts rely on: how a step of the scheduler moves the cords. *)
Moves ==
  /\ freed \subseteq freed'
  /\ zombies \subseteq zombies' \cup freed'
  /\ \/ count' = count
     \/ /\ count' = count + 1
        /\ UNCHANGED <<phase, curr>>
        /\ runable' # << >>
  /\ phase' \in {"running", "returning"} => phase \in {"init", "running"} \/ phase' = phase
  /\ phase' = "init" => phase = "init"
  /\ phase' = "done" => phase \in {"returning", "done"}

LEMMA NextMoves ==
  ASSUME BraidInv, [Next]_vars
  PROVE  Moves
<1>1. CASE Start \/ Yield \/ Block \/ Exit \/ Stop
  <2>1. /\ phase \in {"init", "running"}
        /\ \E q, blk, zom, fre : Schedule(q, blk, zom, fre) /\ freed \subseteq fre
                                                            /\ zombies \subseteq zom
        /\ count' = count
    BY <1>1 DEF Start, Yield, Block, Exit, Stop
  <2>2. PICK q, blk, zom, fre : Schedule(q, blk, zom, fre) /\ freed \subseteq fre
                                                           /\ zombies \subseteq zom
    BY <2>1
  <2>3. freed \subseteq freed' /\ zombies \subseteq zombies' \cup freed'
    BY <2>2 DEF Schedule, SwitchTo, ReturnToStart
  <2>4. phase' \in {"running", "returning"}
    BY <2>2, ScheduleLists
  <2> QED BY <2>1, <2>3, <2>4 DEF Moves
<1>2. ASSUME NEW fl \in Flags, Add(fl) PROVE Moves
  <2>1. NextId = count
    BY NextIdIsCount DEF BraidInv
  <2>2. runable \in Seq(Cords) /\ count \in Cords
    BY <1>2, <2>1 DEF Add, BraidInv, TypeOK
  <2>3. runable' # << >>
    BY <1>2, <2>1, <2>2, AppendProperties DEF Add
  <2> QED BY <1>2, <2>1, <2>3 DEF Add, Moves
<1>3. CASE (\E c \in Cords, v \in Vals : Unblock(c, v)) \/ \E c \in Cords : Halt(c)
  BY <1>3 DEF Unblock, Halt, HaltRunable, HaltBlocked, Moves
<1>4. CASE Return
  BY <1>4 DEF Return, Moves
<1>5. CASE UNCHANGED vars
  BY <1>5 DEF vars, Moves
<1> QED BY <1>1, <1>2, <1>3, <1>4, <1>5 DEF Next, Terminated

(* Where the cords of the next state come from: somebody who can be        *)
(* switched to was there before, or was just created.                      *)
LEMMA WhoWaits ==
  ASSUME BraidInv, BraidInv', Moves
  PROVE  /\ phase = "running" => curr \in Cords /\ curr < count
         /\ phase' = "running" =>
              curr' \in Cords /\ curr' < count' /\ curr' \notin zombies' \cup freed'
         /\ \A c \in ToSet(runable') \cup blocked' :
              /\ c \in Cords /\ c < count'
              /\ c \notin zombies' \cup freed'
              /\ phase' = "running" => c # curr'
         /\ \A c \in Cords : c < count /\ c \notin zombies' \cup freed' =>
              c \in ToSet(runable) \cup blocked \/ (phase = "running" /\ c = curr)
         /\ count \in Nat /\ count' \in Nat /\ 0 .. count' - 1 \subseteq Cords
<1>1. count \in 0 .. MaxCords /\ count' \in 0 .. MaxCords
  BY DEF BraidInv, TypeOK
<1>2. ASSUME NEW k \in 0 .. MaxCords
      PROVE  0 .. k - 1 \subseteq Cords /\ \A c \in Cords : c \in 0 .. k - 1 <=> c < k
  <2>1. MaxCords \in Nat /\ k \in Nat /\ k <= MaxCords
    BY MaxCordsAssumption
  <2> QED BY <2>1 DEF Cords
<1>3. /\ Running' \cup ToSet(runable') \cup blocked' \subseteq 0 .. count' - 1
      /\ Running' \cap (ToSet(runable') \cup blocked' \cup zombies' \cup freed') = {}
      /\ (ToSet(runable') \cup blocked') \cap (zombies' \cup freed') = {}
  BY DEF BraidInv, Accounted
<1>4. Running \subseteq 0 .. count - 1
  BY DEF BraidInv, Accounted
<1>5. phase = "running" => curr \in Running
  BY DEF Running
<1>6. phase' = "running" => curr' \in Running'
  BY DEF Running
<1>7. ASSUME NEW c \in Cords, c < count, c \notin zombies' \cup freed'
      PROVE  c \in ToSet(runable) \cup blocked \/ (phase = "running" /\ c = curr)
  <2>1. c \notin zombies \cup freed
    BY <1>7 DEF Moves
  <2>2. c \in Running \cup ToSet(runable) \cup blocked
    BY <1>1, <1>2, <1>7, <2>1 DEF BraidInv, Accounted
  <2> QED BY <2>2 DEF Running
<1>8. phase = "running" => curr \in Cords /\ curr < count
  BY <1>1, <1>2, <1>4, <1>5
<1>9. phase' = "running" =>
        curr' \in Cords /\ curr' < count' /\ curr' \notin zombies' \cup freed'
  BY <1>1, <1>2, <1>3, <1>6
<1>10. ASSUME NEW c \in ToSet(runable') \cup blocked'
       PROVE  /\ c \in Cords /\ c < count'
              /\ c \notin zombies' \cup freed'
              /\ phase' = "running" => c # curr'
  <2>1. c \in 0 .. count' - 1 /\ c \notin Running' /\ c \notin zombies' \cup freed'
    BY <1>3
  <2> QED BY <2>1, <1>1, <1>2, <1>6
<1>11. count \in Nat /\ count' \in Nat
  BY <1>1
<1> QED BY <1>1, <1>2, <1>7, <1>8, <1>9, <1>10, <1>11

-----------------------------------------------------------------------------
(* A switch. *)

LEMMA Ids ==
  /\ Cords \subseteq ContextIds /\ START \in ContextIds /\ DUMMY \in ContextIds
  /\ START \notin Cords /\ DUMMY \notin Cords /\ START # DUMMY
  /\ \A c \in Cords : c \in Int
<1>1. MaxCords \in Nat
  BY MaxCordsAssumption
<1> QED BY <1>1 DEF Cords, ContextIds, START, DUMMY

(* What holds between the two halves of a step, when ctxswap has stored    *)
(* and loaded, and ctxcreate and ctxdel are still to come.                 *)
SwappedTo(stored) ==
  /\ mem' = Maintained(stored)
  /\ turn' \in [ContextIds -> 0 .. 2]
  /\ \A c \in Cords : c >= count => turn'[c] = 0
  /\ \A y \in Switchable' : y = START \/ y < count =>
       IF turn'[y] # 0 THEN \A r \in DOMAIN Saved : stored[y][Saved[r]] = Value(y, r, turn'[y])
       ELSE \A f \in EntryFields : stored[y][Fields[f]] = CreatedFields(y)[f]
  /\ \A c \in Cords, f \in Mapping : stored[c][Fields[f]] = mem[c][Fields[f]]
  /\ phase' = "running" => Finds(curr)'
  /\ phase' = "returning" => Finds(START)'

(* Whoever ctxswap is told to switch to finds its registers: the caller    *)
(* itself those that were stored a moment ago.                             *)
LEMMA SwapFinds ==
  ASSUME CtxTypeOK, arch' = arch,
         NEW x \in ContextIds, NEW old \in {x, DUMMY}, NEW new \in ContextIds,
         NEW m, DOMAIN m = ContextIds,
         ctxswap(x, old, new, m),
         new = x => old = x,
         new # x => new # DUMMY /\ Holds(new, m[new])
  PROVE  Finds(new)'
<1> DEFINE k == IF turn[x] = 1 THEN 2 ELSE 1
           stored == [m EXCEPT ![old] = Stored(@, Registers(x, k))]
<1>1. cpu' = Loaded(stored[new]) /\ turn' = [turn EXCEPT ![x] = k]
  BY DEF ctxswap
<1>2. old \in ContextIds
  BY Ids
<1>3. /\ turn'[x] = k /\ k # 0
      /\ \A y \in ContextIds : y # x => turn'[y] = turn[y]
  BY <1>1 DEF CtxTypeOK
<1>4. /\ stored[old] = Stored(m[old], Registers(x, k))
      /\ \A y \in ContextIds : y # old => stored[y] = m[y]
  BY <1>2
<1>5. Saved' = Saved /\ Fields' = Fields /\ (CreatedFields(new))' = CreatedFields(new)
  BY DEF Saved, Fields, CreatedFields
<1> HIDE DEF k, stored
<1>6. CASE new = x
  <2>1. cpu' = Loaded(Stored(m[x], Registers(x, k)))
    BY <1>1, <1>4, <1>6
  <2>2. ASSUME NEW r \in DOMAIN Saved
        PROVE  cpu'[r] = Value(x, r, k)
    <3>1. cpu'[r] = Stored(m[x], Registers(x, k))[Saved[r]]
      BY <2>1 DEF Loaded
    <3>2. Stored(m[x], Registers(x, k))[Saved[r]] = Registers(x, k)[r]
      BY StoredWords DEF CtxTypeOK
    <3> QED BY <3>1, <3>2 DEF Registers
  <2> QED BY <1>3, <1>5, <1>6, <2>2 DEF Finds
<1>7. CASE new # x
  <2>1. cpu' = Loaded(m[new]) /\ turn'[new] = turn[new]
    BY <1>1, <1>3, <1>4, <1>7
  <2>2. IF turn[new] # 0 THEN \A r \in DOMAIN Saved : cpu'[r] = Value(new, r, turn[new])
        ELSE \A f \in EntryFields : cpu'[f] = CreatedFields(new)[f]
    BY <1>7, <2>1, LoadedWords DEF CtxTypeOK
  <2> QED BY <1>5, <2>1, <2>2 DEF Finds, EntryFields
<1> QED BY <1>6, <1>7

(* The context that is left holds the registers, the others and all the    *)
(* mappings are as they were.                                              *)
LEMMA SwapStores ==
  ASSUME CtxTypeOK,
         NEW x \in ContextIds, NEW old \in {x, DUMMY}, NEW new,
         NEW m, DOMAIN m = ContextIds,
         ctxswap(x, old, new, m)
  PROVE  /\ turn' \in [ContextIds -> 0 .. 2] /\ turn'[x] # 0
         /\ \A y \in ContextIds : y # x => turn'[y] = turn[y]
         /\ \E stored :
              /\ mem' = Maintained(stored)
              /\ \A y \in ContextIds : y # old => stored[y] = m[y]
              /\ \A y \in ContextIds, f \in Mapping : stored[y][Fields[f]] = m[y][Fields[f]]
              /\ old = x => \A r \in DOMAIN Saved : stored[x][Saved[r]] = Value(x, r, turn'[x])
<1> DEFINE k == IF turn[x] = 1 THEN 2 ELSE 1
           stored == [m EXCEPT ![old] = Stored(@, Registers(x, k))]
<1>1. mem' = Maintained(stored) /\ turn' = [turn EXCEPT ![x] = k]
  BY DEF ctxswap
<1>2. old \in ContextIds
  BY Ids
<1>3. /\ turn' \in [ContextIds -> 0 .. 2] /\ turn'[x] = k /\ k # 0
      /\ \A y \in ContextIds : y # x => turn'[y] = turn[y]
  BY <1>1 DEF CtxTypeOK
<1>4. /\ stored[old] = Stored(m[old], Registers(x, k))
      /\ \A y \in ContextIds : y # old => stored[y] = m[y]
  BY <1>2
<1> HIDE DEF k, stored
<1>5. ASSUME NEW y \in ContextIds, NEW f \in Mapping
      PROVE  stored[y][Fields[f]] = m[y][Fields[f]]
  BY <1>4, StoredWords DEF CtxTypeOK
<1>6. ASSUME old = x, NEW r \in DOMAIN Saved
      PROVE  stored[x][Saved[r]] = Value(x, r, turn'[x])
  <2>1. stored[x][Saved[r]] = Registers(x, k)[r]
    BY <1>4, <1>6, StoredWords DEF CtxTypeOK
  <2> QED BY <1>3, <2>1 DEF Registers
<1> QED BY <1>1, <1>3, <1>4, <1>5, <1>6

-----------------------------------------------------------------------------
(* Every kind of switch. *)

(* Everybody who runs or can be switched to after a step could be switched *)
(* to before, called ctxswap, or is a cord that was just added.            *)
LEMMA Survivors ==
  ASSUME CtxInv, BraidInv', Moves, NEW y \in Switchable' \cup Running'
  PROVE  /\ y \in ContextIds /\ y # DUMMY
         /\ y = START => y \in Switchable \/ phase = "init"
         /\ y # START => y \in Cords
         /\ y # START /\ y < count => y \in Switchable \/ (phase = "running" /\ y = curr)
<1>1. CASE y = START
  <2>1. phase' \in {"running", "returning"}
    BY <1>1, WhoWaits, Ids DEF Switchable, Running, CtxInv
  <2> QED BY <1>1, <2>1, Ids DEF Switchable, Moves
<1>2. CASE y # START
  <2>1. y \in ToSet(runable') \cup blocked' \/ (phase' = "running" /\ y = curr')
    BY <1>2 DEF Switchable, Running
  <2>2. y \in Cords /\ y \notin zombies' \cup freed'
    BY <2>1, WhoWaits DEF CtxInv
  <2>3. y < count => y \in ToSet(runable) \cup blocked \/ (phase = "running" /\ y = curr)
    BY <2>2, WhoWaits DEF CtxInv
  <2> QED BY <1>2, <2>2, <2>3, Ids DEF Switchable
<1> QED BY <1>1, <1>2

(* A call of ctxswap by the code on x, which keeps its own context or      *)
(* will never be switched to.                                              *)
LEMMA SwitchKeeps ==
  ASSUME CtxInv, BraidInv', Moves, arch' = arch, count' = count,
         NEW x, (phase = "running" /\ x = curr) \/ (phase = "init" /\ x = START),
         NEW old \in {x, DUMMY}, x \in Switchable' \cup Running' => old = x,
         phase' \in {"running", "returning"},
         NEW m, DOMAIN m = ContextIds, \A y \in ContextIds : y # START => m[y] = mem[y],
         x = START \/ m = mem,
         ctxswap(x, old, Target, m)
  PROVE  \E stored : SwappedTo(stored)
<1>1. PICK t : t = Target
  OBVIOUS
<1>2. ctxswap(x, old, t, m)
  BY <1>1
<1>3. CtxTypeOK /\ x \in ContextIds /\ (x \in Cords => x < count)
  BY WhoWaits, Ids DEF CtxInv
<1>4. ASSUME NEW y \in Switchable' \cup Running', y # x
      PROVE  y \in ContextIds /\ y # DUMMY /\ Holds(y, m[y])
  <2>1. y \in ContextIds /\ y # DUMMY /\ y \in Switchable
    <3>1. CASE y = START
      BY <1>4, <3>1, Survivors
    <3>2. CASE y # START
      <4>1. y \in Cords /\ y < count'
        BY <3>2, WhoWaits DEF Switchable, Running, CtxInv
      <4> QED BY <1>4, <3>2, <4>1, Survivors
    <3> QED BY <3>1, <3>2
  <2>2. m[y] = mem[y]
    BY <1>4, <2>1
  <2> QED BY <2>1, <2>2 DEF CtxInv
<1>5. t \in Switchable' \cup Running'
  BY <1>1 DEF Target, Switchable, Running
<1>6. Finds(t)'
  <2>1. t = x => old = x
    BY <1>5
  <2>2. t \in ContextIds
    BY <1>3, <1>4, <1>5
  <2> QED BY <1>2, <1>3, <1>4, <1>5, <2>1, <2>2, SwapFinds
<1>7. /\ turn' \in [ContextIds -> 0 .. 2] /\ turn'[x] # 0
      /\ \A y \in ContextIds : y # x => turn'[y] = turn[y]
      /\ \E stored :
           /\ mem' = Maintained(stored)
           /\ \A y \in ContextIds : y # old => stored[y] = m[y]
           /\ \A y \in ContextIds, f \in Mapping : stored[y][Fields[f]] = m[y][Fields[f]]
           /\ old = x => \A r \in DOMAIN Saved : stored[x][Saved[r]] = Value(x, r, turn'[x])
  BY <1>2, <1>3, SwapStores
<1>8. PICK stored :
           /\ mem' = Maintained(stored)
           /\ \A y \in ContextIds : y # old => stored[y] = m[y]
           /\ \A y \in ContextIds, f \in Mapping : stored[y][Fields[f]] = m[y][Fields[f]]
           /\ old = x => \A r \in DOMAIN Saved : stored[x][Saved[r]] = Value(x, r, turn'[x])
  BY <1>7
<1>9. \A c \in Cords : c >= count => turn'[c] = 0
  <2> SUFFICES ASSUME NEW c \in Cords, c >= count PROVE turn'[c] = 0
    OBVIOUS
  <2>1. c # x
    BY <1>3, WhoWaits, Ids DEF CtxInv
  <2> QED BY <2>1, <1>7, Ids DEF CtxInv
<1>10. ASSUME NEW y \in Switchable'
       PROVE  IF turn'[y] # 0
              THEN \A r \in DOMAIN Saved : stored[y][Saved[r]] = Value(y, r, turn'[y])
              ELSE \A f \in EntryFields : stored[y][Fields[f]] = CreatedFields(y)[f]
  <2>1. CASE y = x
    BY <2>1, <1>7, <1>8
  <2>2. CASE y # x
    <3>1. stored[y] = m[y] /\ turn'[y] = turn[y]
      BY <2>2, <1>4, <1>7, <1>8
    <3> QED BY <2>2, <3>1, <1>4 DEF Holds
  <2> QED BY <2>1, <2>2
<1>11. \A c \in Cords, f \in Mapping : stored[c][Fields[f]] = mem[c][Fields[f]]
  BY <1>8, Ids
<1>12. /\ phase' = "running" => Finds(curr)'
       /\ phase' = "returning" => Finds(START)'
  <2>1. phase' = "running" => t = curr'
    BY <1>1 DEF Target
  <2>2. phase' = "returning" => t = START
    BY <1>1 DEF Target
  <2> QED BY <1>6, <2>1, <2>2 DEF Finds
<1> QED BY <1>7, <1>8, <1>9, <1>10, <1>11, <1>12 DEF SwappedTo

(* A step makes only one of the four moves that Switching lists, and only  *)
(* NoSwitch goes with an id that is handed out.                            *)
LEMMA SwitchingSwaps ==
  ASSUME CtxInv, BraidInv', Moves, Switching
  PROVE  \E stored : SwappedTo(stored)
<1>1. arch' = arch /\ DOMAIN mem = ContextIds
  BY DEF Switching, CtxInv, CtxTypeOK
<1>2. phase' \in {"init", "running", "returning", "done"}
  BY DEF BraidInv, TypeOK
<1>3. CASE SwitchFromStart
  <2>1. count' = count /\ phase' \in {"running", "returning"} /\ phase = "init"
    BY <1>2, <1>3 DEF SwitchFromStart, Moves
  <2> DEFINE m == [mem EXCEPT ![START] = ctxempty]
  <2>2. /\ DOMAIN m = ContextIds
        /\ \A y \in ContextIds : y # START => m[y] = mem[y]
        /\ ctxswap(START, START, Target, m)
    BY <1>1, <1>3 DEF SwitchFromStart
  <2> HIDE DEF m
  <2> QED BY <1>1, <2>1, <2>2, SwitchKeeps
<1>4. CASE SwitchFromCord
  <2>1. phase = "running" /\ phase' \in {"running", "returning"}
    BY <1>4 DEF SwitchFromCord
  <2>2. count' = count
    <3> SUFFICES ASSUME UNCHANGED <<phase, curr>>, runable' # << >> PROVE FALSE
      BY DEF Moves
    <3>1. curr \in ToSet(runable') \cup blocked' \/ runable \o runable' = << >>
      BY <1>4 DEF SwitchFromCord
    <3>2. curr \notin ToSet(runable') \cup blocked'
      BY <2>1, WhoWaits DEF CtxInv
    <3>3. runable \in Seq(Cords) /\ runable' \in Seq(Cords)
      BY DEF CtxInv, BraidInv, TypeOK
    <3> QED BY <3>1, <3>2, <3>3
  <2>3. ctxswap(curr, curr, Target, mem)
    BY <1>4 DEF SwitchFromCord
  <2>4. PICK x : x = curr
    OBVIOUS
  <2> QED BY <1>1, <2>1, <2>2, <2>3, <2>4, SwitchKeeps
<1>5. CASE SwitchForEver
  <2>1. phase = "running" /\ curr \in zombies' \cup freed'
    BY <1>5 DEF SwitchForEver
  <2>2. phase' \in {"running", "returning"}
    BY <1>2, <2>1 DEF Moves
  <2>3. count' = count
    BY <2>1, WhoWaits DEF Moves, CtxInv
  <2>4. curr \notin Switchable' \cup Running'
    BY <2>1, WhoWaits, Ids DEF Switchable, Running, CtxInv
  <2>5. ctxswap(curr, DUMMY, Target, mem)
    BY <1>5 DEF SwitchForEver
  <2>6. PICK x : x = curr
    OBVIOUS
  <2> QED BY <1>1, <2>1, <2>2, <2>3, <2>4, <2>5, <2>6, SwitchKeeps
<1>6. CASE NoSwitch
  <2>1. /\ phase' = phase \/ phase' = "done"
        /\ curr' = curr
        /\ curr \notin ToSet(runable') \cup blocked' \/ phase # "running"
        /\ mem' = Maintained(mem)
        /\ turn' = turn /\ cpu' = cpu
    BY <1>6 DEF NoSwitch
  <2>2. turn' \in [ContextIds -> 0 .. 2] /\ \A c \in Cords : c >= count => turn'[c] = 0
    BY <2>1 DEF CtxInv, CtxTypeOK
  <2>3. ASSUME NEW y \in Switchable', y = START \/ y < count
        PROVE  y \in Switchable
    <3>1. CASE y = START
      <4>1. phase' \in {"running", "returning"}
        BY <3>1, WhoWaits, Ids DEF Switchable, CtxInv
      <4> QED BY <2>1, <3>1, <4>1, Survivors
    <3>2. CASE y # START
      BY <2>1, <2>3, <3>2, Survivors DEF Switchable
    <3> QED BY <3>1, <3>2
  <2>4. ASSUME NEW y \in Switchable', y = START \/ y < count
        PROVE  IF turn'[y] # 0
               THEN \A r \in DOMAIN Saved : mem[y][Saved[r]] = Value(y, r, turn'[y])
               ELSE \A f \in EntryFields : mem[y][Fields[f]] = CreatedFields(y)[f]
    BY <2>1, <2>3, <2>4 DEF CtxInv, Holds
  <2>5. Saved' = Saved /\ Fields' = Fields /\ \A y : (CreatedFields(y))' = CreatedFields(y)
    BY <1>1 DEF Saved, Fields, CreatedFields
  <2>6. phase' = "running" => Finds(curr)'
    BY <2>1, <2>5 DEF CtxInv, ContextsKept, Finds
  <2>7. phase' = "returning" => Finds(START)'
    BY <2>1, <2>5 DEF CtxInv, ContextsKept, Finds
  <2>8. SwappedTo(mem)
    BY <2>1, <2>2, <2>4, <2>6, <2>7 DEF SwappedTo
  <2> QED BY <2>8
<1> QED BY <1>3, <1>4, <1>5, <1>6 DEF Switching

(* ctxcreate and ctxdel touch only the context that they are called for.   *)
LEMMA MaintainedKeeps ==
  ASSUME CtxInv, BraidInv', Moves, arch' = arch, NEW stored, SwappedTo(stored)
  PROVE  CtxInv'
<1>1. /\ mem' = Maintained(stored)
      /\ turn' \in [ContextIds -> 0 .. 2]
      /\ \A c \in Cords : c >= count => turn'[c] = 0
      /\ phase' = "running" => Finds(curr)'
      /\ phase' = "returning" => Finds(START)'
  BY DEF SwappedTo
<1>2. arch \in {"amd64", "aarch64"} /\ CtxTypeOK'
  BY <1>1 DEF Maintained, CtxInv, CtxTypeOK
<1>3. count \in Nat /\ count' \in {count, count + 1} /\ freed' \subseteq Cords
  BY WhoWaits DEF Moves, CtxInv, BraidInv, TypeOK
<1>4. /\ Saved' = Saved /\ Fields' = Fields /\ EntryFields' = EntryFields
      /\ \A y : (CreatedFields(y))' = CreatedFields(y)
  BY DEF Saved, Fields, CreatedFields, EntryFields
<1>5. ASSUME NEW c \in Cords, c < count', c \notin freed'
      PROVE  IF c < count THEN mem'[c] = stored[c] ELSE mem'[c] = ctxcreate(c)
  <2>1. c \in ContextIds /\ c # START /\ c \in Int
    BY Ids
  <2>2. c < count => ~(count' = c + 1 /\ count # count')
    BY <1>3, <2>1
  <2>3. ~(c < count) => count' = c + 1 /\ count # count'
    BY <1>3, <1>5, <2>1
  <2> QED BY <1>1, <1>5, <2>1, <2>2, <2>3 DEF Maintained
<1>6. START \in Switchable' => mem'[START] = stored[START]
  <2> SUFFICES ASSUME START \in Switchable' PROVE mem'[START] = stored[START]
    OBVIOUS
  <2>1. phase' # "done"
    BY WhoWaits, Ids DEF Switchable, CtxInv
  <2> QED BY <1>1, <1>3, <2>1, Ids DEF Maintained
<1>7. ASSUME NEW y \in Switchable'
      PROVE  Holds(y, mem[y])'
  <2>1. CASE y = START \/ y < count
    <3>1. mem'[y] = stored[y]
      <4>1. CASE y = START
        BY <1>6, <4>1
      <4>2. CASE y # START
        <5>1. y \in Cords /\ y < count' /\ y \notin freed'
          BY <4>2, WhoWaits DEF Switchable, CtxInv
        <5> QED BY <1>5, <2>1, <4>2, <5>1
      <4> QED BY <4>1, <4>2
    <3>2. IF turn'[y] # 0
          THEN \A r \in DOMAIN Saved : stored[y][Saved[r]] = Value(y, r, turn'[y])
          ELSE \A f \in EntryFields : stored[y][Fields[f]] = CreatedFields(y)[f]
      BY <2>1 DEF SwappedTo
    <3> QED BY <1>4, <3>1, <3>2 DEF Holds
  <2>2. CASE y # START /\ ~(y < count)
    <3>1. y \in Cords /\ y < count' /\ y \notin freed'
      BY <2>2, WhoWaits DEF Switchable, CtxInv
    <3>2. mem'[y] = ctxcreate(y) /\ turn'[y] = 0
      BY <1>1, <1>3, <1>5, <2>2, <3>1, Ids
    <3>3. \A f \in EntryFields : ctxcreate(y)[Fields[f]] = CreatedFields(y)[f]
      BY <1>2, CreatedWords DEF EntryFields
    <3> QED BY <1>4, <3>2, <3>3 DEF Holds
  <2> QED BY <2>1, <2>2
<1>8. \A c \in Cords : c >= count' => turn'[c] = 0
  BY <1>1, <1>3, Ids
<1>9. ASSUME NEW c \in Cords, c < count', c \notin freed', NEW f \in Mapping
      PROVE  mem'[c][Fields[f]] = CreatedFields(c)[f]
  <2>1. CASE c < count
    <3>1. c \notin freed
      BY <1>9 DEF Moves
    <3>2. mem[c][Fields[f]] = CreatedFields(c)[f]
      BY <2>1, <3>1 DEF CtxInv, ContextsKept, Mapping
    <3>3. stored[c][Fields[f]] = mem[c][Fields[f]]
      BY DEF SwappedTo
    <3> QED BY <1>5, <1>9, <2>1, <3>2, <3>3
  <2>2. CASE ~(c < count)
    <3>1. f \in DOMAIN Fields
      BY <1>2, SavedApart
    <3> QED BY <1>2, <1>5, <1>9, <2>2, <3>1, CreatedWords
  <2> QED BY <2>1, <2>2
<1>10. ContextsKept'
  BY <1>1, <1>4, <1>9 DEF ContextsKept, Mapping
<1> QED BY <1>2, <1>7, <1>8, <1>10 DEF CtxInv

LEMMA CtxInvInit == Init /\ CtxInit => CtxInv
<1> SUFFICES ASSUME Init, CtxInit PROVE CtxInv
  OBVIOUS
<1>1. BraidInv
  BY BraidInvInit
<1>2. CtxTypeOK
  BY ArchsAssumption DEF CtxInit, CtxTypeOK
<1>3. Switchable = {}
  BY DEF Init, Switchable, ToSet
<1>4. \A c \in Cords : turn[c] = 0
  BY Ids DEF CtxInit
<1>5. ContextsKept
  <2>1. \A c \in Cords : ~(c < count)
    BY MaxCordsAssumption DEF Init, Cords
  <2> QED BY <2>1 DEF Init, ContextsKept
<1> QED BY <1>1, <1>2, <1>3, <1>4, <1>5 DEF CtxInv

LEMMA CtxInvStep == CtxInv /\ [Next /\ Switching]_<<vars, ctxVars>> => CtxInv'
<1> SUFFICES ASSUME CtxInv, [Next /\ Switching]_<<vars, ctxVars>> PROVE CtxInv'
  OBVIOUS
<1>1. BraidInv' /\ Moves
  BY BraidInvStep, NextMoves DEF CtxInv
<1>2. CASE Next /\ Switching
  <2>1. arch' = arch
    BY <1>2 DEF Switching
  <2>2. PICK stored : SwappedTo(stored)
    BY <1>1, <1>2, SwitchingSwaps
  <2> QED BY <1>1, <2>1, <2>2, MaintainedKeeps
<1>3. CASE UNCHANGED <<vars, ctxVars>>
  BY <1>1, <1>3 DEF vars, ctxVars, CtxInv, CtxTypeOK, Switchable, Holds, ContextsKept, Finds,
                    EntryFields, Mapping, Fields, Saved, CreatedFields
<1> QED BY <1>2, <1>3

-----------------------------------------------------------------------------
(* Whoever can be switched to is in its context, in every behaviour of any *)
(* program on either architecture (ctxswap, ctxcreate, ctxdel).            *)
THEOREM ContextsInvariant == CtxSpec => []CtxInv
<1> QED BY CtxInvInit, CtxInvStep, PTL DEF CtxSpec

(* A cord, and braidstart, find their registers as they left them, a new   *)
(* cord finds what ctxcreate was given, and ctxdel the mapping it unmaps.  *)
THEOREM ContextsAlwaysKept == CtxSpec => []ContextsKept
<1>1. CtxInv => ContextsKept
  BY DEF CtxInv
<1> QED BY <1>1, ContextsInvariant, PTL
-----------------------------------------------------------------------------
(* A call of cktimeout: its steps move the cords as those of any program   *)
(* do, though some wake several cords at once, so that its contexts are    *)
(* kept as well.                                                           *)
LEMMA TNextMoves ==
  ASSUME TInv, [TNext]_all
  PROVE  Moves
<1>1. ASSUME [Next]_vars PROVE Moves
  BY <1>1, NextMoves DEF TInv
<1>2. ASSUME FdWait \/ VisorWakes PROVE Moves
  <2>1. PICK q, blk : Schedule(q, blk, zombies, freed)
    BY <1>2 DEF FdWait, VisorWakes
  <2>2. freed \subseteq freed' /\ zombies \subseteq zombies' \cup freed'
    BY <2>1 DEF Schedule, SwitchTo, ReturnToStart
  <2>3. phase' \in {"running", "returning"}
    BY <2>1, ScheduleLists
  <2>4. phase = "running" /\ count' = count
    BY <1>2 DEF FdWait, VisorWakes, InCord, InVisor
  <2> QED BY <2>2, <2>3, <2>4 DEF Moves
<1>3. ASSUME CloseFrees PROVE Moves
  BY <1>3 DEF CloseFrees, Moves
<1>4. CASE AddWork \/ AddWait
  BY <1>1, <1>4 DEF AddWork, AddWait, Next, Flags
<1>5. CASE Receive \/ Received
  BY <1>1, <1>5 DEF Receive, Received, RecvWaits, RecvReturns, Next
<1>6. CASE HaltWait \/ HaltWork
  BY <1>1, <1>6, TFacts DEF HaltWait, HaltWork, HaltIfFound, Next
<1>7. CASE CloseAfterWork \/ CloseAfterWait
  BY <1>1, <1>3, <1>7 DEF CloseAfterWork, CloseAfterWait, Close, CloseKeepsSenders
<1>8. CASE Working \/ Sleep
  BY <1>1, <1>2, <1>8 DEF Working, Sleep, Next
<1>9. CASE Send
  <2>1. PICK d \in Data : SendHandsOver(d) \/ SendWaits(d)
    BY <1>9 DEF Send
  <2>2. CASE SendHandsOver(d)
    <3>1. PICK k \in DOMAIN queue : Unblock(queue[k], 1)
      BY <2>2 DEF SendHandsOver
    <3>2. queue[k] \in Cords
      BY <3>1 DEF Unblock, TInv, BraidInv, TypeOK
    <3> QED BY <1>1, <3>1, <3>2, ChannelAssumption DEF Next
  <2>3. CASE SendWaits(d)
    BY <1>1, <2>3 DEF SendWaits, Next
  <2> QED BY <2>1, <2>2, <2>3
<1>10. CASE Leave \/ TReturn
  BY <1>1, <1>10 DEF Leave, TReturn, VReturn, Next
<1>11. CASE Around
  BY <1>1, <1>2, <1>11 DEF Around, SetUp, AddVisor, AddCord, VStart, VisorSteps, VisorStarts,
                           VisorSleeps, VisorFindsNothing, VisorYieldsAgain, Next, Flags
<1>12. CASE Unmap \/ TimerExpires \/ InputArrives \/ Ended \/ UNCHANGED all
  BY <1>1, <1>12 DEF Unmap, TimerExpires, InputArrives, DescriptorReady, Ended, all
<1>13. CASE CallerHalted
  BY <1>1, <1>13, TFacts DEF CallerHalted, Next
<1> QED BY <1>4, <1>5, <1>6, <1>7, <1>8, <1>9, <1>10, <1>11, <1>12, <1>13 DEF TNext, Progress

LEMMA TCInvStep ==
  TInv /\ CtxInv /\ [TCNext]_everything => TInv' /\ CtxInv'
<1> SUFFICES ASSUME TInv, CtxInv, [TCNext]_everything PROVE TInv' /\ CtxInv'
  OBVIOUS
<1>1. [TNext]_all
  BY DEF TCNext, everything
<1>2. TInv'
  BY <1>1, TInvStep
<1>3. BraidInv' /\ Moves
  BY <1>1, <1>2, TNextMoves DEF TInv
<1>4. CASE TCNext
  <2>1. arch' = arch /\ Switching
    BY <1>4 DEF TCNext, Switching
  <2>2. PICK stored : SwappedTo(stored)
    BY <1>3, <2>1, SwitchingSwaps
  <2>3. CtxInv'
    BY <1>3, <2>1, <2>2, MaintainedKeeps
  <2> QED BY <1>2, <2>3
<1>5. CASE UNCHANGED everything
  <2>1. UNCHANGED <<vars, ctxVars>>
    BY <1>5 DEF everything, all
  <2>2. CtxInv'
    BY <2>1, CtxInvStep
  <2> QED BY <1>2, <2>2
<1> QED BY <1>4, <1>5

(* During a call of cktimeout every cord, and braidstart, find their       *)
(* registers as they left them, also when chclose, poll_append or the      *)
(* visor wakes several cords in one step; and the properties of the call   *)
(* hold of the system with contexts.                                       *)
THEOREM CallKeepsContexts == TCSpec => [](ContextsKept /\ ZeroOnlyIfCut /\ CutBeforeFree)
<1>1. TCInit => TInv /\ CtxInv
  <2>1. TInit => Init
    BY DEF TInit, VInit
  <2> QED BY <2>1, TInvInit, CtxInvInit DEF TCInit
<1>2. TInv /\ CtxInv => ContextsKept
  BY DEF CtxInv
<1>3. TCSpec => TSpec
  <2>1. TCInit => TInit
    BY DEF TCInit
  <2>2. [TCNext]_everything => [TNext]_all
    BY DEF TCNext, everything
  <2> QED BY <2>1, <2>2, PTL DEF TCSpec, TSpec
<1>4. TCSpec => [](TInv /\ CtxInv)
  BY <1>1, TCInvStep, PTL DEF TCSpec
<1> QED BY <1>2, <1>3, <1>4, ZeroAlwaysIfCut, AlwaysCutBeforeFree, PTL
=============================================================================
