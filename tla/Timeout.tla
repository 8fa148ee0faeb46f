------------------------------- MODULE Timeout -------------------------------
(***************************************************************************)
(* cktimeout (src/src/io/ck.c): run a function, but not longer than a      *)
(* given time.  The caller adds two cords, one that runs the function and  *)
(* sends what it returns, one that sleeps and then halts the first, and    *)
(* receives from the channel that the three share.                         *)
(*                                                                         *)
(* One call by one cord is modelled, with the scheduler, the channel and   *)
(* the visor as in their modules.  The function waits for a descriptor or  *)
(* yields any number of times and then returns, or never does.  The caller *)
(* may be halted while it waits, as happens when it is itself the work     *)
(* cord of another cktimeout that expires.                                 *)
(***************************************************************************)
EXTENDS Channel, Visor

M == 1  \* the caller of cktimeout
W == 2  \* the cord "timeout (work)"
T == 3  \* the cord "timeout (wait)"

ASSUME TimeoutAssumption == MaxCords = 4

VARIABLES
  pc,       \* where M, W and T are
  mapped,   \* bound_f, the code W calls, is mapped
  dangling  \* chclose or chsend was called with a channel that had been freed

all == <<vars, chVars, ioVars, pc, mapped, dangling>>

TInit ==
  /\ ChInit
  /\ VInit
  /\ pc = [c \in {M, W, T} |->
             CASE c = M -> "addWork" [] c = W -> "call" [] c = T -> "sleep"]
  /\ mapped = TRUE
  /\ dangling = FALSE

At(c, l) == InCord /\ ~dangling /\ curr = c /\ pc[c] = l
Goto(c, l) == pc' = [pc EXCEPT ![c] = l]

(* cordhalt(b, c) *)
HaltIfFound(c) ==
  \/ Halt(c)
  \/ c \notin ToSet(runable) \cup blocked /\ UNCHANGED vars

(* chclose(b, ch) *)
Close ==
  \/ (CloseKeepsSenders \/ CloseFrees) /\ UNCHANGED dangling
  \/ chfreed /\ dangling' = TRUE /\ UNCHANGED <<vars, chVars>>

-----------------------------------------------------------------------------
(* ckntimeoutv, by M. *)
AddWork ==
  /\ At(M, "addWork")
  /\ Add("normal")
  /\ Goto(M, "addWait")
  /\ UNCHANGED <<chVars, ioVars, mapped, dangling>>

AddWait ==
  /\ At(M, "addWait")
  /\ Add("normal")
  /\ Goto(M, "receive")
  /\ UNCHANGED <<chVars, ioVars, mapped, dangling>>

Receive ==
  /\ At(M, "receive")
  /\ RecvWaits
  /\ Goto(M, "received")
  /\ UNCHANGED <<ioVars, mapped, dangling>>

Received ==
  /\ At(M, "received")
  /\ RecvReturns
  /\ Goto(M, IF val[M] # 0 THEN "halt" ELSE "unmap")
  /\ UNCHANGED <<ioVars, mapped, dangling>>

HaltWait ==
  /\ At(M, "halt")
  /\ HaltIfFound(T)
  /\ Goto(M, "close")
  /\ UNCHANGED <<chVars, ioVars, mapped, dangling>>

CloseAfterWork ==
  /\ At(M, "close")
  /\ Close
  /\ Goto(M, "unmap")
  /\ UNCHANGED <<ioVars, mapped>>

Unmap ==
  /\ At(M, "unmap")
  /\ mapped' = FALSE
  /\ Goto(M, "returned")
  /\ UNCHANGED <<vars, chVars, ioVars, dangling>>

(* work, by W: inside f, and the chsend of what f returns.  It never finds *)
(* the channel closed or gone, see CutBeforeFree.                          *)
Working ==
  /\ At(W, "call")
  /\ FdWait \/ (Yield /\ UNCHANGED ioVars)
  /\ UNCHANGED <<chVars, pc, mapped, dangling>>

Send ==
  /\ At(W, "call")
  /\ \E d \in Data : SendHandsOver(d) \/ SendWaits(d)
  /\ Goto(W, "exit")
  /\ UNCHANGED <<ioVars, mapped, dangling>>

(* wait, by T. *)
Sleep ==
  /\ At(T, "sleep")
  /\ FdWait
  /\ Goto(T, "halt")
  /\ UNCHANGED <<chVars, mapped, dangling>>

(* Mutant: wait forgets cordhalt. *)
HaltNobody ==
  /\ At(T, "halt")
  /\ Goto(T, "close")
  /\ UNCHANGED <<vars, chVars, ioVars, mapped, dangling>>

HaltWork ==
  /\ At(T, "halt")
  /\ HaltIfFound(W)
  /\ Goto(T, "close")
  /\ UNCHANGED <<chVars, ioVars, mapped, dangling>>

(* Mutant: wait forgets chclose. *)
CloseNothing ==
  /\ At(T, "close")
  /\ Goto(T, "exit")
  /\ UNCHANGED <<vars, chVars, ioVars, mapped, dangling>>

CloseAfterWait ==
  /\ At(T, "close")
  /\ Close
  /\ Goto(T, "exit")
  /\ UNCHANGED <<ioVars, mapped>>

Leave ==
  /\ At(M, "returned") \/ At(W, "exit") \/ At(T, "exit")
  /\ Exit
  /\ UNCHANGED <<chVars, ioVars, pc, mapped, dangling>>

-----------------------------------------------------------------------------
(* main() adds the visor and M; the visor and the kernel do their part.    *)
SetUp ==
  \/ AddVisor /\ count = 0
  \/ AddCord /\ phase = "init" /\ count = M
  \/ VStart /\ count = M + 1

VisorSteps ==
  VisorStarts \/ VisorSleeps \/ VisorWakes \/ VisorFindsNothing \/ VisorYieldsAgain

Around ==
  /\ ~dangling
  /\ SetUp \/ VisorSteps
  /\ UNCHANGED <<chVars, pc, mapped, dangling>>

TReturn == VReturn /\ ChReturn /\ UNCHANGED <<pc, mapped, dangling>>

(* The timer of T expires. *)
TimerExpires ==
  /\ ~dangling
  /\ DescriptorReady
  /\ <<T, 1>> \in ready' \ ready
  /\ UNCHANGED <<chVars, pc, mapped, dangling>>

InputArrives ==
  /\ ~dangling
  /\ DescriptorReady
  /\ <<W, 1>> \in ready' \ ready
  /\ UNCHANGED <<chVars, pc, mapped, dangling>>

(* Another cord halts M; it runs between two steps of the visor. *)
CallerHalted ==
  /\ ~dangling
  /\ phase = "running" /\ curr = visor
  /\ pc[M] = "received"
  /\ Halt(M)
  /\ UNCHANGED <<chVars, ioVars, pc, mapped, dangling>>

Ended == (phase = "done" \/ dangling) /\ UNCHANGED all

(* Every step but the arrival of input, which may never come. *)
Progress ==
  \/ AddWork \/ AddWait \/ Receive \/ Received \/ HaltWait \/ CloseAfterWork \/ Unmap
  \/ Working \/ Send
  \/ Sleep \/ HaltWork \/ CloseAfterWait
  \/ Leave \/ Around \/ TReturn

TNext == Progress \/ TimerExpires \/ InputArrives \/ CallerHalted \/ Ended

TSpec == TInit /\ [][TNext]_all

(* Cords are cooperative, the visor and poll return, and timers expire.    *)
TFairSpec == TSpec /\ WF_all(Progress) /\ WF_all(TimerExpires)

-----------------------------------------------------------------------------
(* cktimeout returns the value of the function if the function returned,   *)
(* and 0 only if it was cut short: no result is lost to a timer that       *)
(* expires at the same time.                                               *)
ZeroOnlyIfCut ==
  pc[M] \in {"unmap", "returned"} => (got = << >> <=> pc[W] = "call")

(* The function is cut short before its code is unmapped and before the    *)
(* channel it reports to is closed or freed.                               *)
CutBeforeFree ==
  closed \/ chfreed \/ ~mapped => pc[W] = "exit" \/ W \in Dead

(* cktimeout returns when the timer expires, also if the function never    *)
(* does, unless the caller is halted or the channel is closed twice before *)
(* (see ClosedOnce).                                                       *)
TimeoutReturns ==
  pc[M] = "received" /\ M \notin Dead ~> pc[M] = "returned" \/ M \in zombies \/ dangling

(* Neither of the two cords outlives the call, or its caller, for ever.    *)
HelpersDie == pc[M] = "returned" \/ M \in Dead ~> {W, T} \subseteq Dead

(* README:252, of cktimeout: it "returns the value returned by f, or if    *)
(* the timer expires, 0".  Between them the caller and the timer should    *)
(* close the channel once.                                                 *)
ClosedOnce == ~dangling
=============================================================================
