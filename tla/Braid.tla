------------------------------- MODULE Braid -------------------------------
(***************************************************************************)
(* The cooperative scheduler of libbraid (src/src/braid.c).                *)
(*                                                                         *)
(* A braid owns a run queue of cords, a table of blocked cords and a list  *)
(* of zombies: cords that will not run again and whose memory is released  *)
(* by the next cord that wakes up inside schedule().  Exactly one cord     *)
(* executes at a time; it keeps the processor until it calls braidyield,   *)
(* braidblock, braidexit or braidstop.  One step of this specification is  *)
(* one call of the API by the running cord (or by main(), before           *)
(* braidstart), including the context switch it makes and the reaping the  *)
(* resumed cord does before it returns from schedule().                    *)
(*                                                                         *)
(* A cord is identified with its cord_t.  The program that the cords run   *)
(* is arbitrary: it may make any call, in any order.                       *)
(***************************************************************************)
EXTENDS Integers, SequencesExt

CONSTANTS
  MaxCords,  \* bound on the number of cords ever added; count is 64 bits wide
  Vals,      \* the values that travel from braidunblock to braidblock
  NULL       \* b->curr before the first context switch

ASSUME MaxCordsAssumption == MaxCords \in Nat \ {0}
ASSUME ValsAssumption == 0 \in Vals
ASSUME NullAssumption == NULL \notin Nat

Cords == 0 .. MaxCords - 1
Flags == {"normal", "system"}

VARIABLES
  phase,     \* "init" before braidstart, "running" while a cord executes,
             \* "returning" when braidstart cleans up, "done" after it
  curr,      \* b->curr, the cord that executes
  runable,   \* b->runable, in the order of insertion
  blocked,   \* b->blocked
  zombies,   \* b->zombies
  freed,     \* cords that corddel has released
  started,   \* cords whose saved context lies inside schedule(): they resume there
  flags,     \* c->flags
  val,       \* c->val, what braidblock will return
  count      \* b->count

vars == <<phase, curr, runable, blocked, zombies, freed, started, flags, val, count>>

Init ==
  /\ phase = "init"
  /\ curr = NULL
  /\ runable = << >>
  /\ blocked = {}
  /\ zombies = {}
  /\ freed = {}
  /\ started = {}
  /\ flags = [c \in Cords |-> "normal"]
  /\ val = [c \in Cords |-> 0]
  /\ count = 0

-----------------------------------------------------------------------------
(* braidcnt(b) > 0 for the run queue q. *)
HasNormal(q) == \E c \in ToSet(q) : flags[c] = "normal"

(* The test of schedule(): is there a cord to switch to? *)
KeepsRunning(q, blk) == (HasNormal(q) \/ blk # {}) /\ q # << >>

(* Mutant: the resumed cord does not reap. *)
SwitchToUnreaped(c, rest, blk, zom, fre) ==
  /\ phase' = "running"
  /\ curr' = c
  /\ runable' = rest
  /\ blocked' = blk
  /\ started' = started \cup {c}
  /\ zombies' = zom
  /\ freed' = fre

(* Switch to the head of the run queue.  A cord that runs for the first    *)
(* time starts at its entry point; any other returns from ctxswap inside   *)
(* schedule() and reaps the zombies first.                                 *)
SwitchTo(c, rest, blk, zom, fre) ==
  /\ phase' = "running"
  /\ curr' = c
  /\ runable' = rest
  /\ blocked' = blk
  /\ started' = started \cup {c}
  /\ zombies' = IF c \in started THEN {} ELSE zom
  /\ freed' = IF c \in started THEN fre \cup zom ELSE fre

(* Switch to b->start: braidstart goes on after its schedule() call.       *)
ReturnToStart(q, blk, zom, fre) ==
  /\ phase' = "returning"
  /\ runable' = q
  /\ blocked' = blk
  /\ zombies' = zom
  /\ freed' = fre
  /\ UNCHANGED <<curr, started>>

(* schedule(), called with the lists the caller has prepared. *)
Schedule(q, blk, zom, fre) ==
  \/ KeepsRunning(q, blk) /\ SwitchTo(Head(q), Tail(q), blk, zom, fre)
  \/ ~KeepsRunning(q, blk) /\ ReturnToStart(q, blk, zom, fre)

(* The id of the next cord: skip the ids in the run queue from count on. *)
NextId ==
  CHOOSE k \in count .. count + Len(runable) :
    /\ k \notin ToSet(runable)
    /\ \A j \in count .. k - 1 : j \in ToSet(runable)

-----------------------------------------------------------------------------
(* Somebody can call the API: main() before braidstart, or a cord.         *)
Usable == phase \in {"init", "running"}

(* braidadd / braidvadd, by main() or by the running cord. *)
Add(fl) ==
  /\ Usable
  /\ NextId \in Cords
  /\ runable' = Append(runable, NextId)
  /\ flags' = [flags EXCEPT ![NextId] = fl]
  /\ count' = NextId + 1
  /\ UNCHANGED <<phase, curr, blocked, zombies, freed, started, val>>

(* braidstart, called by main() once. *)
Start ==
  /\ phase = "init"
  /\ Schedule(runable, blocked, zombies, freed)
  /\ UNCHANGED <<flags, val, count>>

Yield ==
  /\ phase = "running"
  /\ Schedule(Append(runable, curr), blocked, zombies, freed)
  /\ UNCHANGED <<flags, val, count>>

Block ==
  /\ phase = "running"
  /\ Schedule(runable, blocked \cup {curr}, zombies, freed)
  /\ UNCHANGED <<flags, val, count>>

(* Mutants of braidunblock: it inserts at the head of the run queue; it    *)
(* also finds, and gives a new value to, a runnable cord.                  *)
UnblockFirst(c, v) ==
  /\ Usable
  /\ c \in blocked
  /\ blocked' = blocked \ {c}
  /\ val' = [val EXCEPT ![c] = v]
  /\ runable' = <<c>> \o runable
  /\ UNCHANGED <<phase, curr, zombies, freed, started, flags, count>>

UnblockAnywhere(c, v) ==
  /\ Usable
  /\ c \in blocked \cup ToSet(runable)
  /\ blocked' = blocked \ {c}
  /\ val' = [val EXCEPT ![c] = v]
  /\ runable' = IF c \in blocked THEN Append(runable, c) ELSE runable
  /\ UNCHANGED <<phase, curr, zombies, freed, started, flags, count>>

(* braidunblock(b, c, v) when it finds c; otherwise it returns -1 and      *)
(* changes nothing.                                                        *)
Unblock(c, v) ==
  /\ Usable
  /\ c \in blocked
  /\ blocked' = blocked \ {c}
  /\ val' = [val EXCEPT ![c] = v]
  /\ runable' = Append(runable, c)
  /\ UNCHANGED <<phase, curr, zombies, freed, started, flags, count>>

(* The elements of s that are in S, in their order. *)
Filter(s, S) ==
  LET f[i \in 0 .. Len(s)] == IF i = 0 THEN << >>
                              ELSE IF s[i] \in S THEN Append(f[i - 1], s[i])
                              ELSE f[i - 1]
  IN f[Len(s)]

(* A row of braidunblock calls for the cords of s: those it finds blocked  *)
(* join the run queue, in that order; for the others it returns -1.        *)
Woken(s) == Filter(s, blocked)

Exit ==
  /\ phase = "running"
  /\ Schedule(runable, blocked, zombies \cup {curr}, freed)
  /\ UNCHANGED <<flags, val, count>>

(* braidstop: the runnable cords are released at once, the caller becomes  *)
(* a zombie, and schedule() has nothing left to run.                       *)
Stop ==
  /\ phase = "running"
  /\ Schedule(<< >>, blocked, zombies \cup {curr}, freed \cup ToSet(runable))
  /\ UNCHANGED <<flags, val, count>>

(* Mutant: cordhalt forgets to take the cord out of the run queue. *)
HaltKeepsRunable(c) ==
  /\ c \in ToSet(runable)
  /\ zombies' = zombies \cup {c}
  /\ UNCHANGED <<runable, blocked>>

HaltRunable(c) ==
  \E i \in DOMAIN runable :
    /\ runable[i] = c
    /\ runable' = RemoveAt(runable, i)
    /\ zombies' = zombies \cup {c}
    /\ UNCHANGED blocked

HaltBlocked(c) ==
  /\ c \notin ToSet(runable)
  /\ c \in blocked
  /\ blocked' = blocked \ {c}
  /\ zombies' = zombies \cup {c}
  /\ UNCHANGED runable

(* cordhalt(b, c) when it finds c among the runnable or the blocked cords; *)
(* otherwise it changes nothing.                                           *)
Halt(c) ==
  /\ Usable
  /\ HaltRunable(c) \/ HaltBlocked(c)
  /\ UNCHANGED <<phase, curr, freed, started, flags, val, count>>

(* The tail of braidstart: it reaps the zombies and releases every cord    *)
(* that is left, and the braid with them.                                  *)
Return ==
  /\ phase = "returning"
  /\ phase' = "done"
  /\ runable' = << >>
  /\ blocked' = {}
  /\ zombies' = {}
  /\ freed' = freed \cup zombies \cup ToSet(runable) \cup blocked
  /\ UNCHANGED <<curr, started, flags, val, count>>

(* braidstart has returned. *)
Terminated == phase = "done" /\ UNCHANGED vars

-----------------------------------------------------------------------------
(* The calls that give up the processor. *)
Release == Yield \/ Block \/ Exit \/ Stop

Next ==
  \/ \E fl \in Flags : Add(fl)
  \/ Start
  \/ Yield
  \/ Block
  \/ Exit
  \/ Stop
  \/ \E c \in Cords, v \in Vals : Unblock(c, v)
  \/ \E c \in Cords : Halt(c)
  \/ Return
  \/ Terminated

Spec == Init /\ [][Next]_vars

(* Cords are cooperative: the running cord gives up the processor sooner   *)
(* or later.  Nothing else is assumed, but that main() calls braidstart    *)
(* and that braidstart, once resumed, cleans up.                           *)
FairSpec == Spec /\ WF_vars(Start \/ Release \/ Return)

-----------------------------------------------------------------------------
Running == IF phase = "running" THEN {curr} ELSE {}

TypeOK ==
  /\ phase \in {"init", "running", "returning", "done"}
  /\ curr \in Cords \cup {NULL}
  /\ runable \in Seq(Cords)
  /\ blocked \subseteq Cords
  /\ zombies \subseteq Cords
  /\ freed \subseteq Cords
  /\ started \subseteq Cords
  /\ flags \in [Cords -> Flags]
  /\ val \in [Cords -> Vals]
  /\ count \in 0 .. MaxCords

(* Every cord that was added is in exactly one place: it executes, waits   *)
(* once in the run queue, is blocked, is a zombie, or has been released.   *)
(* A cord is never lost, never scheduled twice, never released while it    *)
(* can still run, and never released twice; and ids are never reused.      *)
Accounted ==
  /\ IsInjective(runable)
  /\ Running \cup ToSet(runable) \cup blocked \cup zombies \cup freed = 0 .. count - 1
  /\ Running \cap (ToSet(runable) \cup blocked \cup zombies \cup freed) = {}
  /\ ToSet(runable) \cap (blocked \cup zombies \cup freed) = {}
  /\ blocked \cap (zombies \cup freed) = {}
  /\ zombies \cap freed = {}

(* When braidstart returns, every cord has been released. *)
NothingLeaks == phase = "done" => freed = 0 .. count - 1

(* A cord that waits in the run queue is never pushed back, and advances   *)
(* whenever the processor changes hands: the one at position i runs after  *)
(* at most i switches (braidappend at the tail, braidpop at the head).     *)
QueueAdvances ==
  [][\A i \in DOMAIN runable :
       runable[i] \in ToSet(runable') =>
         \E j \in 1 .. i : /\ runable'[j] = runable[i]
                           /\ curr' # curr => j < i]_vars

(* A cord that was halted, exited or was released never executes again and *)
(* never comes back to a list (cordhalt, braidexit, braidstop).            *)
DeathIsFinal ==
  [][\A c \in zombies \cup freed :
       /\ c \in zombies' \cup freed'
       /\ phase' = "running" => curr' # c]_vars

(* The value a blocked cord will get is fixed by the braidunblock that     *)
(* wakes it; a second waker that comes before the cord has run cannot      *)
(* change it.                                                              *)
FirstWakeWins ==
  [][\A c \in Cords : val'[c] # val[c] => c \in blocked /\ c \in ToSet(runable')]_vars

(* The scheduler gives up and returns to braidstart only when no normal    *)
(* cord is left in the run queue (braidstop empties the queue first).      *)
ShutdownJustified == phase = "returning" => ~HasNormal(runable)

(* A cord in the run queue runs, unless it is halted or the braid stops. *)
RunsEventually ==
  \A c \in Cords : c \in ToSet(runable) ~> (curr = c \/ c \in zombies \cup freed)

(* The memory of a dead cord is released as soon as a cord that has run    *)
(* before gets the processor back: while such a cord waits in the run      *)
(* queue, no zombie stays for ever.                                        *)
ReapedEventually ==
  \A c, d \in Cords :
    (c \in zombies /\ d \in started /\ d \in ToSet(runable))
      ~> (c \in freed \/ d \in zombies)
=============================================================================
