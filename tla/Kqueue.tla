-------------------------------- MODULE Kqueue --------------------------------
(***************************************************************************)
(* Non-blocking I/O and sleeping with the kqueue back end of libbraid      *)
(* (src/src/io/kqueue).  fdwait and cknsleep append a change to the list   *)
(* of the visor and block the caller.  Every call of kevent by the visor   *)
(* hands the whole list to the kernel again, one-shot, and the events that *)
(* come back name the cords to take off the list and to unblock.           *)
(*                                                                         *)
(* kqueue(2) keeps one knote for each descriptor: when two cords wait for  *)
(* the same one, the later change overwrites the udata of the earlier.     *)
(* Registering a timer that exists starts it anew and discards its expiry. *)
(*                                                                         *)
(* Cords call fdread on shared descriptors, cknsleep, braidyield,          *)
(* braidexit and cordhalt in any order; they do not halt the visor, and    *)
(* only the visor wakes them.  The timer of a cord is identified with it,  *)
(* and the value of braidunblock, which fdwait and cknsleep ignore, is     *)
(* left out.                                                               *)
(***************************************************************************)
EXTENDS Braid

CONSTANTS
  Fds,      \* descriptors
  FirstCap  \* capacity of the list when it is first allocated (4 in the code)

ASSUME KqueueAssumption ==
  FirstCap \in Nat \ {0} /\ Fds \cap Cords = {} /\ NULL \notin Fds

Idents == Fds \cup Cords

VARIABLES
  visor,      \* the cord that runs iovisor, NULL before it is added
  vpc,        \* where the visor is: "start", "top" of its loop, "waiting" in kevent
  owner,      \* ctx->cord: 0 until the visor has run
  kevs,       \* ctx->kevs up to ctx->cnt: udata and ident of each change
  cap,        \* ctx->cap
  home,       \* the cord whose arena holds ctx->kevs
  isBlocked,  \* ctx->is_blocked
  failed,     \* kev_append could not allocate and has ended the process
  knote,      \* the kernel's knotes: ident to udata, NULL if there is none
  ready,      \* descriptors that can be read
  elapsed,    \* timers that have expired since they were registered
  toRead      \* what a cord that fdwait returns to is about to read(2)

listVars == <<kevs, cap, home, isBlocked, failed>>
kernelVars == <<knote, ready, elapsed, toRead>>
kVars == <<visor, vpc, owner, listVars, kernelVars>>
allVars == <<vars, kVars>>

KInit ==
  /\ Init
  /\ visor = NULL
  /\ vpc = "start"
  /\ owner = 0
  /\ kevs = << >>
  /\ cap = 0
  /\ home = NULL
  /\ isBlocked = FALSE
  /\ failed = FALSE
  /\ knote = [i \in Idents |-> NULL]
  /\ ready = {}
  /\ elapsed = {}
  /\ toRead = [c \in Cords |-> NULL]

-----------------------------------------------------------------------------
(* The process has not ended and ctx->kevs is still there. *)
Alive == ~failed /\ home \notin freed

InCord == phase = "running" /\ curr # visor /\ Alive

(* The running cord is not about to read.                                  *)
Free == InCord /\ toRead[curr] = NULL

AddVisor ==
  /\ phase = "init"
  /\ visor = NULL
  /\ Add("system")
  /\ visor' = NextId
  /\ UNCHANGED <<vpc, owner, listVars, kernelVars>>

AddCord ==
  /\ phase = "init" \/ Free
  /\ visor = NULL => count + 1 < MaxCords  \* an id is left for it
  /\ Add("normal")
  /\ UNCHANGED kVars

KStart == visor # NULL /\ Start /\ UNCHANGED kVars

-----------------------------------------------------------------------------
(* kev_append grows the list in the arena of the cord ctx->cord.           *)
MustGrow == Len(kevs) + 1 > cap

CanGrow == owner \in ToSet(runable) \cup blocked

(* Mutant: kev_append does not wake the visor. *)
WakesNobody == << >>

(* kev_append wakes the visor if it sleeps. *)
Wakes == IF isBlocked THEN Woken(<<owner>>) ELSE << >>

(* kev_append and braidblock: fdwait for a descriptor, cknsleep for the    *)
(* caller's own timer.                                                     *)
Await(i) ==
  /\ Free
  /\ MustGrow => CanGrow
  /\ Schedule(runable \o Wakes, (blocked \ ToSet(Wakes)) \cup {curr}, zombies, freed)
  /\ kevs' = Append(kevs, [udata |-> curr, ident |-> i])
  /\ cap' = IF MustGrow THEN (IF cap = 0 THEN FirstCap ELSE cap * 2) ELSE cap
  /\ home' = IF MustGrow THEN owner ELSE home
  /\ isBlocked' = FALSE
  /\ UNCHANGED <<flags, val, count, visor, vpc, owner, failed, kernelVars>>

FdWait == \E f \in Fds : Await(f)
Sleep == Await(curr)

(* kev_append: err(EX_OSERR, "kev_append: realloc"). *)
AwaitFails ==
  /\ Free
  /\ MustGrow /\ ~CanGrow
  /\ failed' = TRUE
  /\ UNCHANGED <<vars, visor, vpc, owner, kevs, cap, home, isBlocked, kernelVars>>

(* fdread goes on after fdwait with read(2), which takes some or all of    *)
(* the input.                                                              *)
Read ==
  /\ InCord
  /\ toRead[curr] # NULL
  /\ \/ UNCHANGED ready
     \/ ready' = ready \ {toRead[curr]}
  /\ toRead' = [toRead EXCEPT ![curr] = NULL]
  /\ UNCHANGED <<vars, visor, vpc, owner, listVars, knote, elapsed>>

KOthers ==
  /\ Free
  /\ Yield \/ Exit \/ \E c \in Cords \ {visor} : Halt(c)
  /\ UNCHANGED kVars

-----------------------------------------------------------------------------
InVisor == phase = "running" /\ curr = visor /\ Alive

VisorStarts ==
  /\ InVisor /\ vpc = "start"
  /\ owner' = curr
  /\ vpc' = "top"
  /\ UNCHANGED <<vars, visor, listVars, kernelVars>>

(* The list is empty: sleep until somebody appends to it. *)
VisorSleeps ==
  /\ InVisor /\ vpc = "top"
  /\ kevs = << >>
  /\ isBlocked' = TRUE
  /\ Block
  /\ UNCHANGED <<visor, vpc, owner, kevs, cap, home, failed, kernelVars>>

(* The knotes after the changes have been applied, in order. *)
Registered ==
  [i \in Idents |->
     LET of == {j \in DOMAIN kevs : kevs[j].ident = i}
     IN  IF of = {} THEN knote[i] ELSE kevs[Max(of)].udata]

(* Mutants: kev_remove takes the last of the list; it is forgotten. *)
RemovesLast(list, c) == Front(list)
RemovesNothing(list, c) == list

(* kev_remove: the first entry of cord c leaves the list. *)
kev_remove(list, c) ==
  LET of == {j \in DOMAIN list : list[j].udata = c}
  IN  IF of = {} THEN list ELSE RemoveAt(list, Min(of))

(* A row of kev_remove calls for the cords of s. *)
Without(s) ==
  LET f[i \in 0 .. Len(s)] == IF i = 0 THEN kevs ELSE kev_remove(f[i - 1], s[i])
  IN  f[Len(s)]

(* Mutant: an event of a descriptor is taken for all who wait for it. *)
AllWaiters(events, kn) == {kevs[j].udata : j \in {h \in DOMAIN kevs : kevs[h].ident \in events}}

(* The cords that the events name. *)
Named(events, kn) == {kn[i] : i \in events}

(* kevent returns the events, in any order, and deletes their knotes; the  *)
(* visor takes each cord off the list and unblocks it (one that was halted *)
(* is not found), and yields.                                              *)
Deliver(events, kn) ==
  /\ \E s \in SetToSeqs(Named(events, kn)) :
       /\ Schedule(Append(runable \o Woken(s), curr), blocked \ ToSet(s), zombies, freed)
       /\ kevs' = Without(s)
  /\ toRead' = [c \in Cords |->
                  IF c \in Named(events, kn) \cap blocked /\ \E f \in events \cap Fds :
                       [udata |-> c, ident |-> f] \in ToSet(kevs)
                    THEN CHOOSE f \in events : [udata |-> c, ident |-> f] \in ToSet(kevs)
                    ELSE toRead[c]]
  /\ knote' = [i \in Idents |-> IF i \in events THEN NULL ELSE kn[i]]
  /\ UNCHANGED <<flags, val, count, visor, owner, cap, home, isBlocked, failed, ready>>

(* The timeout of kevent is zero when other cords can run. *)
Immediate == runable # << >>

(* kevent with a zero timeout: the timers start anew, so that only the     *)
(* shortest can have expired when it returns.                              *)
VisorPolls ==
  /\ InVisor /\ vpc = "top"
  /\ kevs # << >>
  /\ Immediate
  /\ \E short \in SUBSET {c \in Cords : Registered[c] # NULL} :
       Deliver({f \in ready : Registered[f] # NULL} \cup short, Registered)
  /\ elapsed' = {}
  /\ UNCHANGED vpc

(* kevent without a timeout: the changes are applied, the timers start     *)
(* anew, and the visor stays in the call ...                               *)
VisorWaits ==
  /\ InVisor /\ vpc = "top"
  /\ kevs # << >>
  /\ ~Immediate
  /\ vpc' = "waiting"
  /\ knote' = Registered
  /\ elapsed' = {}
  /\ UNCHANGED <<vars, visor, owner, listVars, ready, toRead>>

Active == {f \in ready : knote[f] # NULL} \cup elapsed

(* ... until there is an event, *)
VisorReturns ==
  /\ InVisor /\ vpc = "waiting"
  /\ Active # {}
  /\ vpc' = "top"
  /\ Deliver(Active, knote)
  /\ elapsed' = {}

(* ... or a signal interrupts the wait. *)
Interrupted ==
  /\ InVisor /\ vpc = "waiting"
  /\ Active = {}
  /\ vpc' = "top"
  /\ Yield
  /\ UNCHANGED <<visor, owner, listVars, kernelVars>>

(* The kernel: a descriptor can be read. *)
InputArrives ==
  /\ phase = "running" /\ Alive
  /\ \E f \in Fds \ ready : ready' = ready \cup {f}
  /\ UNCHANGED <<vars, visor, vpc, owner, listVars, knote, elapsed, toRead>>

(* The kernel: a timer expires.  Outside of a waiting kevent this makes no *)
(* difference, for the next call starts the timer anew.                    *)
TimerExpires ==
  /\ vpc = "waiting" /\ Alive
  /\ \E c \in Cords \ elapsed : knote[c] # NULL /\ elapsed' = elapsed \cup {c}
  /\ UNCHANGED <<vars, visor, vpc, owner, listVars, knote, ready, toRead>>

-----------------------------------------------------------------------------
KReturn == Return /\ UNCHANGED kVars

(* braidstart has returned, or the process has ended or is about to crash. *)
Over == (Terminated \/ ~Alive) /\ UNCHANGED allVars

GoOn ==
  \/ KStart \/ KReturn
  \/ FdWait \/ Sleep \/ Read \/ (KOthers /\ (Yield \/ Exit))
  \/ VisorStarts \/ VisorSleeps \/ VisorPolls \/ VisorWaits \/ VisorReturns

KNext ==
  \/ AddVisor \/ AddCord \/ KStart
  \/ FdWait \/ Sleep \/ AwaitFails \/ Read \/ KOthers
  \/ VisorStarts \/ VisorSleeps \/ VisorPolls \/ VisorWaits \/ VisorReturns \/ Interrupted
  \/ InputArrives \/ TimerExpires
  \/ KReturn
  \/ Over

KSpec == KInit /\ [][KNext]_allVars

(* Cords are cooperative and kevent returns when it has an event or need   *)
(* not wait; and signals do not interrupt it so often that no timer ever   *)
(* expires.  That input arrives is not assumed.                            *)
KFairSpec ==
  /\ KSpec
  /\ WF_allVars(GoOn)
  /\ SF_allVars(TimerExpires)

-----------------------------------------------------------------------------
WaitingFor(i) == {c \in blocked : [udata |-> c, ident |-> i] \in ToSet(kevs)}

(* Who is blocked in fdwait or cknsleep is in the list, once, and the      *)
(* visor is awake; a knote belongs to an entry of the list, so that no     *)
(* event is reported to a cord that has gone on; and with a visor added    *)
(* first the list never fails to grow, nor vanishes (kev_append,           *)
(* kev_remove, iovisor).                                                   *)
KnotesListed ==
  phase # "done" =>
    /\ blocked \ {visor} = {k.udata : k \in ToSet(kevs)} \ (zombies \cup freed)
    /\ \A i, j \in DOMAIN kevs : kevs[i].udata = kevs[j].udata => i = j
    /\ \A i \in Idents :
         knote[i] # NULL => [udata |-> knote[i], ident |-> i] \in ToSet(kevs)
    /\ kevs # << >> => visor \notin blocked
    /\ isBlocked <=> visor \in blocked
    /\ visor = 0 => Alive

(* read(2) after fdwait does not block the braid, although several cords   *)
(* wait for the same descriptor: an event wakes only one of them, and it   *)
(* reads before the visor looks at the descriptor again (fdread, iovisor). *)
ReadFindsInput ==
  \A c \in Running \cup ToSet(runable) : toRead[c] # NULL => toRead[c] \in ready

(* When a descriptor can be read, one of the cords that wait for it comes  *)
(* back from fdwait, although each overwrites the knote of the others.     *)
InputIsServed ==
  \A f \in Fds :
    (f \in ready /\ WaitingFor(f) # {})
      ~> (f \notin ready \/ WaitingFor(f) = {} \/ ~Alive
            \/ \E c \in Cords : curr = c /\ toRead[c] = f)

(* A sleeper cannot sleep for ever while no other cord runs.  (While       *)
(* others run it can: every call of kevent starts the timers anew.)        *)
SleepEnds ==
  \A c \in Cords :
    []<>~(c \in WaitingFor(c) /\ phase = "running" /\ curr = visor /\ runable = << >> /\ Alive)
=============================================================================
