-------------------------------- MODULE Visor --------------------------------
(***************************************************************************)
(* Non-blocking I/O of libbraid with the poll(2) back end                  *)
(* (src/src/io/poll): fdwait puts the caller into the list of the I/O      *)
(* visor and blocks it; the visor is a system cord that polls the          *)
(* descriptors of the list and unblocks the cords whose descriptor is      *)
(* ready.  When its list is empty it blocks itself, and the next fdwait    *)
(* wakes it.                                                               *)
(*                                                                         *)
(* The other cords call fdwait, braidyield, braidexit and cordhalt in any  *)
(* order; they do not halt the visor.  The program may wake the cords of   *)
(* Interruptible out of fdwait with braidunblock: their entry stays in the *)
(* list, and they may wait again.  An entry <<c, k>> is the k-th that cord *)
(* c has in the list, and is identified with its descriptor.  The value of *)
(* braidunblock, which fdwait ignores, is left out.                        *)
(***************************************************************************)
EXTENDS Braid

CONSTANTS
  FirstCap,      \* capacity of the list when it is first allocated (4 in the code)
  MaxWaits,      \* bound on the entries one cord has in the list
  Interruptible  \* cords that others may wake out of fdwait

ASSUME VisorAssumption ==
  /\ FirstCap \in Nat \ {0} /\ MaxWaits \in Nat \ {0}
  /\ Interruptible \subseteq Cords

VARIABLES
  visor,      \* the cord that runs iovisor, NULL before it is added
  vpc,        \* where the visor is: "start", "top" of its loop, or to yield "again"
  owner,      \* ctx->cord: 0 until the visor has run
  entries,    \* ctx->cords and ctx->pfds, up to ctx->cnt
  cap,        \* ctx->cap
  home,       \* the cord whose arena holds the two arrays
  isBlocked,  \* ctx->is_blocked
  current,    \* the entry of the last fdwait of each cord
  ready,      \* entries whose descriptor the kernel would report
  failed      \* poll_append could not allocate and has ended the process

ioVars == <<visor, vpc, owner, entries, cap, home, isBlocked, current, ready, failed>>
allVars == <<vars, ioVars>>

VInit ==
  /\ Init
  /\ visor = NULL
  /\ vpc = "start"
  /\ owner = 0
  /\ entries = << >>
  /\ cap = 0
  /\ home = NULL
  /\ isBlocked = FALSE
  /\ current = [c \in Cords |-> 0]
  /\ ready = {}
  /\ failed = FALSE

-----------------------------------------------------------------------------
(* main() sets the braid up; cords may be added later too.                 *)
AddVisor ==
  /\ phase = "init"
  /\ visor = NULL
  /\ Add("system")
  /\ visor' = NextId
  /\ UNCHANGED <<vpc, owner, entries, cap, home, isBlocked, current, ready, failed>>

(* The process has not ended and the arrays are still there: they vanish   *)
(* with the cord whose arena holds them.                                   *)
Alive == ~failed /\ home \notin freed

InCord == phase = "running" /\ curr # visor /\ Alive

AddCord ==
  /\ phase = "init" \/ InCord
  /\ visor = NULL => count + 1 < MaxCords  \* an id is left for it
  /\ Add("normal")
  /\ UNCHANGED ioVars

VStart == visor # NULL /\ Start /\ UNCHANGED ioVars

-----------------------------------------------------------------------------
(* poll_append by the running cord.  The arrays grow in the arena of the   *)
(* cord ctx->cord, which cordrealloc looks for among the runnable and the  *)
(* blocked cords.                                                          *)
MustGrow == Len(entries) + 1 > cap
(* Mutant: cordrealloc looks only among the blocked cords. *)
CanGrowIfBlocked == owner \in blocked

CanGrow == owner \in ToSet(runable) \cup blocked

(* Mutant: poll_append does not wake the visor. *)
WakesNobody == << >>

(* poll_append wakes the visor if it sleeps. *)
Wakes == IF isBlocked THEN Woken(<<owner>>) ELSE << >>

(* The next entry of the running cord. *)
NewWait == CHOOSE k \in 1 .. MaxWaits + 1 :
  /\ <<curr, k>> \notin ToSet(entries)
  /\ \A j \in 1 .. k - 1 : <<curr, j>> \in ToSet(entries)

(* fdwait: poll_append, which wakes the visor if it sleeps, and braidblock.*)
FdWait ==
  /\ InCord
  /\ NewWait <= MaxWaits
  /\ MustGrow => CanGrow
  /\ Schedule(runable \o Wakes, (blocked \ ToSet(Wakes)) \cup {curr}, zombies, freed)
  /\ entries' = Append(entries, <<curr, NewWait>>)
  /\ current' = [current EXCEPT ![curr] = NewWait]
  /\ cap' = IF MustGrow THEN (IF cap = 0 THEN FirstCap ELSE cap * 2) ELSE cap
  /\ home' = IF MustGrow THEN owner ELSE home
  /\ isBlocked' = FALSE
  /\ UNCHANGED <<flags, val, count, visor, vpc, owner, ready, failed>>

(* poll_append: err(EX_OSERR, "poll_append: realloc"). *)
FdWaitFails ==
  /\ InCord
  /\ MustGrow /\ ~CanGrow
  /\ failed' = TRUE
  /\ UNCHANGED <<vars, visor, vpc, owner, entries, cap, home, isBlocked, current, ready>>

(* The program wakes a cord out of fdwait. *)
Interrupt ==
  /\ InCord
  /\ \E c \in Interruptible \ {visor} : Unblock(c, 0)
  /\ UNCHANGED ioVars

VOthers ==
  /\ InCord
  /\ Yield \/ Exit \/ \E c \in Cords \ {visor} : Halt(c)
  /\ UNCHANGED ioVars

-----------------------------------------------------------------------------
InVisor == phase = "running" /\ curr = visor /\ Alive

VisorStarts ==
  /\ InVisor /\ vpc = "start"
  /\ owner' = curr
  /\ vpc' = "top"
  /\ UNCHANGED <<vars, visor, entries, cap, home, isBlocked, current, ready, failed>>

(* The list is empty: sleep until somebody calls fdwait. *)
VisorSleeps ==
  /\ InVisor /\ vpc = "top"
  /\ entries = << >>
  /\ isBlocked' = TRUE
  /\ Block
  /\ UNCHANGED <<visor, vpc, owner, entries, cap, home, current, ready, failed>>

(* Mutant: the visor does not look at revents. *)
TakenAsReady(e) == TRUE

IsReady(e) == e \in ready

\* The positions of the list that are in S, in order, and the cords there.
Positions(S) == Filter([p \in DOMAIN entries |-> p], S)
CordsAt(at) == [i \in DOMAIN at |-> entries[at[i]][1]]
SameCord(p, q) == entries[p][1] = entries[q][1]

\* How many entries of the cord at position p are reported.
Hits(p) == Cardinality({q \in DOMAIN entries : SameCord(p, q) /\ IsReady(entries[q])})

(* Mutant: the visor forgets poll_remove. *)
KeptInList(p) == FALSE

(* poll_remove takes the first entry of the cord, whichever is reported:   *)
(* a cord with n reported entries loses its first n.                       *)
Removed(p) == Cardinality({q \in 1 .. p : SameCord(p, q)}) <= Hits(p)

Left ==
  LET at == Positions({p \in DOMAIN entries : ~Removed(p)})
  IN  [i \in DOMAIN at |-> entries[at[i]]]

(* Where the loop comes to the first entry of a cord that is reported. *)
FirstHits ==
  {p \in DOMAIN entries :
    /\ IsReady(entries[p])
    /\ \A q \in 1 .. p - 1 : SameCord(p, q) => ~IsReady(entries[q])}

(* The cords that are unblocked, in the order of the loop. *)
Reported == CordsAt(Positions(FirstHits))

(* poll reports descriptors: their cords are unblocked in the order of the *)
(* list (one that is not blocked is not found), and the visor yields.      *)
VisorWakes ==
  /\ InVisor /\ vpc = "top"
  /\ \E e \in ToSet(entries) : IsReady(e)
  /\ LET woken == Woken(Reported) IN
       Schedule(Append(runable \o woken, curr), blocked \ ToSet(woken), zombies, freed)
  /\ entries' = Left
  /\ ready' = ready \cap ToSet(Left)
  /\ UNCHANGED <<flags, val, count, visor, vpc, owner, cap, home, isBlocked, current, failed>>

(* poll reports nothing.  With other cords to run it returns at once and   *)
(* the visor yields twice; with none it returns only if a signal           *)
(* interrupts it.                                                          *)
VisorFindsNothing ==
  /\ InVisor /\ vpc = "top"
  /\ entries # << >>
  /\ \A e \in ToSet(entries) : ~IsReady(e)
  /\ vpc' = IF runable # << >> THEN "again" ELSE "top"
  /\ Yield
  /\ UNCHANGED <<visor, owner, entries, cap, home, isBlocked, current, ready, failed>>

VisorYieldsAgain ==
  /\ InVisor /\ vpc = "again"
  /\ vpc' = "top"
  /\ Yield
  /\ UNCHANGED <<visor, owner, entries, cap, home, isBlocked, current, ready, failed>>

(* The kernel: a descriptor somebody waits for becomes ready. *)
DescriptorReady ==
  /\ phase = "running" /\ Alive
  /\ \E e \in ToSet(entries) \ ready : ready' = ready \cup {e}
  /\ UNCHANGED <<vars, visor, vpc, owner, entries, cap, home, isBlocked, current, failed>>

-----------------------------------------------------------------------------
VReturn == Return /\ UNCHANGED ioVars

(* braidstart has returned, or the process has ended or is about to crash. *)
Over == (Terminated \/ ~Alive) /\ UNCHANGED allVars

(* Every step that cords and visor must not put off for ever. *)
GoOn ==
  \/ VStart \/ VReturn
  \/ FdWait \/ (VOthers /\ (Yield \/ Exit))
  \/ VisorStarts \/ VisorSleeps \/ VisorWakes \/ VisorFindsNothing \/ VisorYieldsAgain

VNext ==
  \/ AddVisor \/ AddCord \/ VStart
  \/ FdWait \/ FdWaitFails \/ Interrupt \/ VOthers
  \/ VisorStarts \/ VisorSleeps \/ VisorWakes \/ VisorFindsNothing \/ VisorYieldsAgain
  \/ DescriptorReady
  \/ VReturn
  \/ Over

VSpec == VInit /\ [][VNext]_allVars

(* Cords are cooperative and poll returns.  That descriptors get ready is  *)
(* not assumed.                                                            *)
VFairSpec == VSpec /\ WF_allVars(GoOn)

-----------------------------------------------------------------------------
Waiting(c) == c \in blocked \ {visor}
CurrentEntry(c) == <<c, current[c]>>

(* While somebody waits for a descriptor the visor is awake: it runs or    *)
(* will run.  There is no moment between its look at the empty list and    *)
(* its braidblock at which an fdwait could go unnoticed.                   *)
NoLostWakeup ==
  /\ entries # << >> => visor \notin blocked
  /\ phase # "done" => (isBlocked <=> visor \in blocked)

(* A cord blocked in fdwait has the entry of that call in the list; other  *)
(* entries belong to cords that were halted, or woken by somebody else,    *)
(* never to one that the visor has served; and the list fits its arrays    *)
(* (poll_append; poll_remove, which looks for the cord, not the entry).    *)
WaitersListed ==
  /\ phase # "done" =>
       /\ \A c \in Cords : Waiting(c) => CurrentEntry(c) \in ToSet(entries)
       /\ \A e \in ToSet(entries) :
            \/ e[1] \in zombies \cup freed \cup Interruptible
            \/ Waiting(e[1]) /\ e = CurrentEntry(e[1])
  /\ IsInjective(entries)
  /\ Len(entries) <= cap

(* fdwait returns only when the descriptor is ready: the read or write     *)
(* that follows does not block the whole braid.  (The exception is a cord  *)
(* that somebody else has woken before: its old entry wakes it again.)     *)
WokenWhenReady ==
  [][\A c \in Cords \ Interruptible :
       Waiting(c) /\ (c \in ToSet(runable') \/ curr' = c) => CurrentEntry(c) \in ready]_allVars

(* The arrays of the list live as long as the visor, and can grow, if main *)
(* adds the visor before any other cord: ctx->cord is 0 until it has run.  *)
ArraysInVisor == visor = 0 => ~failed /\ home \in {visor, NULL}

(* A cord whose descriptor is ready comes back from fdwait, unless it is   *)
(* halted or the process ends.                                             *)
ReadyIsServed ==
  \A c \in Cords :
    (Waiting(c) /\ CurrentEntry(c) \in ready) ~> (curr = c \/ c \in zombies \cup freed \/ ~Alive)
=============================================================================
