-------------------------------- MODULE Uring --------------------------------
(***************************************************************************)
(* Non-blocking I/O of libbraid with the io_uring back end                 *)
(* (src/src/io/liburing).  fdwait, fdread, fdwrite and cknsleep put one    *)
(* operation into the submission queue, tagged with the calling cord, and  *)
(* block the caller.  The visor submits what is queued and unblocks, with  *)
(* the result, the cord of each completion; it does not know which         *)
(* operations are outstanding, only how many, and blocks itself when that  *)
(* count is zero.                                                          *)
(*                                                                         *)
(* The other cords make I/O calls and call braidyield, braidexit and       *)
(* cordhalt in any order; they do not halt the visor.  The program may     *)
(* wake the cords of Interruptible out of an I/O call with braidunblock:   *)
(* their operation stays outstanding, and they may start another.          *)
(* An operation <<c, k>> is the k-th that cord c has outstanding.          *)
(***************************************************************************)
EXTENDS Braid

CONSTANTS
  SqSize,        \* entries of the submission queue (8196 in the code)
  MaxOps,        \* bound on the operations one cord has outstanding
  Interruptible  \* cords that others may wake out of an I/O call

ASSUME UringAssumption ==
  /\ SqSize \in Nat \ {0}
  /\ MaxOps \in Nat \ {0}
  /\ Interruptible \subseteq Cords
  /\ 1 \in Vals

VARIABLES
  visor,      \* the cord that runs iovisor, NULL before it is added
  owner,      \* ctx->cord: 0 until the visor has run
  looping,    \* the visor has entered its loop
  cnt,        \* ctx->cnt
  isBlocked,  \* ctx->is_blocked
  sq,         \* the submission queue of ctx->ring; its order does not matter,
              \* for operations complete in any order
  inflight,   \* operations the kernel works on
  ripe,       \* those among them that the kernel has finished
  current     \* the operation of the I/O call a cord is in; 0 if it is in none

ringVars == <<cnt, isBlocked, sq, inflight, ripe, current>>
uVars == <<visor, owner, looping, ringVars>>
allVars == <<vars, uVars>>

UInit ==
  /\ Init
  /\ visor = NULL
  /\ owner = 0
  /\ looping = FALSE
  /\ cnt = 0
  /\ isBlocked = FALSE
  /\ sq = {}
  /\ inflight = {}
  /\ ripe = {}
  /\ current = [c \in Cords |-> 0]

-----------------------------------------------------------------------------
InCord == phase = "running" /\ curr # visor

AddVisor ==
  /\ phase = "init"
  /\ visor = NULL
  /\ Add("system")
  /\ visor' = NextId
  /\ UNCHANGED <<owner, looping, ringVars>>

AddCord ==
  /\ phase = "init" \/ InCord
  /\ visor = NULL => count + 1 < MaxCords  \* an id is left for it
  /\ Add("normal")
  /\ UNCHANGED uVars

UStart == visor # NULL /\ Start /\ UNCHANGED uVars

-----------------------------------------------------------------------------
Outstanding == sq \cup inflight

(* The next operation of the running cord. *)
NewOp ==
  <<curr, CHOOSE k \in 1 .. MaxOps + 1 :
            /\ <<curr, k>> \notin Outstanding
            /\ \A j \in 1 .. k - 1 : <<curr, j>> \in Outstanding>>

(* Mutant: the visor is not told of the new operation. *)
WakesNobody == << >>

(* get_sqe wakes the visor if it sleeps. *)
Wakes == IF isBlocked THEN Woken(<<owner>>) ELSE << >>

(* Mutant: get_sqe tags the operation with the visor, who owns the ring. *)
TagOfRing(op) == <<owner, op[2]>>

(* The user data of a new entry. *)
Tag(op) == op

(* get_sqe, which submits the queue first when it is full.                 *)
get_sqe ==
  /\ cnt' = cnt + 1
  /\ isBlocked' = FALSE
  /\ IF Cardinality(sq) < SqSize
       THEN sq' = sq \cup {Tag(NewOp)} /\ UNCHANGED inflight
       ELSE sq' = {Tag(NewOp)} /\ inflight' = Outstanding

(* fdwait, fdread, fdwrite or cknsleep: get_sqe and braidblock.            *)
IoCall ==
  /\ InCord
  /\ NewOp[2] <= MaxOps
  /\ get_sqe
  /\ current' = [current EXCEPT ![curr] = NewOp[2]]
  /\ Schedule(runable \o Wakes, (blocked \ ToSet(Wakes)) \cup {curr}, zombies, freed)
  /\ val' = [c \in Cords |-> IF c \in ToSet(Wakes) THEN 0 ELSE val[c]]
  /\ UNCHANGED <<flags, count, visor, owner, looping, ripe>>

(* The program wakes a cord out of its I/O call. *)
Interrupt ==
  /\ InCord
  /\ \E c \in Interruptible \ {visor} : Unblock(c, 0)
  /\ UNCHANGED uVars

UOthers ==
  /\ InCord
  /\ Yield \/ Exit \/ \E c \in Cords \ {visor} : Halt(c)
  /\ UNCHANGED uVars

-----------------------------------------------------------------------------
InVisor == phase = "running" /\ curr = visor

VisorStarts ==
  /\ InVisor /\ ~looping
  /\ owner' = curr
  /\ looping' = TRUE
  /\ UNCHANGED <<vars, visor, ringVars>>

(* Nothing is outstanding: sleep until somebody makes an I/O call. *)
VisorSleeps ==
  /\ InVisor /\ looping
  /\ cnt = 0
  /\ isBlocked' = TRUE
  /\ Block
  /\ UNCHANGED <<visor, owner, looping, cnt, sq, inflight, ripe, current>>

(* The cords that the completions of done find blocked: one braidunblock   *)
(* for each completion, the first for a cord wakes it.                     *)
Found(done) == {c \in blocked : \E op \in done : op[1] = c}

(* Mutant: only the completions that wake somebody are counted. *)
CountedIfFound(done) == Cardinality(Found(done))

(* What is taken off ctx->cnt. *)
Counted(done) == Cardinality(done)

(* Mutant: the completion queue is not advanced. *)
NothingTaken(done) == {}

(* What io_uring_cq_advance removes. *)
Taken(done) == done

(* io_uring_submit_and_wait_timeout, with other cords to run or with       *)
(* completions: everything that is queued goes to the kernel, the          *)
(* completions (some of operations submitted only now) come back in any    *)
(* order, the visor unblocks their cords with the result, 1, and yields.   *)
(* Without completions the call has timed out (-ETIME).                    *)
VisorCall ==
  /\ InVisor /\ looping
  /\ cnt # 0
  /\ \E now \in SUBSET sq :
       LET done == ripe \cup now IN
         /\ done # {} \/ runable # << >>
         /\ \E woken \in SetToSeqs(Found(done)) :
              Schedule(Append(runable \o woken, curr), blocked \ ToSet(woken), zombies, freed)
         /\ val' = [c \in Cords |-> IF c \in Found(done) THEN 1 ELSE val[c]]
         /\ cnt' = cnt - Counted(done)
         /\ inflight' = Outstanding \ Taken(done)
         /\ ripe' = done \ Taken(done)
  /\ sq' = {}
  /\ UNCHANGED <<flags, count, visor, owner, looping, isBlocked, current>>

(* The same with nobody else to run and no completion: everything queued   *)
(* goes to the kernel, and the visor stays in the call (or starts it       *)
(* again, when a signal interrupts it) until something completes.          *)
VisorWaits ==
  /\ InVisor /\ looping
  /\ cnt # 0
  /\ runable = << >>
  /\ ripe = {}
  /\ sq # {}
  /\ sq' = {}
  /\ inflight' = Outstanding
  /\ UNCHANGED <<vars, visor, owner, looping, cnt, isBlocked, ripe, current>>

(* The kernel finishes an operation. *)
Completes ==
  /\ phase = "running"
  /\ \E op \in inflight \ ripe : ripe' = ripe \cup {op}
  /\ UNCHANGED <<vars, visor, owner, looping, cnt, isBlocked, sq, inflight, current>>

-----------------------------------------------------------------------------
UReturn == Return /\ UNCHANGED uVars

Over == Terminated /\ UNCHANGED uVars

(* Nobody can run and the kernel finishes nothing: the visor stays in      *)
(* io_uring_enter.                                                         *)
Idle ==
  /\ InVisor /\ looping
  /\ cnt # 0 /\ runable = << >> /\ sq = {} /\ ripe = {}
  /\ UNCHANGED allVars

GoOn ==
  \/ UStart \/ UReturn
  \/ IoCall \/ (UOthers /\ (Yield \/ Exit))
  \/ VisorStarts \/ VisorSleeps \/ VisorCall \/ VisorWaits

UNext ==
  \/ AddVisor \/ AddCord \/ UStart
  \/ IoCall \/ Interrupt \/ UOthers
  \/ VisorStarts \/ VisorSleeps \/ VisorCall \/ VisorWaits
  \/ Completes
  \/ UReturn
  \/ Over \/ Idle

USpec == UInit /\ [][UNext]_allVars

(* Cords are cooperative and io_uring_enter returns when it has something  *)
(* to report or need not wait.  That operations complete is not assumed.   *)
UFairSpec == USpec /\ WF_allVars(GoOn)

-----------------------------------------------------------------------------
Calling(c) == c \in blocked \ {visor}
CurrentOp(c) == <<c, current[c]>>

(* ctx->cnt is the number of outstanding operations, and as long as there  *)
(* is one the visor does not sleep: although it counts completions of      *)
(* cords that were halted or woken by somebody else, and although a full   *)
(* submission queue is submitted behind its back (get_sqe, iovisor).       *)
VisorWatches ==
  /\ cnt = Cardinality(Outstanding)
  /\ Outstanding # {} => visor \notin blocked
  /\ phase # "done" => (isBlocked <=> visor \in blocked)

(* The buffer of an outstanding operation is on its caller's stack.  The   *)
(* caller is in that very call, or was halted, unless somebody woke it out *)
(* of the call; and a cord that waits in such a call has exactly one       *)
(* operation outstanding (fdread, fdwrite, cknsleep).                      *)
OpsOwned ==
  phase # "done" =>
    /\ \A op \in Outstanding :
         op[1] \in (blocked \cup zombies \cup freed) \cup Interruptible
    /\ \A c \in blocked \ ({visor} \cup Interruptible) :
         {op \in Outstanding : op[1] = c} = {CurrentOp(c)}

(* An I/O call of a cord that only the visor wakes returns the result of   *)
(* the operation it started, when that has completed, and nothing else     *)
(* makes it return.                                                        *)
OwnResult ==
  [][\A c \in Cords \ Interruptible :
       Calling(c) /\ (c \in ToSet(runable') \/ curr' = c) =>
         /\ val'[c] = 1
         /\ CurrentOp(c) \in Outstanding
         /\ CurrentOp(c) \notin sq' \cup inflight']_allVars

(* The operation of a cord that waits reaches the kernel, and when it has  *)
(* completed the cord returns from its call, unless it is halted.          *)
CompletedIsServed ==
  \A c \in Cords :
    (Calling(c) /\ CurrentOp(c) \in sq \cup ripe)
      ~> (curr = c \/ c \in zombies \cup freed \/ CurrentOp(c) \in inflight \ ripe)
=============================================================================
