------------------------------ MODULE Contexts ------------------------------
(***************************************************************************)
(* Contexts (src/src/ctx.c and ctxswap.*.S) under the scheduler: ctxswap   *)
(* stores the registers that a function must preserve in the words of one  *)
(* context and loads them from those of another.  The assembly and the     *)
(* struct of C must agree about the words, on both architectures.          *)
(*                                                                         *)
(* ctxswap stores each register before it loads it, so also a switch from  *)
(* a context to itself is one store of all registers and one load.         *)
(* On amd64 the address to go on at lies on the stack and is not in the    *)
(* context: rsp stands for both.                                           *)
(***************************************************************************)
EXTENDS Braid

CONSTANT Archs  \* the architectures to consider

ASSUME ArchsAssumption == Archs \subseteq {"amd64", "aarch64"}

VARIABLES
  arch,  \* the architecture, which never changes
  cpu,   \* the registers as the last ctxswap left them
  mem,   \* the words of each struct ctx
  turn   \* parity of the switches away from each context, 0 before the first

ctxVars == <<arch, cpu, mem, turn>>

START == MaxCords      \* b->start, the context of main()
DUMMY == MaxCords + 1  \* dummy_ctx
ContextIds == 0 .. DUMMY

-----------------------------------------------------------------------------
(* struct ctx: the words of the fields that C code uses, and their number. *)
FieldsAmd64 == [rsp |-> 0, rdi |-> 7, stack |-> 8, mapsize |-> 9]
FieldsAarch64 == [sp |-> 0, x30 |-> 1, x19 |-> 2, x0 |-> 21, stack |-> 22, mapsize |-> 23]
Fields == IF arch = "amd64" THEN FieldsAmd64 ELSE FieldsAarch64
Words == 0 .. Fields.mapsize

(* The words in which ctxswap stores registers and from which it loads     *)
(* them, and the argument register, which it only loads.                   *)
SavedAmd64 == [rsp |-> 0, rbp |-> 1, rbx |-> 2, r12 |-> 3, r13 |-> 4, r14 |-> 5, r15 |-> 6]
ArgAmd64 == [rdi |-> 7]

(* Mutant: d8 .. d15 are one word further. *)
SavedAarch64Shifted ==
  [sp |-> 0, x30 |-> 1, x19 |-> 2, x20 |-> 3, x21 |-> 4, x22 |-> 5, x23 |-> 6, x24 |-> 7,
   x25 |-> 8, x26 |-> 9, x27 |-> 10, x28 |-> 11, x29 |-> 12, d8 |-> 15, d9 |-> 16,
   d10 |-> 17, d11 |-> 18, d12 |-> 19, d13 |-> 20, d14 |-> 21, d15 |-> 22]

(* d15 lies in the word of x0: the array fpregs begins one word before d8. *)
SavedAarch64 ==
  [sp |-> 0, x30 |-> 1, x19 |-> 2, x20 |-> 3, x21 |-> 4, x22 |-> 5, x23 |-> 6, x24 |-> 7,
   x25 |-> 8, x26 |-> 9, x27 |-> 10, x28 |-> 11, x29 |-> 12, d8 |-> 14, d9 |-> 15,
   d10 |-> 16, d11 |-> 17, d12 |-> 18, d13 |-> 19, d14 |-> 20, d15 |-> 21]
ArgAarch64 == [x0 |-> 21]

Saved == IF arch = "amd64" THEN SavedAmd64 ELSE SavedAarch64
Arg == IF arch = "amd64" THEN ArgAmd64 ELSE ArgAarch64

-----------------------------------------------------------------------------
(* What a word or a register holds: of the code that runs on context x,    *)
(* the value of a register (or a fact about x) at its k-th switch.         *)
Value(x, what, k) == [of |-> x, what |-> what, at |-> k]
ZERO == Value(START, "zero", 0)
GONE == Value(START, "gone", 0)
BRAID == Value(START, "braid", 0)  \* b, the argument of every cord

ctxempty == [w \in Words |-> ZERO]
Deleted == [w \in Words |-> GONE]

(* ctxcreate: the words that it sets; calloc has cleared the others.       *)
CreatedFields(c) ==
  LET top == Value(c, "top", 0)
      entry == Value(c, "entry", 0)
      stack == Value(c, "stack", 0)
      mapsize == Value(c, "mapsize", 0)
  IN IF arch = "amd64"
     THEN [rsp |-> entry, rdi |-> BRAID, stack |-> stack, mapsize |-> mapsize]
     ELSE [sp |-> top, x30 |-> entry, x19 |-> top, x0 |-> BRAID,
           stack |-> stack, mapsize |-> mapsize]

ctxcreate(c) ==
  [w \in Words |->
     IF \E f \in DOMAIN Fields : Fields[f] = w
     THEN CreatedFields(c)[CHOOSE f \in DOMAIN Fields : Fields[f] = w]
     ELSE ZERO]

(* The registers of the code that runs on context x when it calls ctxswap. *)
Registers(x, k) == [r \in DOMAIN Saved |-> Value(x, r, k)]

(* The words of a context after ctxswap has stored the registers in it.    *)
Stored(words, regs) ==
  [w \in Words |->
     IF \E r \in DOMAIN Saved : Saved[r] = w
     THEN regs[CHOOSE r \in DOMAIN Saved : Saved[r] = w]
     ELSE words[w]]

Loaded(words) ==
  [r \in DOMAIN Saved \cup DOMAIN Arg |->
     words[IF r \in DOMAIN Saved THEN Saved[r] ELSE Arg[r]]]

-----------------------------------------------------------------------------
CtxInit ==
  /\ arch \in Archs
  /\ cpu = << >>
  /\ mem = [x \in ContextIds |-> IF x = DUMMY THEN ctxempty ELSE Deleted]
  /\ turn = [x \in ContextIds |-> 0]

(* ctxcreate for the cord that the step adds, ctxdel for those it releases *)
(* and, in the end, for b->start.                                          *)
Maintained(m) ==
  [x \in ContextIds |->
     IF x \in freed' \/ (x = START /\ phase' = "done") THEN Deleted
     ELSE IF x \in Cords /\ count' = x + 1 /\ count # count' THEN ctxcreate(x)
     ELSE m[x]]

(* ctxswap(old, new), called by the code that runs on x, which has changed *)
(* its registers since it was switched to.                                 *)
ctxswap(x, old, new, m) ==
  LET k == IF turn[x] = 1 THEN 2 ELSE 1
      stored == [m EXCEPT ![old] = Stored(@, Registers(x, k))]
  IN /\ cpu' = Loaded(stored[new])
     /\ mem' = Maintained(stored)
     /\ turn' = [turn EXCEPT ![x] = k]

(* The context to which schedule() switches. *)
Target == IF phase' = "running" THEN curr' ELSE START

(* braidstart creates b->start and switches from it. *)
SwitchFromStart ==
  /\ phase = "init" /\ phase' # "init"
  /\ ctxswap(START, START, Target, [mem EXCEPT ![START] = ctxempty])

(* A cord that yields or blocks saves itself.  One that is alone in the    *)
(* queue and yields switches to itself: such a step need not change the    *)
(* scheduler, so a step that does not may be one.                          *)
SwitchFromCord ==
  /\ phase = "running" /\ phase' \in {"running", "returning"}
  /\ curr \in ToSet(runable') \cup blocked' \/ (curr' = curr /\ runable \o runable' = << >>)
  /\ curr \notin zombies' \cup freed'
  /\ ctxswap(curr, curr, Target, mem)

(* A cord that exits or stops the braid saves itself nowhere.              *)
SwitchForEver ==
  /\ phase = "running"
  /\ curr \in zombies' \cup freed'
  /\ ctxswap(curr, DUMMY, Target, mem)

(* The other calls return to their caller. *)
NoSwitch ==
  /\ phase' = phase \/ phase' = "done"
  /\ curr' = curr
  /\ curr \notin zombies' \cup freed' \/ phase # "running"
  /\ curr \notin ToSet(runable') \cup blocked' \/ phase # "running"
  /\ mem' = Maintained(mem)
  /\ UNCHANGED <<cpu, turn>>

(* What a step of the scheduler does to the contexts. *)
Switching ==
  /\ UNCHANGED arch
  /\ SwitchFromStart \/ SwitchFromCord \/ SwitchForEver \/ NoSwitch

(* Any program, with its switches. *)
CtxSpec == Init /\ CtxInit /\ [][Next /\ Switching]_<<vars, ctxVars>>

-----------------------------------------------------------------------------
(* The registers that the code on x must find when it is switched to: its  *)
(* own, as it left them, or its entry point, its stack and its argument.   *)
Finds(x) ==
  IF turn[x] # 0 THEN \A r \in DOMAIN Saved : cpu[r] = Value(x, r, turn[x])
  ELSE \A f \in DOMAIN Fields \ {"stack", "mapsize"} : cpu[f] = CreatedFields(x)[f]

(* Whoever ran in between, and whatever else was created and deleted, each *)
(* cord and braidstart find their registers as they left them, a new cord  *)
(* finds what ctxcreate was given; and no switch disturbs the words from   *)
(* which ctxdel takes the mapping it returns (ctxswap, ctxcreate, ctxdel). *)
ContextsKept ==
  /\ phase = "running" => Finds(curr)
  /\ phase = "returning" => Finds(START)
  /\ \A c \in Cords : c < count /\ c \notin freed =>
       \A f \in {"stack", "mapsize"} : mem[c][Fields[f]] = CreatedFields(c)[f]
=============================================================================
