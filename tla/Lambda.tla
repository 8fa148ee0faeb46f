------------------------------- MODULE Lambda -------------------------------
(***************************************************************************)
(* lambda_bind, lambda_vbind and lambda_vbindldr (src/src/lambda.h): the   *)
(* code of a function g that permutes its arguments, loads others, and     *)
(* jumps to f.  The moves between registers are a parallel assignment that *)
(* move_one breaks into single moves; it is recursive, so its calls are a  *)
(* stack here.  In the place of the code that has been emitted the model   *)
(* keeps what that code does: the registers after it, and its length.      *)
(*                                                                         *)
(* msrc, mdst and status are indexed by destination, not by position: the  *)
(* destinations are distinct and ascending, so the loops visit the same    *)
(* moves in the same order.                                                *)
(***************************************************************************)
EXTENDS Integers, FiniteSets, Sequences, FiniteSetsExt

CONSTANTS
  Arch,   \* "aarch64" or "x86_64"
  NArgs   \* bound on the number of arguments of f and g

LAMBDA_BIND_MAX_ARGS == IF Arch = "aarch64" THEN 8 ELSE 6

ASSUME LambdaAssumption ==
  /\ Arch \in {"aarch64", "x86_64"}
  /\ NArgs \in 1 .. LAMBDA_BIND_MAX_ARGS

VARIABLES
  moves,   \* the MOV arguments: destination -> source
  loads,   \* destinations of the LDR arguments
  pc,      \* "moving", "done"
  next,    \* i of the loop in lambda_vbind
  src,     \* the sources, changed when one is saved
  status,  \* the progress of each move
  stack,   \* calls of move_one, the outermost first
  from,    \* j of the call of move_one for each move
  regs,    \* registers after the code emitted so far
  size     \* its length in bytes

vars == <<moves, loads, pc, next, src, status, stack, from, regs, size>>

Args  == 0 .. NArgs - 1
Moves == DOMAIN moves
TMP   == IF Arch = "aarch64" THEN 16 ELSE 6

-----------------------------------------------------------------------------
(* Registers.  An instruction names registers by numbers, computed on      *)
(* x86_64 from a table and a bit of the prefix.                            *)

\* The register of argument k in the calling convention of g and f.  On
\* x86_64 rax is 0, rcx 1, rdx 2, rsi 6, rdi 7, r8 8 and r9 9.
ArgReg(k) ==
  IF Arch = "aarch64" THEN k ELSE <<7, 6, 2, 1, 8, 9>>[k + 1]

r2i(r) == <<7, 6, 2, 1, 0, 1, 0>>[r + 1]

MovSource(s) ==
  IF Arch = "aarch64" THEN s ELSE r2i(s) + (IF s > 3 /\ s # TMP THEN 8 ELSE 0)

MovDest(d, s) ==
  IF Arch = "aarch64" THEN d ELSE r2i(d) + (IF d > 3 /\ s # TMP THEN 8 ELSE 0)

LoadDest(d) ==
  IF Arch = "aarch64" THEN d ELSE r2i(d) + (IF d > 3 THEN 8 ELSE 0)

\* The register the jump to f goes through.
JumpReg == IF Arch = "aarch64" THEN 16 ELSE 0

Registers == IF Arch = "aarch64" THEN Args \cup {16} ELSE 0 .. 9

\* What a register can hold: what it held when g was called, the constant
\* bound to an argument, or the address of f.
Entry(r)   == <<"entry", r>>
Literal(k) == <<"literal", k>>
Target     == <<"target", 0>>

-----------------------------------------------------------------------------
(* Emitting.                                                               *)

mov(d, s) ==
  /\ regs' = [regs EXCEPT ![MovDest(d, s)] = regs[MovSource(s)]]
  /\ size' = size + (IF Arch = "aarch64" THEN 4 ELSE 3)

-----------------------------------------------------------------------------
(* lambda_vbind sorts its arguments; lambda_vbindldr has loads only, and   *)
(* may leave the first arguments alone.                                    *)
Init ==
  /\ \/ \E n \in 0 .. NArgs : \E M \in SUBSET (0 .. n - 1) :
          moves \in [M -> Args] /\ loads = (0 .. n - 1) \ M
     \/ \E start \in Args : \E n \in 0 .. NArgs - start :
          moves = [i \in {} |-> 0] /\ loads = start .. start + n - 1
  /\ pc = "moving"
  /\ next = 0
  /\ src = moves
  /\ status = [i \in Moves |-> "TO_MOVE"]
  /\ stack = << >>
  /\ from = [i \in Moves |-> 0]
  /\ regs = [r \in Registers |-> Entry(r)]
  /\ size = 0

\* move_one(i) begins; it does nothing for an argument that stays.
Begin(i) ==
  /\ status' = [status EXCEPT ![i] = "BEING_MOVED"]
  /\ stack' = Append(stack, i)

\* Mutants: the loop starts moves again, or moves arguments to themselves.
UnstartedOrMoved == {i \in Moves : i >= next /\ src[i] # i}
UnstartedOrSame  == {i \in Moves : i >= next /\ status[i] = "TO_MOVE"}

\* Moves the loop of lambda_vbind has yet to start.
Unstarted == {i \in Moves : i >= next /\ status[i] = "TO_MOVE" /\ src[i] # i}

(* The loop of lambda_vbind calls move_one.                                *)
StartMove ==
  /\ pc = "moving" /\ stack = << >> /\ Unstarted # {}
  /\ LET i == Min(Unstarted) IN Begin(i) /\ next' = i + 1
  /\ UNCHANGED <<moves, loads, pc, src, from, regs, size>>

\* The call of move_one that runs, and the moves that still need the value
\* of its destination, as far as its loop has not passed them.
Top == stack[Len(stack)]
ReadersUnstarted == \* Mutant: a cycle is not noticed.
  {j \in Moves : j >= from[Top] /\ src[j] = Top /\ status[j] = "TO_MOVE"}
Readers == {j \in Moves : j >= from[Top] /\ src[j] = Top /\ status[j] # "MOVED"}
Reader  == Min(Readers)

(* A move that reads the destination goes first.                           *)
MoveReaderFirst ==
  /\ stack # << >> /\ Readers # {} /\ status[Reader] = "TO_MOVE"
  /\ Begin(Reader)
  /\ from' = [from EXCEPT ![Top] = Reader + 1]
  /\ UNCHANGED <<moves, loads, pc, next, src, regs, size>>

(* One that has begun closes a cycle: its source is saved.                 *)
SaveSource ==
  /\ stack # << >> /\ Readers # {} /\ status[Reader] = "BEING_MOVED"
  /\ mov(TMP, src[Reader])
  /\ src' = [src EXCEPT ![Reader] = TMP]
  /\ from' = [from EXCEPT ![Top] = Reader + 1]
  /\ UNCHANGED <<moves, loads, pc, next, status, stack>>

(* Nobody needs the destination any more: the move, and move_one returns.  *)
EmitMove ==
  /\ stack # << >> /\ Readers = {}
  /\ mov(Top, src[Top])
  /\ status' = [status EXCEPT ![Top] = "MOVED"]
  /\ stack' = SubSeq(stack, 1, Len(stack) - 1)
  /\ UNCHANGED <<moves, loads, pc, next, src, from>>

\* The register r after the loads and the load of the address of f.
Loaded(r) ==
  IF r = JumpReg THEN Target
  ELSE IF \E k \in loads : LoadDest(k) = r
       THEN Literal(CHOOSE k \in loads : LoadDest(k) = r)
       ELSE regs[r]

(* The loads, and the jump to f.                                           *)
LoadAndJump ==
  /\ pc = "moving" /\ stack = << >> /\ Unstarted = {}
  /\ pc' = "done"
  /\ regs' = [r \in Registers |-> Loaded(r)]
  /\ size' = size + (IF Arch = "aarch64" THEN 12 * Cardinality(loads) + 16
                                         ELSE 10 * Cardinality(loads) + 12)
  /\ UNCHANGED <<moves, loads, next, src, status, stack, from>>

Terminated == pc = "done" /\ UNCHANGED vars

Next == StartMove \/ MoveReaderFirst \/ SaveSource \/ EmitMove \/ LoadAndJump \/ Terminated

Spec == Init /\ [][Next]_vars

-----------------------------------------------------------------------------
(* The calls of move_one are those of the moves that have begun: none runs *)
(* twice at a time.                                                        *)
LTypeOK ==
  /\ pc \in {"moving", "done"}
  /\ next \in 0 .. NArgs
  /\ src \in [Moves -> Args \cup {TMP}]
  /\ status \in [Moves -> {"TO_MOVE", "BEING_MOVED", "MOVED"}]
  /\ from \in [Moves -> 0 .. NArgs]
  /\ size \in Nat
  /\ stack \in Seq(Moves)
  /\ \A k, l \in DOMAIN stack : stack[k] = stack[l] => k = l
  /\ {stack[k] : k \in DOMAIN stack} = {i \in Moves : status[i] = "BEING_MOVED"}

(* No instruction overwrites a value that a later move has to read, where  *)
(* it was or where it was saved.                                           *)
PendingIntact ==
  \A i \in Moves :
    status[i] # "MOVED" => regs[MovSource(src[i])] = Entry(ArgReg(moves[i]))

(* Each MOV argument of f is what the argument of g it names was: the      *)
(* moves happen at once, whatever their permutation or repetition.         *)
ArgumentsMoved ==
  pc = "done" => \A i \in Moves : regs[ArgReg(i)] = Entry(ArgReg(moves[i]))

(* f is called with the arguments lambda_bind was asked for: moved, loaded *)
(* and, beyond those that were bound, as they were.                        *)
CallsAsAsked ==
  /\ ArgumentsMoved
  /\ pc = "done" =>
       /\ \A k \in loads : regs[ArgReg(k)] = Literal(k)
       /\ \A k \in Args \ (Moves \cup loads) : regs[ArgReg(k)] = Entry(ArgReg(k))

\* Where a value comes from, and where that comes from, and so on.
Source(k) == IF k \in Moves THEN moves[k] ELSE k
Trail(i) ==
  LET t[k \in 0 .. NArgs] == IF k = 0 THEN i ELSE Source(t[k - 1])
  IN t

\* The arguments that i leads to when destinations are followed to sources.
LeadsTo(i) == {Trail(i)[k] : k \in 1 .. NArgs}

\* The moves proper, and the cycles among them.
Proper == {i \in Moves : moves[i] # i}
Cycles == {LeadsTo(i) : i \in {j \in Proper : j \in LeadsTo(j)}}

LAMBDA_BIND_SIZE(movs, ldrs, cycles) ==
  IF Arch = "aarch64" THEN 4 * (movs + cycles) + 12 * ldrs + 16
                      ELSE 3 * (movs + cycles) + 10 * ldrs + 12

(* The code has the size lambda.h computes for it: one instruction for     *)
(* each move, and one more for each disjoint cycle.                        *)
SizeExact ==
  pc = "done" =>
    size = LAMBDA_BIND_SIZE(Cardinality(Proper), Cardinality(loads), Cardinality(Cycles))
=============================================================================
