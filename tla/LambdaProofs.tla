---------------------------- MODULE LambdaProofs ----------------------------
(***************************************************************************)
(* Proofs about lambda_vbind, for every number of arguments and every way  *)
(* to bind them: how the recursion of move_one proceeds and how long its   *)
(* code is, on both architectures; and that on aarch64 its single moves    *)
(* have the effect of the parallel assignment.                             *)
(***************************************************************************)
EXTENDS Lambda, FiniteSetTheorems, SequenceTheorems, TLAPS

Statuses == {"TO_MOVE", "BEING_MOVED", "MOVED"}

(* Types.                                                                  *)
Typed ==
  /\ Moves \subseteq Args
  /\ moves \in [Moves -> Args]
  /\ loads \subseteq Args
  /\ loads \cap Moves = {}
  /\ pc \in {"moving", "done"}
  /\ next \in 0 .. NArgs
  /\ src \in [Moves -> Args \cup {TMP}]
  /\ status \in [Moves -> Statuses]
  /\ stack \in Seq(Moves)
  /\ from \in [Moves -> 0 .. NArgs]
  /\ size \in Nat

(* The stack holds the moves that have begun, once; each call was made     *)
(* because its move reads the destination of its caller.                   *)
Nested ==
  /\ \A k \in 1 .. Len(stack) : /\ status[stack[k]] = "BEING_MOVED"
                                /\ moves[stack[k]] # stack[k]
  /\ \A k, l \in 1 .. Len(stack) : stack[k] = stack[l] => k = l
  /\ \A i \in Moves : status[i] = "BEING_MOVED" => \E k \in 1 .. Len(stack) : stack[k] = i
  /\ \A k \in 1 .. Len(stack) - 1 : moves[stack[k + 1]] = stack[k]

(* Only the outermost call can be waiting for a value in the temporary     *)
(* register.                                                               *)
Saved ==
  \A i \in Moves :
    \/ src[i] = moves[i]
    \/ /\ src[i] = TMP
       /\ status[i] # "TO_MOVE"
       /\ status[i] = "BEING_MOVED" => stack[1] = i

(* A call has dealt with the readers of its destination that its loop has  *)
(* passed, but for the one it has called.                                  *)
Scanned ==
  /\ \A i \in Moves : status[i] = "TO_MOVE" => from[i] = 0
  /\ \A k \in 1 .. Len(stack) : \A j \in Moves :
       src[j] = stack[k] /\ j < from[stack[k]] =>
         status[j] = "MOVED" \/ (k < Len(stack) /\ j = stack[k + 1])

(* lambda_vbind has dealt with the moves its loop has passed.              *)
Visited == \A i \in Moves : i < next /\ status[i] = "TO_MOVE" => moves[i] = i

(* The recursion, whatever the instructions do.                            *)
ControlInv ==
  /\ Typed /\ Nested /\ Saved /\ Scanned /\ Visited
  /\ pc = "done" => stack = << >>

(* What a register holds.                                                  *)
Held    == regs = [r \in Args \cup {16} |-> regs[r]]
Pending == \A i \in Moves : status[i] # "MOVED" => regs[src[i]] = Entry(moves[i])
Moved   == pc = "moving" => \A i \in Moves : status[i] = "MOVED" => regs[i] = Entry(moves[i])
Kept    == pc = "moving" => \A k \in Args \ Moves : regs[k] = Entry(k)

RegInv == Held /\ Pending /\ Moved /\ Kept /\ CallsAsAsked

LambdaInv == ControlInv /\ RegInv

-----------------------------------------------------------------------------
(* Both architectures have few arguments, and a register beside them.      *)
LEMMA Machine ==
  /\ NArgs \in 1 .. 8
  /\ Args = 0 .. NArgs - 1
  /\ TMP \notin Args /\ TMP \in Nat
BY LambdaAssumption DEF LAMBDA_BIND_MAX_ARGS, Args, TMP

(* On aarch64 an instruction names a register by its own number.           *)
LEMMA Aarch64 ==
  ASSUME Arch = "aarch64"
  PROVE  /\ NArgs \in 1 .. 8
         /\ Args = 0 .. NArgs - 1
         /\ 16 \notin Args
         /\ TMP = 16 /\ JumpReg = 16 /\ Registers = Args \cup {16}
         /\ \A k : ArgReg(k) = k /\ MovSource(k) = k /\ LoadDest(k) = k
         /\ \A d, s : MovDest(d, s) = d
BY LambdaAssumption
   DEF LAMBDA_BIND_MAX_ARGS, Args, TMP, JumpReg, Registers, ArgReg, MovSource, LoadDest, MovDest

(* The loops visit their candidates in ascending order: there are at most  *)
(* eight arguments, so one of them is the first.                           *)
LEMMA MinIsLeast ==
  ASSUME NEW S \in SUBSET (0 .. 7), S # {}
  PROVE  Min(S) \in S /\ \A j \in S : Min(S) <= j
<1>1. \E i \in S : \A j \in S : i <= j
  <2>1. S \subseteq Int /\ (\A j \in S : 0 <= j) /\ (\A j \in S : j <= 7)
    OBVIOUS
  <2>2. CASE 0 \in S
    BY <2>1, <2>2
  <2>3. CASE 0 \notin S /\ 1 \in S
    BY <2>1, <2>3
  <2>4. CASE S \cap {0, 1} = {} /\ 2 \in S
    BY <2>1, <2>4
  <2>5. CASE S \cap {0, 1, 2} = {} /\ 3 \in S
    BY <2>1, <2>5
  <2>6. CASE S \cap {0, 1, 2, 3} = {} /\ S \cap {4, 5, 6, 7} # {}
    BY <2>1, <2>6
  <2>7. S \cap {0, 1, 2, 3} # {} \/ S \cap {4, 5, 6, 7} # {}
    <3>1. PICK j \in S : TRUE
      OBVIOUS
    <3>2. j \in {0, 1, 2, 3} \/ j \in {4, 5, 6, 7}
      BY <3>1
    <3> QED BY <3>1, <3>2
  <2>8. S \cap {0, 1, 2, 3} # {} =>
          \/ 0 \in S
          \/ 0 \notin S /\ 1 \in S
          \/ S \cap {0, 1} = {} /\ 2 \in S
          \/ S \cap {0, 1, 2} = {} /\ 3 \in S
    OBVIOUS
  <2> QED BY <2>2, <2>3, <2>4, <2>5, <2>6, <2>7, <2>8
<1> QED BY <1>1 DEF Min

(* The arguments are small numbers.                                        *)
LEMMA Numbers ==
  ASSUME Typed
  PROVE  /\ Moves \subseteq 0 .. 7 /\ Moves \subseteq 0 .. NArgs - 1
         /\ \A i \in Moves : i \in Int /\ i >= 0 /\ i # TMP /\ i + 1 \in 0 .. NArgs
         /\ \A i \in Moves : from[i] \in Int
         /\ next \in Int /\ NArgs \in Int
<1>1. Moves \subseteq Args /\ next \in 0 .. NArgs /\ from \in [Moves -> 0 .. NArgs]
  BY DEF Typed
<1> QED BY <1>1, Machine

LEMMA InitControl == Init => ControlInv
<1> SUFFICES ASSUME Init PROVE ControlInv
  OBVIOUS
<1>1. /\ Moves \subseteq Args /\ moves \in [Moves -> Args]
      /\ loads \subseteq Args /\ loads \cap Moves = {}
  <2>1. CASE \E n \in 0 .. NArgs : \E M \in SUBSET (0 .. n - 1) :
               moves \in [M -> Args] /\ loads = (0 .. n - 1) \ M
    BY <2>1, Machine DEF Moves
  <2>2. CASE \E start \in Args : \E n \in 0 .. NArgs - start :
               moves = [i \in {} |-> 0] /\ loads = start .. start + n - 1
    BY <2>2, Machine DEF Moves
  <2> QED BY <2>1, <2>2 DEF Init
<1>2. Typed
  BY <1>1, Machine DEF Init, Typed, Statuses
<1>3. Len(stack) = 0
  BY DEF Init
<1>4. Nested /\ Scanned
  BY <1>1, <1>3 DEF Init, Nested, Scanned
<1>5. Saved /\ Visited
  BY <1>1, Machine DEF Init, Saved, Visited
<1>6. pc # "done"
  BY DEF Init
<1> QED BY <1>2, <1>4, <1>5, <1>6 DEF ControlInv

-----------------------------------------------------------------------------
(* A call of move_one for a move that has not begun: by lambda_vbind, or   *)
(* because the move reads the destination of the call on top.              *)
LEMMA BeginKeepsNested ==
  ASSUME ControlInv, NEW i \in Moves, Begin(i),
         status[i] = "TO_MOVE", moves[i] # i,
         stack # << >> => moves[i] = stack[Len(stack)],
         moves' = moves, pc' = pc, size' = size, loads' = loads
  PROVE  /\ stack' \in Seq(Moves) /\ status' \in [Moves -> Statuses]
         /\ Len(stack') = Len(stack) + 1
         /\ \A k \in 1 .. Len(stack) : stack'[k] = stack[k]
         /\ stack'[Len(stack) + 1] = i
         /\ \A j \in Moves : j # i => status'[j] = status[j]
         /\ status'[i] = "BEING_MOVED"
         /\ Nested'
<1> USE DEF ControlInv
<1>1. stack \in Seq(Moves) /\ status \in [Moves -> Statuses] /\ Moves' = Moves
  BY DEF Typed, Moves
<1>2. /\ stack' \in Seq(Moves)
      /\ Len(stack') = Len(stack) + 1
      /\ \A k \in 1 .. Len(stack) : stack'[k] = stack[k]
      /\ stack'[Len(stack) + 1] = i
  BY <1>1 DEF Begin
<1>3. /\ status' \in [Moves -> Statuses]
      /\ \A j \in Moves : j # i => status'[j] = status[j]
      /\ status'[i] = "BEING_MOVED"
  BY <1>1 DEF Begin, Statuses
<1>4. \A k \in 1 .. Len(stack) : stack[k] \in Moves /\ stack[k] # i
  BY <1>1 DEF Nested
<1>5. Len(stack) \in Nat /\ 1 .. Len(stack') = 1 .. Len(stack) \cup {Len(stack) + 1}
  BY <1>1, <1>2
<1>6. Nested'
  <2>1. \A k \in 1 .. Len(stack') : /\ status'[stack'[k]] = "BEING_MOVED"
                                    /\ moves[stack'[k]] # stack'[k]
    BY <1>2, <1>3, <1>4, <1>5 DEF Nested
  <2>2. \A k, l \in 1 .. Len(stack') : stack'[k] = stack'[l] => k = l
    BY <1>2, <1>4, <1>5 DEF Nested
  <2>3. \A j \in Moves : status'[j] = "BEING_MOVED" =>
          \E k \in 1 .. Len(stack') : stack'[k] = j
    <3> TAKE j \in Moves
    <3> HAVE status'[j] = "BEING_MOVED"
    <3>1. CASE j = i
      BY <3>1, <1>2, <1>5
    <3>2. CASE j # i
      <4>1. PICK k \in 1 .. Len(stack) : stack[k] = j
        BY <3>2, <1>3 DEF Nested
      <4> QED BY <4>1, <1>2, <1>5
    <3> QED BY <3>1, <3>2
  <2>4. \A k \in 1 .. Len(stack') - 1 : moves[stack'[k + 1]] = stack'[k]
    <3> TAKE k \in 1 .. Len(stack') - 1
    <3>1. CASE k = Len(stack)
      BY <3>1, <1>1, <1>2, <1>5
    <3>2. CASE k # Len(stack)
      <4>1. k \in 1 .. Len(stack) - 1 /\ k + 1 \in 1 .. Len(stack)
        BY <3>2, <1>2, <1>5
      <4> QED BY <4>1, <1>2 DEF Nested
    <3> QED BY <3>1, <3>2
  <2> QED BY <1>1, <2>1, <2>2, <2>3, <2>4 DEF Nested
<1> QED BY <1>2, <1>3, <1>6

LEMMA StartMoveKeepsControl ==
  ASSUME ControlInv, StartMove
  PROVE  ControlInv'
<1> DEFINE i == Min(Unstarted)
<1>1. /\ stack = << >> /\ pc = "moving" /\ pc' = pc /\ size' = size
      /\ moves' = moves /\ loads' = loads /\ src' = src /\ from' = from
      /\ Begin(i) /\ next' = i + 1 /\ Moves' = Moves /\ Len(stack) = 0
  BY DEF StartMove, Moves
<1>2. Unstarted \in SUBSET (0 .. 7) /\ Unstarted # {}
  BY Numbers DEF StartMove, Unstarted, ControlInv
<1>3. i \in Unstarted /\ \A j \in Unstarted : i <= j
  BY <1>2, MinIsLeast
<1>4. i \in Moves /\ i \in 0 .. NArgs - 1 /\ status[i] = "TO_MOVE" /\ src[i] # i
  BY <1>3, Machine DEF Unstarted, ControlInv, Typed
<1>5. src[i] = moves[i]
  BY <1>4 DEF ControlInv, Saved
<1>6. /\ stack' \in Seq(Moves) /\ status' \in [Moves -> Statuses]
      /\ Len(stack') = 1 /\ stack'[1] = i
      /\ \A j \in Moves : j # i => status'[j] = status[j]
      /\ status'[i] = "BEING_MOVED"
      /\ Nested'
  BY <1>1, <1>4, <1>5, BeginKeepsNested
<1> HIDE DEF i
<1>7. Typed'
  <2>1. i + 1 \in 0 .. NArgs
    BY <1>4, Numbers DEF ControlInv
  <2> QED BY <2>1, <1>1, <1>6 DEF ControlInv, Typed
<1>8. Saved'
  <2>1. \A j \in Moves : status[j] # "BEING_MOVED"
    BY <1>1 DEF ControlInv, Nested
  <2> QED BY <2>1, <1>1, <1>4, <1>5, <1>6 DEF ControlInv, Saved
<1>10. Scanned'
  <2>1. from[i] = 0 /\ \A j \in Moves : status'[j] = "TO_MOVE" => from[j] = 0
    BY <1>4, <1>6 DEF ControlInv, Scanned
  <2>2. \A j \in Moves : ~ (j < from[i])
    BY <2>1, Numbers DEF ControlInv
  <2>3. \A k \in 1 .. Len(stack') : stack'[k] = i
    BY <1>6
  <2> QED BY <2>1, <2>2, <2>3, <1>1 DEF Scanned
<1>11. Visited'
  <2> SUFFICES ASSUME NEW j \in Moves, j < i + 1, status'[j] = "TO_MOVE"
               PROVE  moves[j] = j
    BY <1>1 DEF Visited
  <2>1. j # i /\ status[j] = "TO_MOVE" /\ src[j] = moves[j]
    BY <1>6 DEF ControlInv, Saved
  <2>2. j < i /\ j \in Int /\ next \in Int
    BY <2>1, <1>4, Machine DEF ControlInv, Typed
  <2>3. CASE j < next
    BY <2>1, <2>3 DEF ControlInv, Visited
  <2>4. CASE j >= next
    BY <2>1, <2>2, <2>4, <1>3, <1>4 DEF Unstarted
  <2> QED BY <2>2, <2>3, <2>4
<1>12. pc' # "done"
  BY <1>1
<1> QED BY <1>6, <1>7, <1>8, <1>10, <1>11, <1>12 DEF ControlInv

(* What both kinds of reader have in common.                               *)
LEMMA ReaderIsFirst ==
  ASSUME ControlInv, stack # << >>, Readers # {}
  PROVE  /\ Len(stack) \in Nat \ {0} /\ Top = stack[Len(stack)]
         /\ Top \in Moves /\ Top \in Args
         /\ Reader \in Moves /\ Reader \in Args
         /\ src[Reader] = Top /\ moves[Reader] = Top
         /\ status[Reader] # "MOVED" /\ from[Top] <= Reader
         /\ \A j \in Moves : src[j] = Top /\ j < Reader /\ j >= from[Top] => status[j] = "MOVED"
         /\ pc = "moving"
<1>1. Len(stack) \in Nat \ {0} /\ Top = stack[Len(stack)] /\ Top \in Moves /\ Top \in Args
  BY DEF ControlInv, Typed, Top
<1>2. Readers \in SUBSET (0 .. 7)
  BY Numbers DEF Readers, ControlInv
<1>3. Reader \in Readers /\ \A j \in Readers : Reader <= j
  BY <1>2, MinIsLeast DEF Reader
<1>4. /\ Reader \in Moves /\ Reader \in Args /\ Reader \in Int
      /\ src[Reader] = Top /\ status[Reader] # "MOVED" /\ from[Top] <= Reader
  BY <1>1, <1>3, Machine DEF Readers, ControlInv, Typed
<1>5. moves[Reader] = Top
  BY <1>1, <1>4, Machine DEF ControlInv, Saved
<1>6. ASSUME NEW j \in Moves, src[j] = Top, j < Reader, j >= from[Top], status[j] # "MOVED"
      PROVE  FALSE
  <2>1. j \in Readers /\ j \in Int
    BY <1>6, Machine DEF Readers, ControlInv, Typed
  <2> QED BY <2>1, <1>3, <1>4, <1>6
<1> QED BY <1>1, <1>4, <1>5, <1>6 DEF ControlInv, Typed

LEMMA MoveReaderFirstKeepsControl ==
  ASSUME ControlInv, MoveReaderFirst
  PROVE  ControlInv'
<1> DEFINE t == Top
           r == Reader
           n == Len(stack)
<1>1. /\ stack # << >> /\ Readers # {} /\ status[r] = "TO_MOVE"
      /\ pc' = pc /\ size' = size /\ next' = next
      /\ moves' = moves /\ loads' = loads /\ src' = src
      /\ Begin(r) /\ Moves' = Moves
      /\ from' = [from EXCEPT ![t] = r + 1]
  BY DEF MoveReaderFirst, Moves
<1>2. /\ n \in Nat \ {0} /\ t = stack[n]
      /\ t \in Moves /\ t \in Args /\ r \in Moves /\ r \in Args
      /\ src[r] = t /\ moves[r] = t /\ from[t] <= r
      /\ \A j \in Moves : src[j] = t /\ j < r /\ j >= from[t] => status[j] = "MOVED"
      /\ pc = "moving"
  BY <1>1, ReaderIsFirst
<1>3. status[t] = "BEING_MOVED" /\ r # t
  BY <1>1, <1>2 DEF ControlInv, Nested
<1>4. /\ stack' \in Seq(Moves) /\ status' \in [Moves -> Statuses]
      /\ Len(stack') = n + 1
      /\ \A k \in 1 .. n : stack'[k] = stack[k]
      /\ stack'[n + 1] = r
      /\ \A j \in Moves : j # r => status'[j] = status[j]
      /\ status'[r] = "BEING_MOVED"
      /\ Nested'
  BY <1>1, <1>2, <1>3, BeginKeepsNested
<1> HIDE DEF t, r, n
<1>5. /\ from \in [Moves -> 0 .. NArgs] /\ from' \in [Moves -> 0 .. NArgs]
      /\ from'[t] = r + 1 /\ \A j \in Moves : j # t => from'[j] = from[j]
  <2>1. from \in [Moves -> 0 .. NArgs] /\ r + 1 \in 0 .. NArgs
    BY <1>2, Numbers DEF ControlInv, Typed
  <2> QED BY <2>1, <1>1, <1>2
<1>6. Typed'
  BY <1>1, <1>4, <1>5 DEF ControlInv, Typed
<1>7. Saved'
  <2>1. stack'[1] = stack[1]
    BY <1>2, <1>4
  <2> QED BY <2>1, <1>1, <1>2, <1>4 DEF ControlInv, Saved
<1>9. Scanned'
  <2>1. \A i \in Moves : status'[i] = "TO_MOVE" => from'[i] = 0
    BY <1>3, <1>4, <1>5 DEF ControlInv, Scanned
  <2>2. ASSUME NEW k \in 1 .. n + 1, NEW j \in Moves,
               src[j] = stack'[k], j < from'[stack'[k]]
        PROVE  status'[j] = "MOVED" \/ (k < n + 1 /\ j = stack'[k + 1])
    <3>1. CASE k = n + 1
      <4>1. from'[r] = 0
        BY <1>1, <1>2, <1>3, <1>5 DEF ControlInv, Scanned
      <4> QED BY <4>1, <3>1, <2>2, <1>4, Machine DEF ControlInv, Typed
    <3>2. CASE k = n
      <4>1. stack'[k] = t /\ k \in 1 .. n
        BY <3>2, <1>2, <1>4
      <4>6. src[j] = t /\ j < r + 1 /\ j \in Int /\ r \in Int
        BY <4>1, <2>2, <1>2, <1>5, Numbers DEF ControlInv
      <4>2. CASE j = r
        BY <4>2, <3>2, <1>2, <1>4
      <4>3. CASE j < r /\ j >= from[t]
        BY <4>6, <4>3, <1>2, <1>4
      <4>4. CASE j < from[t]
        <5>1. status[j] = "MOVED"
          BY <4>1, <4>6, <4>4, <1>2 DEF ControlInv, Scanned, n
        <5> QED BY <5>1, <1>1, <1>4
      <4>5. from[t] \in Int
        BY <1>2, <1>5
      <4> QED BY <4>6, <4>2, <4>3, <4>4, <4>5
    <3>3. CASE k \in 1 .. n - 1
      <4>1. k \in 1 .. n /\ k + 1 \in 1 .. n /\ stack'[k] = stack[k] /\ stack'[k + 1] = stack[k + 1]
        BY <3>3, <1>2, <1>4
      <4>2. stack[k] \in Moves /\ stack[k] # t
        <5>1. n \in 1 .. n /\ k # n /\ stack \in Seq(Moves)
          BY <3>3, <1>2 DEF ControlInv, Typed
        <5> QED BY <5>1, <4>1, <1>2 DEF ControlInv, Nested, n
      <4>3. status[j] = "MOVED" \/ j = stack[k + 1]
        BY <4>1, <4>2, <2>2, <1>5 DEF ControlInv, Scanned, n
      <4> QED BY <4>1, <4>3, <3>3, <1>1, <1>2, <1>4
    <3> QED BY <3>1, <3>2, <3>3, <1>2
  <2> QED BY <2>1, <2>2, <1>1, <1>4 DEF Scanned
<1>10. Visited'
  BY <1>1, <1>4 DEF ControlInv, Visited
<1>11. pc' # "done"
  BY <1>1, <1>2
<1> QED BY <1>4, <1>6, <1>7, <1>9, <1>10, <1>11 DEF ControlInv

(* A cycle is closed at its outermost call, as a call in the middle reads  *)
(* the destination of its caller, which is not on top.                     *)
LEMMA ClosesAtOutermost ==
  ASSUME ControlInv, stack # << >>, Readers # {},
         status[Reader] = "BEING_MOVED"
  PROVE  stack[1] = Reader
<1>1. /\ Len(stack) \in Nat \ {0} /\ Top = stack[Len(stack)] /\ Reader \in Moves
      /\ moves[Reader] = Top
  BY ReaderIsFirst
<1>2. PICK k \in 1 .. Len(stack) : stack[k] = Reader
  BY <1>1 DEF ControlInv, Nested
<1>3. CASE k = 1
  BY <1>2, <1>3
<1>4. CASE k # 1
  <2>1. k - 1 \in 1 .. Len(stack) - 1 /\ k - 1 \in 1 .. Len(stack) /\ (k - 1) + 1 = k
        /\ Len(stack) \in 1 .. Len(stack) /\ k - 1 # Len(stack)
    BY <1>1, <1>2, <1>4
  <2>2. moves[stack[(k - 1) + 1]] = stack[k - 1]
    BY <2>1 DEF ControlInv, Nested
  <2>3. stack[k - 1] = stack[Len(stack)]
    BY <2>1, <2>2, <1>1, <1>2
  <2> QED BY <2>1, <2>3 DEF ControlInv, Nested
<1> QED BY <1>3, <1>4

LEMMA SaveSourceFacts ==
  ASSUME ControlInv, SaveSource
  PROVE  /\ stack # << >> /\ Readers # {} /\ status[Reader] = "BEING_MOVED" /\ pc = "moving"
         /\ pc' = pc /\ next' = next /\ moves' = moves /\ loads' = loads
         /\ status' = status /\ stack' = stack /\ Moves' = Moves
         /\ from' = [from EXCEPT ![Top] = Reader + 1]
         /\ Top \in Moves /\ Top \in Args /\ Reader \in Moves /\ Reader \in Args
         /\ src[Reader] = Top /\ moves[Reader] = Top /\ stack[1] = Reader
         /\ mov(TMP, Top)
         /\ src' \in [Moves -> Args \cup {TMP}]
         /\ src'[Reader] = TMP /\ \A j \in Moves : j # Reader => src'[j] = src[j]
<1>1. /\ stack # << >> /\ Readers # {} /\ status[Reader] = "BEING_MOVED"
      /\ pc' = pc /\ next' = next /\ moves' = moves /\ loads' = loads
      /\ status' = status /\ stack' = stack /\ Moves' = Moves
      /\ mov(TMP, src[Reader])
      /\ src' = [src EXCEPT ![Reader] = TMP]
      /\ from' = [from EXCEPT ![Top] = Reader + 1]
  BY DEF SaveSource, Moves
<1>2. /\ Top \in Moves /\ Top \in Args /\ Reader \in Moves /\ Reader \in Args
      /\ src[Reader] = Top /\ moves[Reader] = Top /\ pc = "moving"
  BY <1>1, ReaderIsFirst
<1>3. stack[1] = Reader
  BY <1>1, ClosesAtOutermost
<1>4. /\ src' \in [Moves -> Args \cup {TMP}]
      /\ src'[Reader] = TMP /\ \A j \in Moves : j # Reader => src'[j] = src[j]
  BY <1>1, <1>2 DEF ControlInv, Typed
<1> QED BY <1>1, <1>2, <1>3, <1>4

LEMMA SaveSourceKeepsControl ==
  ASSUME ControlInv, SaveSource
  PROVE  ControlInv'
<1> DEFINE t == Top
           r == Reader
           n == Len(stack)
<1>1. /\ pc' = pc /\ next' = next /\ moves' = moves /\ loads' = loads
      /\ status' = status /\ stack' = stack /\ Moves' = Moves
      /\ status[r] = "BEING_MOVED" /\ stack[1] = r
      /\ from' = [from EXCEPT ![t] = r + 1]
      /\ src' \in [Moves -> Args \cup {TMP}]
      /\ src'[r] = TMP /\ \A j \in Moves : j # r => src'[j] = src[j]
  BY SaveSourceFacts
<1>2. /\ n \in Nat \ {0} /\ t = stack[n]
      /\ t \in Moves /\ t \in Args /\ r \in Moves /\ r \in Args
      /\ src[r] = t /\ moves[r] = t /\ from[t] <= r
      /\ \A j \in Moves : src[j] = t /\ j < r /\ j >= from[t] => status[j] = "MOVED"
      /\ pc = "moving"
  BY SaveSourceFacts, ReaderIsFirst
<1>3. size' \in Nat
  BY SaveSourceFacts DEF mov, ControlInv, Typed
<1> HIDE DEF t, r, n
<1>4. /\ from \in [Moves -> 0 .. NArgs] /\ from' \in [Moves -> 0 .. NArgs]
      /\ from'[t] = r + 1 /\ \A j \in Moves : j # t => from'[j] = from[j]
  <2>1. from \in [Moves -> 0 .. NArgs] /\ r + 1 \in 0 .. NArgs
    BY <1>2, Numbers DEF ControlInv, Typed
  <2> QED BY <2>1, <1>1, <1>2
<1>5. Typed'
  BY <1>1, <1>3, <1>4 DEF ControlInv, Typed
<1>6. Nested'
  BY <1>1 DEF ControlInv, Nested
<1>7. Saved'
  BY <1>1 DEF ControlInv, Saved
<1>8. Scanned'
  <2>1. \A i \in Moves : status'[i] = "TO_MOVE" => from'[i] = 0
    <3>1. status[t] = "BEING_MOVED"
      BY <1>2 DEF ControlInv, Nested, n
    <3> QED BY <3>1, <1>1, <1>4 DEF ControlInv, Scanned
  <2>2. ASSUME NEW k \in 1 .. n, NEW j \in Moves,
               src'[j] = stack[k], j < from'[stack[k]]
        PROVE  status[j] = "MOVED" \/ (k < n /\ j = stack[k + 1])
    <3>1. stack[k] \in Moves /\ stack[k] # TMP
      BY <1>2, Numbers DEF ControlInv, Typed, n
    <3>2. j # r /\ src[j] = stack[k]
      BY <3>1, <2>2, <1>1
    <3>3. CASE stack[k] = t
      <4>1. j < r + 1 /\ j \in Int /\ r \in Int /\ from[t] \in Int
        BY <3>3, <2>2, <1>2, <1>4, Numbers DEF ControlInv
      <4>2. CASE j >= from[t]
        BY <4>1, <4>2, <3>2, <3>3, <1>2
      <4>3. CASE j < from[t]
        BY <4>3, <3>2, <3>3 DEF ControlInv, Scanned, n
      <4> QED BY <4>1, <4>2, <4>3
    <3>4. CASE stack[k] # t
      BY <3>1, <3>2, <3>4, <2>2, <1>4 DEF ControlInv, Scanned, n
    <3> QED BY <3>3, <3>4
  <2> QED BY <2>1, <2>2, <1>1 DEF Scanned, n
<1>9. Visited' /\ pc' # "done"
  BY <1>1, <1>2 DEF ControlInv, Visited
<1> QED BY <1>5, <1>6, <1>7, <1>8, <1>9 DEF ControlInv

(* The call on top returns.                                                *)
LEMMA Popped ==
  ASSUME NEW S, NEW s \in Seq(S), NEW n \in Nat, Len(s) = n + 1
  PROVE  /\ SubSeq(s, 1, n) \in Seq(S)
         /\ Len(SubSeq(s, 1, n)) = n
         /\ \A k \in 1 .. n : SubSeq(s, 1, n)[k] = s[k] /\ k \in 1 .. n + 1 /\ s[k] \in S
<1>1. \A k \in 1 .. n : k \in 1 .. n + 1 /\ s[k] \in S
  OBVIOUS
<1>2. /\ SubSeq(s, 1, n) \in Seq(S)
      /\ Len(SubSeq(s, 1, n)) = IF 1 <= n THEN n - 1 + 1 ELSE 0
      /\ \A k \in 1 .. n - 1 + 1 : SubSeq(s, 1, n)[k] = s[1 + k - 1]
  BY <1>1, SubSeqProperties
<1>3. (IF 1 <= n THEN n - 1 + 1 ELSE 0) = n /\ n - 1 + 1 = n /\ \A k \in 1 .. n : 1 + k - 1 = k
  OBVIOUS
<1> QED BY <1>1, <1>2, <1>3

(* All who read the destination of the call on top have been served.       *)
LEMMA EmitMoveFacts ==
  ASSUME ControlInv, EmitMove
  PROVE  /\ stack # << >> /\ pc = "moving"
         /\ pc' = pc /\ next' = next /\ moves' = moves /\ loads' = loads
         /\ src' = src /\ from' = from /\ Moves' = Moves
         /\ mov(Top, src[Top])
         /\ stack' = SubSeq(stack, 1, Len(stack) - 1)
         /\ Len(stack) \in Nat \ {0} /\ Top = stack[Len(stack)]
         /\ Top \in Moves /\ Top \in Args
         /\ status[Top] = "BEING_MOVED" /\ moves[Top] # Top
         /\ \A j \in Moves : src[j] = Top => status[j] = "MOVED"
         /\ status' \in [Moves -> Statuses]
         /\ status'[Top] = "MOVED" /\ \A j \in Moves : j # Top => status'[j] = status[j]
<1>1. /\ stack # << >> /\ Readers = {}
      /\ pc' = pc /\ next' = next /\ moves' = moves /\ loads' = loads
      /\ src' = src /\ from' = from /\ Moves' = Moves
      /\ mov(Top, src[Top])
      /\ status' = [status EXCEPT ![Top] = "MOVED"]
      /\ stack' = SubSeq(stack, 1, Len(stack) - 1)
  BY DEF EmitMove, Moves
<1>2. /\ stack \in Seq(Moves) /\ Moves \subseteq Args /\ (pc = "done" => stack = << >>)
      /\ pc \in {"moving", "done"}
  BY DEF ControlInv, Typed
<1>3. /\ Len(stack) \in Nat \ {0} /\ Len(stack) \in 1 .. Len(stack)
      /\ Top = stack[Len(stack)] /\ Top \in Moves
  BY <1>1, <1>2 DEF Top
<1>4. pc = "moving" /\ Top \in Args /\ status[Top] = "BEING_MOVED" /\ moves[Top] # Top
  BY <1>1, <1>2, <1>3 DEF ControlInv, Nested
<1>5. ASSUME NEW j \in Moves, src[j] = Top, status[j] # "MOVED"
      PROVE  FALSE
  <2>1. j \in Int /\ from[Top] \in Int
    BY <1>3, Numbers DEF ControlInv
  <2>2. CASE j >= from[Top]
    BY <2>2, <1>1, <1>5 DEF Readers
  <2>3. CASE j < from[Top]
    BY <2>3, <1>3, <1>5 DEF ControlInv, Scanned
  <2> QED BY <2>1, <2>2, <2>3
<1>6. /\ status' \in [Moves -> Statuses]
      /\ status'[Top] = "MOVED" /\ \A j \in Moves : j # Top => status'[j] = status[j]
  BY <1>1, <1>3 DEF ControlInv, Typed, Statuses
<1> QED BY <1>1, <1>3, <1>4, <1>5, <1>6

LEMMA EmitMoveKeepsControl ==
  ASSUME ControlInv, EmitMove
  PROVE  ControlInv'
<1> DEFINE t == Top
           n == Len(stack)
<1>1. /\ pc' = pc /\ next' = next /\ moves' = moves /\ loads' = loads
      /\ src' = src /\ from' = from /\ Moves' = Moves
      /\ stack' = SubSeq(stack, 1, n - 1)
      /\ status' \in [Moves -> Statuses]
      /\ status'[t] = "MOVED" /\ \A j \in Moves : j # t => status'[j] = status[j]
  BY EmitMoveFacts
<1>2. /\ n \in Nat \ {0} /\ n \in 1 .. n /\ t = stack[n] /\ t \in Moves /\ t \in Args
      /\ status[t] = "BEING_MOVED" /\ pc = "moving"
  BY EmitMoveFacts
<1>3. size' \in Nat
  BY EmitMoveFacts DEF mov, ControlInv, Typed
<1> HIDE DEF t, n
<1>4. /\ stack' \in Seq(Moves) /\ Len(stack') = n - 1
      /\ \A k \in 1 .. n - 1 : stack'[k] = stack[k] /\ k \in 1 .. n /\ stack[k] \in Moves
  <2>1. stack \in Seq(Moves)
    BY DEF ControlInv, Typed
  <2>2. n - 1 \in Nat /\ Len(stack) = (n - 1) + 1 /\ (n - 1) + 1 = n
    BY <1>2 DEF n
  <2> QED BY <2>1, <2>2, <1>1, Popped
<1>5. \A k \in 1 .. n - 1 : stack[k] # t
  BY <1>2, <1>4 DEF ControlInv, Nested, n
<1>6. Typed'
  BY <1>1, <1>3, <1>4 DEF ControlInv, Typed
<1>7. Nested'
  <2>1. \A k \in 1 .. n - 1 : status'[stack'[k]] = "BEING_MOVED" /\ moves[stack'[k]] # stack'[k]
    <3> TAKE k \in 1 .. n - 1
    <3>1. stack'[k] = stack[k] /\ k \in 1 .. n /\ stack[k] \in Moves /\ stack[k] # t
      BY <1>4, <1>5
    <3>2. status[stack[k]] = "BEING_MOVED" /\ moves[stack[k]] # stack[k]
      BY <3>1 DEF ControlInv, Nested, n
    <3> QED BY <3>1, <3>2, <1>1
  <2>2. \A k, l \in 1 .. n - 1 : stack'[k] = stack'[l] => k = l
    BY <1>4 DEF ControlInv, Nested, n
  <2>3. \A i \in Moves : status'[i] = "BEING_MOVED" => \E k \in 1 .. n - 1 : stack'[k] = i
    <3> TAKE i \in Moves
    <3> HAVE status'[i] = "BEING_MOVED"
    <3>1. i # t /\ status[i] = "BEING_MOVED"
      BY <1>1
    <3>2. PICK k \in 1 .. n : stack[k] = i
      BY <3>1 DEF ControlInv, Nested, n
    <3>3. k \in 1 .. n - 1
      BY <3>1, <3>2, <1>2
    <3> QED BY <3>2, <3>3, <1>4
  <2>4. \A k \in 1 .. (n - 1) - 1 : moves[stack'[k + 1]] = stack'[k]
    <3> TAKE k \in 1 .. (n - 1) - 1
    <3>1. k \in 1 .. n - 1 /\ k + 1 \in 1 .. n - 1
      BY <1>2
    <3> QED BY <3>1, <1>4 DEF ControlInv, Nested, n
  <2> QED BY <2>1, <2>2, <2>3, <2>4, <1>1, <1>4 DEF Nested
<1>8. Saved'
  <2> SUFFICES ASSUME NEW i \in Moves, src[i] # moves[i], status'[i] = "BEING_MOVED"
               PROVE  stack'[1] = i
    BY <1>1 DEF ControlInv, Saved
  <2>1. i # t /\ status[i] = "BEING_MOVED"
    BY <1>1
  <2>2. stack[1] = i
    BY <2>1 DEF ControlInv, Saved
  <2>3. 1 \in 1 .. n - 1
    BY <2>1, <2>2, <1>2
  <2> QED BY <2>2, <2>3, <1>4
<1>9. Scanned'
  <2>1. \A i \in Moves : status'[i] = "TO_MOVE" => from[i] = 0
    BY <1>1 DEF ControlInv, Scanned
  <2>2. ASSUME NEW k \in 1 .. n - 1, NEW j \in Moves,
               src[j] = stack'[k], j < from[stack'[k]]
        PROVE  status'[j] = "MOVED" \/ (k < n - 1 /\ j = stack'[k + 1])
    <3>1. k \in 1 .. n /\ stack'[k] = stack[k]
      BY <1>4
    <3>2. status[j] = "MOVED" \/ j = stack[k + 1]
      BY <3>1, <2>2 DEF ControlInv, Scanned, n
    <3>3. CASE status[j] = "MOVED"
      BY <3>3, <1>1
    <3>4. CASE j = stack[k + 1] /\ k = n - 1
      BY <3>4, <1>1, <1>2
    <3>5. CASE j = stack[k + 1] /\ k # n - 1
      <4>1. k < n - 1 /\ k + 1 \in 1 .. n - 1
        BY <3>5, <1>2
      <4> QED BY <4>1, <3>5, <1>4
    <3> QED BY <3>2, <3>3, <3>4, <3>5
  <2> QED BY <2>1, <2>2, <1>1, <1>4 DEF Scanned
<1>10. Visited' /\ pc' # "done"
  BY <1>1, <1>2 DEF ControlInv, Visited
<1> QED BY <1>6, <1>7, <1>8, <1>9, <1>10 DEF ControlInv

(* When the moves are done, only those of an argument to itself are left.  *)
LEMMA LoadAndJumpFacts ==
  ASSUME ControlInv, LoadAndJump
  PROVE  /\ pc = "moving" /\ pc' = "done" /\ stack = << >>
         /\ next' = next /\ moves' = moves /\ loads' = loads /\ src' = src
         /\ status' = status /\ stack' = stack /\ from' = from /\ Moves' = Moves
         /\ \A i \in Moves : status[i] # "MOVED" => moves[i] = i /\ src[i] = i
         /\ Cardinality(loads) \in Nat
<1>1. /\ stack = << >> /\ Unstarted = {} /\ pc = "moving" /\ pc' = "done" /\ Len(stack) = 0
      /\ next' = next /\ moves' = moves /\ loads' = loads /\ src' = src
      /\ status' = status /\ stack' = stack /\ from' = from /\ Moves' = Moves
  BY DEF LoadAndJump, Moves
<1>2. Cardinality(loads) \in Nat
  <2>1. NArgs - 1 \in Int /\ 0 \in Int /\ loads \subseteq Args /\ Args = 0 .. NArgs - 1
    BY Machine DEF ControlInv, Typed
  <2>2. IsFiniteSet(0 .. NArgs - 1) /\ loads \subseteq 0 .. NArgs - 1
    BY <2>1, FS_Interval
  <2>3. IsFiniteSet(loads)
    BY <2>2, FS_Subset
  <2> QED BY <2>3, FS_CardinalityType
<1>3. ASSUME NEW i \in Moves, status[i] # "MOVED"
      PROVE  moves[i] = i /\ src[i] = i
  <2>1. status[i] = "TO_MOVE"
    BY <1>1, <1>3 DEF ControlInv, Nested, Typed, Statuses
  <2>2. src[i] = moves[i]
    BY <2>1 DEF ControlInv, Saved
  <2>3. i \in Int /\ next \in Int
    BY Numbers DEF ControlInv
  <2>4. CASE i < next
    BY <2>1, <2>2, <2>4 DEF ControlInv, Visited
  <2>5. CASE i >= next
    BY <2>1, <2>2, <2>5, <1>1 DEF Unstarted
  <2> QED BY <2>3, <2>4, <2>5
<1> QED BY <1>1, <1>2, <1>3

LEMMA LoadAndJumpKeepsControl ==
  ASSUME ControlInv, LoadAndJump
  PROVE  ControlInv'
<1>1. size' \in Nat
  BY LoadAndJumpFacts DEF LoadAndJump, ControlInv, Typed
<1>2. Typed'
  BY <1>1, LoadAndJumpFacts DEF ControlInv, Typed
<1>3. Nested' /\ Saved' /\ Scanned' /\ Visited'
  BY LoadAndJumpFacts DEF ControlInv, Nested, Saved, Scanned, Visited
<1> QED BY <1>2, <1>3, LoadAndJumpFacts DEF ControlInv

(* What both kinds of call that begin have in common.                      *)
LEMMA BegunMove ==
  ASSUME ControlInv, StartMove \/ MoveReaderFirst
  PROVE  \E i \in Moves :
           status[i] = "TO_MOVE" /\ status' = [status EXCEPT ![i] = "BEING_MOVED"]
<1>1. CASE StartMove
  <2>1. Unstarted \in SUBSET (0 .. 7) /\ Unstarted # {}
    BY <1>1, Numbers DEF StartMove, Unstarted, ControlInv
  <2>2. Min(Unstarted) \in Unstarted
    BY <2>1, MinIsLeast
  <2> QED BY <1>1, <2>2 DEF StartMove, Begin, Unstarted
<1>2. CASE MoveReaderFirst
  BY <1>2, ReaderIsFirst DEF MoveReaderFirst, Begin
<1> QED BY <1>1, <1>2

LEMMA ControlStep == ControlInv /\ [Next]_vars => ControlInv'
<1> SUFFICES ASSUME ControlInv, [Next]_vars PROVE ControlInv'
  OBVIOUS
<1>1. CASE StartMove
  BY <1>1, StartMoveKeepsControl
<1>2. CASE MoveReaderFirst
  BY <1>2, MoveReaderFirstKeepsControl
<1>3. CASE SaveSource
  BY <1>3, SaveSourceKeepsControl
<1>4. CASE EmitMove
  BY <1>4, EmitMoveKeepsControl
<1>5. CASE LoadAndJump
  BY <1>5, LoadAndJumpKeepsControl
<1>6. CASE UNCHANGED vars
  <2>1. /\ pc' = pc /\ next' = next /\ moves' = moves /\ loads' = loads /\ src' = src
        /\ status' = status /\ stack' = stack /\ from' = from /\ size' = size /\ Moves' = Moves
    BY <1>6 DEF vars, Moves
  <2> QED BY <2>1 DEF ControlInv, Typed, Nested, Saved, Scanned, Visited
<1> QED BY <1>1, <1>2, <1>3, <1>4, <1>5, <1>6 DEF Next, Terminated

(* The invariant of the recursion, on both architectures.                  *)
THEOREM ControlInvariant == Spec => []ControlInv
<1> QED BY InitControl, ControlStep, PTL DEF Spec

(* The recursion of move_one never comes back to a move that has begun.    *)
THEOREM LambdaTypeCorrect == Spec => []LTypeOK
<1>1. ASSUME ControlInv PROVE LTypeOK
  <2>1. stack \in Seq(Moves) /\ DOMAIN stack = 1 .. Len(stack)
    BY <1>1 DEF ControlInv, Typed
  <2>2. \A k, l \in DOMAIN stack : stack[k] = stack[l] => k = l
    BY <1>1, <2>1 DEF ControlInv, Nested
  <2>3. {stack[k] : k \in DOMAIN stack} = {i \in Moves : status[i] = "BEING_MOVED"}
    BY <1>1, <2>1 DEF ControlInv, Nested
  <2> QED BY <1>1, <2>1, <2>2, <2>3 DEF LTypeOK, ControlInv, Typed, Statuses
<1> QED BY <1>1, ControlInvariant, PTL

-----------------------------------------------------------------------------
(* The registers, on aarch64. *)

LEMMA InitRegs ==
  ASSUME Arch = "aarch64", Init
  PROVE  RegInv
<1>1. ControlInv
  BY InitControl
<1>2. Moves \subseteq Args /\ moves \in [Moves -> Args]
  BY <1>1 DEF ControlInv, Typed
<1>3. Held /\ Pending /\ Moved /\ Kept
  BY <1>2, Aarch64 DEF Init, Held, Pending, Moved, Kept
<1> QED BY <1>3 DEF Init, RegInv, CallsAsAsked, ArgumentsMoved

(* A call that begins emits nothing.                                       *)
LEMMA BeginKeepsRegs ==
  ASSUME ControlInv, RegInv, ControlInv', StartMove \/ MoveReaderFirst
  PROVE  RegInv'
<1>1. /\ pc = "moving" /\ pc' = pc /\ moves' = moves /\ Moves' = Moves
      /\ loads' = loads /\ src' = src /\ regs' = regs
  BY DEF StartMove, MoveReaderFirst, Moves, ControlInv, Typed
<1>2. PICK i \in Moves : status[i] = "TO_MOVE" /\ status' = [status EXCEPT ![i] = "BEING_MOVED"]
  BY BegunMove
<1>3. \A j \in Moves : status'[j] = "MOVED" <=> status[j] = "MOVED"
  BY <1>2 DEF ControlInv, Typed, Statuses
<1>4. Held' /\ Pending' /\ Moved' /\ Kept'
  BY <1>1, <1>3 DEF RegInv, Held, Pending, Moved, Kept, Entry
<1> QED BY <1>1, <1>4 DEF RegInv, CallsAsAsked, ArgumentsMoved

LEMMA SaveSourceKeepsRegs ==
  ASSUME Arch = "aarch64", ControlInv, RegInv, SaveSource
  PROVE  RegInv'
<1> DEFINE t == Top
           r == Reader
<1>1. /\ pc = "moving" /\ pc' = pc /\ moves' = moves /\ loads' = loads
      /\ status' = status /\ Moves' = Moves /\ status[r] = "BEING_MOVED"
      /\ t \in Moves /\ t \in Args /\ r \in Moves
      /\ src[r] = t /\ moves[r] = t /\ stack[1] = r
      /\ mov(TMP, t)
      /\ src'[r] = TMP /\ \A j \in Moves : j # r => src'[j] = src[j]
  BY SaveSourceFacts
<1>2. regs' = [regs EXCEPT ![16] = regs[t]]
  <2>1. MovDest(TMP, t) = 16 /\ MovSource(t) = t
    BY Aarch64
  <2> QED BY <2>1, <1>1 DEF mov
<1> HIDE DEF t, r
<1>3. Held' /\ regs'[16] = regs[t] /\ \A x \in Args : regs'[x] = regs[x]
  BY <1>2, Aarch64 DEF RegInv, Held
<1>4. Pending'
  <2> SUFFICES ASSUME NEW j \in Moves, status[j] # "MOVED"
               PROVE  regs'[src'[j]] = Entry(moves[j])
    BY <1>1 DEF Pending
  <2>1. regs[src[j]] = Entry(moves[j]) /\ regs[src[r]] = Entry(moves[r])
    BY <1>1 DEF RegInv, Pending
  <2>2. CASE j = r
    BY <2>1, <2>2, <1>1, <1>3, Aarch64
  <2>3. CASE j # r
    <3>1. src[j] = moves[j]
      <4>1. src[j] = TMP => status[j] = "BEING_MOVED" /\ stack[1] = j
        <5>1. moves[j] # TMP
          BY Machine DEF ControlInv, Typed
        <5>2. status[j] \in Statuses
          BY DEF ControlInv, Typed
        <5> QED BY <5>1, <5>2 DEF ControlInv, Saved, Statuses
      <4> QED BY <4>1, <2>3, <1>1 DEF ControlInv, Saved
    <3>2. src[j] \in Args
      BY <3>1 DEF ControlInv, Typed
    <3> QED BY <3>2, <2>1, <2>3, <1>1, <1>3
  <2> QED BY <2>2, <2>3
<1>5. Moved' /\ Kept'
  BY <1>1, <1>3 DEF ControlInv, RegInv, Typed, Moved, Kept, Entry
<1> QED BY <1>1, <1>3, <1>4, <1>5 DEF RegInv, CallsAsAsked, ArgumentsMoved

LEMMA EmitMoveKeepsRegs ==
  ASSUME Arch = "aarch64", ControlInv, RegInv, EmitMove
  PROVE  RegInv'
<1> DEFINE t == Top
<1>1. /\ pc = "moving" /\ pc' = pc /\ moves' = moves /\ loads' = loads
      /\ src' = src /\ Moves' = Moves
      /\ mov(t, src[t])
      /\ t \in Moves /\ t \in Args /\ status[t] = "BEING_MOVED"
      /\ \A j \in Moves : src[j] = t => status[j] = "MOVED"
      /\ status'[t] = "MOVED" /\ \A j \in Moves : j # t => status'[j] = status[j]
  BY EmitMoveFacts
<1>2. regs' = [regs EXCEPT ![t] = regs[src[t]]]
  <2>1. MovDest(t, src[t]) = t /\ MovSource(src[t]) = src[t]
    BY Aarch64
  <2> QED BY <2>1, <1>1 DEF mov
<1> HIDE DEF t
<1>3. /\ Held' /\ regs'[t] = Entry(moves[t])
      /\ \A x \in Args \cup {16} : x # t => regs'[x] = regs[x]
  <2>1. regs[src[t]] = Entry(moves[t])
    BY <1>1 DEF RegInv, Pending
  <2> QED BY <2>1, <1>1, <1>2 DEF RegInv, Held
<1>4. Pending'
  <2> SUFFICES ASSUME NEW j \in Moves, status'[j] # "MOVED"
               PROVE  regs'[src[j]] = Entry(moves[j])
    BY <1>1 DEF Pending
  <2>1. j # t /\ status[j] # "MOVED"
    BY <1>1
  <2>2. regs[src[j]] = Entry(moves[j]) /\ src[j] \in Args \cup {16}
    BY <2>1, Aarch64 DEF ControlInv, RegInv, Pending, Typed
  <2> QED BY <2>1, <2>2, <1>1, <1>3
<1>5. Moved' /\ Kept'
  <2>1. Moves \subseteq Args
    BY DEF ControlInv, Typed
  <2>2. Moved'
    BY <2>1, <1>1, <1>3 DEF RegInv, Moved
  <2>3. Kept'
    BY <1>1, <1>3 DEF RegInv, Kept
  <2> QED BY <2>2, <2>3
<1> QED BY <1>1, <1>3, <1>4, <1>5 DEF RegInv, CallsAsAsked, ArgumentsMoved

LEMMA LoadAndJumpKeepsRegs ==
  ASSUME Arch = "aarch64", ControlInv, RegInv, LoadAndJump
  PROVE  RegInv'
<1>1. /\ pc = "moving" /\ pc' = "done" /\ moves' = moves /\ loads' = loads /\ src' = src
      /\ status' = status /\ Moves' = Moves
      /\ \A i \in Moves : status[i] # "MOVED" => moves[i] = i /\ src[i] = i
  BY LoadAndJumpFacts
<1>2. regs' = [r \in Args \cup {16} |-> Loaded(r)]
  BY Aarch64 DEF LoadAndJump
<1>3. \A k \in loads : regs'[k] = Literal(k)
  BY <1>2, Aarch64 DEF Loaded, ControlInv, Typed
<1>4. \A k \in Args \ loads : regs'[k] = regs[k]
  BY <1>2, Aarch64 DEF Loaded
<1>5. \A i \in Moves : regs[i] = Entry(moves[i]) /\ i \in Args \ loads
  BY <1>1 DEF ControlInv, RegInv, Typed, Pending, Moved
<1>6. CallsAsAsked'
  <2>1. \A i \in Moves : regs'[i] = Entry(moves[i])
    BY <1>4, <1>5
  <2>2. \A k \in Args \ (Moves \cup loads) : regs'[k] = Entry(k)
    BY <1>1, <1>4 DEF RegInv, Kept
  <2>3. Args' = Args /\ \A k : ArgReg(k)' = k /\ ArgReg(k) = k
    BY Aarch64
  <2>4. ArgumentsMoved'
    BY <2>1, <2>3, <1>1 DEF ArgumentsMoved, Entry
  <2> QED BY <2>2, <2>3, <2>4, <1>1, <1>3 DEF CallsAsAsked, Entry, Literal
<1>7. Pending'
  BY <1>1, <1>4, <1>5 DEF Pending
<1>8. Held' /\ Moved' /\ Kept'
  BY <1>1, <1>2 DEF Held, Moved, Kept
<1> QED BY <1>6, <1>7, <1>8 DEF RegInv

(* The invariant of lambda_vbind and move_one.                             *)
THEOREM LambdaInvariant == ASSUME Arch = "aarch64" PROVE Spec => []LambdaInv
<1>1. Init => LambdaInv
  BY InitControl, InitRegs DEF LambdaInv
<1>2. LambdaInv /\ [Next]_vars => LambdaInv'
  <2> SUFFICES ASSUME LambdaInv, [Next]_vars PROVE LambdaInv'
    OBVIOUS
  <2>1. ControlInv /\ RegInv /\ ControlInv'
    BY ControlStep DEF LambdaInv
  <2>2. CASE StartMove \/ MoveReaderFirst
    BY <2>1, <2>2, BeginKeepsRegs DEF LambdaInv
  <2>3. CASE SaveSource
    BY <2>1, <2>3, SaveSourceKeepsRegs DEF LambdaInv
  <2>4. CASE EmitMove
    BY <2>1, <2>4, EmitMoveKeepsRegs DEF LambdaInv
  <2>5. CASE LoadAndJump
    BY <2>1, <2>5, LoadAndJumpKeepsRegs DEF LambdaInv
  <2>6. CASE UNCHANGED vars
    <3>1. /\ pc' = pc /\ moves' = moves /\ loads' = loads /\ src' = src
          /\ status' = status /\ regs' = regs /\ Moves' = Moves
      BY <2>6 DEF vars, Moves
    <3>2. Held' /\ Pending' /\ Moved' /\ Kept'
      BY <3>1, <2>1 DEF RegInv, Held, Pending, Moved, Kept
    <3>3. CallsAsAsked'
      BY <3>1, <2>1 DEF RegInv, CallsAsAsked, ArgumentsMoved
    <3> QED BY <3>2, <3>3, <2>1 DEF LambdaInv, RegInv
  <2> QED BY <2>2, <2>3, <2>4, <2>5, <2>6 DEF Next, Terminated
<1> QED BY <1>1, <1>2, PTL DEF Spec

(* f gets the arguments lambda_bind was asked for: moved, however they are *)
(* permuted or repeated, loaded, or left alone.                            *)
THEOREM BindsAsAsked == ASSUME Arch = "aarch64" PROVE Spec => []CallsAsAsked
<1>1. LambdaInv => CallsAsAsked
  BY DEF LambdaInv, RegInv
<1> QED BY <1>1, LambdaInvariant, PTL

(* No move overwrites what another still has to read.                      *)
THEOREM SourcesStayIntact == ASSUME Arch = "aarch64" PROVE Spec => []PendingIntact
<1>1. LambdaInv => PendingIntact
  BY Aarch64 DEF LambdaInv, RegInv, Pending, PendingIntact
<1> QED BY <1>1, LambdaInvariant, PTL

-----------------------------------------------------------------------------
(* Where a value comes from: trails and cycles. *)

LEMMA UpToEight ==
  ASSUME NEW S, 0 \in S, \A n \in 0 .. 7 : n \in S => n + 1 \in S
  PROVE  \A n \in 0 .. 8 : n \in S
<1>1. 1 \in S /\ 2 \in S /\ 3 \in S /\ 4 \in S
  OBVIOUS
<1>2. 5 \in S /\ 6 \in S /\ 7 \in S /\ 8 \in S
  BY <1>1
<1>3. \A n \in 0 .. 8 : n \in {0, 1, 2, 3, 4, 5, 6, 7, 8}
  OBVIOUS
<1> QED BY <1>1, <1>2, <1>3

(* A trail meets its recursive definition.                                 *)
LEMMA TrailFacts ==
  ASSUME NEW i
  PROVE  /\ Trail(i)[0] = i
         /\ \A k \in 1 .. NArgs : Trail(i)[k] = Source(Trail(i)[k - 1])
<1> DEFINE Step(t, k) == IF k = 0 THEN i ELSE Source(t[k - 1])
           Along(t, n) == t = [k \in 0 .. n |-> Step(t, k)]
           S == {n \in 0 .. 8 : \E t : Along(t, n)}
<1>1. 0 \in S
  <2> DEFINE t == [k \in 0 .. 0 |-> Step(<< >>, 0)]
  <2>1. \A k \in 0 .. 0 : Step(t, k) = Step(<< >>, 0)
    OBVIOUS
  <2> HIDE DEF Step
  <2>2. Along(t, 0)
    BY <2>1
  <2> HIDE DEF t, Along
  <2> QED BY <2>2
<1>2. ASSUME NEW n \in 0 .. 7, n \in S PROVE n + 1 \in S
  <2>1. PICK t : Along(t, n)
    BY <1>2
  <2> DEFINE u == [k \in 0 .. n + 1 |-> IF k = n + 1 THEN Step(t, k) ELSE t[k]]
  <2>2. ASSUME NEW k \in 0 .. n + 1 PROVE u[k] = Step(u, k)
    <3>1. CASE k = 0
      BY <2>1, <3>1
    <3>2. CASE k \in 1 .. n
      <4>1. u[k] = t[k] /\ u[k - 1] = t[k - 1]
        BY <3>2
      <4>2. t[k] = Step(t, k)
        <5>1. k \in 0 .. n
          BY <3>2
        <5> HIDE DEF Step
        <5> QED BY <2>1, <5>1
      <4> HIDE DEF u
      <4> QED BY <4>1, <4>2
    <3>3. CASE k = n + 1
      BY <3>3
    <3> QED BY <3>1, <3>2, <3>3
  <2>3. \E v : Along(v, n + 1)
    <3>1. u = [k \in 0 .. n + 1 |-> u[k]]
      OBVIOUS
    <3> HIDE DEF u, Step
    <3>2. Along(u, n + 1)
      BY <2>2, <3>1
    <3> QED BY <3>2
  <2> HIDE DEF Along
  <2> QED BY <2>3
<1> HIDE DEF S
<1>3. \A n \in 0 .. 8 : n \in S
  BY <1>1, <1>2, UpToEight
<1>4. \E t : Along(t, NArgs)
  <2>1. NArgs \in S
    BY <1>3, Machine
  <2> HIDE DEF Along
  <2> QED BY <2>1 DEF S
<1>5. Along(Trail(i), NArgs)
  BY <1>4 DEF Trail
<1>6. 0 \in 0 .. NArgs /\ \A k \in 1 .. NArgs : k \in 0 .. NArgs /\ k # 0
  BY Machine
<1> HIDE DEF Step
<1>7. Trail(i)[0] = Step(Trail(i), 0)
      /\ \A k \in 1 .. NArgs : Trail(i)[k] = Step(Trail(i), k)
  BY <1>5, <1>6
<1> QED BY <1>6, <1>7 DEF Step

(* A trail goes on as that of any value on it.                             *)
LEMMA TrailFrom ==
  ASSUME NEW i, NEW m \in 0 .. NArgs, NEW j, Trail(i)[m] = j
  PROVE  \A k \in 0 .. NArgs : m + k <= NArgs => Trail(i)[m + k] = Trail(j)[k]
<1> DEFINE S == {k \in 0 .. 8 : m + k <= NArgs => Trail(i)[m + k] = Trail(j)[k]}
<1>1. 0 \in S
  <2>1. m + 0 = m /\ 0 \in 0 .. 8
    BY Machine
  <2> QED BY <2>1, TrailFacts
<1>2. ASSUME NEW k \in 0 .. 7, k \in S PROVE k + 1 \in S
  <2> SUFFICES ASSUME m + (k + 1) <= NArgs PROVE Trail(i)[m + (k + 1)] = Trail(j)[k + 1]
    BY <1>2
  <2>1. /\ m + (k + 1) \in 1 .. NArgs /\ m + (k + 1) - 1 = m + k
        /\ k + 1 \in 1 .. NArgs /\ k + 1 - 1 = k /\ m + k <= NArgs
    BY Machine
  <2>2. Trail(i)[m + k] = Trail(j)[k]
    BY <1>2, <2>1
  <2>3. /\ Trail(i)[m + (k + 1)] = Source(Trail(i)[m + k])
        /\ Trail(j)[k + 1] = Source(Trail(j)[k])
    BY <2>1, TrailFacts
  <2> QED BY <2>2, <2>3
<1> HIDE DEF S
<1>3. \A k \in 0 .. 8 : k \in S
  BY <1>1, <1>2, UpToEight
<1>4. \A k \in 0 .. NArgs : k \in 0 .. 8
  BY Machine
<1> QED BY <1>3, <1>4 DEF S

(* A set that a trail cannot leave holds all of it.                        *)
LEMMA TrailStays ==
  ASSUME NEW C, NEW i \in C, \A x \in C : Source(x) \in C
  PROVE  LeadsTo(i) \subseteq C
<1> DEFINE S == {k \in 0 .. 8 : k <= NArgs => Trail(i)[k] \in C}
<1>1. 0 \in S
  BY TrailFacts
<1>2. ASSUME NEW k \in 0 .. 7, k \in S PROVE k + 1 \in S
  <2> SUFFICES ASSUME k + 1 <= NArgs PROVE Trail(i)[k + 1] \in C
    BY <1>2
  <2>1. k + 1 \in 1 .. NArgs /\ k + 1 - 1 = k /\ k <= NArgs
    BY Machine
  <2>2. Trail(i)[k + 1] = Source(Trail(i)[k]) /\ Trail(i)[k] \in C
    BY <1>2, <2>1, TrailFacts
  <2> QED BY <2>2
<1> HIDE DEF S
<1>3. \A k \in 0 .. 8 : k \in S
  BY <1>1, <1>2, UpToEight
<1> QED BY <1>3, Machine DEF S, LeadsTo

(* A trail does not leave its cycle.                                       *)
LEMMA CycleIsClosed ==
  ASSUME NEW i, i \in LeadsTo(i), NEW x \in LeadsTo(i)
  PROVE  Source(x) \in LeadsTo(i)
<1>1. PICK p \in 1 .. NArgs : Trail(i)[p] = i
  BY DEF LeadsTo
<1>2. PICK k \in 1 .. NArgs : Trail(i)[k] = x
  BY DEF LeadsTo
<1>3. CASE k < NArgs
  <2>1. k + 1 \in 1 .. NArgs /\ k + 1 - 1 = k
    BY <1>3, Machine
  <2>2. Trail(i)[k + 1] = Source(x)
    BY <1>2, <2>1, TrailFacts
  <2> QED BY <2>1, <2>2 DEF LeadsTo
<1>4. CASE k = NArgs
  <2>1. /\ p \in 0 .. NArgs /\ NArgs - p \in 0 .. NArgs
        /\ p + (NArgs - p) = NArgs /\ NArgs <= NArgs
        /\ NArgs - p + 1 \in 1 .. NArgs /\ NArgs - p + 1 - 1 = NArgs - p
    BY Machine
  <2>2. Trail(i)[NArgs] = Trail(i)[NArgs - p]
    <3>1. \A m \in 0 .. NArgs : p + m <= NArgs => Trail(i)[p + m] = Trail(i)[m]
      BY <1>1, <2>1, TrailFrom
    <3> QED BY <3>1, <2>1
  <2>3. Trail(i)[NArgs - p + 1] = Source(x)
    BY <1>2, <1>4, <2>1, <2>2, TrailFacts
  <2> QED BY <2>1, <2>3 DEF LeadsTo
<1> QED BY <1>3, <1>4, Machine

(* Whoever is on the cycle of i has the same one.                          *)
LEMMA SameCycle ==
  ASSUME NEW i, i \in LeadsTo(i), NEW j \in LeadsTo(i)
  PROVE  j \in LeadsTo(j) /\ i \in LeadsTo(j) /\ LeadsTo(j) = LeadsTo(i)
<1>1. PICK p \in 1 .. NArgs : Trail(i)[p] = i
  BY DEF LeadsTo
<1> DEFINE A == {a \in 1 .. NArgs : Trail(i)[a] = j}
<1>2. PICK a \in 1 .. NArgs : Trail(i)[a] = j /\ \A b \in A : a <= b
  <2>1. A # {}
    BY DEF LeadsTo
  <2> DEFINE B == {a - 1 : a \in A}
  <2>2. B \in SUBSET (0 .. 7) /\ B # {}
    BY <2>1, Machine
  <2>3. PICK m \in B : \A b \in B : m <= b
    BY <2>2, MinIsLeast
  <2>4. PICK c \in A : m = c - 1
    BY <2>3
  <2>5. \A b \in A : c <= b
    <3> TAKE b \in A
    <3>1. b - 1 \in B /\ b \in Int /\ c \in Int
      BY <2>4, Machine
    <3>2. c - 1 <= b - 1
      BY <3>1, <2>3, <2>4
    <3> QED BY <3>1, <3>2
  <2> QED BY <2>4, <2>5
<1>3. a \in 1 .. NArgs /\ Trail(i)[a] = j
  BY <1>2
<1>4. \A k \in 0 .. NArgs : /\ p + k <= NArgs => Trail(i)[p + k] = Trail(i)[k]
                            /\ a + k <= NArgs => Trail(i)[a + k] = Trail(j)[k]
  <2>1. p \in 0 .. NArgs /\ a \in 0 .. NArgs
    BY Machine
  <2> QED BY <2>1, <1>1, <1>3, TrailFrom
<1>5. a <= p
  <2> SUFFICES ASSUME p < a PROVE FALSE
    BY <1>1, <1>3, Machine
  <2>1. a - p \in 0 .. NArgs /\ p + (a - p) = a
        /\ a <= NArgs /\ a - p \in 1 .. NArgs /\ ~(a <= a - p)
    BY <1>1, <1>3, Machine
  <2>2. Trail(i)[a] = Trail(i)[a - p]
    BY <2>1, <1>4
  <2> QED BY <2>1, <2>2, <1>2, <1>3
<1>6. i \in LeadsTo(j) /\ j \in LeadsTo(j)
  <2>1. /\ p - a \in 0 .. NArgs /\ a + (p - a) = p /\ a \in 0 .. NArgs
        /\ p <= NArgs /\ (p - a) + a = p /\ p \in 1 .. NArgs
    BY <1>1, <1>3, <1>5, Machine
  <2>3. Trail(j)[p - a] = i
    BY <2>1, <1>1, <1>4
  <2>4. \A k \in 0 .. NArgs : (p - a) + k <= NArgs => Trail(j)[(p - a) + k] = Trail(i)[k]
    BY <2>1, <2>3, TrailFrom
  <2>5. Trail(j)[p] = j
    BY <2>1, <2>4, <1>3
  <2>7. j \in LeadsTo(j)
    BY <2>1, <2>5 DEF LeadsTo
  <2>8. i \in LeadsTo(j)
    <3>1. CASE a = p
      BY <3>1, <1>1, <1>3, <2>7
    <3>2. CASE a < p
      <4>1. p - a \in 1 .. NArgs
        BY <3>2, <1>1, <1>3, Machine
      <4> QED BY <4>1, <2>3 DEF LeadsTo
    <3> QED BY <3>1, <3>2, <1>1, <1>3, <1>5, Machine
  <2> QED BY <2>7, <2>8
<1> HIDE DEF A
<1>7. LeadsTo(j) \subseteq LeadsTo(i)
  <2>1. \A x \in LeadsTo(i) : Source(x) \in LeadsTo(i)
    BY CycleIsClosed
  <2> QED BY <2>1, TrailStays
<1>8. LeadsTo(i) \subseteq LeadsTo(j)
  <2>1. \A x \in LeadsTo(j) : Source(x) \in LeadsTo(j)
    BY <1>6, CycleIsClosed
  <2> QED BY <2>1, <1>6, TrailStays
<1> QED BY <1>6, <1>7, <1>8

(* Somebody on the cycle of a move reads its destination.                  *)
LEMMA CycleHasReader ==
  ASSUME NEW i \in Moves, i \in LeadsTo(i)
  PROVE  \E p \in LeadsTo(i) : p \in Moves /\ moves[p] = i
<1>1. PICK k \in 1 .. NArgs : Trail(i)[k] = i
  BY DEF LeadsTo
<1> DEFINE p == Trail(i)[k - 1]
<1>2. i = Source(p)
  BY <1>1, TrailFacts
<1>3. p \in Moves /\ moves[p] = i
  BY <1>2 DEF Source
<1>4. p \in LeadsTo(i)
  <2>1. CASE k = 1
    BY <2>1, <1>1, TrailFacts
  <2>2. CASE k # 1
    <3>1. k - 1 \in 1 .. NArgs
      BY <2>2, <1>1, Machine
    <3> QED BY <3>1 DEF LeadsTo
  <2> QED BY <2>1, <2>2
<1> QED BY <1>3, <1>4

-----------------------------------------------------------------------------
(* The length of the code, on both architectures: an instruction for each  *)
(* move that is done and for each source that is saved, and one source is  *)
(* saved for each cycle.                                                   *)

MovedSet == {i \in Moves : status[i] = "MOVED"}
SavedSet == {i \in Moves : src[i] = TMP}

MovSize == IF Arch = "aarch64" THEN 4 ELSE 3

(* The instructions so far.                                                *)
Counted ==
  pc = "moving" => size = MovSize * (Cardinality(MovedSet) + Cardinality(SavedSet))

(* No two saved sources are on one cycle, and a cycle on which a move is   *)
(* done has one.                                                           *)
OncePerCycle ==
  /\ \A i \in SavedSet : i \in Proper /\ i \in LeadsTo(i)
  /\ \A i, j \in SavedSet : j \in LeadsTo(i) => i = j
  /\ \A i \in MovedSet :
       /\ i \in Proper
       /\ i \in LeadsTo(i) => \E s \in LeadsTo(i) : s \in SavedSet

SizeInv == ControlInv /\ Counted /\ OncePerCycle /\ SizeExact

(* What the moves were asked to be never changes.                          *)
LEMMA SameTrails ==
  ASSUME moves' = moves
  PROVE  /\ Moves' = Moves /\ Proper' = Proper /\ Cycles' = Cycles
         /\ \A i : LeadsTo(i)' = LeadsTo(i)
<1>1. Moves' = Moves
  BY DEF Moves
<1>2. \A k : Source(k)' = Source(k)
  BY <1>1 DEF Source
<1>3. \A i : Trail(i)' = Trail(i)
  BY <1>2 DEF Trail
<1>4. \A i : LeadsTo(i)' = LeadsTo(i)
  BY <1>3 DEF LeadsTo
<1>5. Proper' = Proper
  BY <1>1 DEF Proper
<1> QED BY <1>1, <1>4, <1>5 DEF Cycles

LEMMA MovesAreFinite ==
  ASSUME Typed
  PROVE  /\ IsFiniteSet(Args) /\ Cardinality(Args) = NArgs
         /\ \A S \in SUBSET Moves : IsFiniteSet(S) /\ Cardinality(S) \in Nat
<1>1. IsFiniteSet(0 .. NArgs - 1) /\ Cardinality(0 .. NArgs - 1) = NArgs
  <2>1. 0 \in Int /\ NArgs - 1 \in Int /\ ~ (0 > NArgs - 1) /\ (NArgs - 1) - 0 + 1 = NArgs
    BY Machine
  <2> QED BY <2>1, FS_Interval
<1>2. IsFiniteSet(Args) /\ Cardinality(Args) = NArgs
  BY <1>1, Machine
<1>3. ASSUME NEW S \in SUBSET Moves PROVE IsFiniteSet(S) /\ Cardinality(S) \in Nat
  <2>1. S \in SUBSET Args
    BY DEF Typed
  <2>2. IsFiniteSet(S)
    BY <2>1, <1>2, FS_Subset
  <2> QED BY <2>2, FS_CardinalityType
<1> QED BY <1>2, <1>3

(* The calls on the stack are a cycle when the outermost reads the         *)
(* destination of the innermost.                                           *)
LEMMA StackIsCycle ==
  ASSUME ControlInv, stack # << >>, moves[stack[1]] = stack[Len(stack)]
  PROVE  /\ stack[1] \in LeadsTo(stack[1])
         /\ \A x \in LeadsTo(stack[1]) : \E k \in 1 .. Len(stack) : stack[k] = x
<1> DEFINE n == Len(stack)
           r == stack[1]
           C == {stack[k] : k \in 1 .. n}
<1>1. n \in Nat \ {0} /\ \A k \in 1 .. n : stack[k] \in Moves /\ stack[k] \in Args
  BY DEF ControlInv, Typed
<1>2. \A k \in 1 .. n - 1 : Source(stack[k + 1]) = stack[k]
  <2> TAKE k \in 1 .. n - 1
  <2>1. k + 1 \in 1 .. n
    BY <1>1
  <2>2. moves[stack[k + 1]] = stack[k]
    BY DEF ControlInv, Nested
  <2> QED BY <2>1, <2>2, <1>1 DEF Source
<1>3. Source(r) = stack[n] /\ 1 \in 1 .. n /\ n \in 1 .. n
  BY <1>1 DEF Source
<1>4. n <= NArgs
  <2> DEFINE f == [k \in 1 .. n |-> stack[k]]
  <2>1. f \in Injection(1 .. n, Args)
    BY <1>1 DEF Injection, IsInjective, ControlInv, Nested
  <2>2. IsFiniteSet(Args) /\ Cardinality(Args) = NArgs
    BY MovesAreFinite DEF ControlInv
  <2> HIDE DEF f
  <2>3. Cardinality(1 .. n) <= NArgs
    BY <2>1, <2>2, FS_Injection
  <2>4. Cardinality(1 .. n) = n
    BY <1>1, FS_Interval
  <2> QED BY <2>3, <2>4
<1> HIDE DEF n, r
<1>5. LeadsTo(r) \subseteq C
  <2>1. \A x \in C : Source(x) \in C
    <3> SUFFICES ASSUME NEW k \in 1 .. n PROVE Source(stack[k]) \in C
      OBVIOUS
    <3>1. CASE k = 1
      BY <3>1, <1>3 DEF r
    <3>2. CASE k # 1
      <4>1. k - 1 \in 1 .. n - 1 /\ k - 1 \in 1 .. n /\ (k - 1) + 1 = k
        BY <3>2, <1>1
      <4>2. Source(stack[k]) = stack[k - 1]
        BY <4>1, <1>2
      <4> QED BY <4>1, <4>2
    <3> QED BY <3>1, <3>2
  <2>2. r \in C
    BY <1>3 DEF r
  <2> HIDE DEF C
  <2> QED BY <2>1, <2>2, TrailStays
<1>6. r \in LeadsTo(r)
  <2> DEFINE S == {k \in 0 .. 8 : k + 1 <= n => Trail(r)[k + 1] = stack[n - k]}
  <2>1. 0 \in S
    <3>1. Trail(r)[1] = Source(r)
      <4>1. 1 \in 1 .. NArgs /\ 1 - 1 = 0
        BY Machine
      <4> QED BY <4>1, TrailFacts
    <3>2. n - 0 = n /\ 0 + 1 = 1 /\ 0 \in 0 .. 8
      BY <1>1
    <3> QED BY <3>1, <3>2, <1>3
  <2>2. ASSUME NEW k \in 0 .. 7, k \in S PROVE k + 1 \in S
    <3> SUFFICES ASSUME k + 2 <= n PROVE Trail(r)[k + 2] = stack[n - (k + 1)]
      OBVIOUS
    <3>1. /\ k + 2 \in 1 .. NArgs /\ k + 2 - 1 = k + 1 /\ k + 1 <= n
          /\ n - (k + 1) \in 1 .. n - 1 /\ (n - (k + 1)) + 1 = n - k
      BY <1>1, <1>4, Machine
    <3>2. Trail(r)[k + 1] = stack[n - k]
      BY <2>2, <3>1
    <3>3. Trail(r)[k + 2] = Source(Trail(r)[k + 1])
      BY <3>1, TrailFacts
    <3>4. Source(stack[n - k]) = stack[n - (k + 1)]
      BY <3>1, <1>2
    <3> QED BY <3>2, <3>3, <3>4
  <2> HIDE DEF S
  <2>3. \A k \in 0 .. 8 : k \in S
    BY <2>1, <2>2, UpToEight
  <2>4. n - 1 \in 0 .. 8 /\ (n - 1) + 1 = n /\ n - (n - 1) = 1 /\ n \in 1 .. NArgs
    BY <1>1, <1>4, Machine
  <2>5. Trail(r)[n] = stack[1]
    BY <2>3, <2>4 DEF S
  <2> QED BY <2>4, <2>5 DEF LeadsTo, r
<1> QED BY <1>5, <1>6 DEF n, r

LEMMA InitSize == Init => SizeInv
<1> SUFFICES ASSUME Init PROVE SizeInv
  OBVIOUS
<1>1. ControlInv
  BY InitControl
<1>2. /\ pc = "moving" /\ size = 0 /\ src = moves
      /\ \A i \in Moves : status[i] = "TO_MOVE"
  BY DEF Init
<1>3. MovedSet = {}
  BY <1>2 DEF MovedSet
<1>4. SavedSet = {}
  BY <1>1, <1>2, Machine DEF SavedSet, ControlInv, Typed
<1>5. Counted
  BY <1>2, <1>3, <1>4, FS_EmptySet DEF Counted, MovSize
<1>6. OncePerCycle /\ SizeExact
  BY <1>2, <1>3, <1>4 DEF OncePerCycle, SizeExact
<1> QED BY <1>1, <1>5, <1>6 DEF SizeInv

(* A step that neither finishes a move nor saves a source.                 *)
LEMMA SameSets ==
  ASSUME SizeInv, pc' = pc, size' = size, moves' = moves, src' = src, loads' = loads,
         \A i \in Moves : (status'[i] = "MOVED") <=> (status[i] = "MOVED")
  PROVE  Counted' /\ OncePerCycle' /\ SizeExact'
<1>1. /\ Moves' = Moves /\ Proper' = Proper /\ Cycles' = Cycles
      /\ \A i : LeadsTo(i)' = LeadsTo(i)
  BY SameTrails
<1>2. MovedSet' = MovedSet /\ SavedSet' = SavedSet
  <2>1. TMP' = TMP
    BY DEF TMP
  <2> QED BY <1>1, <2>1 DEF MovedSet, SavedSet
<1>3. Counted'
  BY <1>2 DEF SizeInv, Counted, MovSize
<1>4. OncePerCycle'
  BY <1>1, <1>2 DEF SizeInv, OncePerCycle
<1>5. SizeExact'
  BY <1>1 DEF SizeInv, SizeExact, LAMBDA_BIND_SIZE
<1> QED BY <1>3, <1>4, <1>5

LEMMA BeginKeepsSize ==
  ASSUME SizeInv, StartMove \/ MoveReaderFirst
  PROVE  Counted' /\ OncePerCycle' /\ SizeExact'
<1>1. /\ pc' = pc /\ size' = size /\ moves' = moves /\ src' = src /\ loads' = loads
  BY DEF StartMove, MoveReaderFirst
<1>2. PICK i \in Moves : status[i] = "TO_MOVE" /\ status' = [status EXCEPT ![i] = "BEING_MOVED"]
  BY BegunMove DEF SizeInv
<1>3. \A j \in Moves : (status'[j] = "MOVED") <=> (status[j] = "MOVED")
  BY <1>2 DEF SizeInv, ControlInv, Typed, Statuses
<1> QED BY <1>1, <1>3, SameSets

(* A source is saved: of a cycle that had none.                            *)
LEMMA SaveSourceKeepsSize ==
  ASSUME SizeInv, SaveSource
  PROVE  Counted' /\ OncePerCycle' /\ SizeExact'
<1> DEFINE r == Reader
<1>1. /\ stack # << >> /\ status[r] = "BEING_MOVED" /\ pc = "moving" /\ pc' = pc
      /\ moves' = moves /\ status' = status
      /\ Top \in Args /\ r \in Moves /\ src[r] = Top /\ moves[r] = Top /\ stack[1] = r
      /\ mov(TMP, Top)
      /\ src'[r] = TMP /\ \A j \in Moves : j # r => src'[j] = src[j]
  BY SaveSourceFacts DEF SizeInv
<1>2. moves[stack[1]] = stack[Len(stack)]
  BY <1>1 DEF Top
<1> HIDE DEF r
<1>3. r \in LeadsTo(r) /\ \A x \in LeadsTo(r) : \E k \in 1 .. Len(stack) : stack[k] = x
  BY <1>1, <1>2, StackIsCycle DEF SizeInv
<1>4. r \in Proper
  <2>1. 1 \in 1 .. Len(stack)
    BY <1>1 DEF SizeInv, ControlInv, Typed
  <2> QED BY <2>1, <1>1 DEF SizeInv, ControlInv, Nested, Proper
<1>5. /\ Moves' = Moves /\ Proper' = Proper /\ Cycles' = Cycles
      /\ \A i : LeadsTo(i)' = LeadsTo(i)
  BY <1>1, SameTrails
<1>6. MovedSet' = MovedSet
  BY <1>1, <1>5 DEF MovedSet
<1>7. SavedSet' = SavedSet \cup {r} /\ r \notin SavedSet
  <2>1. TMP' = TMP /\ TMP # Top
    BY <1>1, Machine DEF TMP
  <2> QED BY <2>1, <1>1, <1>5 DEF SavedSet
<1>8. Counted'
  <2>1. IsFiniteSet(SavedSet) /\ Cardinality(SavedSet) \in Nat /\ Cardinality(MovedSet) \in Nat
    BY MovesAreFinite DEF SizeInv, ControlInv, SavedSet, MovedSet
  <2>2. Cardinality(SavedSet \cup {r}) = Cardinality(SavedSet) + 1
    BY <2>1, <1>7, FS_AddElement
  <2>3. size' = size + MovSize /\ MovSize' = MovSize /\ MovSize \in Nat
    BY <1>1 DEF mov, MovSize
  <2>4. size = MovSize * (Cardinality(MovedSet) + Cardinality(SavedSet))
    BY <1>1 DEF SizeInv, Counted
  <2>5. size' = MovSize * (Cardinality(MovedSet) + (Cardinality(SavedSet) + 1))
    BY <2>1, <2>3, <2>4 DEF MovSize
  <2> QED BY <2>2, <2>3, <2>5, <1>6, <1>7 DEF Counted
<1>9. \A j \in SavedSet : j \notin LeadsTo(r)
  <2> SUFFICES ASSUME NEW j \in SavedSet, j \in LeadsTo(r) PROVE FALSE
    OBVIOUS
  <2>1. PICK k \in 1 .. Len(stack) : stack[k] = j
    BY <1>3
  <2>2. j \in Moves /\ src[j] = TMP /\ status[j] = "BEING_MOVED"
    BY <2>1 DEF SavedSet, SizeInv, ControlInv, Nested
  <2>3. src[j] # moves[j]
    BY <2>2, Machine DEF SizeInv, ControlInv, Typed
  <2>4. stack[1] = j
    BY <2>2, <2>3 DEF SizeInv, ControlInv, Saved
  <2> QED BY <2>4, <1>1, <1>7
<1>10. OncePerCycle'
  <2>1. \A i \in SavedSet \cup {r} : i \in Proper /\ i \in LeadsTo(i)
    BY <1>3, <1>4 DEF SizeInv, OncePerCycle
  <2>2. ASSUME NEW i \in SavedSet \cup {r}, NEW j \in SavedSet \cup {r}, j \in LeadsTo(i)
        PROVE  i = j
    <3>1. CASE i \in SavedSet /\ j \in SavedSet
      BY <3>1, <2>2 DEF SizeInv, OncePerCycle
    <3>2. CASE i = r
      BY <3>2, <2>2, <1>9
    <3>3. CASE i \in SavedSet /\ j = r
      <4>1. i \in LeadsTo(i)
        BY <3>3, <2>1
      <4>2. i \in LeadsTo(r)
        BY <4>1, <3>3, <2>2, SameCycle
      <4> QED BY <4>2, <3>3, <1>9
    <3> QED BY <3>1, <3>2, <3>3
  <2>3. \A i \in MovedSet :
          /\ i \in Proper
          /\ i \in LeadsTo(i) => \E s \in LeadsTo(i) : s \in SavedSet \cup {r}
    BY DEF SizeInv, OncePerCycle
  <2> QED BY <2>1, <2>2, <2>3, <1>5, <1>6, <1>7 DEF OncePerCycle
<1>11. SizeExact'
  BY <1>1 DEF SizeExact
<1> QED BY <1>8, <1>10, <1>11

(* A move is done: if it is on a cycle, who read its destination is done,  *)
(* or reads a saved value now.                                             *)
LEMMA EmitMoveKeepsSize ==
  ASSUME SizeInv, EmitMove
  PROVE  Counted' /\ OncePerCycle' /\ SizeExact'
<1> DEFINE t == Top
<1>1. /\ pc = "moving" /\ pc' = pc /\ moves' = moves /\ src' = src
      /\ mov(t, src[t])
      /\ t \in Moves /\ status[t] = "BEING_MOVED" /\ moves[t] # t
      /\ \A j \in Moves : src[j] = t => status[j] = "MOVED"
      /\ status'[t] = "MOVED" /\ \A j \in Moves : j # t => status'[j] = status[j]
  BY EmitMoveFacts DEF SizeInv
<1> HIDE DEF t
<1>2. /\ Moves' = Moves /\ Proper' = Proper /\ Cycles' = Cycles
      /\ \A i : LeadsTo(i)' = LeadsTo(i)
  BY <1>1, SameTrails
<1>3. MovedSet' = MovedSet \cup {t} /\ t \notin MovedSet
  BY <1>1, <1>2 DEF MovedSet
<1>4. SavedSet' = SavedSet
  <2>1. TMP' = TMP
    BY DEF TMP
  <2> QED BY <2>1, <1>1, <1>2 DEF SavedSet
<1>5. Counted'
  <2>1. IsFiniteSet(MovedSet) /\ Cardinality(SavedSet) \in Nat /\ Cardinality(MovedSet) \in Nat
    BY MovesAreFinite DEF SizeInv, ControlInv, SavedSet, MovedSet
  <2>2. Cardinality(MovedSet \cup {t}) = Cardinality(MovedSet) + 1
    BY <2>1, <1>3, FS_AddElement
  <2>3. size' = size + MovSize /\ MovSize' = MovSize /\ MovSize \in Nat
    BY <1>1 DEF mov, MovSize
  <2>4. size = MovSize * (Cardinality(MovedSet) + Cardinality(SavedSet))
    BY <1>1 DEF SizeInv, Counted
  <2>5. size' = MovSize * ((Cardinality(MovedSet) + 1) + Cardinality(SavedSet))
    BY <2>1, <2>3, <2>4 DEF MovSize
  <2> QED BY <2>2, <2>3, <2>5, <1>3, <1>4 DEF Counted
<1>6. t \in Proper
  BY <1>1 DEF Proper
<1>7. t \in LeadsTo(t) => \E s \in LeadsTo(t) : s \in SavedSet
  <2> SUFFICES ASSUME t \in LeadsTo(t) PROVE \E s \in LeadsTo(t) : s \in SavedSet
    OBVIOUS
  <2>1. PICK p \in LeadsTo(t) : p \in Moves /\ moves[p] = t
    BY <1>1, CycleHasReader
  <2>2. CASE src[p] = TMP
    BY <2>1, <2>2 DEF SavedSet
  <2>3. CASE src[p] = t
    <3>1. p \in MovedSet
      BY <2>1, <2>3, <1>1 DEF MovedSet
    <3>2. p \in LeadsTo(p) /\ LeadsTo(p) = LeadsTo(t)
      BY <2>1, SameCycle
    <3> QED BY <3>1, <3>2 DEF SizeInv, OncePerCycle
  <2> QED BY <2>1, <2>2, <2>3 DEF SizeInv, ControlInv, Saved
<1>8. OncePerCycle'
  <2>1. \A i \in MovedSet \cup {t} :
          /\ i \in Proper
          /\ i \in LeadsTo(i) => \E s \in LeadsTo(i) : s \in SavedSet
    BY <1>6, <1>7 DEF SizeInv, OncePerCycle
  <2> QED BY <2>1, <1>2, <1>3, <1>4 DEF SizeInv, OncePerCycle
<1>9. SizeExact'
  BY <1>1 DEF SizeExact
<1> QED BY <1>5, <1>8, <1>9

(* All moves proper are done, and there is a saved source for each cycle.  *)
LEMMA LoadAndJumpKeepsSize ==
  ASSUME SizeInv, LoadAndJump
  PROVE  Counted' /\ OncePerCycle' /\ SizeExact'
<1>1. /\ pc = "moving" /\ pc' = "done" /\ moves' = moves /\ loads' = loads /\ src' = src
      /\ status' = status
      /\ \A i \in Moves : status[i] # "MOVED" => moves[i] = i /\ src[i] = i
      /\ Cardinality(loads) \in Nat
  BY LoadAndJumpFacts DEF SizeInv
<1>2. /\ Moves' = Moves /\ Proper' = Proper /\ Cycles' = Cycles
      /\ \A i : LeadsTo(i)' = LeadsTo(i)
  BY <1>1, SameTrails
<1>3. MovedSet' = MovedSet /\ SavedSet' = SavedSet
  <2>1. TMP' = TMP
    BY DEF TMP
  <2> QED BY <2>1, <1>1, <1>2 DEF MovedSet, SavedSet
<1>4. Counted' /\ OncePerCycle'
  BY <1>1, <1>2, <1>3 DEF SizeInv, Counted, OncePerCycle
<1>5. MovedSet = Proper
  <2>1. MovedSet \subseteq Proper
    BY DEF SizeInv, OncePerCycle
  <2>2. Proper \subseteq MovedSet
    BY <1>1 DEF Proper, MovedSet
  <2> QED BY <2>1, <2>2
<1>6. /\ IsFiniteSet(SavedSet)
      /\ Cardinality(SavedSet) \in Nat /\ Cardinality(Proper) \in Nat
  BY MovesAreFinite DEF SizeInv, ControlInv, SavedSet, Proper
<1>7. Cardinality(SavedSet) = Cardinality(Cycles)
  <2> DEFINE f == [i \in SavedSet |-> LeadsTo(i)]
  <2>1. f \in [SavedSet -> Cycles]
    BY DEF Cycles, SizeInv, OncePerCycle
  <2>2. f \in Injection(SavedSet, Cycles)
    <3> SUFFICES ASSUME NEW i \in SavedSet, NEW j \in SavedSet, LeadsTo(i) = LeadsTo(j)
                 PROVE  i = j
      BY <2>1 DEF Injection, IsInjective
    <3>1. j \in LeadsTo(i)
      BY DEF SizeInv, OncePerCycle
    <3> QED BY <3>1 DEF SizeInv, OncePerCycle
  <2>3. f \in Surjection(SavedSet, Cycles)
    <3> SUFFICES ASSUME NEW j \in Proper, j \in LeadsTo(j)
                 PROVE  \E i \in SavedSet : LeadsTo(i) = LeadsTo(j)
      BY <2>1 DEF Surjection, Cycles
    <3>1. PICK s \in LeadsTo(j) : s \in SavedSet
      BY <1>5 DEF SizeInv, OncePerCycle
    <3>2. LeadsTo(s) = LeadsTo(j)
      BY <3>1, SameCycle
    <3> QED BY <3>1, <3>2
  <2> HIDE DEF f
  <2> QED BY <2>2, <2>3, <1>6, FS_Surjection
<1>8. SizeExact'
  <2>1. size = MovSize * (Cardinality(Proper) + Cardinality(Cycles))
    BY <1>1, <1>5, <1>7 DEF SizeInv, Counted
  <2>2. size' = size + (IF Arch = "aarch64" THEN 12 * Cardinality(loads) + 16
                                            ELSE 10 * Cardinality(loads) + 12)
    BY DEF LoadAndJump
  <2>3. size' = LAMBDA_BIND_SIZE(Cardinality(Proper), Cardinality(loads), Cardinality(Cycles))
    BY <2>1, <2>2, <1>1, <1>6, <1>7 DEF MovSize, LAMBDA_BIND_SIZE
  <2> QED BY <2>3, <1>1, <1>2 DEF SizeExact, LAMBDA_BIND_SIZE
<1> QED BY <1>4, <1>8

LEMMA SizeStep == SizeInv /\ [Next]_vars => SizeInv'
<1> SUFFICES ASSUME SizeInv, [Next]_vars PROVE SizeInv'
  OBVIOUS
<1>1. ControlInv'
  BY ControlStep DEF SizeInv
<1>2. CASE StartMove \/ MoveReaderFirst
  BY <1>1, <1>2, BeginKeepsSize DEF SizeInv
<1>3. CASE SaveSource
  BY <1>1, <1>3, SaveSourceKeepsSize DEF SizeInv
<1>4. CASE EmitMove
  BY <1>1, <1>4, EmitMoveKeepsSize DEF SizeInv
<1>5. CASE LoadAndJump
  BY <1>1, <1>5, LoadAndJumpKeepsSize DEF SizeInv
<1>6. CASE UNCHANGED vars
  <2>1. /\ pc' = pc /\ size' = size /\ moves' = moves /\ src' = src
        /\ loads' = loads /\ status' = status
    BY <1>6 DEF vars
  <2> QED BY <2>1, <1>1, SameSets DEF SizeInv
<1> QED BY <1>2, <1>3, <1>4, <1>5, <1>6 DEF Next, Terminated

(* The code has the size lambda.h computes for it, on both architectures:  *)
(* move_one saves one source for each cycle, and no other.                 *)
THEOREM SizeAlwaysExact == Spec => []SizeExact
<1>1. SizeInv => SizeExact
  BY DEF SizeInv
<1> QED BY InitSize, SizeStep, <1>1, PTL DEF Spec
=============================================================================
