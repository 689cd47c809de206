----------------------------- MODULE Interpreter -----------------------------
(***************************************************************************)
(* revm's interpreter (crates/interpreter/src): bytecode that is analysed  *)
(* and padded, a stack of words, a memory that grows by words, and the     *)
(* opcodes that move them.  A CALL or CREATE hands control to the host,    *)
(* which runs another interpreter or answers at once; the frames are kept  *)
(* innermost last.                                                         *)
(*                                                                         *)
(* Words are numbers, memory is its length, and a value that the host or   *)
(* the arithmetic produces is any of HostWord.  USE_GAS is FALSE in this   *)
(* build, so nothing bounds a run but its code.  An out-of-range slice     *)
(* ends a frame with "Panic" and an allocation that fails with "Abort":    *)
(* both end the process.                                                   *)
(***************************************************************************)
EXTENDS Integers, SequencesExt

CONSTANTS
  Opcode,           \* byte |-> [op, n], the match of eval
  JUMPDEST, PUSH1,  \* two bytes that the analysis looks for
  WORD,             \* bytes of a word, 32 in the code
  BYTES,            \* values of a byte, 256 in the code
  USIZE_MAX,
  STACK_LIMIT, CALL_STACK_LIMIT,
  MAX_INITCODE_SIZE,
  \* bounds
  MaxAlloc,         \* the largest memory the allocator grants
  HostWord,         \* words the environment produces
  Programs, Callees,\* code of the first frame, of the others
  MaxReturn         \* return data of a host that answers itself

VARIABLES
  frames,   \* the Interpreters, innermost last
  last      \* history: "back" after a backward jump, "write" after a state change

vars == <<frames, last>>

-----------------------------------------------------------------------------
(* Code: padding and jump analysis                                          *)

PadLessByOne(code) == code \o [i \in 1..WORD |-> 0] \* mutant
Padded(code) == code \o [i \in 1..(WORD + 1) |-> 0]

PushLength(byte) == IF byte - PUSH1 \in 0..(WORD - 1) THEN byte - PUSH1 + 1 ELSE 0

\* The table of opcodes: the end of the padding stops, PUSH1 and its followers
\* are those that the analysis takes for them, DUP and SWAP reach down a word or
\* more.  An allocator grants less than the address space.
Byte == 0..(BYTES - 1)
ASSUME ConstAssumption ==
  /\ {WORD, BYTES} \subseteq Nat \ {0}
  /\ {USIZE_MAX, STACK_LIMIT, CALL_STACK_LIMIT, MAX_INITCODE_SIZE, MaxAlloc, MaxReturn}
       \subseteq Nat
  /\ MaxAlloc < USIZE_MAX
  /\ {JUMPDEST, PUSH1} \subseteq Byte
  /\ Opcode \in [Byte -> [op : STRING, n : Nat]]
  /\ Opcode[0].op = "STOP"
  /\ \A b \in Byte : /\ Opcode[b].op = "PUSH" <=> PushLength(b) > 0
                     /\ Opcode[b].op = "PUSH" => Opcode[b].n = PushLength(b)
                     /\ Opcode[b].op \in {"DUP", "SWAP"} => Opcode[b].n > 0
  /\ HostWord \subseteq Nat
  /\ Programs \union Callees \subseteq Seq(Byte)

\* Every JUMPDEST that the walk over instructions meets.
AnalyzeEveryByte(code) == {i \in 0..(Len(code) - 1) : code[i + 1] = JUMPDEST} \* mutant
analyze(code) ==
  LET walk[i \in 0..(Len(code) + WORD)] ==
        IF i >= Len(code) THEN {}
        ELSE (IF code[i + 1] = JUMPDEST THEN {i} ELSE {})
               \union walk[i + 1 + PushLength(code[i + 1])]
  IN walk[0]

is_valid_jump(f, dest) == dest \in f.jump_map

-----------------------------------------------------------------------------
(* One Interpreter                                                          *)

NoRange == [start |-> USIZE_MAX, len |-> 0]
Idle    == [op |-> "none", offset |-> 0, len |-> 0]

new(code, is_static, scheme) ==
  [code        |-> Padded(code),
   len         |-> Len(code),
   jump_map    |-> analyze(Padded(code)),
   ip          |-> 0,
   result      |-> "Continue",
   stack       |-> <<>>,
   memory      |-> 0,
   return_range|-> [start |-> 0, len |-> 0],
   buffer      |-> 0,          \* length of return_data_buffer
   is_static   |-> is_static,
   scheme      |-> scheme,     \* history: how the frame was called
   waits       |-> Idle]       \* the call whose answer it waits for

Fail(f, result) == [f EXCEPT !.result = result]
Then(f, g) == IF f.result = "Continue" THEN g ELSE f

\* The k-th word from the top.
Word(f, k) == f.stack[Len(f.stack) + 1 - k]
Fits(w) == w <= USIZE_MAX
Saturated(w) == IF Fits(w) THEN w ELSE USIZE_MAX

pop(f, n) ==
  IF Len(f.stack) < n THEN Fail(f, "StackUnderflow")
  ELSE [f EXCEPT !.stack = SubSeq(@, 1, Len(@) - n)]

push(f, w) ==
  IF Len(f.stack) + 1 > STACK_LIMIT THEN Fail(f, "StackOverflow")
  ELSE [f EXCEPT !.stack = Append(@, w)]

dup(f, n) ==
  IF Len(f.stack) < n THEN Fail(f, "StackUnderflow")
  ELSE IF Len(f.stack) + 1 > STACK_LIMIT THEN Fail(f, "StackOverflow")
  ELSE [f EXCEPT !.stack = Append(@, Word(f, n))]

swap(f, n) ==
  IF Len(f.stack) <= n THEN Fail(f, "StackUnderflow")
  ELSE [f EXCEPT !.stack[Len(f.stack)] = Word(f, n + 1),
                 !.stack[Len(f.stack) - n] = Word(f, 1)]

\* The slice of PUSH-n is read from the padded code behind the opcode.
push_slice(f, n) ==
  LET word[i \in 0..n] == IF i = 0 THEN 0 ELSE BYTES * word[i - 1] + f.code[f.ip + i]
      g == push(f, word[n])
  IN Then(g, [g EXCEPT !.ip = @ + n])

jump_to(f, dest) ==
  IF ~Fits(dest) \/ ~is_valid_jump(f, dest) THEN Fail(f, "InvalidJump")
  ELSE [f EXCEPT !.ip = dest]

jumpi(f, g) == IF Word(f, 2) # 0 THEN jump_to(g, Word(f, 1)) ELSE g

-----------------------------------------------------------------------------
(* Memory                                                                   *)

next_multiple_of_32(x) == WORD * ((x + WORD - 1) \div WORD)

\* A sum beyond usize saturates; a size beyond usize is refused.
ResizeToOffset(f, offset, len) == \* mutant
  [f EXCEPT !.memory = IF offset > @ THEN next_multiple_of_32(offset) ELSE @]
memory_resize(f, offset, len) ==
  LET size == next_multiple_of_32(Saturated(offset + len))
  IN IF ~Fits(size) THEN Fail(f, "MemoryOOG")
     ELSE IF size <= f.memory THEN f
     ELSE IF size > MaxAlloc THEN Fail(f, "Abort")
     ELSE [f EXCEPT !.memory = size]

\* get_slice, set, set_byte, set_u256 and set_data index the vector.
Slice(f, offset, len) ==
  IF len > 0 /\ offset + len > f.memory THEN Fail(f, "Panic") ELSE f

\* The operands of an opcode that works on memory of a given length.
Resized(f, offset, len) ==
  IF ~Fits(len) THEN Fail(f, "InvalidOperandOOG")
  ELSE IF len = 0 THEN f
  ELSE IF ~Fits(offset) THEN Fail(f, "InvalidOperandOOG")
  ELSE memory_resize(f, offset, len)

Access(f, offset, len) ==
  LET g == Resized(f, offset, len) IN Then(g, Slice(g, offset, len))

leave_with(f, offset, len, result) ==
  LET g == Resized(f, offset, len)
  IN Then(g, [g EXCEPT !.result = result,
                       !.return_range = IF len = 0 THEN NoRange
                                        ELSE [start |-> offset, len |-> len]])

\* The bounds of the data are checked before the memory is.
returndatacopy(f, offset, from, len) ==
  IF ~Fits(len) THEN Fail(f, "InvalidOperandOOG")
  ELSE IF Saturated(from) + len > f.buffer THEN Fail(f, "OutOfOffset")
  ELSE Access(f, offset, len)

-----------------------------------------------------------------------------
(* Steps of the innermost interpreter                                       *)

Top     == Last(frames)
Running == Top.result = "Continue" /\ Top.waits = Idle
Current == Opcode[Top.code[Top.ip + 1]]
N       == Current.n

Executing(ops) == Running /\ Current.op \in ops

\* step advances the instruction pointer before it evaluates the opcode.
StepInPlace == Top \* mutant
Fetched == [Top EXCEPT !.ip = @ + 1]

Becomes(f, what) ==
  /\ frames' = [frames EXCEPT ![Len(frames)] = f]
  /\ last' = what

Do(f) == Becomes(f, IF f.ip < Top.ip THEN "back" ELSE "none")

return_stop == Executing({"STOP"}) /\ Do(Fail(Fetched, "Stop"))

return_invalid ==
  \/ Executing({"INVALID"}) /\ Do(Fail(Fetched, "InvalidFEOpcode"))
  \/ Executing({"NOTFOUND"}) /\ Do(Fail(Fetched, "OpcodeNotFound"))

Jump ==
  /\ Executing({"JUMP"})
  /\ LET f == pop(Fetched, 1) IN Do(Then(f, jump_to(f, Word(Fetched, 1))))

JumpI ==
  /\ Executing({"JUMPI"})
  /\ LET f == pop(Fetched, 2) IN Do(Then(f, jumpi(Fetched, f)))

JumpDest == Executing({"JUMPDEST"}) /\ Do(Fetched)

Pop  == Executing({"POP"})  /\ Do(pop(Fetched, 1))
Push == Executing({"PUSH"}) /\ Do(push_slice(Fetched, N))
Dup  == Executing({"DUP"})  /\ Do(dup(Fetched, N))
Swap == Executing({"SWAP"}) /\ Do(swap(Fetched, N))

\* Opcodes that push a word and read no operand.
OwnState == [PC |-> Top.ip, MSIZE |-> Top.memory, CODESIZE |-> Top.len,
             RETURNDATASIZE |-> Top.buffer, PUSH0 |-> 0]
PushOwn == \E op \in DOMAIN OwnState : Executing({op}) /\ Do(push(Fetched, OwnState[op]))
PushEnvironment ==
  Executing({"ENV"}) /\ \E w \in HostWord : Do(push(Fetched, w))

\* Arithmetic replaces its n operands; balance, code and slot are the host's.
Compute ==
  /\ Executing({"COMPUTE"})
  /\ \E w \in HostWord : LET f == pop(Fetched, N) IN Do(Then(f, push(f, w)))

ReadHost ==
  /\ Executing({"READ"})
  /\ LET f == pop(Fetched, N)
     IN \/ Do(Then(f, Fail(f, "FatalExternalError")))
        \/ \E w \in HostWord : Do(Then(f, push(f, w)))

LoadMemory ==
  /\ Executing({"MLOAD"})
  /\ LET f == pop(Fetched, 1)
         g == Then(f, Access(f, Word(Fetched, 1), WORD))
     IN \E w \in HostWord : Do(Then(g, push(g, w)))

StoreMemory ==
  /\ Executing({"MSTORE"})
  /\ LET f == pop(Fetched, 2) IN Do(Then(f, Access(f, Word(Fetched, 1), N)))

Sha3 ==
  /\ Executing({"SHA3"})
  /\ LET f == pop(Fetched, 2)
         g == Then(f, Access(f, Word(Fetched, 1), Word(Fetched, 2)))
     IN \E w \in HostWord : Do(Then(g, push(g, w)))

Copy ==
  /\ Executing({"COPY"})
  /\ LET f == pop(Fetched, 3)
     IN Do(Then(f, Access(f, Word(Fetched, 1), Word(Fetched, 3))))

\* The host is asked for the code before the range is looked at.
ExtCodeCopy ==
  /\ Executing({"EXTCODECOPY"})
  /\ LET f == pop(Fetched, 1)
         g == Then(f, pop(f, 3))
     IN \/ Do(Then(g, Fail(g, "FatalExternalError")))
        \/ Do(Then(g, Access(g, Word(Fetched, 2), Word(Fetched, 4))))

ReturnDataCopy ==
  /\ Executing({"RETURNDATACOPY"})
  /\ LET f == pop(Fetched, 3)
     IN Do(Then(f, returndatacopy(f, Word(Fetched, 1), Word(Fetched, 2), Word(Fetched, 3))))

Return ==
  \E op \in {"Return", "Revert"} :
    /\ Executing({op})
    /\ LET f == pop(Fetched, 2)
       IN Do(Then(f, leave_with(f, Word(Fetched, 1), Word(Fetched, 2), op)))

-----------------------------------------------------------------------------
(* Opcodes that change the world                                            *)

check_staticcall(f) == IF f.is_static THEN Fail(f, "StateChangeDuringStaticCall") ELSE f

Wrote(f) ==
  Becomes(f, IF f.result \in {"Continue", "SelfDestruct"} THEN "write" ELSE "none")

Sstore ==
  /\ Executing({"SSTORE"})
  /\ LET g == check_staticcall(Fetched)
         f == Then(g, pop(g, 2))
     IN Wrote(f) \/ Do(Then(f, Fail(f, "FatalExternalError")))

\* The topics are popped one by one after their number is checked.
Log ==
  /\ Executing({"LOG"})
  /\ LET g == check_staticcall(Fetched)
         f == Then(g, pop(g, 2))
         h == Then(f, Access(f, Word(Fetched, 1), Word(Fetched, 2)))
     IN Wrote(Then(h, pop(h, N)))

SelfDestruct ==
  /\ Executing({"SELFDESTRUCT"})
  /\ LET g == check_staticcall(Fetched)
         f == Then(g, pop(g, 1))
     IN Wrote(Then(f, Fail(f, "SelfDestruct")))

\* The size of the init code is looked at before the memory is made.
init_code(f, offset, len) ==
  IF len > MAX_INITCODE_SIZE /\ Fits(len) /\ Fits(offset)
    THEN Fail(f, "CreateInitcodeSizeLimit")
  ELSE Access(f, offset, len)

\* CREATE reads its code, and CREATE2 pops its salt after that.
Create ==
  /\ Executing({"CREATE"})
  /\ LET g == check_staticcall(Fetched)
         f == Then(g, pop([g EXCEPT !.buffer = 0], 3))
         h == Then(f, init_code(f, Word(Fetched, 2), Word(Fetched, 3)))
         k == Then(h, pop(h, N))
     IN Wrote(Then(k, [k EXCEPT !.waits = [op |-> "CREATE", offset |-> 0, len |-> 0]]))

HasValue(op) == op \in {"CALL", "CALLCODE"}

\* The input and the output range are both made before the call.
CallInnerNoOutput(f, op, base) == \* mutant
  LET input == Access(f, Word(base, 1), Word(base, 2))
  IN Then(input,
          [input EXCEPT !.waits = [op |-> op, offset |-> Word(base, 3), len |-> Word(base, 4)]])
ranges(f, op, base) ==
  LET input  == Access(f, Word(base, 1), Word(base, 2))
      output == Then(input, Resized(input, Word(base, 3), Word(base, 4)))
  IN Then(output,
          [output EXCEPT !.waits = [op |-> op, offset |-> Word(base, 3), len |-> Word(base, 4)]])

Call ==
  \E op \in {"CALL", "CALLCODE", "DELEGATECALL", "STATICCALL"} :
    /\ Executing({op})
    /\ LET f == pop([Fetched EXCEPT !.buffer = 0], 2)
           g == Then(f, IF HasValue(op) THEN pop(f, 1) ELSE f)
           refused == op = "CALL" /\ f.is_static /\ Word(f, 1) # 0
           h == Then(g, IF refused THEN Fail(g, "CallNotAllowedInsideStatic") ELSE pop(g, 4))
           k == Then(h, ranges(h, op, g))
           pays == op = "CALL" /\ Word(f, 1) # 0
       IN Becomes(k, IF k.result = "Continue" /\ pays THEN "write" ELSE "none")

-----------------------------------------------------------------------------
(* The host: it runs the callee or answers by itself                        *)

Waiting == Top.result = "Continue" /\ Top.waits # Idle

\* call_inner tells the host of a static call, but every host that runs code,
\* FuzzHost and ReplayHost, makes the callee's interpreter with is_static false,
\* and so do their creations.  EVMImpl alone hands the flag on, to empty code.
callee_static == FALSE

Enter ==
  /\ Waiting /\ Len(frames) <= CALL_STACK_LIMIT
  /\ \E code \in Callees :
       frames' = Append(frames, new(code, callee_static, Top.waits.op))
  /\ last' = "none"

return_ok     == {"Stop", "Return", "SelfDestruct"}
return_revert == {"Revert", "CallTooDeep", "OutOfFund"}
Fatal         == {"CrossContractControlLeak", "ImplicitBugHit", "FatalExternalError"}

after_create(f, reason, n) ==
  LET g == [f EXCEPT !.waits = Idle, !.buffer = IF reason \in return_revert THEN n ELSE 0]
  IN IF reason = "FatalExternalError" THEN Fail(g, reason)
     ELSE push(g, IF reason \in return_ok THEN 1 ELSE 0)

after_call(f, reason, n) ==
  LET g    == [f EXCEPT !.waits = Idle, !.buffer = n]
      kept == Slice(g, f.waits.offset, IF f.waits.len < n THEN f.waits.len ELSE n)
  IN CASE reason \in return_ok     -> Then(kept, push(kept, 1))
       [] reason \in return_revert -> Then(kept, push(kept, 0))
       [] reason \in Fatal         -> Fail(g, reason)
       [] OTHER                    -> push(g, 0)

Answered(f, reason, n) ==
  IF f.waits.op = "CREATE" THEN after_create(f, reason, n) ELSE after_call(f, reason, n)

\* A precompile, an account without code, or a call refused by the host.
HostAnswers ==
  /\ Waiting
  /\ \/ \E n \in 0..MaxReturn : Becomes(Answered(Top, "Return", n), "none")
     \/ \E reason \in {"CallTooDeep", "PrecompileError"} \union Fatal :
          Becomes(Answered(Top, reason, 0), "none")

\* return_value: the range is read from the memory of the callee.
Leave ==
  /\ Len(frames) > 1
  /\ Top.result \notin {"Continue", "Panic", "Abort"}
  /\ LET caller == frames[Len(frames) - 1]
         r      == Top.return_range
         inside == r.start = USIZE_MAX \/ r.start + r.len <= Top.memory
     IN frames' = Append(SubSeq(frames, 1, Len(frames) - 2),
                    IF inside THEN Answered(caller, Top.result, r.len)
                    ELSE Fail(caller, "Panic"))
  /\ last' = "none"

Init ==
  /\ \E code \in Programs : frames = <<new(code, FALSE, "CALL")>>
  /\ last = "none"

Next ==
  \/ return_stop \/ return_invalid
  \/ Jump \/ JumpI \/ JumpDest \/ Pop \/ Push \/ Dup \/ Swap
  \/ PushOwn \/ PushEnvironment \/ Compute \/ ReadHost
  \/ LoadMemory \/ StoreMemory \/ Sha3 \/ Copy \/ ExtCodeCopy
  \/ ReturnDataCopy \/ Return
  \/ Sstore \/ Log \/ SelfDestruct \/ Create \/ Call
  \/ Enter \/ HostAnswers \/ Leave

\* run loops while the result is Continue: an interpreter is never paused.
Spec == Init /\ [][Next]_vars /\ WF_vars(Next)

-----------------------------------------------------------------------------
(* Properties                                                               *)

Frame == {frames[i] : i \in 1..Len(frames)}

\* The unchecked increments of the instruction pointer stay in the padded code.
PointerInCode == \A f \in Frame : f.ip \in 0..Len(f.code)
                                    /\ (f.result = "Continue" => f.ip < Len(f.code))

\* Reference: the offsets of code that are not data of a PUSH before them.
InstructionStarts(code) ==
  LET start[i \in 0..Len(code)] ==
        \/ i = 0
        \/ \E j \in 0..(i - 1) : i = j + 1 + PushLength(code[j + 1]) /\ start[j]
  IN {i \in 0..(Len(code) - 1) : start[i]}

\* No jump makes the interpreter execute the data of a PUSH.
ExecutesNoData ==
  \A f \in Frame : f.result = "Continue" => f.ip \in InstructionStarts(f.code)

\* The stack is written without a check of its capacity: it never passes the limit.
StackIsBounded == \A f \in Frame : Len(f.stack) <= STACK_LIMIT

\* No slice leaves the memory, in the opcode or when a callee returns, and the
\* memory is whole words.
MemoryCoversAccess ==
  \A f \in Frame : f.result # "Panic" /\ f.memory % WORD = 0

\* Below a STATICCALL nothing changes the world, at whatever depth: what the book
\* says of is_static, and what the hosts of this tree do not keep.
StaticIsReadOnly ==
  [][last' = "write" => \A f \in Frame : f.scheme # "STATICCALL"]_vars

\* Without gas a run need not end, but then it jumps back for ever.
Ended ==
  \/ Len(frames) = 1 /\ Top.result # "Continue"
  \/ Top.result \in {"Panic", "Abort"}
EndsOrJumpsBack == <>Ended \/ []<>(last = "back")

\* Nothing is executed or touched outside what was allocated: the pointer of
\* every frame is at an instruction of its padded code, and neither the stack
\* nor the memory is used beyond its bounds.
ExecutionInBounds ==
  /\ PointerInCode
  /\ ExecutesNoData
  /\ StackIsBounded
  /\ MemoryCoversAccess
=============================================================================
