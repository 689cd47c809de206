-------------------------- MODULE HeimdallExplorer --------------------------
(***************************************************************************)
(* What the decompiler does with its VM.  resolve_entry_point               *)
(* (common/src/ether/selectors.rs) runs the dispatcher with a selector      *)
(* until a comparison with it succeeds; map_selector and recursive_map      *)
(* (heimdall decompile/util.rs, and their copies in cfg/util.rs) run to the *)
(* entry point and trace both sides of every JUMPI from there, with one     *)
(* table of handled jumps that all the branches share.  In mode "execute"   *)
(* the VM runs beside the interpreter of the replay.                        *)
(***************************************************************************)
EXTENDS HeimdallVM

CONSTANTS
  Jobs,            \* [mode, code] to start with
  SELECTOR,        \* bytes of the selector that is resolved
  LOOP_STACK,      \* 16 in the code
  I32_MAX,
  EvmOpcode, EvmPUSH1, EVM_STACK_LIMIT, \* of the interpreter
  MaxStack         \* bound: nothing runs on beyond this stack

VARIABLES
  mode,       \* "execute", "resolve", "select", "map", "done" or "panic"
  vm,
  entry,      \* the entry point that was resolved
  jumps,      \* handled_jumps of resolve_entry_point
  handled,    \* handled_jumps of recursive_map: key |-> set of stacks
  pending,    \* the calls of recursive_map that wait, innermost first
  branch_count,
  traced,     \* history: instructions of the trace
  cut,        \* history: a heuristic or a failed jump ended a path
  frames, last \* the interpreter of mode "execute"

explorer == <<entry, jumps, handled, pending, branch_count, traced, cut>>
evm      == <<frames, last>>
vars     == <<mode, vm, explorer, evm>>

Evm == INSTANCE Interpreter WITH
  Opcode <- EvmOpcode, JUMPDEST <- JUMPDEST, PUSH1 <- EvmPUSH1, WORD <- BYTES,
  BYTES <- BYTE, STACK_LIMIT <- EVM_STACK_LIMIT, CALL_STACK_LIMIT <- 0,
  MAX_INITCODE_SIZE <- 0, HostWord <- {0}, Programs <- {}, Callees <- {}, MaxReturn <- 0

Running  == InCode(vm) /\ Len(vm.stack) <= MaxStack
Stepped  == step(vm)
Steps(v) == vm' = v
Stops(v) == Ends(v) \/ ~InCode(v)
Fails(v) == v.exitcode = PANIC

-----------------------------------------------------------------------------
(* execute, beside the interpreter                                          *)

Execute ==
  /\ mode = "execute" /\ Running
  /\ Steps(Stepped)
  /\ mode' = IF Fails(Stepped) THEN "panic" ELSE IF Stops(Stepped) THEN "done" ELSE mode
  /\ IF Evm!Running THEN Evm!Next ELSE UNCHANGED evm
  /\ UNCHANGED explorer

-----------------------------------------------------------------------------
(* resolve_entry_point                                                      *)

RECURSIVE Mentions(_, _)
Mentions(op, P) ==
  \/ P.code = op.code /\ P.raw = op.raw
  \/ \E i \in DOMAIN op.in : Mentions(op.in[i], P)

MatchesSelector(condition) ==
  /\ Mentions(condition, PushOf(0, decode(SELECTOR)))
  /\ Mentions(condition, Operation("CALLDATALOAD", 0, <<>>))
  /\ Mentions(condition, Operation("EQ", 0, <<>>))

\* A condition that is no i32 counts as 1.
JumpTaken(v)   == x(v)[2] = 1 \/ x(v)[2] > I32_MAX
Destination(v) == IF Fits(x(v)[1], U128_MAX) THEN x(v)[1] ELSE 0

\* The entry point is the destination, whether or not the jump succeeded.
Resolved(v) ==
  v.last.op = "JUMPI" /\ JumpTaken(v) /\ MatchesSelector(v.last.inputs[2].operation)

\* The table of handled jumps is one of i32: what is beyond counts as 0.
HandledJump(v) == IF Fits(x(v)[1], I32_MAX) THEN x(v)[1] ELSE 0

NeverRepeats(v) == FALSE \* mutant
Repeats(v) == v.last.op = "JUMPI" /\ JumpTaken(v) /\ HandledJump(v) \in jumps

Resolve ==
  /\ mode = "resolve" /\ Running
  /\ \/ /\ Fails(Stepped)
        /\ Steps(Stepped) /\ mode' = "panic" /\ UNCHANGED <<explorer, evm>>
     \/ /\ ~Fails(Stepped) /\ Resolved(Stepped)
        /\ entry' = Destination(Stepped)
        /\ mode' = IF entry' = 0 THEN "done" ELSE "select"
        /\ Steps(new(vm.bytecode, SELECTOR))
        /\ UNCHANGED <<jumps, handled, pending, branch_count, traced, cut, evm>>
     \/ /\ ~Fails(Stepped) /\ ~Resolved(Stepped)
        /\ Steps(Stepped)
        /\ mode' = IF Repeats(Stepped) \/ Stops(Stepped) THEN "done" ELSE mode
        /\ jumps' = IF Stepped.last.op = "JUMPI" /\ JumpTaken(Stepped)
                    THEN jumps \union {HandledJump(Stepped)} ELSE jumps
        /\ UNCHANGED <<entry, handled, pending, branch_count, traced, cut, evm>>

-----------------------------------------------------------------------------
(* map_selector: up to the first instruction beyond the entry point         *)

Select ==
  /\ mode = "select" /\ Running
  /\ IF vm.instruction <= entry
     THEN /\ Steps(Stepped)
          /\ mode' = IF Fails(Stepped) THEN "panic"
                     ELSE IF Stops(Stepped) THEN "map" ELSE mode
     ELSE mode' = "map" /\ UNCHANGED vm
  /\ UNCHANGED <<explorer, evm>>

-----------------------------------------------------------------------------
(* recursive_map                                                            *)

JumpFrame(v) == <<v.last.instruction, x(v)[1], Len(v.stack), x(v)[2] = 0>>
Sources(v)   == [i \in DOMAIN v.stack |-> solidify(v.stack[i].operation)]

SameSource(v) ==
  /\ Len(v.stack) > LOOP_STACK
  /\ \E i \in DOMAIN v.stack :
       Cardinality({j \in DOMAIN v.stack : Sources(v)[j] = Sources(v)[i]}) >= LOOP_STACK

DiffersInOpcode(v, stack) == \* mutant
  {i \in DOMAIN v.stack : v.stack[i].operation.code # stack[i].operation.code}
Differs(v, stack) == {i \in DOMAIN v.stack : v.stack[i] # stack[i]}

\* A frame that changed reads like one of the old stack, or the condition
\* mentions it.  Beyond that the comparison of texts may find likeness.
LooksAlike(v, stack) ==
  \E i \in Differs(v, stack) :
     \/ \E j \in DOMAIN stack : solidify(stack[j].operation) = Sources(v)[i]
     \/ Sources(v)[i] = solidify(v.last.inputs[2].operation)

IsLoop(v, stack, alike) ==
  Differs(v, stack) = {} \/ LooksAlike(v, stack) \/ alike

History(v) == IF JumpFrame(v) \in DOMAIN handled THEN handled[JumpFrame(v)] ELSE {}
Handled(v) ==
  (JumpFrame(v) :> (History(v) \union {v.stack})) @@ handled

\* The path that was not taken goes on with whatever state the jump left,
\* a failed one included, and its destination is not checked.
Wanders(v) == IF x(v)[2] = 0 THEN (x(v)[1] + 1) % (U128_MAX + 1) ELSE v.last.instruction + 1
NotTaken(v) ==
  IF x(v)[2] = 0 /\ ~Fits(x(v)[1], U128_MAX) THEN Panic(v)
  ELSE [v EXCEPT !.instruction = Wanders(v)]

\* The next call of recursive_map, or the end of the outermost.  A machine
\* that is not in its code returns at once.
Returns ==
  /\ pending' = IF pending = <<>> THEN <<>> ELSE Tail(pending)
  /\ IF pending = <<>> THEN mode' = "done" /\ UNCHANGED vm
     ELSE mode' = mode /\ Steps(Head(pending))

Tracing == mode = "map" /\ Running
Traces  == traced' = traced \union {vm.instruction}

\* An instruction that is no JUMPI.
Trace ==
  /\ Tracing /\ Stepped.last.op # "JUMPI"
  /\ Traces
  /\ CASE Fails(Stepped) -> Steps(Stepped) /\ mode' = "panic" /\ UNCHANGED pending
       [] Ends(Stepped) /\ ~Fails(Stepped) -> Returns
       [] OTHER -> Steps(Stepped) /\ UNCHANGED <<mode, pending>>
  /\ UNCHANGED <<entry, jumps, handled, branch_count, cut, evm>>

Failed(v) == v.last.op = "JUMPI" /\ Ends(v)

LoopDetected ==
  /\ Tracing /\ Stepped.last.op = "JUMPI" /\ ~Fails(Stepped)
  /\ Traces
  /\ \/ SameSource(Stepped) /\ cut' = TRUE
     \/ /\ ~SameSource(Stepped)
        /\ \E stack \in History(Stepped), alike \in BOOLEAN :
             /\ IsLoop(Stepped, stack, alike)
             /\ cut' = (cut \/ Differs(Stepped, stack) # {})
  /\ Returns
  /\ UNCHANGED <<entry, jumps, handled, branch_count, evm>>

Fork ==
  /\ Tracing /\ Stepped.last.op = "JUMPI" /\ ~Fails(Stepped) /\ ~SameSource(Stepped)
  /\ \A stack \in History(Stepped) : ~IsLoop(Stepped, stack, FALSE)
  /\ Traces
  /\ handled' = Handled(Stepped)
  /\ branch_count' = branch_count + 1
  /\ cut' = (cut \/ Failed(Stepped))
  /\ Steps(NotTaken(Stepped))
  /\ IF Fails(NotTaken(Stepped)) THEN mode' = "panic" /\ UNCHANGED pending
     ELSE mode' = mode /\ pending' = <<Stepped>> \o pending
  /\ UNCHANGED <<entry, jumps, evm>>

JumpPanics ==
  /\ Tracing /\ Stepped.last.op = "JUMPI" /\ Fails(Stepped)
  /\ Steps(Stepped) /\ mode' = "panic"
  /\ UNCHANGED <<explorer, evm>>

RunsOut ==
  /\ mode = "map" /\ ~InCode(vm)
  /\ Returns
  /\ UNCHANGED <<entry, jumps, handled, branch_count, traced, cut, evm>>

-----------------------------------------------------------------------------

Init ==
  /\ \E job \in Jobs :
       /\ mode = job.mode
       /\ vm = new(job.code, IF job.mode = "resolve" THEN SELECTOR ELSE <<>>)
       /\ frames = <<Evm!new(job.code, FALSE, "CALL")>>
  /\ entry = 0 /\ jumps = {} /\ handled = <<>> /\ pending = <<>>
  /\ branch_count = 0 /\ traced = {} /\ cut = FALSE /\ last = "none"

Next == Execute \/ Resolve \/ Select \/ Trace \/ LoopDetected \/ Fork \/ JumpPanics \/ RunsOut

\* One thread, which never waits.
Spec == Init /\ [][Next]_vars /\ WF_vars(Next)

-----------------------------------------------------------------------------
(* Properties                                                               *)

Operands == x(vm)
Overflows ==
  \/ vm.last.op = "ADDMOD" /\ Operands[1] + Operands[2] >= MODULUS
  \/ vm.last.op = "MULMOD" /\ Operands[1] * Operands[2] >= MODULUS
  \/ vm.last.op = "SAR" /\ signed(Operands[2]) < 0 /\ ~I256_KEEPS_SIGN

\* revm's bit tricks are the two's complement arithmetic they stand for; and
\* where the decompiler's VM computes a word at all, it is that word, but for
\* sums and products that pass a word before their modulus is taken.
WordsAreTwosComplement ==
  vm.last.op \in Computed =>
    /\ Revm(vm.last.op, Operands) = Reference(vm.last.op, Operands)
    /\ vm.exitcode = RUNNING /\ ~Overflows
         => vm.stack[1].value = Reference(vm.last.op, Operands)

\* As long as the interpreter goes on inside its code, the VM is at the same
\* instruction with the same stack.
FollowsInterpreter ==
  LET f == frames[1]
  IN f.ip > 0 /\ f.ip < f.len /\ f.result = "Continue"
     => /\ mode = "execute"
        /\ vm.instruction = f.ip + 1
        /\ [i \in DOMAIN vm.stack |-> vm.stack[i].value] = Reverse(f.stack)

\* Reference: the machines that a run can reach when every condition may hold
\* and fail, with the operations forgotten.
Plain(v) == [v EXCEPT !.last = NoInstruction,
                      !.stack = [i \in DOMAIN @ |-> [@[i] EXCEPT !.operation = default]]]
AtJumpI(v) == Opcode[v.bytecode[v.instruction]].op = "JUMPI" /\ Len(v.stack) >= 2
Successors(v) ==
  IF Stops(v) THEN {}
  ELSE IF AtJumpI(v) THEN {Plain(step([v EXCEPT !.stack[2].value = b])) : b \in {0, 1}}
  ELSE {Plain(step(v))}
RECURSIVE Reachable(_, _)
Reachable(seen, new_ones) ==
  IF new_ones = {} THEN seen
  ELSE LET next == UNION {Successors(v) : v \in new_ones}
       IN Reachable(seen \union new_ones, next \ (seen \union new_ones))

\* When no heuristic and no failed jump ends a path, the trace holds every
\* instruction that some outcome of the conditions executes: the jumps that
\* one branch has handled hide nothing from another.
ReachableIsTraced ==
  mode = "done" /\ entry = 0 /\ traced # {} /\ ~cut =>
    LET start == Plain(new(vm.bytecode, vm.calldata))
    IN {v.instruction : v \in {u \in Reachable({}, {start}) : ~Stops(u)}} \subseteq traced

\* The decompiler ends, unless a plain JUMP goes round for ever, or a JUMPI in
\* a run that follows one path only; the loops of JUMPIs it traces are cut.
JumpsBack(op) == vm.last.op = op /\ vm.instruction <= vm.last.instruction
GoesRound ==
  \/ JumpsBack("JUMP")
  \/ JumpsBack("JUMPI") /\ mode = "execute"
  \/ JumpsBack("JUMPI") /\ mode = "resolve" /\ ~JumpTaken(vm)
ExplorationEnds ==
  <>(mode \in {"done", "panic"} \/ Len(vm.stack) > MaxStack) \/ []<>GoesRound
=============================================================================
