------------------------------ MODULE TraceLexer ------------------------------
(***************************************************************************)
(* From traces to a decompiled function: the lexers of heimdall            *)
(* (decompile/lexers), which turn the tree of traces of a function into    *)
(* statements and declarations, the matching of signatures (resolve.rs)    *)
(* and the ABI (out/solidity.rs).                                          *)
(*                                                                         *)
(* A trace is its operations, in order, and its children; the lexers are   *)
(* one walk over the tree of traces, and their input is that walk: "enter" *)
(* a trace, its operations, its children, "leave" it.  An operation is     *)
(* the name of its opcode and what the lexer looks up in the stack and the *)
(* memory: the condition of a JUMPI, the event of a LOG, the kind of data  *)
(* of a REVERT, the type a RETURN returns, the argument that an operation  *)
(* on call data is about and what it says of its type, and contains_if, if *)
(* the text of its statement contains "if": the lexer of Yul looks for     *)
(* that in place of a block, and "difficulty()" contains it.  How else a   *)
(* statement is written out is left out, and so are the maps of memory and *)
(* storage, from which nothing but that is read.                           *)
(***************************************************************************)
EXTENDS Tasks, Naturals, Sequences, FiniteSets, FiniteSetsExt, SequencesExt

StateAccessing ==
  {"BALANCE", "ORIGIN", "CALLER", "GASPRICE", "EXTCODESIZE", "EXTCODECOPY",
   "BLOCKHASH", "COINBASE", "TIMESTAMP", "NUMBER", "DIFFICULTY", "GASLIMIT",
   "CHAINID", "SELFBALANCE", "BASEFEE", "SLOAD", "SSTORE", "CREATE",
   "SELFDESTRUCT", "CALL", "CALLCODE", "DELEGATECALL", "STATICCALL", "CREATE2"}

StateSetting ==
  {"SSTORE", "CREATE", "SELFDESTRUCT", "CALL", "CALLCODE", "DELEGATECALL",
   "STATICCALL", "CREATE2"}

\* The operations that leave a statement and nothing else.  SELFDESTRUCT is not
\* among them: the lexers look for "SELDFESTRUCT".
Stating ==
  {"SSTORE", "MSTORE", "MSTORE8", "CALLDATACOPY", "CODECOPY", "EXTCODECOPY",
   "STATICCALL", "DELEGATECALL", "CALL", "CALLCODE", "CREATE", "CREATE2"}

\* Those that leave a statement at all, in Yul one more
Stated == Stating \union {"LOG", "RETURN", "RETURNDATACOPY"}

Absent == "none"

\* A function before its analysis
NewFunction ==
  [pure |-> TRUE, view |-> TRUE, payable |-> TRUE, logic |-> <<>>, events |-> {},
   errors |-> {}, returns |-> Absent, arguments |-> <<>>]

\* What an analysis carries from trace to trace: the function and the stack of
\* conditions; jumped is a local of each trace that is not left yet, the
\* innermost last.  A panic ends it.
NewAnalysis ==
  [function |-> NewFunction, conditional_map |-> <<>>, jumped |-> <<>>, panicked |-> FALSE]

Line(kind, about) == [kind |-> kind, about |-> about]

Push(a, line) == [a EXCEPT !.function.logic = Append(@, line)]

\* A statement, told apart when its text mentions what reads like an if
Statement(op) == Line(IF op.contains_if THEN "mention" ELSE "statement", op.name)

\* Every operation is looked at for what it says of the function's modifiers.
MarkModifiers(a, op) ==
  [a EXCEPT !.function.pure = @ /\ op.name \notin StateAccessing,
            !.function.view = @ /\ op.name \notin StateSetting]

\* The first emission of an event.  An operation that has recorded none is noted
\* and passed over; the event of a LOG0 has no topic, and the lexer unwraps the
\* first one.
Anonymous == "anonymous"

LogOf(a, op) ==
  IF op.event = Anonymous THEN [a EXCEPT !.panicked = TRUE]
  ELSE IF op.event \in a.function.events \union {Absent} THEN a
  ELSE Push([a EXCEPT !.function.events = @ \union {op.event}], Statement(op))

OpenBlock(a, condition) ==
  [Push(a, Line("if", condition)) EXCEPT !.jumped[Len(a.jumped)] = condition,
                                         !.conditional_map = Append(@, condition)]

\* A JUMPI of Solidity: the check for value sent and the compiler's own checks
\* open no block.
JumpiOf(a, op) ==
  CASE op.condition = "!msg.value" -> [a EXCEPT !.function.payable = FALSE]
    [] op.condition = "compiler"   -> a
    [] OTHER -> OpenBlock(a, op.condition)

\* The lines that open a block, and how many of them follow a line
Opening(logic) == {i \in DOMAIN logic : logic[i].kind \in {"if", "else"}}

Behind(logic, i) == Cardinality({j \in Opening(logic) : j > i})

\* Going backwards, each line that opens a block becomes the requirement of
\* the condition on top of the stack, as long as there is one.
RequireOpen(a) ==
  LET logic  == a.function.logic
      map    == a.conditional_map
      turned == {i \in Opening(logic) : Behind(logic, i) < Len(map)}
  IN  [a EXCEPT !.function.logic =
                  [i \in DOMAIN logic |->
                     IF i \in turned THEN Line("require", map[Len(map) - Behind(logic, i)])
                     ELSE logic[i]],
                !.conditional_map = SubSeq(@, 1, Len(@) - Cardinality(turned))]

\* A REVERT of Solidity: panics are the compiler's.
RevertOf(a, op) ==
  LET noted == IF op.data = "custom" THEN [a EXCEPT !.function.errors = @ \union {op.error}]
               ELSE a
  IN  IF op.data = "panic" THEN a
      ELSE IF Last(a.jumped) # Absent THEN Push(noted, Line("require", Last(a.jumped)))
      ELSE RequireOpen(noted)

\* A REVERT of Yul: the last block gets an alternative in front.
RevertElse(a, op) ==
  LET open == Opening(a.function.logic)
  IN  IF op.data = "panic" \/ open = {} THEN a
      ELSE [a EXCEPT !.function.logic[Max(open)].kind = "else"]

\* A type once found stays, unless it is the default.
ReturnOf(a, op) ==
  Push([a EXCEPT !.function.returns = IF @ \in {Absent, "uint256"} THEN op.returns ELSE @],
       Statement(op))

-----------------------------------------------------------------------------
(* Arguments                                                               *)

Slots(a) == DOMAIN a.function.arguments

SetArgument(a, slot, argument) ==
  [a EXCEPT !.function.arguments =
     [s \in Slots(a) \union {slot} |-> IF s = slot THEN argument ELSE @[s]]]

DefaultTypes == {"bytes", "uint256", "int256", "string", "bytes32", "uint", "int"}

\* CALLDATALOAD finds an argument, of unknown type at first.
LoadArgument(a, op) ==
  IF op.slot \in Slots(a) THEN a
  ELSE SetArgument(a, op.slot, [mask_size |-> 32, types |-> DefaultTypes, heuristics |-> {}])

BooleanTypes == {"bool", "bytes1", "uint8", "int8"}

\* ISZERO, AND and OR of an argument add to its types, a mask sets its size.
TypeArgument(a, op) ==
  IF op.slot \notin Slots(a) THEN a
  ELSE IF op.name = "ISZERO"
    THEN [a EXCEPT !.function.arguments[op.slot].types = @ \union BooleanTypes]
  ELSE SetArgument(a, op.slot,
         [mask_size  |-> op.mask_size,
          types      |-> a.function.arguments[op.slot].types \union op.types,
          heuristics |-> {}])

Integer == {"MUL", "MULMOD", "ADDMOD", "SMOD", "MOD", "DIV", "SDIV", "EXP", "LT", "GT",
            "SLT", "SGT", "SIGNEXTEND"}
Bytes   == {"SHR", "SHL", "SAR", "XOR", "BYTE"}

\* The last kind of arithmetic is what an argument is used as.
UseArgument(a, op) ==
  IF op.slot \notin Slots(a) THEN a
  ELSE [a EXCEPT !.function.arguments[op.slot].heuristics =
          IF op.name \in Integer THEN {"integer"} ELSE {"bytes"}]

-----------------------------------------------------------------------------
(* The lexers                                                              *)

Is(op, name) == op.name = name

\* One operation; yul tells which of the two lexers reads it.
AnalyzeOperation(before, op, yul) ==
  LET a == MarkModifiers(before, op)
  IN  CASE Is(op, "LOG")                -> LogOf(a, op)
        [] Is(op, "JUMPI")              -> IF yul THEN OpenBlock(a, op.condition)
                                           ELSE JumpiOf(a, op)
        [] Is(op, "REVERT")             -> IF yul THEN RevertElse(a, op) ELSE RevertOf(a, op)
        [] Is(op, "RETURN")             -> IF yul THEN Push(a, Statement(op))
                                           ELSE ReturnOf(a, op)
        [] op.name \in Stating \union (IF yul THEN {"RETURNDATACOPY"} ELSE {}) ->
             Push(a, Statement(op))
        [] Is(op, "CALLDATALOAD")       -> LoadArgument(a, op)
        [] op.name \in {"ISZERO", "AND", "OR"} -> TypeArgument(a, op)
        [] op.name \in Integer \union Bytes    -> UseArgument(a, op)
        [] OTHER -> a

\* Where the condition of the innermost trace is on the stack
Held(a) == {i \in DOMAIN a.conditional_map : a.conditional_map[i] = Last(a.jumped)}

\* mutant: a block is closed even if a revert has made it a requirement
CloseAlways(a) ==
  IF Last(a.jumped) = Absent THEN a ELSE Push(a, Line("}", Last(a.jumped)))

\* A block whose condition is still on the stack is closed behind its children.
CloseBlock(a) ==
  IF Last(a.jumped) = Absent \/ Held(a) = {} THEN a
  ELSE Push([a EXCEPT !.conditional_map = RemoveAt(@, Min(Held(a)))],
            Line("}", Last(a.jumped)))

\* In Yul the last line is dropped instead when its text contains "if".  That is
\* the line that opens the block when nothing followed it; a statement that
\* mentions the difficulty is dropped too, and its block stays open.
ContainsIf(line) == line.kind \in {"if", "else", "mention"}

CloseOrDrop(a) ==
  LET popped == [a EXCEPT !.conditional_map = RemoveAt(@, Max(Held(a)))]
  IN  IF Last(a.jumped) = Absent \/ Held(a) = {} THEN a
      ELSE IF ContainsIf(Last(a.function.logic))
        THEN [popped EXCEPT !.function.logic = Front(@)]
      ELSE Push(popped, Line("}", Last(a.jumped)))

EnterTrace(a) == [a EXCEPT !.jumped = Append(@, Absent)]

LeaveTrace(a, yul) == [(IF yul THEN CloseOrDrop(a) ELSE CloseBlock(a)) EXCEPT !.jumped = Front(@)]

Analyze(a, event, yul) ==
  IF a.panicked THEN a
  ELSE IF event.name = "enter" THEN EnterTrace(a)
  ELSE IF event.name = "leave" THEN LeaveTrace(a, yul)
  ELSE AnalyzeOperation(a, event, yul)

\* The analysis after the first i events
analyzed(events, yul) ==
  LET after[i \in 0..Len(events)] ==
        IF i = 0 THEN NewAnalysis ELSE Analyze(after[i - 1], events[i], yul)
  IN  after

analyze_sol(events) == analyzed(events, FALSE)[Len(events)].function
analyze_yul(events) == analyzed(events, TRUE)[Len(events)].function

-----------------------------------------------------------------------------
(* Signatures and the ABI                                                  *)

\* The known signatures whose parameters fit; an array fits every argument.
match_parameters(resolved, function) ==
  SelectSeq(resolved, LAMBDA r :
    /\ Len(r.inputs) = Cardinality(DOMAIN function.arguments)
    /\ \A i \in DOMAIN r.inputs :
         /\ (i - 1) \in DOMAIN function.arguments
         /\ r.inputs[i] = "[]" \/ r.inputs[i] \in function.arguments[i - 1].types)

state_mutability(function) ==
  CASE function.payable -> "payable"
    [] ~function.payable /\ function.pure -> "pure"
    [] ~function.payable /\ ~function.pure /\ function.view -> "view"
    [] OTHER -> "nonpayable"

\* The entries of one function: its own, its errors and its events; an error or
\* event that is there already is not entered again.
output(function, resolved) ==
  LET matched == match_parameters(resolved, function)
      inputs  == IF matched # <<>> THEN Len(Head(matched).inputs)
                 ELSE Cardinality(DOMAIN function.arguments)
  IN  [inputs |-> inputs, state_mutability |-> state_mutability(function),
       outputs |-> function.returns,
       constant |-> state_mutability(function) = "pure" /\ inputs = 0,
       errors |-> function.errors, events |-> function.events]

-----------------------------------------------------------------------------
(* The reference                                                            *)

Performed(events) == {events[i].name : i \in DOMAIN events}

BlocksOpened(logic, n) == Cardinality({i \in Opening(logic) : i <= n})
BlocksClosed(logic, n) == Cardinality({i \in DOMAIN logic : i <= n /\ logic[i].kind = "}"})

\* The blocks of the lines are those of the conditions: always in Solidity, and
\* in Yul as long as no statement mentions the difficulty.
Mentions(op) == op.name \in Stated /\ op.contains_if

Exact(events, yul) == yul => \A i \in DOMAIN events : ~Mentions(events[i])

Panics(events, yul) == analyzed(events, yul)[Len(events)].panicked

AllClosed(logic) == BlocksOpened(logic, Len(logic)) = BlocksClosed(logic, Len(logic))

\* However reverts turn conditions into requirements on the way, a lexer that
\* does not panic closes no block that is not open, and leaves none open, but
\* for the lexer of Yul behind a mention of the difficulty; and what the ABI
\* declares of the function agrees with everything its traces do.
DecompiledWell(events, resolved) ==
  /\ \A yul \in BOOLEAN :
       LET logic == (IF yul THEN analyze_yul(events) ELSE analyze_sol(events)).logic
       IN  ~Panics(events, yul) =>
             /\ Exact(events, yul) => AllClosed(logic)
             /\ \A n \in DOMAIN logic : BlocksClosed(logic, n) <= BlocksOpened(logic, n)
  /\ LET abi == output(analyze_sol(events), resolved)
     IN  ~Panics(events, FALSE) =>
           /\ abi.state_mutability = "pure" => Performed(events) \intersect StateAccessing = {}
           /\ abi.state_mutability = "view" => Performed(events) \intersect StateSetting = {}

\* What is assumed of the traces: they are walked from the root on, operations
\* come before children, and a JUMPI ends the operations of a trace.
Occurrences(events, i, name) == Cardinality({j \in 1..i : events[j].name = name})

IsWalk(events) ==
  /\ Len(events) \in Nat /\ DOMAIN events = 1..Len(events)
  /\ \A i \in DOMAIN events :
       /\ events[i].name # "enter" =>
            Occurrences(events, i - 1, "leave") < Occurrences(events, i - 1, "enter")
       /\ events[i].name \in {"JUMPI", "leave"} /\ i < Len(events) =>
            events[i + 1].name \in {"enter", "leave"}
       /\ events[i].name = "JUMPI" => events[i].condition # Absent
  /\ Occurrences(events, Len(events), "enter") = Occurrences(events, Len(events), "leave")

ASSUME LexerAssumption == \A input \in Inputs["decompile"] : IsWalk(input[1])

\* The decompiler's blocks are closed, but for what contains_if spoils, and its
\* declarations agree with the traces (lexers, out/solidity.rs).
FunctionsAreWhole == Given("decompile") => DecompiledWell(task.input[1], task.input[2])

\* What the comment in the lexer of Yul takes for granted: that a last line with
\* "if" in it is the if of an empty block, so that every block is closed or
\* dropped as a whole (yul.rs).
YulBlocksAreClosed ==
  Given("decompile") =>
    LET events == task.input[1]
    IN  ~Panics(events, TRUE) => AllClosed(analyze_yul(events).logic)
=============================================================================
