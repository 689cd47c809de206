-------------------------------- MODULE Opcodes --------------------------------
(***************************************************************************)
(* The opcodes of the EVM as the two machines of this tree know them:      *)
(* revm's numbers (interpreter/src/instructions/opcode.rs) and what its    *)
(* eval does with each (instructions.rs); heimdall's table of operands     *)
(* (common/src/ether/evm/opcodes.rs) and the disassembler that reads it    *)
(* (disassemble.rs).                                                       *)
(*                                                                         *)
(* PUSH1 to PUSH32, DUP1 to DUP16, SWAP1 to SWAP16 and LOG0 to LOG4 are a  *)
(* name and a number; the number of any other opcode is 0.                 *)
(***************************************************************************)
EXTENDS Integers, SequencesExt

Byte256 == 0..255

\* Opcodes with consecutive numbers, and a family of them
Row(first, names) ==
  [b \in first..(first + Len(names) - 1) |-> [op |-> names[b - first + 1], n |-> 0]]
Family(first, name, from, to) ==
  [b \in first..(first + to - from) |-> [op |-> name, n |-> b - first + from]]

Numbers ==
  Row(0, <<"STOP", "ADD", "MUL", "SUB", "DIV", "SDIV", "MOD", "SMOD", "ADDMOD", "MULMOD",
           "EXP", "SIGNEXTEND">>)
  @@ Row(16, <<"LT", "GT", "SLT", "SGT", "EQ", "ISZERO", "AND", "OR", "XOR", "NOT", "BYTE",
               "SHL", "SHR", "SAR">>)
  @@ Row(32, <<"SHA3">>)
  @@ Row(80, <<"POP", "MLOAD", "MSTORE", "MSTORE8", "SLOAD", "SSTORE", "JUMP", "JUMPI", "PC",
               "MSIZE", "GAS", "JUMPDEST">>)
  @@ Row(95, <<"PUSH0">>)
  @@ Family(96, "PUSH", 1, 32) @@ Family(128, "DUP", 1, 16) @@ Family(144, "SWAP", 1, 16)

NumbersOfWorld ==
  Row(48, <<"ADDRESS", "BALANCE", "ORIGIN", "CALLER", "CALLVALUE", "CALLDATALOAD",
            "CALLDATASIZE", "CALLDATACOPY", "CODESIZE", "CODECOPY", "GASPRICE", "EXTCODESIZE",
            "EXTCODECOPY", "RETURNDATASIZE", "RETURNDATACOPY", "EXTCODEHASH", "BLOCKHASH",
            "COINBASE", "TIMESTAMP", "NUMBER", "DIFFICULTY", "GASLIMIT", "CHAINID",
            "SELFBALANCE", "BASEFEE">>)
  @@ Family(160, "LOG", 0, 4)
  @@ Row(240, <<"CREATE", "CALL", "CALLCODE", "RETURN", "DELEGATECALL", "CREATE2">>)
  @@ Row(250, <<"STATICCALL">>) @@ Row(253, <<"REVERT", "INVALID", "SELFDESTRUCT">>)

Known == Numbers @@ NumbersOfWorld
Unknown == [op |-> "unknown", n |-> 0]

\* The text form of a number; it writes KECCAK256 for SHA3.
as_str(b) == IF b \in DOMAIN Known THEN Known[b] ELSE Unknown

-----------------------------------------------------------------------------
(* What the interpreter does with an opcode: the kind of step, and its      *)
(* number of operands, bytes or topics                                      *)

Unary   == {"ISZERO", "NOT", "CALLDATALOAD"}
Binary2 == {"ADD", "MUL", "SUB", "DIV", "SDIV", "MOD", "SMOD", "EXP", "SIGNEXTEND", "LT", "GT",
            "SLT", "SGT", "EQ", "AND", "OR", "XOR", "BYTE", "SHL", "SHR", "SAR"}
Ternary == {"ADDMOD", "MULMOD"}
Environment == {"ADDRESS", "ORIGIN", "CALLER", "CALLVALUE", "CALLDATASIZE", "GASPRICE",
                "COINBASE", "TIMESTAMP", "NUMBER", "DIFFICULTY", "GASLIMIT", "CHAINID",
                "BASEFEE", "GAS"}
AskHost == {"BALANCE", "EXTCODESIZE", "EXTCODEHASH", "BLOCKHASH", "SLOAD"}

Kind(op, n) == [op |-> op, n |-> n]

eval(b) ==
  LET name == as_str(b).op
      n    == as_str(b).n
  IN CASE name \in Unary        -> Kind("COMPUTE", 1)
       [] name \in Binary2      -> Kind("COMPUTE", 2)
       [] name \in Ternary      -> Kind("COMPUTE", 3)
       [] name \in Environment  -> Kind("ENV", 0)
       [] name \in AskHost      -> Kind("READ", 1)
       [] name = "SELFBALANCE"  -> Kind("READ", 0)
       [] name = "MSTORE"       -> Kind("MSTORE", 32)
       [] name = "MSTORE8"      -> Kind("MSTORE", 1)
       [] name \in {"CALLDATACOPY", "CODECOPY"} -> Kind("COPY", 0)
       [] name = "CREATE2"      -> Kind("CREATE", 1)
       [] name = "RETURN"       -> Kind("Return", 0)
       [] name = "REVERT"       -> Kind("Revert", 0)
       [] name = "unknown"      -> Kind("NOTFOUND", 0)
       [] OTHER                 -> Kind(name, n)

\* The words a step takes off the stack, and those it puts there
Takes(k) ==
  CASE k.op \in {"COMPUTE", "READ", "DUP"} -> k.n
    [] k.op = "SWAP" -> k.n + 1
    [] k.op = "LOG"  -> 2 + k.n
    [] k.op = "CREATE" -> 3 + k.n
    [] k.op \in {"JUMP", "POP", "MLOAD", "SELFDESTRUCT"} -> 1
    [] k.op \in {"JUMPI", "MSTORE", "SSTORE", "SHA3", "Return", "Revert"} -> 2
    [] k.op \in {"COPY", "RETURNDATACOPY"} -> 3
    [] k.op = "EXTCODECOPY" -> 4
    [] k.op \in {"DELEGATECALL", "STATICCALL"} -> 6
    [] k.op \in {"CALL", "CALLCODE"} -> 7
    [] OTHER -> 0

Puts(k) ==
  CASE k.op \in {"DUP", "SWAP"} -> k.n + 1
    [] k.op \in {"COMPUTE", "READ", "ENV", "PUSH", "PUSH0", "PC", "MSIZE", "CODESIZE",
                 "RETURNDATASIZE", "MLOAD", "SHA3", "CREATE", "CALL", "CALLCODE",
                 "DELEGATECALL", "STATICCALL"} -> 1
    [] OTHER -> 0

-----------------------------------------------------------------------------
(* heimdall: the operands of an opcode                                      *)

Arity(inputs, outputs) == [inputs |-> inputs, outputs |-> outputs]

opcode(b) ==
  LET name == as_str(b).op
      n    == as_str(b).n
  IN CASE name = "DUP"  -> Arity(n, n + 1)
       [] name = "SWAP" -> Arity(n + 1, n + 1)
       [] name = "LOG"  -> Arity(n + 2, 0)
       [] name \in {"STOP", "JUMPDEST", "INVALID", "unknown"} -> Arity(0, 0)
       [] name \in {"POP", "JUMP", "SELFDESTRUCT"} -> Arity(1, 0)
       [] name \in {"MSTORE", "MSTORE8", "SSTORE", "JUMPI", "RETURN", "REVERT"} -> Arity(2, 0)
       [] name \in {"CALLDATACOPY", "CODECOPY", "RETURNDATACOPY"} -> Arity(3, 0)
       [] name = "EXTCODECOPY" -> Arity(4, 0)
       [] name \in Unary \union AskHost \union {"MLOAD"} -> Arity(1, 1)
       [] name \in Binary2 \union {"SHA3"} -> Arity(2, 1)
       [] name \in Ternary \union {"CREATE"} -> Arity(3, 1)
       [] name = "CREATE2" -> Arity(4, 1)
       [] name \in {"DELEGATECALL", "STATICCALL"} -> Arity(6, 1)
       [] name \in {"CALL", "CALLCODE"} -> Arity(7, 1)
       [] OTHER -> Arity(0, 1)

\* Every opcode takes and leaves as many words in the interpreter as heimdall's
\* table says, so that both run the same stack.
ASSUME TablesAgree ==
  \A b \in Byte256 : opcode(b) = Arity(Takes(eval(b)), Puts(eval(b)))

\* What the proofs about the interpreter assume of the table holds of the real one.
ASSUME EvalIsAssumed ==
  /\ eval(0).op = "STOP"
  /\ \A b \in Byte256 :
       LET pushed == IF b - 96 \in 0..31 THEN b - 96 + 1 ELSE 0
       IN /\ eval(b).op = "PUSH" <=> pushed > 0
          /\ eval(b).op = "PUSH" => eval(b).n = pushed
          /\ eval(b).op \in {"DUP", "SWAP"} => eval(b).n > 0

-----------------------------------------------------------------------------
(* The disassembler: a line for each instruction, numbered by the last of   *)
(* its bytes, up to the first whose data the code does not hold             *)

disassemble(code, table) ==
  LET pushed(b) == IF table[b].op = "PUSH" THEN table[b].n ELSE 0
      lines[i \in 0..Len(code)] ==
        IF i = Len(code) THEN <<>>
        ELSE LET last == i + pushed(code[i + 1])
             IN IF last >= Len(code) THEN <<>>
                ELSE <<[program_counter |-> last, op |-> table[code[i + 1]].op]>>
                       \o lines[last + 1]
  IN lines[0]
=============================================================================
