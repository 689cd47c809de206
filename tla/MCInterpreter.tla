---------------------------- MODULE MCInterpreter ----------------------------
(* Words of two bytes below 33.  Three families of programs: every code of   *)
(* up to four bytes over the opcodes that move the pointer; a memory opcode  *)
(* after its operands; and two opcodes of a family after five zeros.         *)
EXTENDS Interpreter, Opcodes

\* Real opcodes, with a word of two bytes
RealBytes == <<
  91, 86, 87, 96, 97,          \* JUMPDEST JUMP JUMPI PUSH1 PUSH2
  128, 144, 243, 253, 82,      \* DUP1 SWAP1 RETURN REVERT MSTORE
  81, 85, 161, 255, 245,       \* MLOAD SSTORE LOG1 SELFDESTRUCT CREATE2
  241, 250, 244, 242, 57,      \* CALL STATICCALL DELEGATECALL CALLCODE CODECOPY
  62, 32, 80, 88, 95,          \* RETURNDATACOPY SHA3 POP PC PUSH0
  89, 61, 1, 71, 66,           \* MSIZE RETURNDATASIZE ADD SELFBALANCE TIMESTAMP
  254, 12, 49, 60>>            \* INVALID, none, BALANCE EXTCODECOPY
Scaled(k) == IF k.op = "MSTORE" /\ k.n = 32 THEN [k EXCEPT !.n = WORD] ELSE k
MCOpcode == [b \in Byte |-> Scaled(IF b = 0 THEN eval(0) ELSE eval(RealBytes[b]))]

B(op) == CHOOSE b \in Byte : MCOpcode[b].op = op
Z == B("PUSH0")

Moves == {0, 1, 2, 3, 4, 5}
Short == UNION {[1..n -> Moves] : n \in 1..4}
Operands == {<<a, b, c>> : a \in {0, 3, 30}, b \in {0, 4, 8}, c \in {1, 3, 31}}
Memory == {<<4, o[3], 4, o[2], 4, o[1], B(op)>> :
             o \in Operands, op \in {"MLOAD", "MSTORE", "SHA3", "COPY", "Return", "LOG"}}
ExtCode == {<<4, o[3], 6, 4, o[2], Z, B("EXTCODECOPY")>> : o \in Operands}
Calls == {"CALL", "STATICCALL", "DELEGATECALL", "CALLCODE"}
CallThen == {<<4, 3, 4, out, Z, Z, Z, 6, 6, B(op)>> \o rest :
               out \in {0, 5}, op \in Calls,
               rest \in {<<B("SSTORE")>>, <<6, B("RETURNDATACOPY")>>, <<B("RETURNDATASIZE"), 6, 6, B("RETURNDATACOPY")>>}}
Others == {<<a, b, b>> : a \in {B("ENV"), Z}, b \in 6..34}
Beyond == {<<5, 1, 0, Z, B("MSTORE")>>, <<5, 1, 0, 2>>, <<Z, 6, 6, 6, 6, 6, 6, 6>>,
           <<4, 1, 4, 1, 4, 1, B("CREATE")>>, <<4, 1, Z, 6, 6, B("CREATE"), 7>>}
InitCode == {<<Z, 4, o[3], 4, o[2], Z, B("CREATE")>> : o \in Operands}
Nested == {<<Z, Z, Z, Z, 6, 6, 6, B("STATICCALL")>>}

MCPrograms == Short \union Memory \union ExtCode \union CallThen \union Others \union Beyond
                \union InitCode \union Nested
Store == <<Z, 6, B("SSTORE")>>
MCCallees == {Store, <<4, 3, Z, B("Return")>>, <<4, 3, Z, B("Revert")>>,
              <<B("NOTFOUND")>>,
              <<Z, 6, 6, 6, 6, 6, B("DELEGATECALL")>>, <<B("INVALID")>>,
              <<Z, 6, 6, 6, 4, 1, 6, 6, B("CALL")>>, <<Z, B("SELFDESTRUCT")>>}

\* The disassembly names a JUMPDEST where an instruction is one, and nowhere else.
ASSUME DisassemblyFindsTargets ==
  \A code \in Short :
    {l.program_counter : l \in {m \in ToSet(disassemble(code, MCOpcode)) : m.op = "JUMPDEST"}}
      = {i \in InstructionStarts(code) : code[i + 1] = JUMPDEST}
=============================================================================
