-------------------------- MODULE MCHeimdallExplorer --------------------------
(* Words of 12 bits and three "bytes".  Jobs: every operator on the words     *)
(* around its boundaries; every code of up to four bytes over the opcodes     *)
(* that move the pointer, executed and traced; subroutines, loops, a          *)
(* diamond and dispatchers; and every opcode after operands that fit or not.  *)
EXTENDS HeimdallExplorer

Binary == <<"ADD", "MUL", "SUB", "DIV", "SDIV", "MOD", "SMOD", "EXP", "SIGNEXTEND", "LT", "GT",
            "SLT", "SGT", "EQ", "AND", "OR", "XOR", "BYTE", "SHL", "SHR", "SAR">>
Op(op, n, inputs, word) == [op |-> op, n |-> n, inputs |-> inputs, push |-> word]
Table == <<
  Op("JUMPDEST", 0, 0, 0), Op("JUMP", 0, 1, 0), Op("JUMPI", 0, 2, 0),
  Op("PUSH", 1, 0, 0), Op("PUSH", 2, 0, 0), Op("PUSH", 3, 0, 0), Op("PUSH0", 0, 0, 0),
  Op("DUP", 1, 1, 0), Op("SWAP", 1, 2, 0), Op("POP", 0, 1, 0), Op("RETURN", 0, 2, 0),
  Op("REVERT", 0, 2, 0), Op("INVALID", 0, 0, 0), Op("ADDMOD", 0, 3, 0), Op("MULMOD", 0, 3, 0),
  Op("ISZERO", 0, 1, 0), Op("NOT", 0, 1, 0), Op("CALLDATALOAD", 0, 1, 0), Op("PC", 0, 0, 0),
  Op("MSIZE", 0, 0, 0), Op("CALLDATASIZE", 0, 0, 0), Op("CODESIZE", 0, 0, 0),
  Op("WORLD", 0, 0, 4000), Op("WORLD", 1, 1, 1), Op("WORLD", 7, 7, 1), Op("SHA3", 0, 2, 0),
  Op("CALLDATACOPY", 0, 3, 0), Op("CODECOPY", 0, 3, 0), Op("EXTCODECOPY", 0, 4, 0),
  Op("RETURNDATACOPY", 0, 3, 0), Op("MLOAD", 0, 1, 0), Op("MSTORE", 0, 2, 0),
  Op("MSTORE8", 0, 2, 0), Op("SLOAD", 0, 1, 0), Op("SSTORE", 0, 2, 0), Op("LOG", 1, 3, 0)>>
MCOpcode == [b \in 0..(Len(Table) + Len(Binary)) |->
  CASE b = 0 -> Op("STOP", 0, 0, 0)
    [] b \in 1..Len(Table) -> Table[b]
    [] OTHER -> Op(Binary[b - Len(Table)], 0, 2, 0)]
Known == [STOP |-> "STOP", JUMPDEST |-> "JUMPDEST", JUMP |-> "JUMP", JUMPI |-> "JUMPI",
          PUSH |-> "PUSH", PUSH0 |-> "PUSH0", DUP |-> "DUP", SWAP |-> "SWAP", POP |-> "POP",
          RETURN |-> "Return", REVERT |-> "Revert", INVALID |-> "INVALID"]
MCEvmOpcode == [b \in DOMAIN MCOpcode |->
  LET o == MCOpcode[b]
  IN [op |-> IF o.op \in DOMAIN Known THEN Known[o.op] ELSE "NOTFOUND", n |-> o.n]]

B(op) == CHOOSE b \in DOMAIN MCOpcode : MCOpcode[b].op = op
PushWord(w) == <<6>> \o encode(w)
PushAll(s)  == FlattenSeq([i \in DOMAIN s |-> PushWord(s[Len(s) + 1 - i])])

Boundary == {0, 1, 2, 3, 7, 11, 12, 127, 128, 511, 512, 2047, 2048, 2049, 4094, 4095}
Few == {0, 3, 2048, 4095}
Sums == {PushAll(<<a, b>>) \o <<B(Binary[i])>> : a \in Boundary, b \in Boundary, i \in DOMAIN Binary}
  \union {PushAll(<<a, b, c>>) \o <<op>> : a \in Few, b \in Few, c \in Few, op \in {14, 15}}
  \union {PushAll(<<a>>) \o <<op>> : a \in Boundary, op \in {16, 17}}

Moves == {0, 1, 2, 3, 4, 7, 8}
Short == UNION {[1..n -> Moves] : n \in 1..4}

\* Two calls of a subroutine that has a condition; the sites return elsewhere.
Subroutine == <<4, 5, 4, 11, 2, 1, 4, 17, 4, 11, 2, 1, 7, 4, 16, 3, 1, 1, 2>>
Twice == <<4, 5, 4, 12, 2, 1, 4, 10, 4, 12, 2, 0, 1, 7, 4, 17, 3, 2>>
Return2(c) == <<4, 5, 4, 13, 2, 1, 4, 11, 4, 13, 2, 1, 0, 1, c, 4, 18, 3, 1, 2>>
Diamond(c) == <<c, 4, 6, 3, 7, 10, 1, c, 4, 12, 3, 0, 1, 13>>
Loops == {<<1, 7, 4, 0, 3, 0>>, <<1, 7, 7, 4, 0, 3, 0>>, <<7, 1, 8, 4, 1, 3, 0>>,
          <<4, 2, 1, 4, 3, 8, 4, 2, 3>>, <<1, 4, 1, 4, 0, 3>>,
          <<7, 6, 5, 5, 5, 3>>}
Traced == Loops \union UNION {{Return2(c), Diamond(c)} : c \in {7, 22}} \union {Subroutine, Twice}

MCSelector == <<1, 2, 3>>
Compare(sel, dest) == <<7, 18>> \o <<6>> \o sel \o <<B("EQ"), 4, dest, 3>>
Dispatchers ==
  {Compare(MCSelector, 12) \o <<0, 0, 1, 7, 4, 12, 3, 0>>, Compare(MCSelector, 11),
   Compare(MCSelector, 9), <<1>> \o Compare(<<1, 1, 1>>, 0) \o <<4, 0, 2>>,
   <<1, 4, 1, 4, 0, 3>>, <<1, 4, 2, 4, 0, 3>>, <<4, 3, 2>>, <<4, 5, 2, 0, 0, 1>> \o Compare(MCSelector, 3)}

Words3 == {<<a, b, c, a>> : a \in {0, 2, 600}, b \in {0, 30, 511, 600}, c \in {0, 4, 510, 600}}
Others == {PushAll(w) \o <<b, 20>> : w \in Words3, b \in 10..36}

Job(m, codes) == {[mode |-> m, code |-> c] : c \in codes}
MCJobs == Job("execute", Sums \union Short \union Others)
            \union Job("map", Short \union Traced) \union Job("resolve", Dispatchers)
=============================================================================
