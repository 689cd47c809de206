----------------------------- MODULE HeimdallVM -----------------------------
(***************************************************************************)
(* The VM of the decompiler (heimdall common/src/ether/evm: vm.rs,          *)
(* stack.rs, memory.rs, storage.rs): a function from a machine to the       *)
(* machine after one step.  It is lenient where an EVM is not: an empty     *)
(* stack pops zeros, and a value of the world is a constant of opcode o's   *)
(* entry in Opcode (o.push).  Every word carries the operation that made    *)
(* it.  An index out of range, a failed cast or allocation is PANIC, which  *)
(* ends the process.                                                        *)
(***************************************************************************)
EXTENDS Words, SequencesExt

CONSTANTS
  Opcode,     \* byte |-> [op, n, inputs, push], opcodes.rs and the match of _step
  U128_MAX,
  MEMORY_CAP, \* 65536 in the code
  HASH,       \* the word that stands for a keccak256
  MaxAlloc    \* bound: the largest vector the allocator grants

RUNNING == 255
Fits(w, max) == w <= max
AsUsize(z)   == z % (USIZE_MAX + 1)

-----------------------------------------------------------------------------
(* Frames: a word and the operation it comes from                           *)

Operation(code, n, in) == [code |-> code, n |-> n, raw |-> 0, in |-> in]
PushOf(n, w)  == [code |-> "PUSH", n |-> n, raw |-> w, in |-> <<>>]
default       == Operation("unknown", 0, <<>>)
is_push(op)   == op.code \in {"PUSH", "PUSH0"}

\* The text of an operation tells neither the width of a PUSH nor its opcode.
RECURSIVE solidify(_)
solidify(op) ==
  IF is_push(op) THEN PushOf(0, op.raw)
  ELSE [op EXCEPT !.in = [i \in DOMAIN op.in |-> solidify(op.in[i])]]

push(v, w, operation) ==
  [v EXCEPT !.stack = <<[value |-> w, operation |-> operation]>> \o @]
pop_n(v, n) == [v EXCEPT !.stack = SubSeq(@, n + 1, Len(@))]
peek_n(v, n) ==
  [i \in 1..n |-> IF i <= Len(v.stack) THEN v.stack[i]
                  ELSE [value |-> 0, operation |-> default]]
dup(v, n) ==
  IF n <= Len(v.stack) THEN [v EXCEPT !.stack = <<@[n]>> \o @] ELSE v
swap(v, n) ==
  IF n < Len(v.stack)
  THEN [v EXCEPT !.stack[1] = v.stack[n + 1], !.stack[n + 1] = v.stack[1]] ELSE v

-----------------------------------------------------------------------------
(* Memory                                                                   *)

encode(w)     == [i \in 1..BYTES |-> (w \div BYTE^(BYTES - i)) % BYTE]
decode(bytes) == FoldLeft(LAMBDA w, b : wrap(BYTE * w + b), 0, bytes)
Zeros(n)      == [i \in 1..n |-> 0]
AtMost(x, max) == IF x < max THEN x ELSE max

extend(memory, offset, size) ==
  LET new_size == BYTES * ((offset + size + BYTES - 1) \div BYTES)
  IN IF new_size > Len(memory) THEN memory \o Zeros(new_size - Len(memory)) ELSE memory

\* A value that is too short is padded in front.
store(memory, offset0, size0, value) ==
  LET offset == AtMost(offset0, MEMORY_CAP)
      size   == AtMost(size0, MEMORY_CAP)
      bytes  == IF Len(value) >= size THEN SubSeq(value, 1, size)
                ELSE Zeros(size - Len(value)) \o value
      m      == extend(memory, offset, size)
  IN SubSeq(m, 1, offset) \o bytes \o SubSeq(m, offset + size + 1, Len(m))

\* Reading does not make the memory grow.
read(memory, offset0, size0) ==
  LET offset == AtMost(offset0, MEMORY_CAP)
      size   == AtMost(size0, MEMORY_CAP)
      m      == memory \o Zeros(offset + size)
  IN SubSeq(m, offset + 1, offset + size)

-----------------------------------------------------------------------------
(* The machine                                                              *)

NoInstruction == [instruction |-> 0, op |-> "none", inputs |-> <<>>]

new(code, calldata) ==
  [stack |-> <<>>, memory |-> <<>>, storage |-> [k \in {} |-> 0],
   instruction |-> 1, bytecode |-> code, calldata |-> calldata,
   returned |-> 0, exitcode |-> RUNNING, last |-> NoInstruction]

exit(v, code) == [v EXCEPT !.exitcode = code, !.returned = 0]
Panic(v)      == exit(v, PANIC)

Ends(v)   == v.exitcode # RUNNING \/ v.returned > 0
InCode(v) == Len(v.bytecode) >= AsUsize(v.instruction)

x(v)    == [i \in DOMAIN v.last.inputs |-> v.last.inputs[i].value]
made(v, o) == Operation(o.op, o.n, [i \in DOMAIN v.last.inputs |-> v.last.inputs[i].operation])

\* Offsets and sizes that are no usize end the run.
Sized(v, words, after) ==
  IF \A i \in DOMAIN words : Fits(words[i], USIZE_MAX) THEN after ELSE exit(v, 2)

Simplified == {"ADD", "MUL", "SUB", "DIV", "SDIV", "MOD", "SMOD", "ADDMOD", "MULMOD",
               "EXP", "AND", "OR", "XOR", "NOT", "SHL", "SHR", "SAR"}
Computed   == Simplified \union {"SIGNEXTEND", "LT", "GT", "SLT", "SGT", "EQ", "ISZERO", "BYTE"}

\* A result of two constants is a constant; a modulus does not matter.
compute(v, o) ==
  LET popped   == pop_n(v, o.inputs)
      result   == Heimdall(o.op, x(v))
      constant == o.op \in Simplified
                    /\ \A i \in 1..AtMost(o.inputs, 2) : is_push(v.last.inputs[i].operation)
  IN CASE result = PANIC -> Panic(popped)
       [] result = EXIT2 -> exit(popped, 2)
       [] OTHER -> push(popped, result, IF constant THEN PushOf(BYTES, result) ELSE made(v, o))

sha3(v, o) == LET p == pop_n(v, 2) IN Sized(p, x(v), push(p, HASH, made(v, o)))

\* The world: addresses, balances, blocks, the results of calls and creations.
answer(v, o) == push(pop_n(v, o.inputs), o.push, made(v, o))
size_of(v, o) ==
  push(v, CASE o.op = "CALLDATASIZE" -> Len(v.calldata)
            [] o.op = "CODESIZE"     -> Len(v.bytecode)
            [] o.op = "MSIZE"        -> Len(v.memory), made(v, o))

\* The end of the slice wraps, without overflow checks.
calldataload(v, o) ==
  LET p    == pop_n(v, 1)
      i    == x(v)[1]
      end  == AsUsize(i + BYTES)
      rest == SubSeq(v.calldata, i + 1, Len(v.calldata))
      word == IF end > Len(v.calldata) THEN decode(rest \o Zeros(BYTES - Len(rest)))
              ELSE decode(SubSeq(v.calldata, i + 1, end))
  IN Sized(p, x(v),
       IF i > end /\ end <= Len(v.calldata) THEN Panic(p) ELSE push(p, word, made(v, o)))

Written(v, offset, size, value) ==
  IF size > MaxAlloc THEN Panic(v)
  ELSE [v EXCEPT !.memory = store(@, offset, size, value)]

copy(v, source) ==
  LET p     == pop_n(v, 3)
      dest  == x(v)[1]
      from  == x(v)[2]
      size  == x(v)[3]
      end   == AtMost(AsUsize(from + size), Len(source))
      slice == IF from <= end THEN SubSeq(source, from + 1, end) ELSE <<>>
      pad   == IF Len(slice) < size THEN slice \o Zeros(AtMost(size, MaxAlloc) - Len(slice)) ELSE slice
  IN Sized(p, x(v), Written(p, dest, size, pad))

\* EXTCODECOPY and RETURNDATACOPY write bytes of ones; they do not read the offset.
fill(v, o) ==
  LET p    == pop_n(v, o.inputs)
      dest == x(v)[o.inputs - 2]
      size == x(v)[o.inputs]
  IN Sized(p, <<dest, size>>,
           Written(p, dest, size, [i \in 1..AtMost(size, MaxAlloc) |-> BYTE - 1]))

mload(v, o) ==
  LET p == pop_n(v, 1)
  IN Sized(p, x(v), push(p, decode(read(v.memory, x(v)[1], BYTES)), made(v, o)))

mstore(v, o) ==
  LET p     == pop_n(v, 2)
      bytes == encode(x(v)[2])
  IN Sized(p, <<x(v)[1]>>,
       IF o.op = "MSTORE" THEN Written(p, x(v)[1], BYTES, bytes)
       ELSE Written(p, x(v)[1], 1, <<bytes[BYTES]>>))

sload(v, o) ==
  LET key == x(v)[1]
  IN push(pop_n(v, 1), IF key \in DOMAIN v.storage THEN v.storage[key] ELSE 0, made(v, o))
sstore(v) ==
  [pop_n(v, 2) EXCEPT !.storage = (x(v)[1] :> x(v)[2]) @@ @]

JUMPDEST == CHOOSE b \in DOMAIN Opcode : Opcode[b].op = "JUMPDEST"

\* A destination beyond the code is not refused, one just behind it panics.
jump_to(v, pc) ==
  CASE pc = Len(v.bytecode) -> Panic(v)
    [] pc < Len(v.bytecode) /\ v.bytecode[pc + 1] # JUMPDEST -> exit(v, 790)
    [] OTHER -> [v EXCEPT !.instruction = (pc + 1) % (U128_MAX + 1)]

jump(v) ==
  LET p == pop_n(v, 1)
  IN IF ~Fits(x(v)[1], U128_MAX) THEN exit(p, 2) ELSE jump_to(p, x(v)[1])

JumpIfZero(v) == \* mutant
  LET p == pop_n(v, 2)
  IN IF ~Fits(x(v)[1], U128_MAX) THEN exit(p, 2)
     ELSE IF x(v)[2] = 0 THEN jump_to(p, x(v)[1]) ELSE p
jumpi(v) ==
  LET p == pop_n(v, 2)
  IN IF ~Fits(x(v)[1], U128_MAX) THEN exit(p, 2)
     ELSE IF x(v)[2] # 0 THEN jump_to(p, x(v)[1]) ELSE p

\* The instruction counter, which starts at 1 and has passed the PC already.
pc(v, o) == push(v, wrap(v.instruction), made(v, o))

\* Data that the code does not hold is out of range.
push_n(v, o) ==
  LET first == AsUsize(v.instruction)
      bytes == SubSeq(v.bytecode, first, first + o.n - 1)
  IN IF first + o.n - 1 > Len(v.bytecode) THEN Panic(v)
     ELSE push([v EXCEPT !.instruction = @ + o.n], decode(bytes), PushOf(o.n, decode(bytes)))

log(v, o) == Sized(pop_n(v, o.inputs), <<x(v)[1], x(v)[2]>>, pop_n(v, o.inputs))

leave(v, code) ==
  LET p == pop_n(v, 2)
  IN Sized(p, x(v), [p EXCEPT !.exitcode = code,
                              !.returned = Len(read(v.memory, x(v)[1], x(v)[2]))])

execute_opcode(v, o) ==
  CASE o.op = "STOP"           -> exit(v, 10)
    [] o.op \in Computed       -> compute(v, o)
    [] o.op = "SHA3"           -> sha3(v, o)
    [] o.op = "WORLD"          -> answer(v, o)
    [] o.op \in {"CALLDATASIZE", "CODESIZE", "MSIZE"} -> size_of(v, o)
    [] o.op = "CALLDATALOAD"   -> calldataload(v, o)
    [] o.op = "CALLDATACOPY"   -> copy(v, v.calldata)
    [] o.op = "CODECOPY"       -> copy(v, v.bytecode)
    [] o.op \in {"EXTCODECOPY", "RETURNDATACOPY"} -> fill(v, o)
    [] o.op = "POP"            -> pop_n(v, 1)
    [] o.op = "MLOAD"          -> mload(v, o)
    [] o.op \in {"MSTORE", "MSTORE8"} -> mstore(v, o)
    [] o.op = "SLOAD"          -> sload(v, o)
    [] o.op = "SSTORE"         -> sstore(v)
    [] o.op = "JUMP"           -> jump(v)
    [] o.op = "JUMPI"          -> jumpi(v)
    [] o.op = "JUMPDEST"       -> v
    [] o.op = "PC"             -> pc(v, o)
    [] o.op = "PUSH0"          -> push(v, 0, made(v, o))
    [] o.op = "PUSH"           -> push_n(v, o)
    [] o.op = "DUP"            -> dup(v, o.n)
    [] o.op = "SWAP"           -> swap(v, o.n)
    [] o.op = "LOG"            -> log(v, o)
    [] o.op = "RETURN"         -> leave(v, 0)
    [] o.op = "REVERT"         -> leave(v, 1)
    [] OTHER                   -> exit(v, 1)

step(v) ==
  LET at == AsUsize(v.instruction)
      o  == Opcode[v.bytecode[at]]
  IN CASE Len(v.bytecode) < at -> [exit(v, 2) EXCEPT !.last = NoInstruction]
       [] at = 0 -> Panic(v)
       [] OTHER ->
            execute_opcode([v EXCEPT !.instruction = @ + 1,
                                     !.last = [instruction |-> v.instruction, op |-> o.op,
                                               inputs |-> peek_n(v, o.inputs)]], o)
=============================================================================
