------------------------- MODULE InterpreterProofs -------------------------
(***************************************************************************)
(* Nothing is executed, read or written outside what was allocated, for    *)
(* any code, table of opcodes and limits.                                  *)
(***************************************************************************)
EXTENDS Interpreter, FiniteSetTheorems, SequenceTheorems, WellFoundedInduction, TLAPS

-----------------------------------------------------------------------------
(* Induction over a set of naturals: the theorem the recursive functions    *)
(* below are reasoned about with.                                           *)

\* A set of naturals with 0 and every successor of a member is all of Nat.
LEMMA Induction ==
  ASSUME NEW Good, 0 \in Good, \A n \in Nat : n \in Good => n + 1 \in Good
  PROVE  Nat \subseteq Good
  <1> DEFINE Bad == {0..m : m \in Nat \ Good}
             R   == StrictSubsetOrdering(Nat)
  <1>1. SUFFICES ASSUME Bad # {} PROVE FALSE
    OBVIOUS
  <1>2. Bad \subseteq FiniteSubsetsOf(Nat)
    <2>1. \A m \in Nat : IsFiniteSet(0..m) /\ 0..m \subseteq Nat
      BY FS_Interval
    <2>2. QED
      BY <2>1 DEF FiniteSubsetsOf
  <1>3. IsWellFoundedOn(R, FiniteSubsetsOf(Nat))
    BY FS_StrictSubsetOrderingWellFounded
  <1>4. PICK T \in Bad : \A U \in Bad : ~ (<<U, T>> \in R)
    <2> HIDE DEF Bad, R
    <2>1. QED BY <1>1, <1>2, <1>3, WFMin
  <1>5. PICK m \in Nat \ Good : T = 0..m
    OBVIOUS
  <1>6. m # 0 /\ m - 1 \in Nat \ Good
    OBVIOUS
  <1>7. 0..(m - 1) \in Bad
    BY <1>6
  <1>8. 0..(m - 1) \subseteq 0..m /\ 0..(m - 1) # 0..m
    <2>1. m \in 0..m /\ m \notin 0..(m - 1)
      BY <1>5
    <2>2. QED BY <2>1, <1>5
  <1>9. 0..(m - 1) \subseteq Nat /\ 0..m \subseteq Nat
    BY <1>5, <1>6
  <1>10. <<0..(m - 1), 0..m>> \in R
    BY <1>8, <1>9 DEF StrictSubsetOrdering
  <1>11. QED
    BY <1>4, <1>5, <1>7, <1>10

-----------------------------------------------------------------------------
(* Code: where instructions start, and where the analysis walks             *)

\* The types of the constants, one by one.
LEMMA Constants ==
  /\ WORD \in Nat /\ WORD > 0 /\ BYTES \in Nat /\ BYTES > 0
  /\ USIZE_MAX \in Nat /\ MaxAlloc \in Nat /\ MaxAlloc < USIZE_MAX
  /\ STACK_LIMIT \in Nat /\ MaxReturn \in Nat
  /\ JUMPDEST \in Byte /\ PUSH1 \in Byte /\ 0 \in Byte /\ Byte \subseteq Nat
  BY ConstAssumption DEF Byte

\* A PUSH is followed by at most a word of data.
LEMMA PushLengthType ==
  ASSUME NEW b \in Byte
  PROVE  PushLength(b) \in 0..WORD
  <1>1. b \in Int /\ PUSH1 \in Int
    BY Constants DEF Byte
  <1>2. QED BY <1>1, Constants DEF PushLength

\* The recursive function of InstructionStarts exists, so it has the equation
\* that defines it.
LEMMA StartsEquation ==
  ASSUME NEW code \in Seq(Byte)
  PROVE  \E s : /\ s = [i \in 0..Len(code) |->
                          \/ i = 0
                          \/ \E j \in 0..(i - 1) :
                               i = j + 1 + PushLength(code[j + 1]) /\ s[j]]
                /\ InstructionStarts(code) = {i \in 0..(Len(code) - 1) : s[i]}
  <1> DEFINE E(s, i) == \/ i = 0
                        \/ \E j \in 0..(i - 1) : i = j + 1 + PushLength(code[j + 1]) /\ s[j]
             Good == {n \in Nat : \E s : s = [i \in 0..n |-> E(s, i)]}
             F == CHOOSE s : s = [i \in 0..Len(code) |-> E(s, i)]
  <1>1. 0 \in Good
    <2> DEFINE s == [i \in 0..0 |-> TRUE]
    <2>1. s = [i \in 0..0 |-> E(s, i)]
      OBVIOUS
    <2>2. QED BY <2>1
  <1>2. ASSUME NEW n \in Nat, n \in Good PROVE n + 1 \in Good
    <2>1. PICK s : s = [i \in 0..n |-> E(s, i)]
      BY <1>2
    <2> DEFINE t == [i \in 0..(n + 1) |-> IF i = n + 1 THEN E(s, n + 1) ELSE s[i]]
    <2>2. \A i \in 0..(n + 1) : \A j \in 0..(i - 1) : t[j] = s[j]
      OBVIOUS
    <2>3. \A i \in 0..(n + 1) : E(t, i) = E(s, i)
      BY <2>2
    <2>4. \A i \in 0..(n + 1) : t[i] = E(s, i)
      <3> SUFFICES ASSUME NEW i \in 0..(n + 1) PROVE t[i] = E(s, i)
        OBVIOUS
      <3>1. CASE i = n + 1
        BY <3>1
      <3>2. CASE i # n + 1
        <4>1. i \in 0..n /\ t[i] = s[i]
          BY <3>2
        <4> HIDE DEF t, E
        <4>2. QED BY <4>1, <2>1
      <3>3. QED BY <3>1, <3>2
    <2>5. t = [i \in 0..(n + 1) |-> E(t, i)]
      <3>1. t = [i \in 0..(n + 1) |-> t[i]]
        OBVIOUS
      <3> HIDE DEF t, E
      <3>2. QED BY <3>1, <2>3, <2>4
    <2> HIDE DEF t, E
    <2>6. QED BY <2>5
  <1>3. Len(code) \in Good
    <2> HIDE DEF Good
    <2>1. QED BY <1>1, <1>2, Induction
  <1>4. F = [i \in 0..Len(code) |-> E(F, i)]
    <2> HIDE DEF E
    <2>1. QED BY <1>3
  <1>5. InstructionStarts(code) = {i \in 0..(Len(code) - 1) : F[i]}
    BY DEF InstructionStarts
  <1> HIDE DEF F
  <1>6. QED BY <1>4, <1>5

\* The first instruction starts at 0, each later one behind one before it.
LEMMA StartsClosed ==
  ASSUME NEW code \in Seq(Byte)
  PROVE  /\ InstructionStarts(code) \subseteq 0..(Len(code) - 1)
         /\ Len(code) > 0 => 0 \in InstructionStarts(code)
         /\ \A i \in InstructionStarts(code) :
              LET next == i + 1 + PushLength(code[i + 1])
              IN next < Len(code) => next \in InstructionStarts(code)
  <1>1. PICK s : /\ s = [i \in 0..Len(code) |->
                          \/ i = 0
                          \/ \E j \in 0..(i - 1) :
                               i = j + 1 + PushLength(code[j + 1]) /\ s[j]]
                 /\ InstructionStarts(code) = {i \in 0..(Len(code) - 1) : s[i]}
    BY StartsEquation
  <1>2. Len(code) > 0 => 0 \in InstructionStarts(code)
    BY <1>1
  <1>3. ASSUME NEW i \in InstructionStarts(code),
               i + 1 + PushLength(code[i + 1]) < Len(code)
        PROVE  i + 1 + PushLength(code[i + 1]) \in InstructionStarts(code)
    <2> DEFINE next == i + 1 + PushLength(code[i + 1])
    <2>1. i \in 0..(Len(code) - 1) /\ s[i]
      BY <1>1
    <2>2. code[i + 1] \in Byte
      BY <2>1
    <2>3. PushLength(code[i + 1]) \in Nat
      <3>1. PushLength(code[i + 1]) \in 0..WORD
        BY <2>2, PushLengthType
      <3>2. QED BY <3>1, Constants
    <2>4. next \in 0..(Len(code) - 1) /\ i \in 0..(next - 1)
      BY <2>1, <2>3, <1>3
    <2>5. s[next]
      <3>1. next \in 0..Len(code)
        BY <2>4
      <3>2. s[next] = \/ next = 0
                      \/ \E j \in 0..(next - 1) :
                           next = j + 1 + PushLength(code[j + 1]) /\ s[j]
        BY <3>1, <1>1
      <3>3. QED BY <3>2, <2>1, <2>4
    <2>6. QED BY <1>1, <2>4, <2>5
  <1>4. QED BY <1>1, <1>2, <1>3

\* The walk of the analysis is defined: it only looks ahead.
LEMMA WalkEquation ==
  ASSUME NEW code \in Seq(Byte)
  PROVE  \E w : /\ w = [i \in 0..(Len(code) + WORD) |->
                          IF i >= Len(code) THEN {}
                          ELSE (IF code[i + 1] = JUMPDEST THEN {i} ELSE {})
                                 \union w[i + 1 + PushLength(code[i + 1])]]
                /\ analyze(code) = w[0]
  <1> DEFINE M == Len(code) + WORD
             E(w, i) == IF i >= Len(code) THEN {}
                        ELSE (IF code[i + 1] = JUMPDEST THEN {i} ELSE {})
                               \union w[i + 1 + PushLength(code[i + 1])]
             Good == {n \in Nat : n <= M => \E w : w = [i \in (M - n)..M |-> E(w, i)]}
             F == CHOOSE w : w = [i \in 0..M |-> E(w, i)]
  <1>0. M \in Nat /\ M > Len(code) /\ Len(code) \in Nat
    BY Constants
  <1>1. 0 \in Good
    <2> DEFINE w == [i \in (M - 0)..M |-> {}]
    <2>1. \A i \in (M - 0)..M : E(w, i) = {}
      BY <1>0
    <2>2. w = [i \in (M - 0)..M |-> E(w, i)]
      <3> HIDE DEF E
      <3>1. QED BY <2>1
    <2> HIDE DEF w, E, M
    <2>3. QED BY <2>2
  <1>2. ASSUME NEW n \in Nat, n \in Good PROVE n + 1 \in Good
    <2>0. SUFFICES ASSUME n + 1 <= M
                   PROVE \E w : w = [i \in (M - (n + 1))..M |-> E(w, i)]
      OBVIOUS
    <2>1. PICK w : w = [i \in (M - n)..M |-> E(w, i)]
      BY <1>2, <1>0, <2>0
    <2> DEFINE m == M - (n + 1)
               t == [i \in m..M |-> IF i = m THEN E(w, m) ELSE w[i]]
    <2>2. \A i \in m..M : E(t, i) = E(w, i)
      <3> SUFFICES ASSUME NEW i \in m..M PROVE E(t, i) = E(w, i)
        OBVIOUS
      <3>1. m \in Nat
        BY <1>0, <2>0
      <3>a. CASE i >= Len(code)
        BY <3>a
      <3>b. CASE i < Len(code)
        <4> DEFINE next == i + 1 + PushLength(code[i + 1])
        <4>1. i \in Nat /\ ~ (i >= Len(code))
          BY <3>b, <3>1, <1>0
        <4>2. code[i + 1] \in Byte
          BY <4>1, <3>b
        <4>3. PushLength(code[i + 1]) \in 0..WORD
          BY <4>2, PushLengthType
        <4>4. next \in m..M /\ next # m
          <5> HIDE DEF m
          <5>1. QED BY <3>1, <4>3, <1>0, <3>b, Constants
        <4>5. t[next] = w[next]
          <5> HIDE DEF m, M, E, next
          <5>1. QED BY <4>4
        <4> HIDE DEF t, m, M
        <4>6. QED BY <4>1, <4>5
      <3>c. i >= Len(code) \/ i < Len(code)
        BY <3>1, <1>0
      <3> HIDE DEF t, E
      <3>d. QED BY <3>a, <3>b, <3>c
    <2>4. \A i \in m..M : t[i] = E(w, i)
      <3> SUFFICES ASSUME NEW i \in m..M PROVE t[i] = E(w, i)
        OBVIOUS
      <3>1. CASE i = m
        <4> HIDE DEF m, M, E
        <4>1. QED BY <3>1
      <3>2. CASE i # m
        <4>1. i \in (M - n)..M
          BY <3>2, <1>0, <2>0
        <4>2. t[i] = w[i]
          <5> HIDE DEF m, M, E
          <5>1. QED BY <3>2
        <4> HIDE DEF t, E, M, m
        <4>3. QED BY <4>1, <4>2, <2>1
      <3>3. QED BY <3>1, <3>2
    <2>5. t = [i \in m..M |-> E(t, i)]
      <3>1. t = [i \in m..M |-> t[i]]
        <4> HIDE DEF m, M, E
        <4>1. QED OBVIOUS
      <3> HIDE DEF t, E, M, m
      <3>2. QED BY <3>1, <2>2, <2>4
    <2> HIDE DEF t, E
    <2>6. QED BY <2>5
  <1>3. M \in Good
    <2> HIDE DEF Good, M
    <2>1. QED BY <1>0, <1>1, <1>2, Induction
  <1>4. F = [i \in 0..M |-> E(F, i)]
    <2>1. \E w : w = [i \in 0..M |-> E(w, i)]
      <3> HIDE DEF E, M, F
      <3>1. M - M = 0 /\ M <= M
        BY <1>0
      <3>2. QED BY <1>3, <3>1
    <2> HIDE DEF E, M
    <2>2. QED BY <2>1
  <1>5. analyze(code) = F[0]
    BY DEF analyze
  <1> HIDE DEF F
  <1>6. QED BY <1>4, <1>5

\* A destination that the analysis accepts is the start of an instruction.
LEMMA JumpsToStarts ==
  ASSUME NEW code \in Seq(Byte), Len(code) > 0
  PROVE  analyze(code) \subseteq InstructionStarts(code)
  <1>1. PICK w : /\ w = [i \in 0..(Len(code) + WORD) |->
                          IF i >= Len(code) THEN {}
                          ELSE (IF code[i + 1] = JUMPDEST THEN {i} ELSE {})
                                 \union w[i + 1 + PushLength(code[i + 1])]]
                 /\ analyze(code) = w[0]
    BY WalkEquation
  <1> DEFINE M == Len(code) + WORD
             S == InstructionStarts(code)
             Good == {n \in Nat : \A i \in 0..M :
                        i >= M - n /\ (i < Len(code) => i \in S) => w[i] \subseteq S}
  <1>0. M \in Nat /\ M > Len(code) /\ Len(code) \in Nat
    BY Constants
  <1>2. \A i \in 0..M : i >= Len(code) => w[i] = {}
    BY <1>1
  <1>3. 0 \in Good
    BY <1>0, <1>2
  <1>4. ASSUME NEW n \in Nat, n \in Good PROVE n + 1 \in Good
    <2> SUFFICES ASSUME NEW i \in 0..M, i >= M - (n + 1), i < Len(code) => i \in S
                 PROVE w[i] \subseteq S
      OBVIOUS
    <2>1. CASE i >= Len(code)
      BY <1>2, <2>1
    <2>2. CASE i < Len(code)
      <3> DEFINE next == i + 1 + PushLength(code[i + 1])
      <3>1. code[i + 1] \in Byte
        BY <2>2
      <3>2. PushLength(code[i + 1]) \in 0..WORD
        BY <3>1, PushLengthType
      <3>3. next \in 0..M /\ next >= M - n
        BY <2>2, <3>2, <1>0, Constants
      <3>4. next < Len(code) => next \in S
        BY <2>2, StartsClosed
      <3>5. w[next] \subseteq S
        <4> HIDE DEF next, S, M
        <4>1. QED BY <1>4, <3>3, <3>4
      <3>6. w[i] = (IF code[i + 1] = JUMPDEST THEN {i} ELSE {}) \union w[next]
        <4>1. i \in 0..(Len(code) + WORD) /\ ~ (i >= Len(code))
          BY <2>2
        <4> HIDE DEF M, S
        <4>2. QED BY <1>1, <4>1
      <3> HIDE DEF next, S, M
      <3>7. QED BY <3>5, <3>6, <2>2
    <2>3. QED BY <2>1, <2>2, <1>0
  <1>5. M \in Good
    <2> HIDE DEF Good, M
    <2>1. QED BY <1>0, <1>3, <1>4, Induction
  <1>6. w[0] \subseteq S
    <2>1. 0 \in 0..M /\ 0 >= M - M /\ 0 \in S
      BY <1>0, StartsClosed
    <2> HIDE DEF S, M
    <2>2. QED BY <1>5, <2>1
  <1>7. QED BY <1>1, <1>6

-----------------------------------------------------------------------------
(* Frames                                                                   *)

Result == {"Continue", "Panic", "Abort", "Stop", "Return", "Revert", "SelfDestruct",
           "InvalidFEOpcode", "OpcodeNotFound", "StackUnderflow", "StackOverflow",
           "InvalidJump", "MemoryOOG", "InvalidOperandOOG", "OutOfOffset",
           "CreateInitcodeSizeLimit",
           "StateChangeDuringStaticCall", "CallNotAllowedInsideStatic", "CallTooDeep",
           "OutOfFund", "PrecompileError", "FatalExternalError",
           "CrossContractControlLeak", "ImplicitBugHit"}
Scheme == {"CALL", "CALLCODE", "DELEGATECALL", "STATICCALL", "CREATE"}
Waits  == {Idle} \union [op : Scheme, offset : Nat, len : Nat]
FrameType ==
  [code : Seq(Byte), len : Nat, jump_map : SUBSET Nat, ip : Nat, result : Result,
   stack : Seq(Nat), memory : Nat, return_range : [start : Nat, len : Nat],
   buffer : Nat, is_static : BOOLEAN, scheme : Scheme, waits : Waits]

\* The code is padded with a word of zeros and one more, and the map marks
\* starts of instructions.
CodeOK(f) ==
  /\ Len(f.code) = f.len + WORD + 1
  /\ \A i \in (f.len + 1)..Len(f.code) : f.code[i] = 0
  /\ f.jump_map \subseteq InstructionStarts(f.code)

\* The memory is whole words and covers the ranges kept for later.
Covers(memory, r) == r.len = 0 \/ r.offset + r.len <= memory
MemoryOK(f) ==
  /\ f.memory % WORD = 0 /\ f.memory <= MaxAlloc
  /\ f.return_range.start = USIZE_MAX
       \/ f.return_range.start + f.return_range.len <= f.memory
  /\ Covers(f.memory, f.waits)

\* A frame at any time.
FrameOK(f) ==
  /\ f \in FrameType
  /\ CodeOK(f) /\ MemoryOK(f)
  /\ f.ip <= Len(f.code)
  /\ f.result # "Panic"
  /\ Len(f.stack) <= STACK_LIMIT
  /\ f.result = "Continue" => f.ip \in InstructionStarts(f.code)

\* What no opcode changes of its frame.
Kept(f, g) == /\ g.code = f.code /\ g.len = f.len /\ g.jump_map = f.jump_map
              /\ g.is_static = f.is_static /\ g.scheme = f.scheme

\* f becomes g in the course of an opcode that calls nobody.
Evolves(f, g) == FrameOK(g) /\ Kept(f, g) /\ g.waits = f.waits

\* g is f with other results, stack, or pointer, all within bounds.
LEMMA FailEvolves ==
  ASSUME NEW f, FrameOK(f), NEW r \in Result, r # "Panic", r # "Continue"
  PROVE  /\ Evolves(f, Fail(f, r))
         /\ Fail(f, r).result = r /\ Fail(f, r).ip = f.ip /\ Fail(f, r).memory = f.memory
  BY DEF FrameOK, FrameType, CodeOK, MemoryOK, Covers, Kept, Evolves, Fail

LEMMA StackEvolves ==
  ASSUME NEW f, FrameOK(f), NEW s \in Seq(Nat), Len(s) <= STACK_LIMIT
  PROVE  /\ Evolves(f, [f EXCEPT !.stack = s])
         /\ [f EXCEPT !.stack = s].result = f.result
         /\ [f EXCEPT !.stack = s].stack = s
         /\ [f EXCEPT !.stack = s].memory = f.memory
         /\ [f EXCEPT !.stack = s].ip = f.ip
  BY DEF FrameOK, FrameType, CodeOK, MemoryOK, Covers, Kept, Evolves

LEMMA PointerEvolves ==
  ASSUME NEW f, FrameOK(f), NEW i \in InstructionStarts(f.code)
  PROVE  Evolves(f, [f EXCEPT !.ip = i])
  <1>1. i \in 0..(Len(f.code) - 1)
    BY StartsClosed DEF FrameOK, FrameType
  <1>2. i \in Nat /\ i <= Len(f.code)
    BY <1>1
  <1>3. QED
    BY <1>2 DEF FrameOK, FrameType, CodeOK, MemoryOK, Covers, Kept, Evolves

LEMMA BufferEvolves ==
  ASSUME NEW f, FrameOK(f), NEW n \in Nat
  PROVE  /\ Evolves(f, [f EXCEPT !.buffer = n])
         /\ [f EXCEPT !.buffer = n].result = f.result
         /\ [f EXCEPT !.buffer = n].stack = f.stack
  BY DEF FrameOK, FrameType, CodeOK, MemoryOK, Covers, Kept, Evolves

LEMMA WaitsEvolve ==
  ASSUME NEW f, FrameOK(f), NEW w \in Waits,
         Covers(f.memory, w)
  PROVE  /\ FrameOK([f EXCEPT !.waits = w]) /\ Kept(f, [f EXCEPT !.waits = w])
         /\ [f EXCEPT !.waits = w].result = f.result
         /\ [f EXCEPT !.waits = w].waits = w
  BY DEF FrameOK, FrameType, CodeOK, MemoryOK, Covers, Kept, Evolves

LEMMA EvolvesTransitive ==
  ASSUME NEW f, NEW g, NEW h, Evolves(f, g), Evolves(g, h)
  PROVE  Evolves(f, h)
  BY DEF Evolves, Kept

\* Of two updates of the pointer the later one counts.
LEMMA UpdatesCommute ==
  ASSUME NEW f \in FrameType, NEW p, NEW q, NEW s
  PROVE  [[[f EXCEPT !.ip = p] EXCEPT !.stack = s] EXCEPT !.ip = q]
           = [[f EXCEPT !.ip = q] EXCEPT !.stack = s]
  BY DEF FrameType

\* A word within the stack is a number.
LEMMA WordType ==
  ASSUME NEW f, FrameOK(f), NEW k \in Nat, k > 0, k <= Len(f.stack)
  PROVE  Word(f, k) \in Nat
  <1>1. f.stack \in Seq(Nat)
    BY DEF FrameOK, FrameType
  <1>2. QED BY <1>1 DEF Word

\* A frame evolves into itself; an operation behind another one is left out
\* after a failure.
LEMMA ThenEvolves ==
  ASSUME NEW f, NEW g, NEW h, Evolves(f, g), g.result = "Continue" => Evolves(f, h)
  PROVE  Evolves(f, Then(g, h))
  BY DEF Then

LEMMA EvolvesReflexive ==
  ASSUME NEW f, FrameOK(f)
  PROVE  Evolves(f, f)
  BY DEF Evolves, Kept

-----------------------------------------------------------------------------
(* The stack                                                                *)

LEMMA PopEvolves ==
  ASSUME NEW f, FrameOK(f), NEW n \in Nat
  PROVE  /\ Evolves(f, pop(f, n))
         /\ pop(f, n).result = "Continue" =>
              /\ n <= Len(f.stack) /\ Len(pop(f, n).stack) = Len(f.stack) - n
              /\ f.result = "Continue"
         /\ pop(f, n).ip = f.ip /\ pop(f, n).memory = f.memory
         /\ f.result = "Continue" /\ n <= Len(f.stack) => pop(f, n).result = "Continue"
  <1>0. f.stack \in Seq(Nat) /\ Len(f.stack) <= STACK_LIMIT /\ Len(f.stack) \in Nat
    BY DEF FrameOK, FrameType
  <1>1. CASE Len(f.stack) < n
    <2>1. pop(f, n) = Fail(f, "StackUnderflow") /\ "StackUnderflow" \in Result
      BY <1>1 DEF Result, pop
    <2>2. "StackUnderflow" \in Result
      BY DEF Result
    <2>3. QED BY <2>1, <2>2, <1>0, <1>1, FailEvolves
  <1>2. CASE ~ (Len(f.stack) < n)
    <2> DEFINE s == SubSeq(f.stack, 1, Len(f.stack) - n)
    <2>1. s \in Seq(Nat) /\ Len(s) = Len(f.stack) - n /\ Len(s) <= STACK_LIMIT
      BY <1>0, <1>2, Constants
    <2>2. pop(f, n) = [f EXCEPT !.stack = s]
      BY <1>2 DEF pop
    <2> HIDE DEF s
    <2>3. QED BY <2>1, <2>2, <1>0, <1>2, StackEvolves
  <1>3. QED BY <1>1, <1>2

LEMMA PushEvolves ==
  ASSUME NEW f, FrameOK(f), NEW w \in Nat
  PROVE  /\ Evolves(f, push(f, w))
         /\ push(f, w).ip = f.ip
         /\ push(f, w).result = "Continue" => f.result = "Continue"
  <1>0. f.stack \in Seq(Nat) /\ Len(f.stack) \in Nat
    BY DEF FrameOK, FrameType
  <1>1. CASE Len(f.stack) + 1 > STACK_LIMIT
    <2>1. push(f, w) = Fail(f, "StackOverflow") /\ "StackOverflow" \in Result
      BY <1>1 DEF Result, push
    <2>2. QED BY <2>1, FailEvolves
  <1>2. CASE ~ (Len(f.stack) + 1 > STACK_LIMIT)
    <2> DEFINE s == Append(f.stack, w)
    <2>1. s \in Seq(Nat) /\ Len(s) <= STACK_LIMIT
      BY <1>0, <1>2, Constants
    <2>2. push(f, w) = [f EXCEPT !.stack = s]
      BY <1>2 DEF push
    <2> HIDE DEF s
    <2>3. QED BY <2>1, <2>2, StackEvolves
  <1>3. QED BY <1>1, <1>2

LEMMA DupEvolves ==
  ASSUME NEW f, FrameOK(f), NEW n \in Nat, n > 0
  PROVE  Evolves(f, dup(f, n))
  <1>1. CASE Len(f.stack) < n
    <2>1. dup(f, n) = Fail(f, "StackUnderflow") /\ "StackUnderflow" \in Result
      BY <1>1 DEF Result, dup
    <2>2. QED BY <2>1, FailEvolves
  <1>2. CASE ~ (Len(f.stack) < n)
    <2>0. Len(f.stack) \in Nat
      BY DEF FrameOK, FrameType
    <2>1. Word(f, n) \in Nat
      BY <1>2, <2>0, WordType
    <2>2. dup(f, n) = push(f, Word(f, n))
      BY <1>2 DEF dup, push
    <2>3. QED BY <2>1, <2>2, PushEvolves
  <1>3. QED BY <1>1, <1>2

LEMMA SwapEvolves ==
  ASSUME NEW f, FrameOK(f), NEW n \in Nat, n > 0
  PROVE  Evolves(f, swap(f, n))
  <1>0. f.stack \in Seq(Nat) /\ Len(f.stack) \in Nat /\ Len(f.stack) <= STACK_LIMIT
    BY DEF FrameOK, FrameType
  <1>1. CASE Len(f.stack) <= n
    <2>1. swap(f, n) = Fail(f, "StackUnderflow") /\ "StackUnderflow" \in Result
      BY <1>1 DEF Result, swap
    <2>2. QED BY <2>1, FailEvolves
  <1>2. CASE ~ (Len(f.stack) <= n)
    <2>1. Word(f, n + 1) \in Nat /\ Word(f, 1) \in Nat
      BY <1>0, <1>2, WordType
    <2> DEFINE s == [f.stack EXCEPT ![Len(f.stack)] = Word(f, n + 1),
                                    ![Len(f.stack) - n] = Word(f, 1)]
    <2>2. s \in Seq(Nat) /\ Len(s) = Len(f.stack)
      <3> HIDE DEF Word
      <3>1. QED BY <1>0, <1>2, <2>1
    <2>3. swap(f, n) = [f EXCEPT !.stack = s]
      <3>1. f \in FrameType
        BY DEF FrameOK
      <3>2. QED BY <3>1, <1>2, <1>0 DEF swap, FrameType
    <2> HIDE DEF s
    <2>4. QED BY <1>0, <2>2, <2>3, StackEvolves
  <1>3. QED BY <1>1, <1>2

\* The word that PUSH reads behind the opcode is a number.
PushedWord(f, n) ==
  LET word[i \in 0..n] == IF i = 0 THEN 0 ELSE BYTES * word[i - 1] + f.code[f.ip + i]
  IN word[n]

LEMMA PushedWordType ==
  ASSUME NEW f, f \in FrameType, NEW n \in Nat, f.ip + n <= Len(f.code)
  PROVE  PushedWord(f, n) \in Nat
  <1> DEFINE E(w, i) == IF i = 0 THEN 0 ELSE BYTES * w[i - 1] + f.code[f.ip + i]
             Good == {k \in Nat : k <= n =>
                        \E w : w = [i \in 0..k |-> E(w, i)] /\ w \in [0..k -> Nat]}
             F == CHOOSE w : w = [i \in 0..n |-> E(w, i)]
  <1>0. f.code \in Seq(Byte) /\ f.ip \in Nat
    BY DEF FrameType
  <1>1. 0 \in Good
    <2> DEFINE w == [i \in 0..0 |-> 0]
    <2>1. w = [i \in 0..0 |-> E(w, i)] /\ w \in [0..0 -> Nat]
      OBVIOUS
    <2>2. QED BY <2>1
  <1>2. ASSUME NEW k \in Nat, k \in Good PROVE k + 1 \in Good
    <2> SUFFICES ASSUME k + 1 <= n
                 PROVE \E w : w = [i \in 0..(k + 1) |-> E(w, i)] /\ w \in [0..(k + 1) -> Nat]
      OBVIOUS
    <2>1. PICK w : w = [i \in 0..k |-> E(w, i)] /\ w \in [0..k -> Nat]
      BY <1>2
    <2> DEFINE v == BYTES * w[k] + f.code[f.ip + (k + 1)]
               t == [i \in 0..(k + 1) |-> IF i = k + 1 THEN v ELSE w[i]]
    <2>2. v \in Nat
      <3>1. f.code[f.ip + (k + 1)] \in Byte
        BY <1>0
      <3>a. k \in 0..k
        OBVIOUS
      <3>2. w[k] \in Nat /\ f.code[f.ip + (k + 1)] \in Nat
        BY <3>1, <3>a, <2>1, Constants
      <3> HIDE DEF v
      <3>3. BYTES * w[k] \in Nat
        BY <3>2, Constants
      <3>4. QED BY <3>2, <3>3 DEF v
    <2>3. t \in [0..(k + 1) -> Nat]
      <3> HIDE DEF v
      <3>1. QED BY <2>1, <2>2
    <2>4. \A i \in 0..(k + 1) : t[i] = E(t, i)
      <3> SUFFICES ASSUME NEW i \in 0..(k + 1) PROVE t[i] = E(t, i)
        OBVIOUS
      <3>1. CASE i = k + 1
        <4>1. t[i] = v /\ t[i - 1] = w[k] /\ i # 0
          <5> HIDE DEF v
          <5>1. QED BY <3>1
        <4> HIDE DEF t
        <4>2. QED BY <4>1, <3>1
      <3>2. CASE i # k + 1
        <4>1. i \in 0..k /\ t[i] = w[i] /\ (i # 0 => t[i - 1] = w[i - 1])
          <5> HIDE DEF v
          <5>1. QED BY <3>2
        <4>2. w[i] = E(w, i)
          <5> HIDE DEF E
          <5>1. QED BY <4>1, <2>1
        <4> HIDE DEF t
        <4>3. QED BY <4>1, <4>2
      <3>3. QED BY <3>1, <3>2
    <2>5. t = [i \in 0..(k + 1) |-> E(t, i)]
      <3> HIDE DEF t, E
      <3>1. t = [i \in 0..(k + 1) |-> t[i]]
        BY <2>3
      <3>2. QED BY <3>1, <2>4
    <2> HIDE DEF t, E
    <2>6. QED BY <2>3, <2>5
  <1>3. n \in Good
    <2> HIDE DEF Good
    <2>1. QED BY <1>1, <1>2, Induction
  <1>4. PICK w : w = [i \in 0..n |-> E(w, i)] /\ w \in [0..n -> Nat]
    <2> HIDE DEF E
    <2>1. QED BY <1>3
  <1>5. F = [i \in 0..n |-> E(F, i)]
    <2> HIDE DEF E
    <2>1. QED BY <1>4
  <1>6. F \in [0..n -> Nat]
    <2> DEFINE Same == {k \in Nat : k <= n => F[k] = w[k]}
    <2>1. \A i \in 0..n : F[i] = E(F, i) /\ w[i] = E(w, i)
      <3> HIDE DEF E, F
      <3>1. QED BY <1>4, <1>5
    <2> HIDE DEF F
    <2>2. 0 \in Same
      BY <2>1
    <2>3. \A k \in Nat : k \in Same => k + 1 \in Same
      <3> SUFFICES ASSUME NEW k \in Nat, k <= n => F[k] = w[k], k + 1 <= n
                   PROVE F[k + 1] = w[k + 1]
        OBVIOUS
      <3>1. F[k] = w[k] /\ (k + 1) - 1 = k /\ k + 1 \in 0..n /\ k + 1 # 0
        OBVIOUS
      <3>2. F[k + 1] = E(F, k + 1) /\ w[k + 1] = E(w, k + 1)
        <4> HIDE DEF E
        <4>1. QED BY <3>1, <2>1
      <3>3. QED BY <3>1, <3>2
    <2>4. Nat \subseteq Same
      <3> HIDE DEF Same
      <3>1. QED BY <2>2, <2>3, Induction
    <2>5. \A i \in 0..n : F[i] \in Nat
      <3> SUFFICES ASSUME NEW i \in 0..n PROVE F[i] \in Nat
        OBVIOUS
      <3>1. i \in Nat /\ i <= n
        OBVIOUS
      <3>2. F[i] = w[i]
        BY <3>1, <2>4
      <3> HIDE DEF E
      <3>3. QED BY <3>2, <1>4
    <2> HIDE DEF E
    <2>6. QED BY <2>5, <1>5
  <1>7. PushedWord(f, n) = F[n]
    BY DEF PushedWord
  <1> HIDE DEF F
  <1>8. QED BY <1>6, <1>7

-----------------------------------------------------------------------------
(* The pointer                                                              *)

\* A frame that has failed may point anywhere in its code.
LEMMA FailAnywhere ==
  ASSUME NEW f, FrameOK(f), NEW i \in Nat, i <= Len(f.code),
         NEW r \in Result, r # "Panic", r # "Continue"
  PROVE  Evolves(f, Fail([f EXCEPT !.ip = i], r))
  BY DEF FrameOK, FrameType, CodeOK, MemoryOK, Covers, Kept, Evolves, Fail

LEMMA PointerFields ==
  ASSUME NEW f \in FrameType, NEW i \in Nat
  PROVE  LET g == [f EXCEPT !.ip = i]
         IN /\ g \in FrameType /\ g.ip = i /\ g.code = f.code /\ g.stack = f.stack
            /\ g.result = f.result /\ g.waits = f.waits /\ g.memory = f.memory
            /\ g.is_static = f.is_static /\ g.buffer = f.buffer
  BY DEF FrameType

\* Behind an instruction that is not STOP there is another one: code ends in
\* zeros, which stop.
LEMMA NextStarts ==
  ASSUME NEW f, FrameOK(f), f.result = "Continue"
  PROVE  /\ f.ip \in Nat /\ f.ip + 1 <= Len(f.code) /\ f.code[f.ip + 1] \in Byte
         /\ Opcode[f.code[f.ip + 1]].op # "STOP" =>
              f.ip + 1 + PushLength(f.code[f.ip + 1]) \in InstructionStarts(f.code)
  <1>1. /\ f.code \in Seq(Byte) /\ f.ip \in InstructionStarts(f.code)
        /\ f.len \in Nat /\ Len(f.code) = f.len + WORD + 1
        /\ \A i \in (f.len + 1)..Len(f.code) : f.code[i] = 0
    BY DEF FrameOK, FrameType, CodeOK
  <1>2. f.ip \in 0..(Len(f.code) - 1)
    BY <1>1, StartsClosed
  <1>3. f.ip \in Nat /\ f.ip + 1 <= Len(f.code)
    BY <1>2, <1>1
  <1>4. f.code[f.ip + 1] \in Byte
    BY <1>1, <1>3
  <1>5. ASSUME Opcode[f.code[f.ip + 1]].op # "STOP"
        PROVE  f.ip + 1 + PushLength(f.code[f.ip + 1]) \in InstructionStarts(f.code)
    <2> DEFINE n == PushLength(f.code[f.ip + 1])
    <2>1. f.code[f.ip + 1] # 0
      BY <1>5, ConstAssumption
    <2>2. f.ip + 1 <= f.len
      BY <2>1, <1>1, <1>3, Constants
    <2>3. n \in 0..WORD
      BY <1>4, PushLengthType
    <2>4. f.ip + 1 + n < Len(f.code)
      <3> HIDE DEF n
      <3>1. QED BY <2>2, <2>3, <1>1, <1>3, Constants
    <2>5. QED BY <2>4, <1>1, StartsClosed
  <1>6. QED BY <1>3, <1>4, <1>5

\* The slice of a PUSH lies within the code, and an instruction follows it.
LEMMA PushSliceEvolves ==
  ASSUME NEW f, FrameOK(f), f.result = "Continue",
         Opcode[f.code[f.ip + 1]].op = "PUSH"
  PROVE  Evolves(f, push_slice([f EXCEPT !.ip = @ + 1], Opcode[f.code[f.ip + 1]].n))
  <1> DEFINE n == Opcode[f.code[f.ip + 1]].n
             x == [f EXCEPT !.ip = @ + 1]
             y == [f EXCEPT !.ip = f.ip + 1 + n]
             w == PushedWord(x, n)
  <1> SUFFICES Evolves(f, push_slice(x, n))
    OBVIOUS
  <1>0. f \in FrameType /\ f.code \in Seq(Byte)
    BY DEF FrameOK, FrameType
  <1>1. /\ f.ip \in Nat /\ f.code[f.ip + 1] \in Byte
        /\ n = PushLength(f.code[f.ip + 1])
        /\ f.ip + 1 + n \in InstructionStarts(f.code)
    BY NextStarts, ConstAssumption
  <1>2. n \in Nat /\ f.ip + 1 + n < Len(f.code)
    <2>1. n \in 0..WORD
      BY <1>1, PushLengthType
    <2>2. f.ip + 1 + n \in 0..(Len(f.code) - 1)
      BY <1>0, <1>1, StartsClosed
    <2> HIDE DEF n
    <2>3. QED BY <2>1, <2>2, <1>0, Constants
  <1>3. /\ x \in FrameType /\ x.code = f.code /\ x.ip = f.ip + 1 /\ x.stack = f.stack
        /\ x.result = "Continue"
    <2>1. x = [f EXCEPT !.ip = f.ip + 1] /\ f.ip + 1 \in Nat
      BY <1>1
    <2> HIDE DEF x
    <2>2. QED BY <2>1, <1>0, PointerFields
  <1>4. w \in Nat
    <2> HIDE DEF x, n
    <2>1. x.ip + n <= Len(x.code)
      BY <1>1, <1>2, <1>3, <1>0
    <2>2. QED BY <2>1, <1>2, <1>3, PushedWordType
  <1>5. Evolves(f, y)
    <2> HIDE DEF n
    <2>1. QED BY <1>1, PointerEvolves
  <1>6. push_slice(x, n) = Then(push(x, w), [push(x, w) EXCEPT !.ip = @ + n])
    BY DEF push_slice, PushedWord
  <1>7. CASE Len(f.stack) + 1 > STACK_LIMIT
    <2>1. push(x, w) = Fail(x, "StackOverflow")
      <3> HIDE DEF x
      <3>1. QED BY <1>3, <1>7 DEF push
    <2>2. Fail(x, "StackOverflow").result = "StackOverflow"
      BY <1>3 DEF Fail, FrameType
    <2>3. push_slice(x, n) = Fail(x, "StackOverflow")
      <3> HIDE DEF x, n
      <3>1. QED BY <2>1, <2>2, <1>6 DEF Then
    <2>4. x = [f EXCEPT !.ip = f.ip + 1] /\ f.ip + 1 <= Len(f.code) /\ f.ip + 1 \in Nat
      BY <1>1, <1>2, NextStarts
    <2>5. "StackOverflow" \in Result
      BY DEF Result
    <2> HIDE DEF x, n
    <2>6. QED BY <2>3, <2>4, <2>5, FailAnywhere
  <1>8. CASE ~ (Len(f.stack) + 1 > STACK_LIMIT)
    <2>1. push(x, w) = [x EXCEPT !.stack = Append(@, w)]
      <3> HIDE DEF x, w
      <3>1. QED BY <1>3, <1>8 DEF push
    <2>2. push(x, w).result = "Continue"
      <3> HIDE DEF w
      <3>1. QED BY <2>1, <1>3 DEF FrameType
    <2>3. push_slice(x, n) = [push(x, w) EXCEPT !.ip = @ + n]
      <3> HIDE DEF x, n, w
      <3>1. QED BY <2>2, <1>6 DEF Then
    <2>4. push(y, w) = [y EXCEPT !.stack = Append(@, w)]
      <3>1. y.stack = f.stack
        BY <1>0 DEF FrameType
      <3> HIDE DEF y, w
      <3>2. QED BY <3>1, <1>8 DEF push
    <2>5. push_slice(x, n) = push(y, w)
      <3> DEFINE s == Append(f.stack, w)
      <3>1. push(x, w) = [x EXCEPT !.stack = s]
        <4> HIDE DEF x, w
        <4>1. QED BY <2>1, <1>3
      <3>2. push(y, w) = [y EXCEPT !.stack = s]
        <4>1. y.stack = f.stack
          BY <1>0 DEF FrameType
        <4> HIDE DEF y, w
        <4>2. QED BY <2>4, <4>1
      <3>3. push_slice(x, n) = [[x EXCEPT !.stack = s] EXCEPT !.ip = @ + n]
        BY <2>3, <3>1
      <3>4. f.ip + 1 + n = (f.ip + 1) + n
        OBVIOUS
      <3> HIDE DEF n, s
      <3>5. [[x EXCEPT !.stack = s] EXCEPT !.ip = @ + n] = [y EXCEPT !.stack = s]
        <4>1. f \in FrameType /\ x = [f EXCEPT !.ip = f.ip + 1]
          BY <1>0
        <4>2. y = [f EXCEPT !.ip = (f.ip + 1) + n]
          BY <3>4
        <4> HIDE DEF x, y
        <4>3. [x EXCEPT !.stack = s].ip = f.ip + 1
          BY <4>1 DEF FrameType
        <4>4. [[x EXCEPT !.stack = s] EXCEPT !.ip = @ + n]
                = [[x EXCEPT !.stack = s] EXCEPT !.ip = (f.ip + 1) + n]
          BY <4>3
        <4>5. QED BY <4>1, <4>2, <4>4, UpdatesCommute
      <3> HIDE DEF x, y
      <3>6. QED BY <3>2, <3>3, <3>5
    <2>6. Evolves(y, push(y, w))
      <3> HIDE DEF y, w
      <3>1. QED BY <1>4, <1>5, PushEvolves DEF Evolves
    <2> HIDE DEF x, y, n, w
    <2>7. QED BY <2>5, <2>6, <1>5, EvolvesTransitive
  <1>9. QED BY <1>7, <1>8

LEMMA JumpEvolves ==
  ASSUME NEW f, FrameOK(f), NEW dest
  PROVE  Evolves(f, jump_to(f, dest))
  <1>1. CASE ~Fits(dest) \/ ~is_valid_jump(f, dest)
    <2>1. jump_to(f, dest) = Fail(f, "InvalidJump") /\ "InvalidJump" \in Result
      BY <1>1 DEF jump_to, Result
    <2>2. QED BY <2>1, FailEvolves
  <1>2. CASE Fits(dest) /\ is_valid_jump(f, dest)
    <2>1. jump_to(f, dest) = [f EXCEPT !.ip = dest]
      BY <1>2 DEF jump_to
    <2>2. dest \in InstructionStarts(f.code)
      BY <1>2 DEF is_valid_jump, FrameOK, CodeOK
    <2>3. QED BY <2>1, <2>2, PointerEvolves
  <1>3. QED BY <1>1, <1>2

-----------------------------------------------------------------------------
(* Memory                                                                   *)

LEMMA WholeWords ==
  ASSUME NEW x \in Nat
  PROVE  /\ next_multiple_of_32(x) \in Nat /\ x <= next_multiple_of_32(x)
         /\ next_multiple_of_32(x) % WORD = 0
  <1>1. WORD \in Nat /\ WORD > 0
    BY Constants
  <1> DEFINE k == (x + WORD - 1) \div WORD
  <1>2. k \in Nat
    BY <1>1
  <1>3. x <= WORD * k
    BY <1>1
  <1>4. (WORD * k) % WORD = 0 /\ WORD * k \in Nat
    <2> HIDE DEF k
    <2>1. QED BY <1>1, <1>2
  <1>5. QED BY <1>3, <1>4 DEF next_multiple_of_32

LEMMA MemoryEvolves ==
  ASSUME NEW f, FrameOK(f), NEW m \in Nat, f.memory <= m, m <= MaxAlloc, m % WORD = 0
  PROVE  /\ Evolves(f, [f EXCEPT !.memory = m])
         /\ [f EXCEPT !.memory = m].memory = m
         /\ [f EXCEPT !.memory = m].result = f.result
  <1> DEFINE g == [f EXCEPT !.memory = m]
  <1>1. /\ g \in FrameType /\ Kept(f, g) /\ g.waits = f.waits /\ g.memory = m
        /\ g.return_range = f.return_range /\ g.ip = f.ip /\ g.result = f.result
        /\ g.stack = f.stack
    BY DEF FrameOK, FrameType, Kept
  <1>2. f.memory \in Nat /\ f.waits \in Waits /\ f.return_range \in [start : Nat, len : Nat]
    BY DEF FrameOK, FrameType
  <1> HIDE DEF g
  <1>3. MemoryOK(g)
    <2>1. \/ f.return_range.start = USIZE_MAX
          \/ f.return_range.start + f.return_range.len <= m
      BY <1>2, Constants DEF FrameOK, MemoryOK
    <2>2. Covers(m, f.waits)
      BY <1>2, Constants DEF FrameOK, MemoryOK, Covers, Waits, Idle
    <2>3. QED BY <1>1, <2>1, <2>2 DEF MemoryOK
  <1>4. FrameOK(g)
    BY <1>1, <1>3 DEF FrameOK, CodeOK, Kept
  <1>5. QED BY <1>1, <1>4 DEF Evolves, g

\* A resize that succeeds covers the range that was asked for.
LEMMA memory_resizeEvolves ==
  ASSUME NEW f, FrameOK(f), f.result = "Continue", NEW offset \in Nat, NEW len \in Nat
  PROVE  LET g == memory_resize(f, offset, len)
         IN /\ Evolves(f, g)
            /\ g.result = "Continue" => offset + len <= g.memory /\ f.memory <= g.memory
  <1> DEFINE x == Saturated(offset + len)
             size == next_multiple_of_32(x)
             g == memory_resize(f, offset, len)
  <1>0. f.memory \in Nat /\ f.memory <= MaxAlloc /\ f \in FrameType
    BY DEF FrameOK, FrameType, MemoryOK
  <1>1. x \in Nat /\ (x < USIZE_MAX => offset + len = x)
    BY Constants DEF Saturated, Fits
  <1>2. size \in Nat /\ x <= size /\ size % WORD = 0
    <2> HIDE DEF x
    <2>1. QED BY <1>1, WholeWords
  <1>3. size <= MaxAlloc => offset + len <= size
    <2> HIDE DEF x, size
    <2>1. QED BY <1>1, <1>2, Constants
  <1>4. "MemoryOOG" \in Result /\ "Abort" \in Result
    BY DEF Result
  <1>5. CASE ~Fits(size)
    <2>1. g = Fail(f, "MemoryOOG")
      <3> HIDE DEF x
      <3>1. QED BY <1>5 DEF memory_resize, x
    <2> HIDE DEF g
    <2>2. g.result # "Continue" /\ Evolves(f, g)
      BY <2>1, <1>4, FailEvolves
    <2>3. QED BY <2>2 DEF g
  <1>6. CASE Fits(size) /\ size <= f.memory
    <2>1. g = f
      BY <1>6 DEF memory_resize
    <2>2. offset + len <= f.memory
      <3> HIDE DEF x, size, g
      <3>1. QED BY <1>0, <1>2, <1>3, <1>6, Constants
    <2> HIDE DEF g
    <2>3. QED BY <2>1, <2>2, <1>0, EvolvesReflexive DEF g
  <1>7. CASE Fits(size) /\ ~(size <= f.memory) /\ size > MaxAlloc
    <2>1. g = Fail(f, "Abort")
      BY <1>7 DEF memory_resize
    <2> HIDE DEF g
    <2>2. g.result # "Continue" /\ Evolves(f, g)
      BY <2>1, <1>4, FailEvolves
    <2>3. QED BY <2>2 DEF g
  <1>8. CASE Fits(size) /\ ~(size <= f.memory) /\ ~(size > MaxAlloc)
    <2>1. g = [f EXCEPT !.memory = size]
      BY <1>8 DEF memory_resize
    <2>2. size <= MaxAlloc /\ f.memory <= size /\ offset + len <= size
      <3> HIDE DEF x, size, g
      <3>1. QED BY <1>0, <1>2, <1>3, <1>8, Constants
    <2> HIDE DEF g, size, x
    <2>3. Evolves(f, g) /\ g.memory = size
      BY <2>1, <2>2, <1>2, MemoryEvolves
    <2>4. QED BY <2>2, <2>3 DEF g
  <1>9. QED BY <1>5, <1>6, <1>7, <1>8

\* The same for the operands of an opcode: nothing is touched when the length is 0.
LEMMA ResizedEvolves ==
  ASSUME NEW f, FrameOK(f), f.result = "Continue", NEW offset \in Nat, NEW len \in Nat
  PROVE  LET g == Resized(f, offset, len)
         IN /\ Evolves(f, g)
            /\ g.result = "Continue" => (len = 0 \/ offset + len <= g.memory)
                                       /\ f.memory <= g.memory
  <1> DEFINE g == Resized(f, offset, len)
  <1>0. f.memory \in Nat /\ "InvalidOperandOOG" \in Result
    BY DEF FrameOK, FrameType, Result
  <1>1. CASE ~Fits(len) \/ (len # 0 /\ ~Fits(offset))
    <2>1. g = Fail(f, "InvalidOperandOOG")
      BY <1>1, Constants DEF Resized, Fits
    <2> HIDE DEF g
    <2>2. g.result # "Continue" /\ Evolves(f, g)
      BY <2>1, <1>0, FailEvolves
    <2>3. QED BY <2>2 DEF g
  <1>2. CASE Fits(len) /\ len = 0
    <2>1. g = f
      BY <1>2 DEF Resized
    <2> HIDE DEF g
    <2>2. QED BY <2>1, <1>0, <1>2, EvolvesReflexive DEF g
  <1>3. CASE Fits(len) /\ len # 0 /\ Fits(offset)
    <2>1. g = memory_resize(f, offset, len)
      BY <1>3 DEF Resized
    <2> HIDE DEF g
    <2>2. QED BY <2>1, memory_resizeEvolves DEF g
  <1>4. QED BY <1>1, <1>2, <1>3

\* No slice leaves the memory.
LEMMA AccessEvolves ==
  ASSUME NEW f, FrameOK(f), f.result = "Continue", NEW offset \in Nat, NEW len \in Nat
  PROVE  Evolves(f, Access(f, offset, len))
  <1> DEFINE g == Resized(f, offset, len)
  <1>1. /\ Evolves(f, g)
        /\ g.result = "Continue" => (len = 0 \/ offset + len <= g.memory)
    BY ResizedEvolves
  <1>2. Access(f, offset, len) = Then(g, Slice(g, offset, len))
    BY DEF Access
  <1> HIDE DEF g
  <1>3. g.memory \in Nat
    BY <1>1 DEF Evolves, FrameOK, FrameType
  <1>4. g.result = "Continue" => Slice(g, offset, len) = g
    BY <1>1, <1>3 DEF Slice
  <1>5. QED BY <1>1, <1>2, <1>4 DEF Then

LEMMA leave_withEvolves ==
  ASSUME NEW f, FrameOK(f), f.result = "Continue", NEW offset \in Nat, NEW len \in Nat,
         NEW r \in {"Return", "Revert"}
  PROVE  Evolves(f, leave_with(f, offset, len, r))
  <1> DEFINE g == Resized(f, offset, len)
             range == IF len = 0 THEN NoRange ELSE [start |-> offset, len |-> len]
             h == [g EXCEPT !.result = r, !.return_range = range]
  <1>1. /\ Evolves(f, g)
        /\ g.result = "Continue" => (len = 0 \/ offset + len <= g.memory)
    BY ResizedEvolves
  <1>2. leave_with(f, offset, len, r) = Then(g, h)
    BY DEF leave_with
  <1> HIDE DEF g
  <1>3. ASSUME g.result = "Continue" PROVE Evolves(g, h)
    <2>1. range \in [start : Nat, len : Nat]
      BY Constants DEF NoRange
    <2>2. range.start = USIZE_MAX \/ range.start + range.len <= g.memory
      BY <1>1, <1>3 DEF NoRange
    <2>3. r \in Result /\ r # "Panic" /\ r # "Continue"
      BY DEF Result
    <2>4. FrameOK(g)
      BY <1>1 DEF Evolves
    <2> HIDE DEF range
    <2>5. QED
      BY <2>1, <2>2, <2>3, <2>4 DEF FrameOK, FrameType, CodeOK, MemoryOK, Covers, Kept, Evolves
  <1>4. g.result = "Continue" => Evolves(f, h)
    <2> HIDE DEF h
    <2>1. QED BY <1>1, <1>3, EvolvesTransitive
  <1> HIDE DEF h
  <1>5. QED BY <1>1, <1>2, <1>4, ThenEvolves

LEMMA returndatacopyEvolves ==
  ASSUME NEW f, FrameOK(f), f.result = "Continue",
         NEW offset \in Nat, NEW from \in Nat, NEW len \in Nat
  PROVE  Evolves(f, returndatacopy(f, offset, from, len))
  <1>1. "InvalidOperandOOG" \in Result /\ "OutOfOffset" \in Result
    BY DEF Result
  <1>2. Evolves(f, Fail(f, "InvalidOperandOOG")) /\ Evolves(f, Fail(f, "OutOfOffset"))
    BY <1>1, FailEvolves
  <1>3. Evolves(f, Access(f, offset, len))
    BY AccessEvolves
  <1>4. QED BY <1>2, <1>3 DEF returndatacopy

-----------------------------------------------------------------------------
(* The inductive invariant                                                  *)

FramesOK(fs) ==
  /\ fs \in Seq(FrameType) /\ Len(fs) > 0
  /\ \A i \in 1..Len(fs) : FrameOK(fs[i])

IInv == FramesOK(frames)

\* The innermost frame executes an opcode.
Evolution == \E g, what : FrameOK(g) /\ Kept(Top, g) /\ Becomes(g, what)

LEMMA TopOK ==
  ASSUME IInv
  PROVE  /\ FrameOK(Top) /\ Top = frames[Len(frames)] /\ Len(frames) \in Nat
         /\ Len(frames) > 0 /\ frames \in Seq(FrameType)
  BY DEF IInv, FramesOK, Top, Last

\* Only the innermost frame changes.
LEMMA BecomesOK ==
  ASSUME IInv, NEW g, NEW what, FrameOK(g), Kept(Top, g), Becomes(g, what)
  PROVE  IInv'
  <1>0. FrameOK(Top) /\ Top = frames[Len(frames)] /\ Len(frames) \in Nat
        /\ Len(frames) > 0 /\ frames \in Seq(FrameType)
    BY TopOK
  <1>1. frames' = [frames EXCEPT ![Len(frames)] = g] /\ g \in FrameType
    BY DEF Becomes, FrameOK
  <1>2. frames' \in Seq(FrameType) /\ Len(frames') = Len(frames)
    BY <1>0, <1>1
  <1>3. \A i \in 1..Len(frames) : frames'[i] = IF i = Len(frames) THEN g ELSE frames[i]
    BY <1>0, <1>1
  <1>4. QED BY <1>0, <1>2, <1>3 DEF IInv, FramesOK

\* Evolution keeps the invariant.
LEMMA EvolutionOK ==
  ASSUME IInv, Evolution
  PROVE  IInv'
  BY BecomesOK DEF Evolution

LEMMA DoEvolves ==
  ASSUME NEW f, Evolves(Top, f), Do(f), Running
  PROVE  Evolution
  <1> DEFINE what == IF f.ip < Top.ip THEN "back" ELSE "none"
  <1>1. Becomes(f, what)
    BY DEF Do
  <1> HIDE DEF what
  <1>2. QED BY <1>1 DEF Evolution, Evolves

LEMMA WroteEvolves ==
  ASSUME NEW f, Evolves(Top, f), Wrote(f), Running
  PROVE  Evolution
  <1> DEFINE what == IF f.result \in {"Continue", "SelfDestruct"} THEN "write" ELSE "none"
  <1>1. Becomes(f, what)
    BY DEF Wrote
  <1> HIDE DEF what
  <1>2. QED BY <1>1 DEF Evolution, Evolves

\* Fetching an opcode other than STOP and PUSH leads to the next instruction.
LEMMA FetchEvolves ==
  ASSUME IInv, Running, Current.op # "STOP", Current.op # "PUSH"
  PROVE  /\ Evolves(Top, Fetched) /\ Fetched.result = "Continue"
         /\ Fetched.is_static = Top.is_static /\ FrameOK(Fetched)
  <1>0. FrameOK(Top) /\ Top \in FrameType /\ Top.result = "Continue"
    BY TopOK DEF FrameOK, Running
  <1>1. /\ Top.ip \in Nat /\ Top.code[Top.ip + 1] \in Byte
        /\ Top.ip + 1 + PushLength(Top.code[Top.ip + 1]) \in InstructionStarts(Top.code)
    BY <1>0, NextStarts DEF Current
  <1>2. PushLength(Top.code[Top.ip + 1]) = 0
    <2>1. PushLength(Top.code[Top.ip + 1]) \in 0..WORD
      BY <1>1, PushLengthType
    <2>2. ~(PushLength(Top.code[Top.ip + 1]) > 0)
      BY <1>1, ConstAssumption DEF Current
    <2>3. QED BY <2>1, <2>2, Constants
  <1>3. Top.ip + 1 \in InstructionStarts(Top.code) /\ Top.ip + 1 \in Nat
    BY <1>1, <1>2
  <1>4. Fetched = [Top EXCEPT !.ip = Top.ip + 1]
    BY DEF Fetched
  <1>5. Evolves(Top, Fetched)
    BY <1>0, <1>3, <1>4, PointerEvolves
  <1>6. Fetched.result = Top.result /\ Fetched.is_static = Top.is_static
    BY <1>0, <1>3, <1>4, PointerFields
  <1>7. QED BY <1>0, <1>5, <1>6 DEF Evolves

\* The operands are words as soon as their pop succeeds.
LEMMA OperandsEvolve ==
  ASSUME IInv, Running, Current.op # "STOP", Current.op # "PUSH", NEW n \in Nat
  PROVE  /\ Evolves(Top, pop(Fetched, n)) /\ FrameOK(pop(Fetched, n))
         /\ pop(Fetched, n).result = "Continue" =>
              \A k \in 1..n : Word(Fetched, k) \in Nat
  <1>1. Evolves(Top, Fetched) /\ FrameOK(Fetched)
    BY FetchEvolves
  <1>2. /\ Evolves(Fetched, pop(Fetched, n))
        /\ pop(Fetched, n).result = "Continue" => n <= Len(Fetched.stack)
    BY <1>1, PopEvolves
  <1>3. Len(Fetched.stack) \in Nat
    BY <1>1 DEF FrameOK, FrameType
  <1>4. ASSUME pop(Fetched, n).result = "Continue", NEW k \in 1..n
        PROVE  Word(Fetched, k) \in Nat
    <2>1. k \in Nat /\ k > 0 /\ k <= Len(Fetched.stack)
      BY <1>2, <1>3, <1>4
    <2>2. QED BY <2>1, <1>1, WordType
  <1>5. QED BY <1>1, <1>2, <1>4, EvolvesTransitive DEF Evolves

\* One operation after another one.
LEMMA ChainEvolves ==
  ASSUME NEW f, NEW g, NEW h, Evolves(f, g), g.result = "Continue" => Evolves(g, h)
  PROVE  Evolves(f, Then(g, h)) /\ FrameOK(Then(g, h))
  <1>1. g.result = "Continue" => Evolves(f, h)
    BY EvolvesTransitive
  <1>2. QED BY <1>1, ThenEvolves DEF Evolves

-----------------------------------------------------------------------------
(* Opcodes of one frame                                                     *)

LEMMA StopEvolves ==
  ASSUME IInv, return_stop \/ return_invalid
  PROVE  Running /\ Evolution
  <1>0. FrameOK(Top) /\ Top \in FrameType
    BY TopOK DEF FrameOK
  <1>1. Running
    BY DEF return_stop, return_invalid, Executing
  <1>2. Top.ip + 1 \in Nat /\ Top.ip + 1 <= Len(Top.code)
    BY <1>0, <1>1, NextStarts DEF Running
  <1>3. PICK r \in {"Stop", "InvalidFEOpcode", "OpcodeNotFound"} : Do(Fail(Fetched, r))
    BY DEF return_stop, return_invalid
  <1>4. Fetched = [Top EXCEPT !.ip = Top.ip + 1]
    BY DEF Fetched
  <1>5. r \in Result /\ r # "Panic" /\ r # "Continue"
    BY DEF Result
  <1>6. Evolves(Top, Fail(Fetched, r))
    BY <1>0, <1>2, <1>4, <1>5, FailAnywhere
  <1>7. QED BY <1>1, <1>3, <1>6, DoEvolves

LEMMA JumpsEvolve ==
  ASSUME IInv, Jump \/ JumpI \/ JumpDest
  PROVE  Running /\ Evolution
  <1>1. CASE Jump
    <2> DEFINE f == pop(Fetched, 1)
    <2>1. Running /\ Current.op = "JUMP" /\ Do(Then(f, jump_to(f, Word(Fetched, 1))))
      BY <1>1 DEF Jump, Executing
    <2>2. Evolves(Top, f) /\ FrameOK(f)
      BY <2>1, OperandsEvolve
    <2> HIDE DEF f
    <2>3. Evolves(f, jump_to(f, Word(Fetched, 1)))
      BY <2>2, JumpEvolves
    <2>4. QED BY <2>1, <2>2, <2>3, ChainEvolves, DoEvolves
  <1>2. CASE JumpI
    <2> DEFINE f == pop(Fetched, 2)
    <2>1. Running /\ Current.op = "JUMPI" /\ Do(Then(f, jumpi(Fetched, f)))
      BY <1>2 DEF JumpI, Executing
    <2>2. Evolves(Top, f) /\ FrameOK(f)
      BY <2>1, OperandsEvolve
    <2> HIDE DEF f
    <2>3. Evolves(f, jumpi(Fetched, f))
      BY <2>2, JumpEvolves, EvolvesReflexive DEF jumpi
    <2>4. QED BY <2>1, <2>2, <2>3, ChainEvolves, DoEvolves
  <1>3. CASE JumpDest
    <2>1. Running /\ Current.op = "JUMPDEST" /\ Do(Fetched)
      BY <1>3 DEF JumpDest, Executing
    <2>2. QED BY <2>1, FetchEvolves, DoEvolves
  <1>4. QED BY <1>1, <1>2, <1>3

LEMMA StackOpcodesEvolve ==
  ASSUME IInv, Pop \/ Push \/ Dup \/ Swap
  PROVE  Running /\ Evolution
  <1>0. FrameOK(Top) /\ Top \in FrameType
    BY TopOK DEF FrameOK
  <1>1. CASE Pop
    <2>1. Running /\ Current.op = "POP" /\ Do(pop(Fetched, 1))
      BY <1>1 DEF Pop, Executing
    <2>2. QED BY <2>1, OperandsEvolve, DoEvolves
  <1>2. CASE Push
    <2>1. Running /\ Current.op = "PUSH" /\ Do(push_slice(Fetched, N))
      BY <1>2 DEF Push, Executing
    <2>2. Evolves(Top, push_slice(Fetched, N))
      BY <1>0, <2>1, PushSliceEvolves DEF Running, Current, N, Fetched
    <2>3. QED BY <2>1, <2>2, DoEvolves
  <1>3. ASSUME Running, Current.op \in {"DUP", "SWAP"} PROVE N \in Nat /\ N > 0
    <2>1. Top.code[Top.ip + 1] \in Byte
      BY <1>0, <1>3, NextStarts DEF Running
    <2>2. QED BY <1>3, <2>1, ConstAssumption DEF Current, N
  <1>4. CASE Dup
    <2>1. Running /\ Current.op = "DUP" /\ Do(dup(Fetched, N))
      BY <1>4 DEF Dup, Executing
    <2>2. Evolves(Top, Fetched) /\ FrameOK(Fetched)
      BY <2>1, FetchEvolves
    <2>3. Evolves(Top, dup(Fetched, N))
      BY <1>3, <2>1, <2>2, DupEvolves, EvolvesTransitive
    <2>4. QED BY <2>1, <2>3, DoEvolves
  <1>5. CASE Swap
    <2>1. Running /\ Current.op = "SWAP" /\ Do(swap(Fetched, N))
      BY <1>5 DEF Swap, Executing
    <2>2. Evolves(Top, Fetched) /\ FrameOK(Fetched)
      BY <2>1, FetchEvolves
    <2>3. Evolves(Top, swap(Fetched, N))
      BY <1>3, <2>1, <2>2, SwapEvolves, EvolvesTransitive
    <2>4. QED BY <2>1, <2>3, DoEvolves
  <1>6. QED BY <1>1, <1>2, <1>4, <1>5

\* The immediate operand of the opcode.
LEMMA ImmediateType ==
  ASSUME IInv, Running
  PROVE  N \in Nat
  <1>1. Top.code[Top.ip + 1] \in Byte
    BY TopOK, NextStarts DEF Running
  <1>2. QED BY <1>1, ConstAssumption DEF Current, N

LEMMA WordOpcodesEvolve ==
  ASSUME IInv, PushOwn \/ PushEnvironment \/ Compute \/ ReadHost
  PROVE  Running /\ Evolution
  <1>0. Top \in FrameType /\ HostWord \subseteq Nat
    BY TopOK, ConstAssumption DEF FrameOK
  <1>1. CASE PushOwn
    <2>1. PICK op \in DOMAIN OwnState : Executing({op}) /\ Do(push(Fetched, OwnState[op]))
      BY <1>1 DEF PushOwn
    <2>2. op \in {"PC", "MSIZE", "CODESIZE", "RETURNDATASIZE", "PUSH0"}
      BY DEF OwnState
    <2>3. OwnState[op] \in Nat
      BY <1>0, <2>2 DEF OwnState, FrameType
    <2>4. Running /\ Current.op # "STOP" /\ Current.op # "PUSH"
      BY <2>1, <2>2 DEF Executing
    <2>5. Evolves(Top, push(Fetched, OwnState[op]))
      BY <2>3, <2>4, FetchEvolves, PushEvolves, EvolvesTransitive
    <2>6. QED BY <2>1, <2>4, <2>5, DoEvolves
  <1>2. CASE PushEnvironment
    <2>1. PICK w \in HostWord : Running /\ Current.op = "ENV" /\ Do(push(Fetched, w))
      BY <1>2 DEF PushEnvironment, Executing
    <2>2. Evolves(Top, push(Fetched, w))
      BY <1>0, <2>1, FetchEvolves, PushEvolves, EvolvesTransitive
    <2>3. QED BY <2>1, <2>2, DoEvolves
  <1>3. CASE Compute
    <2> DEFINE f == pop(Fetched, N)
    <2>1. PICK w \in HostWord : Running /\ Current.op = "COMPUTE" /\ Do(Then(f, push(f, w)))
      BY <1>3 DEF Compute, Executing
    <2>2. Evolves(Top, f) /\ FrameOK(f)
      BY <2>1, OperandsEvolve, ImmediateType
    <2> HIDE DEF f
    <2>3. Evolves(f, push(f, w))
      BY <1>0, <2>2, PushEvolves
    <2>4. QED BY <2>1, <2>2, <2>3, ChainEvolves, DoEvolves
  <1>4. CASE ReadHost
    <2> DEFINE f == pop(Fetched, N)
    <2>1. /\ Running /\ Current.op = "READ"
          /\ \/ Do(Then(f, Fail(f, "FatalExternalError")))
             \/ \E w \in HostWord : Do(Then(f, push(f, w)))
      BY <1>4 DEF ReadHost, Executing
    <2>2. Evolves(Top, f) /\ FrameOK(f)
      BY <2>1, OperandsEvolve, ImmediateType
    <2> HIDE DEF f
    <2>3. "FatalExternalError" \in Result
      BY DEF Result
    <2>4. Evolves(f, Fail(f, "FatalExternalError"))
      BY <2>2, <2>3, FailEvolves
    <2>5. \A w \in HostWord : Evolves(f, push(f, w))
      BY <1>0, <2>2, PushEvolves
    <2>6. QED BY <2>1, <2>2, <2>4, <2>5, ChainEvolves, DoEvolves
  <1>5. QED BY <1>1, <1>2, <1>3, <1>4

LEMMA MemoryOpcodesEvolve ==
  ASSUME IInv, LoadMemory \/ StoreMemory \/ Sha3 \/ Copy \/ ExtCodeCopy
               \/ ReturnDataCopy \/ Return
  PROVE  Running /\ Evolution
  <1>0. HostWord \subseteq Nat /\ WORD \in Nat
    BY ConstAssumption, Constants
  <1>1. CASE LoadMemory
    <2> DEFINE f == pop(Fetched, 1)
               a == Access(f, Word(Fetched, 1), WORD)
    <2>1. PICK w \in HostWord : Running /\ Current.op = "MLOAD" /\ Do(Then(Then(f, a), push(Then(f, a), w)))
      BY <1>1 DEF LoadMemory, Executing
    <2>2. /\ Evolves(Top, f) /\ FrameOK(f)
          /\ f.result = "Continue" => Word(Fetched, 1) \in Nat
      BY <2>1, OperandsEvolve
    <2>3. f.result = "Continue" => Evolves(f, a)
      <3> HIDE DEF f
      <3>1. QED BY <1>0, <2>2, AccessEvolves
    <2> HIDE DEF f, a
    <2>4. Evolves(Top, Then(f, a)) /\ FrameOK(Then(f, a))
      BY <2>2, <2>3, ChainEvolves
    <2>5. Evolves(Then(f, a), push(Then(f, a), w))
      BY <1>0, <2>4, PushEvolves
    <2>6. QED BY <2>1, <2>4, <2>5, ChainEvolves, DoEvolves
  <1>2. CASE StoreMemory
    <2> DEFINE f == pop(Fetched, 2)
    <2>1. Running /\ Current.op = "MSTORE" /\ Do(Then(f, Access(f, Word(Fetched, 1), N)))
      BY <1>2 DEF StoreMemory, Executing
    <2>2. /\ Evolves(Top, f) /\ FrameOK(f)
          /\ f.result = "Continue" => Word(Fetched, 1) \in Nat
      BY <2>1, OperandsEvolve
    <2> HIDE DEF f
    <2>3. f.result = "Continue" => Evolves(f, Access(f, Word(Fetched, 1), N))
      BY <2>1, <2>2, ImmediateType, AccessEvolves
    <2>4. QED BY <2>1, <2>2, <2>3, ChainEvolves, DoEvolves
  <1>3. CASE Sha3
    <2> DEFINE f == pop(Fetched, 2)
               a == Access(f, Word(Fetched, 1), Word(Fetched, 2))
    <2>1. PICK w \in HostWord : Running /\ Current.op = "SHA3" /\ Do(Then(Then(f, a), push(Then(f, a), w)))
      BY <1>3 DEF Sha3, Executing
    <2>2. /\ Evolves(Top, f) /\ FrameOK(f)
          /\ f.result = "Continue" => Word(Fetched, 1) \in Nat /\ Word(Fetched, 2) \in Nat
      BY <2>1, OperandsEvolve
    <2>3. f.result = "Continue" => Evolves(f, a)
      <3> HIDE DEF f
      <3>1. QED BY <2>2, AccessEvolves
    <2> HIDE DEF f, a
    <2>4. Evolves(Top, Then(f, a)) /\ FrameOK(Then(f, a))
      BY <2>2, <2>3, ChainEvolves
    <2>5. Evolves(Then(f, a), push(Then(f, a), w))
      BY <1>0, <2>4, PushEvolves
    <2>6. QED BY <2>1, <2>4, <2>5, ChainEvolves, DoEvolves
  <1>4. CASE Copy
    <2> DEFINE f == pop(Fetched, 3)
    <2>1. Running /\ Current.op = "COPY" /\ Do(Then(f, Access(f, Word(Fetched, 1), Word(Fetched, 3))))
      BY <1>4 DEF Copy, Executing
    <2>2. /\ Evolves(Top, f) /\ FrameOK(f)
          /\ f.result = "Continue" => Word(Fetched, 1) \in Nat /\ Word(Fetched, 3) \in Nat
      BY <2>1, OperandsEvolve
    <2> HIDE DEF f
    <2>3. f.result = "Continue" => Evolves(f, Access(f, Word(Fetched, 1), Word(Fetched, 3)))
      BY <2>2, AccessEvolves
    <2>4. QED BY <2>1, <2>2, <2>3, ChainEvolves, DoEvolves
  <1>5. CASE ReturnDataCopy
    <2> DEFINE f == pop(Fetched, 3)
               a == returndatacopy(f, Word(Fetched, 1), Word(Fetched, 2), Word(Fetched, 3))
    <2>1. Running /\ Current.op = "RETURNDATACOPY" /\ Do(Then(f, a))
      BY <1>5 DEF ReturnDataCopy, Executing
    <2>2. /\ Evolves(Top, f) /\ FrameOK(f)
          /\ f.result = "Continue" =>
               Word(Fetched, 1) \in Nat /\ Word(Fetched, 2) \in Nat /\ Word(Fetched, 3) \in Nat
      BY <2>1, OperandsEvolve
    <2>3. f.result = "Continue" => Evolves(f, a)
      <3> HIDE DEF f
      <3>1. QED BY <2>2, returndatacopyEvolves
    <2> HIDE DEF f, a
    <2>4. QED BY <2>1, <2>2, <2>3, ChainEvolves, DoEvolves
  <1>6. CASE Return
    <2> DEFINE f == pop(Fetched, 2)
               a(op) == leave_with(f, Word(Fetched, 1), Word(Fetched, 2), op)
    <2>1. PICK op \in {"Return", "Revert"} : Running /\ Current.op = op /\ Do(Then(f, a(op)))
      BY <1>6 DEF Return, Executing
    <2>2. /\ Evolves(Top, f) /\ FrameOK(f)
          /\ f.result = "Continue" => Word(Fetched, 1) \in Nat /\ Word(Fetched, 2) \in Nat
      BY <2>1, OperandsEvolve
    <2>3. f.result = "Continue" => Evolves(f, a(op))
      <3> HIDE DEF f
      <3>1. QED BY <2>2, leave_withEvolves
    <2> HIDE DEF f, a
    <2>4. QED BY <2>1, <2>2, <2>3, ChainEvolves, DoEvolves
  <1>7. CASE ExtCodeCopy
    <2> DEFINE f == pop(Fetched, 1)
               g == Then(f, pop(f, 3))
               a == Access(g, Word(Fetched, 2), Word(Fetched, 4))
    <2>1. /\ Running /\ Current.op = "EXTCODECOPY"
          /\ Do(Then(g, Fail(g, "FatalExternalError"))) \/ Do(Then(g, a))
      BY <1>7 DEF ExtCodeCopy, Executing
    <2>2. Evolves(Top, f) /\ FrameOK(f)
      BY <2>1, OperandsEvolve
    <2>3. FrameOK(Fetched) /\ Len(Fetched.stack) \in Nat
      BY <2>1, FetchEvolves DEF FrameOK, FrameType
    <2>4. f.result = "Continue" => Len(f.stack) = Len(Fetched.stack) - 1 /\ 1 <= Len(Fetched.stack)
      BY <2>3, PopEvolves
    <2> HIDE DEF f
    <2>5. /\ Evolves(f, pop(f, 3))
          /\ pop(f, 3).result = "Continue" => 3 <= Len(f.stack) /\ f.result = "Continue"
      BY <2>2, PopEvolves
    <2>6. Evolves(Top, g) /\ FrameOK(g)
      BY <2>2, <2>5, ChainEvolves
    <2>7. g.result = "Continue" => 4 <= Len(Fetched.stack)
      BY <2>3, <2>4, <2>5 DEF Then
    <2>8. g.result = "Continue" => Word(Fetched, 2) \in Nat /\ Word(Fetched, 4) \in Nat
      BY <2>3, <2>7, WordType
    <2> HIDE DEF g
    <2>9. "FatalExternalError" \in Result
      BY DEF Result
    <2>10. Evolves(g, Fail(g, "FatalExternalError"))
      BY <2>6, <2>9, FailEvolves
    <2>11. g.result = "Continue" => Evolves(g, a)
      BY <2>6, <2>8, AccessEvolves
    <2> HIDE DEF a
    <2>12. QED BY <2>1, <2>6, <2>10, <2>11, ChainEvolves, DoEvolves
  <1>8. QED BY <1>1, <1>2, <1>3, <1>4, <1>5, <1>6, <1>7

-----------------------------------------------------------------------------
(* Opcodes that change the world                                            *)

\* The check of a static call fails the frame or leaves it as it is.
LEMMA CheckEvolves ==
  ASSUME IInv, Running, Current.op # "STOP", Current.op # "PUSH"
  PROVE  LET g == check_staticcall(Fetched)
         IN /\ Evolves(Top, g) /\ FrameOK(g)
            /\ g.result = "Continue" => g = Fetched
  <1>1. Evolves(Top, Fetched) /\ FrameOK(Fetched)
    BY FetchEvolves
  <1>2. "StateChangeDuringStaticCall" \in Result
    BY DEF Result
  <1>3. /\ Evolves(Fetched, Fail(Fetched, "StateChangeDuringStaticCall"))
        /\ Fail(Fetched, "StateChangeDuringStaticCall").result # "Continue"
    BY <1>1, <1>2, FailEvolves
  <1>4. Evolves(Top, Fail(Fetched, "StateChangeDuringStaticCall"))
    BY <1>1, <1>3, EvolvesTransitive
  <1>5. QED BY <1>1, <1>3, <1>4 DEF check_staticcall, Evolves

LEMMA WriteOpcodesEvolve ==
  ASSUME IInv, Sstore \/ Log \/ SelfDestruct
  PROVE  Running /\ Evolution
  <1> DEFINE g == check_staticcall(Fetched)
  <1>0. ASSUME Running, Current.op # "STOP", Current.op # "PUSH"
        PROVE  /\ Evolves(Top, g) /\ FrameOK(g)
               /\ g.result = "Continue" => g = Fetched
    BY <1>0, CheckEvolves
  <1>1. "FatalExternalError" \in Result /\ "SelfDestruct" \in Result
    BY DEF Result
  <1>2. CASE Sstore
    <2> DEFINE f == Then(g, pop(g, 2))
    <2>1. /\ Running /\ Current.op = "SSTORE"
          /\ Wrote(f) \/ Do(Then(f, Fail(f, "FatalExternalError")))
      BY <1>2 DEF Sstore, Executing
    <2>2. /\ Evolves(Top, g) /\ FrameOK(g)
      BY <1>0, <2>1
    <2>3. Evolves(Top, f) /\ FrameOK(f) /\ (g.result # "Continue" => f = g)
      <3> HIDE DEF g
      <3>1. Evolves(g, pop(g, 2))
        BY <2>2, PopEvolves
      <3>2. QED BY <2>2, <3>1, ChainEvolves DEF Then
    <2> HIDE DEF f, g
    <2>4. Evolves(f, Fail(f, "FatalExternalError"))
      BY <1>1, <2>3, FailEvolves
    <2>5. Evolves(Top, Then(f, Fail(f, "FatalExternalError")))
      BY <2>3, <2>4, ChainEvolves
    <2>6. QED BY <2>1, <2>2, <2>3, <2>5, DoEvolves, WroteEvolves
  <1>3. CASE Log
    <2> DEFINE f == Then(g, pop(g, 2))
               a == Access(f, Word(Fetched, 1), Word(Fetched, 2))
               h == Then(f, a)
               k == Then(h, pop(h, N))
    <2>1. Running /\ Current.op = "LOG" /\ Wrote(k)
      BY <1>3 DEF Log, Executing
    <2>2. /\ Evolves(Top, g) /\ FrameOK(g)
          /\ g.result = "Continue" => g = Fetched
      BY <1>0, <2>1
    <2>3. Evolves(Top, f) /\ FrameOK(f) /\ (g.result # "Continue" => f = g)
      <3> HIDE DEF g
      <3>1. Evolves(g, pop(g, 2))
        BY <2>2, PopEvolves
      <3>2. QED BY <2>2, <3>1, ChainEvolves DEF Then
    <2>4. f.result = "Continue" => Word(Fetched, 1) \in Nat /\ Word(Fetched, 2) \in Nat
      <3> HIDE DEF g
      <3>1. f.result = "Continue" => g.result = "Continue" /\ f = pop(Fetched, 2)
        BY <2>2 DEF Then
      <3> HIDE DEF f
      <3>2. QED BY <2>1, <3>1, OperandsEvolve
    <2>5. f.result = "Continue" => Evolves(f, a)
      <3> HIDE DEF f
      <3>1. QED BY <2>3, <2>4, AccessEvolves
    <2>6. Evolves(Top, h) /\ FrameOK(h) /\ (f.result # "Continue" => h = f)
      <3> HIDE DEF f, a
      <3>1. QED BY <2>3, <2>5, ChainEvolves DEF Then
    <2>7. Evolves(Top, k) /\ FrameOK(k) /\ (h.result # "Continue" => k = h)
      <3> HIDE DEF h
      <3>1. Evolves(h, pop(h, N))
        BY <2>1, <2>6, ImmediateType, PopEvolves
      <3>2. QED BY <2>6, <3>1, ChainEvolves DEF Then
    <2> HIDE DEF g, f, h, k
    <2>8. QED BY <2>1, <2>7, WroteEvolves
  <1>4. CASE SelfDestruct
    <2> DEFINE f == Then(g, pop(g, 1))
               k == Then(f, Fail(f, "SelfDestruct"))
    <2>1. Running /\ Current.op = "SELFDESTRUCT" /\ Wrote(k)
      BY <1>4 DEF SelfDestruct, Executing
    <2>2. /\ Evolves(Top, g) /\ FrameOK(g)
      BY <1>0, <2>1
    <2>3. Evolves(Top, f) /\ FrameOK(f) /\ (g.result # "Continue" => f = g)
      <3> HIDE DEF g
      <3>1. Evolves(g, pop(g, 1))
        BY <2>2, PopEvolves
      <3>2. QED BY <2>2, <3>1, ChainEvolves DEF Then
    <2>4. Evolves(Top, k) /\ (f.result # "Continue" => k = f)
      <3> HIDE DEF f
      <3>1. Evolves(f, Fail(f, "SelfDestruct"))
        BY <1>1, <2>3, FailEvolves
      <3>2. QED BY <2>3, <3>1, ChainEvolves DEF Then
    <2> HIDE DEF g, f, k
    <2>5. QED BY <2>1, <2>4, WroteEvolves
  <1>5. QED BY <1>2, <1>3, <1>4

\* The memory of a frame that calls covers the range of its answer.
LEMMA rangesOK ==
  ASSUME NEW f, FrameOK(f), f.result = "Continue", NEW op \in Scheme, NEW base,
         \A k \in 1..4 : Word(base, k) \in Nat
  PROVE  LET g == ranges(f, op, base)
         IN FrameOK(g) /\ Kept(f, g)
  <1> DEFINE input  == Access(f, Word(base, 1), Word(base, 2))
             r      == Resized(input, Word(base, 3), Word(base, 4))
             output == Then(input, r)
             w      == [op |-> op, offset |-> Word(base, 3), len |-> Word(base, 4)]
             g      == ranges(f, op, base)
  <1>0. \A k \in {1, 2, 3, 4} : Word(base, k) \in Nat
    OBVIOUS
  <1>1. Evolves(f, input) /\ FrameOK(input)
    BY <1>0, AccessEvolves DEF Evolves
  <1>2. input.result = "Continue" =>
          /\ Evolves(input, r)
          /\ r.result = "Continue" =>
               (Word(base, 4) = 0 \/ Word(base, 3) + Word(base, 4) <= r.memory)
    <2> HIDE DEF input
    <2>1. QED BY <1>0, <1>1, ResizedEvolves
  <1>3. Evolves(f, output) /\ FrameOK(output)
    <2> HIDE DEF input, r
    <2>1. QED BY <1>1, <1>2, ChainEvolves
  <1>4. output.result = "Continue" => Covers(output.memory, w)
    <2>1. output.result = "Continue" => input.result = "Continue" /\ output = r
      <3> HIDE DEF input, r
      <3>1. QED BY DEF Then
    <2> HIDE DEF output, input, r
    <2>2. QED BY <1>2, <2>1 DEF Covers
  <1>5. w \in Waits
    BY <1>0 DEF Waits
  <1>6. g = Then(output, [output EXCEPT !.waits = w])
    BY DEF ranges
  <1> HIDE DEF output, g, w
  <1>7. output.result = "Continue" =>
          FrameOK([output EXCEPT !.waits = w]) /\ Kept(output, [output EXCEPT !.waits = w])
    BY <1>3, <1>4, <1>5, WaitsEvolve
  <1>8. FrameOK(g) /\ Kept(f, g)
    BY <1>3, <1>6, <1>7 DEF Then, Evolves, Kept
  <1>9. QED BY <1>8 DEF g

LEMMA CreateEvolves ==
  ASSUME IInv, Create
  PROVE  Running /\ Evolution
  <1> DEFINE g == check_staticcall(Fetched)
             e == [g EXCEPT !.buffer = 0]
             f == Then(g, pop(e, 3))
             a == init_code(f, Word(Fetched, 2), Word(Fetched, 3))
             h == Then(f, a)
             k == Then(h, pop(h, N))
             w == [op |-> "CREATE", offset |-> 0, len |-> 0]
             m == Then(k, [k EXCEPT !.waits = w])
             what == IF m.result \in {"Continue", "SelfDestruct"} THEN "write" ELSE "none"
  <1>1. Running /\ Current.op = "CREATE" /\ Becomes(m, what)
    BY DEF Create, Executing, Wrote
  <1>2. /\ Evolves(Top, g) /\ FrameOK(g)
        /\ g.result = "Continue" => g = Fetched
    BY <1>1, CheckEvolves
  <1>3. Evolves(g, e) /\ e.result = g.result /\ e.stack = g.stack /\ FrameOK(e)
    <2> HIDE DEF g
    <2>1. QED BY <1>2, BufferEvolves DEF Evolves
  <1>4. /\ Evolves(g, pop(e, 3))
        /\ pop(e, 3).result = "Continue" => 3 <= Len(g.stack)
    <2> HIDE DEF g, e
    <2>1. QED BY <1>3, PopEvolves, EvolvesTransitive
  <1>5. Evolves(Top, f) /\ FrameOK(f) /\ (g.result # "Continue" => f = g)
    <2> HIDE DEF g, e
    <2>1. QED BY <1>2, <1>4, ChainEvolves DEF Then
  <1>6. f.result = "Continue" => Word(Fetched, 2) \in Nat /\ Word(Fetched, 3) \in Nat
    <2>1. f.result = "Continue" => g = Fetched /\ 3 <= Len(g.stack)
      <3> HIDE DEF g, e
      <3>1. QED BY <1>2, <1>4 DEF Then
    <2>2. Len(g.stack) \in Nat
      BY <1>2 DEF FrameOK, FrameType
    <2> HIDE DEF g, f
    <2>3. QED BY <1>2, <2>1, <2>2, WordType
  <1>7. f.result = "Continue" => Evolves(f, a)
    <2> HIDE DEF f
    <2>1. "CreateInitcodeSizeLimit" \in Result
      BY DEF Result
    <2>2. f.result = "Continue" => Evolves(f, Access(f, Word(Fetched, 2), Word(Fetched, 3)))
      BY <1>5, <1>6, AccessEvolves
    <2>3. f.result = "Continue" => Evolves(f, Fail(f, "CreateInitcodeSizeLimit"))
      BY <1>5, <2>1, FailEvolves
    <2>4. QED BY <2>2, <2>3 DEF init_code
  <1>8. Evolves(Top, h) /\ FrameOK(h) /\ (f.result # "Continue" => h = f)
    <2> HIDE DEF f, a
    <2>1. QED BY <1>5, <1>7, ChainEvolves DEF Then
  <1>9. Evolves(Top, k) /\ FrameOK(k) /\ (h.result # "Continue" => k = h)
    <2> HIDE DEF h
    <2>1. Evolves(h, pop(h, N))
      BY <1>1, <1>8, ImmediateType, PopEvolves
    <2>2. QED BY <1>8, <2>1, ChainEvolves DEF Then
  <1>10. w \in Waits
    BY DEF Waits, Scheme
  <1> HIDE DEF g, e, f, a, h, k
  <1>11. Covers(k.memory, w)
    BY DEF Covers
  <1>12. FrameOK([k EXCEPT !.waits = w]) /\ Kept(k, [k EXCEPT !.waits = w])
    <2> HIDE DEF w
    <2>1. QED BY <1>9, <1>10, <1>11, WaitsEvolve
  <1>13. FrameOK(m) /\ Kept(Top, m)
    <2> HIDE DEF w
    <2>1. QED BY <1>9, <1>12 DEF Then, Evolves, Kept
  <1> HIDE DEF m, what
  <1>14. QED BY <1>1, <1>13 DEF Evolution

LEMMA CallEvolves ==
  ASSUME IInv, Call
  PROVE  Running /\ Evolution
  <1>1. PICK op \in {"CALL", "CALLCODE", "DELEGATECALL", "STATICCALL"} :
          /\ Executing({op})
          /\ LET f == pop([Fetched EXCEPT !.buffer = 0], 2)
                 g == Then(f, IF HasValue(op) THEN pop(f, 1) ELSE f)
                 refused == op = "CALL" /\ f.is_static /\ Word(f, 1) # 0
                 h == Then(g, IF refused THEN Fail(g, "CallNotAllowedInsideStatic")
                              ELSE pop(g, 4))
                 k == Then(h, ranges(h, op, g))
                 pays == op = "CALL" /\ Word(f, 1) # 0
             IN Becomes(k, IF k.result = "Continue" /\ pays THEN "write" ELSE "none")
    BY DEF Call
  <1> DEFINE e == [Fetched EXCEPT !.buffer = 0]
             f == pop(e, 2)
             v == IF HasValue(op) THEN pop(f, 1) ELSE f
             g == Then(f, v)
             refused == op = "CALL" /\ f.is_static /\ Word(f, 1) # 0
             p == IF refused THEN Fail(g, "CallNotAllowedInsideStatic") ELSE pop(g, 4)
             h == Then(g, p)
             k == Then(h, ranges(h, op, g))
             pays == op = "CALL" /\ Word(f, 1) # 0
             what == IF k.result = "Continue" /\ pays THEN "write" ELSE "none"
  <1>2. Running /\ Current.op = op /\ Becomes(k, what)
    BY <1>1 DEF Executing
  <1>3. Evolves(Top, Fetched) /\ FrameOK(Fetched)
    BY <1>2, FetchEvolves
  <1>4. Evolves(Top, f) /\ FrameOK(f)
    <2>1. Evolves(Fetched, e)
      BY <1>3, BufferEvolves
    <2> HIDE DEF e
    <2>2. Evolves(e, f)
      BY <2>1, PopEvolves DEF Evolves
    <2> HIDE DEF f
    <2>3. QED BY <1>3, <2>1, <2>2, EvolvesTransitive DEF Evolves
  <1>5. Evolves(Top, g) /\ FrameOK(g)
    <2> HIDE DEF f
    <2>1. Evolves(f, v)
      BY <1>4, PopEvolves, EvolvesReflexive
    <2> HIDE DEF v
    <2>2. QED BY <1>4, <2>1, ChainEvolves
  <1>6. Evolves(g, p) /\ (refused => p.result # "Continue")
        /\ (~refused /\ p.result = "Continue" => 4 <= Len(g.stack))
    <2> HIDE DEF f, g
    <2>1. "CallNotAllowedInsideStatic" \in Result
      BY DEF Result
    <2>2. CASE refused
      BY <1>5, <2>1, <2>2, FailEvolves
    <2>3. CASE ~refused
      BY <1>5, <2>3, PopEvolves
    <2>4. QED BY <2>2, <2>3
  <1>7. /\ Evolves(Top, h) /\ FrameOK(h)
        /\ h.result = "Continue" => ~refused /\ 4 <= Len(g.stack)
    <2> HIDE DEF f, g, p, refused
    <2>1. QED BY <1>5, <1>6, ChainEvolves DEF Then
  <1>8. h.result = "Continue" => \A i \in 1..4 : Word(g, i) \in Nat
    <2> HIDE DEF f, g, h, refused
    <2>1. Len(g.stack) \in Nat
      BY <1>5 DEF FrameOK, FrameType
    <2>2. QED BY <1>5, <1>7, <2>1, WordType
  <1>9. op \in Scheme
    BY DEF Scheme
  <1>10. FrameOK(k) /\ Kept(Top, k)
    <2> HIDE DEF f, g, h
    <2>1. h.result = "Continue" =>
            LET x == ranges(h, op, g) IN FrameOK(x) /\ Kept(h, x)
      BY <1>7, <1>8, <1>9, rangesOK
    <2>2. QED BY <1>7, <2>1 DEF Then, Evolves, Kept
  <1> HIDE DEF k, what
  <1>11. QED BY <1>2, <1>10 DEF Evolution

-----------------------------------------------------------------------------
(* The host                                                                 *)

\* A new interpreter is in bounds.
LEMMA NewOK ==
  ASSUME NEW code \in Seq(Byte), NEW is_static \in BOOLEAN, NEW scheme \in Scheme
  PROVE  LET f == new(code, is_static, scheme)
         IN /\ FrameOK(f) /\ f.is_static = is_static /\ f.scheme = scheme
            /\ f.waits = Idle
  <1> DEFINE zeros == [i \in 1..(WORD + 1) |-> 0]
             padded == Padded(code)
             f == new(code, is_static, scheme)
  <1>1. zeros \in Seq(Byte) /\ Len(zeros) = WORD + 1
    BY Constants
  <1>2. padded = code \o zeros
    BY DEF Padded
  <1>3. /\ padded \in Seq(Byte) /\ Len(padded) = Len(code) + WORD + 1
        /\ \A i \in (Len(code) + 1)..Len(padded) : padded[i] = 0
    <2>1. \A i \in 1..(WORD + 1) : zeros[i] = 0
      OBVIOUS
    <2> HIDE DEF zeros, padded
    <2>2. padded \in Seq(Byte) /\ Len(padded) = Len(code) + WORD + 1
      <3>1. padded \in Seq(Byte)
        BY <1>1, <1>2
      <3>2. Len(padded) = Len(code) + Len(zeros)
        <4>1. code \in Seq(Byte) /\ zeros \in Seq(Byte)
          BY <1>1
        <4>2. Len(code \o zeros) = Len(code) + Len(zeros)
          BY <4>1, ConcatProperties
        <4>3. QED BY <4>2, <1>2
      <3>3. QED BY <3>1, <3>2, <1>1, Constants
    <2>3. ASSUME NEW i \in (Len(code) + 1)..Len(padded) PROVE padded[i] = 0
      <3>1. i - Len(code) \in 1..(WORD + 1)
        BY <2>2, Constants
      <3>2. padded[i] = zeros[i - Len(code)]
        BY <1>1, <1>2, <2>2, <3>1, Constants
      <3>3. QED BY <2>1, <3>1, <3>2
    <2>4. QED BY <2>2, <2>3
  <1> HIDE DEF padded
  <1>4. Len(padded) > 0 /\ Len(code) \in Nat
    BY <1>3, Constants
  <1>5. /\ analyze(padded) \subseteq InstructionStarts(padded)
        /\ 0 \in InstructionStarts(padded)
        /\ InstructionStarts(padded) \subseteq Nat
    <2>1. InstructionStarts(padded) \subseteq 0..(Len(padded) - 1)
      BY <1>3, StartsClosed
    <2>2. QED BY <2>1, <1>3, <1>4, JumpsToStarts, StartsClosed
  <1>6. /\ f.code = padded /\ f.len = Len(code) /\ f.jump_map = analyze(padded) /\ f.ip = 0
        /\ f.result = "Continue" /\ f.stack = <<>> /\ f.memory = 0
        /\ f.return_range = [start |-> 0, len |-> 0]
        /\ f.is_static = is_static /\ f.scheme = scheme /\ f.waits = Idle
    BY DEF new, padded
  <1>7. f \in FrameType
    <2>1. "Continue" \in Result /\ Idle \in Waits /\ <<>> \in Seq(Nat)
      BY DEF Result, Waits
    <2>2. analyze(padded) \subseteq Nat
      BY <1>5
    <2>3. QED BY <1>3, <1>4, <2>1, <2>2 DEF new, FrameType, padded
  <1> HIDE DEF f
  <1>8. 0 % WORD = 0
    BY Constants
  <1>9. FrameOK(f)
    BY <1>3, <1>4, <1>5, <1>6, <1>7, <1>8, Constants
       DEF FrameOK, CodeOK, MemoryOK, Covers, Idle
  <1>10. QED BY <1>6, <1>9 DEF f

\* The answer fits the range that the caller made for it.
LEMMA AnsweredOK ==
  ASSUME NEW f, FrameOK(f), NEW reason \in Result, NEW n \in Nat
  PROVE  LET g == Answered(f, reason, n)
         IN FrameOK(g) /\ Kept(f, g) /\ g.waits = Idle
  <1> DEFINE w == [f EXCEPT !.waits = Idle]
             c == [w EXCEPT !.buffer = IF reason \in return_revert THEN n ELSE 0]
             d == [w EXCEPT !.buffer = n]
             m == IF f.waits.len < n THEN f.waits.len ELSE n
             g == Answered(f, reason, n)
  <1>0. f \in FrameType /\ f.memory \in Nat /\ f.waits \in Waits /\ Covers(f.memory, f.waits)
    BY DEF FrameOK, FrameType, MemoryOK
  <1>1. FrameOK(w) /\ Kept(f, w) /\ w.waits = Idle
    <2>1. Idle \in Waits /\ Covers(f.memory, Idle)
      BY DEF Waits, Covers, Idle
    <2>2. QED BY <2>1, WaitsEvolve
  <1>2. /\ FrameOK(c) /\ Kept(f, c) /\ c.waits = Idle
        /\ FrameOK(d) /\ Kept(f, d) /\ d.waits = Idle
    <2>1. (IF reason \in return_revert THEN n ELSE 0) \in Nat
      OBVIOUS
    <2> HIDE DEF w
    <2>2. Evolves(w, c) /\ Evolves(w, d)
      BY <1>1, <2>1, BufferEvolves
    <2> HIDE DEF c, d
    <2>3. QED BY <1>1, <2>2 DEF Evolves, Kept
  <1>3. /\ c = [f EXCEPT !.waits = Idle, !.buffer = IF reason \in return_revert THEN n ELSE 0]
        /\ d = [f EXCEPT !.waits = Idle, !.buffer = n]
    OBVIOUS
  <1>4. d.memory = f.memory
    BY <1>0 DEF FrameType
  <1>5. Slice(d, f.waits.offset, m) = d
    <2>1. f.waits.offset \in Nat /\ f.waits.len \in Nat
      BY <1>0 DEF Waits, Idle
    <2>2. m = 0 \/ (m <= f.waits.len /\ f.waits.offset + f.waits.len <= f.memory)
      BY <1>0, <2>1 DEF Covers
    <2>3. m \in Nat
      BY <2>1
    <2> HIDE DEF m, d
    <2>4. ~ (m > 0 /\ f.waits.offset + m > d.memory)
      BY <1>0, <1>4, <2>1, <2>2, <2>3
    <2>5. QED BY <2>4 DEF Slice
  <1> DEFINE ok(x) == FrameOK(x) /\ Kept(f, x) /\ x.waits = Idle
  <1>6. \A x : ok(x) => \A v \in {0, 1} : ok(push(x, v)) /\ ok(Then(x, push(x, v)))
    BY PushEvolves DEF Evolves, Kept, Then
  <1>7. \A x : ok(x) => \A r \in Fatal : ok(Fail(x, r))
    <2>1. \A r \in Fatal : r \in Result /\ r # "Panic" /\ r # "Continue"
      BY DEF Fatal, Result
    <2>2. QED BY <2>1, FailEvolves DEF Evolves, Kept
  <1>8. ok(after_create(f, reason, n))
    <2>1. after_create(f, reason, n) =
            IF reason = "FatalExternalError" THEN Fail(c, reason)
            ELSE push(c, IF reason \in return_ok THEN 1 ELSE 0)
      BY <1>3 DEF after_create
    <2>2. ok(c)
      BY <1>2
    <2> HIDE DEF c, ok
    <2>3. "FatalExternalError" \in Fatal
      BY DEF Fatal
    <2>4. QED BY <1>6, <1>7, <2>1, <2>2, <2>3
  <1>9. ok(after_call(f, reason, n))
    <2>1. after_call(f, reason, n) =
            CASE reason \in return_ok     -> Then(d, push(d, 1))
              [] reason \in return_revert -> Then(d, push(d, 0))
              [] reason \in Fatal         -> Fail(d, reason)
              [] OTHER                    -> push(d, 0)
      <3> HIDE DEF d, m
      <3>1. after_call(f, reason, n) =
            LET kept == Slice(d, f.waits.offset, m) IN
            CASE reason \in return_ok     -> Then(kept, push(kept, 1))
              [] reason \in return_revert -> Then(kept, push(kept, 0))
              [] reason \in Fatal         -> Fail(d, reason)
              [] OTHER                    -> push(d, 0)
        BY <1>3 DEF after_call, m
      <3>2. QED BY <3>1, <1>5
    <2>2. ok(d)
      BY <1>2
    <2> HIDE DEF d, ok
    <2>3. QED BY <1>6, <1>7, <2>1, <2>2
  <1>10. ok(g)
    <2> HIDE DEF ok
    <2>1. QED BY <1>8, <1>9 DEF Answered
  <1>11. QED BY <1>10

LEMMA HostAnswersEvolves ==
  ASSUME IInv, HostAnswers
  PROVE  Evolution
  <1>1. PICK reason \in Result, n \in Nat : Becomes(Answered(Top, reason, n), "none")
    <2>1. 0..MaxReturn \subseteq Nat /\ 0 \in Nat
      BY Constants
    <2>2. "Return" \in Result /\ {"CallTooDeep", "PrecompileError"} \union Fatal \subseteq Result
      BY DEF Fatal, Result
    <2>3. QED BY <2>1, <2>2 DEF HostAnswers
  <1> DEFINE g == Answered(Top, reason, n)
  <1>2. FrameOK(g) /\ Kept(Top, g) /\ g.waits = Idle
    BY TopOK, AnsweredOK
  <1> HIDE DEF g
  <1>3. Becomes(g, "none")
    BY <1>1 DEF g
  <1>4. QED BY <1>2, <1>3 DEF Evolution

LEMMA EnterOK ==
  ASSUME IInv, Enter
  PROVE  IInv'
  <1>1. PICK code \in Callees :
          frames' = Append(frames, new(code, callee_static, Top.waits.op))
    BY DEF Enter
  <1> DEFINE f == new(code, callee_static, Top.waits.op)
  <1>2. /\ FrameOK(Top) /\ Top = frames[Len(frames)] /\ Len(frames) \in Nat
        /\ Len(frames) > 0 /\ frames \in Seq(FrameType)
    BY TopOK
  <1>3. Top.waits # Idle /\ Top.waits \in Waits
    BY <1>2 DEF Enter, Waiting, FrameOK, FrameType
  <1>4. Top.waits.op \in Scheme /\ callee_static \in BOOLEAN /\ code \in Seq(Byte)
    BY <1>3, ConstAssumption DEF Waits, callee_static
  <1>5. FrameOK(f)
    BY <1>4, NewOK
  <1>6. frames' = Append(frames, f)
    BY <1>1
  <1> HIDE DEF f
  <1>7. f \in FrameType
    BY <1>5 DEF FrameOK
  <1>8. /\ frames' \in Seq(FrameType) /\ Len(frames') = Len(frames) + 1
        /\ \A i \in 1..Len(frames') : frames'[i] = IF i = Len(frames) + 1 THEN f ELSE frames[i]
    BY <1>2, <1>6, <1>7
  <1>9. QED BY <1>2, <1>5, <1>8 DEF IInv, FramesOK

LEMMA LeaveOK ==
  ASSUME IInv, Leave
  PROVE  IInv'
  <1> DEFINE n == Len(frames) - 1
             caller == frames[n]
             r == Top.return_range
             g == Answered(caller, Top.result, r.len)
  <1>1. /\ FrameOK(Top) /\ Len(frames) \in Nat /\ frames \in Seq(FrameType)
        /\ Len(frames) > 1
    BY TopOK DEF Leave
  <1>2. n \in 1..Len(frames) /\ n = (Len(frames) - 2) + 1 /\ Len(frames) - 2 \in Nat
    BY <1>1
  <1>3. /\ r.start \in Nat /\ r.len \in Nat /\ Top.memory \in Nat /\ Top.result \in Result
        /\ r.start = USIZE_MAX \/ r.start + r.len <= Top.memory
    BY <1>1 DEF FrameOK, FrameType, MemoryOK
  <1>4. frames' = Append(SubSeq(frames, 1, Len(frames) - 2), g)
    BY <1>3 DEF Leave
  <1>5. FrameOK(caller)
    BY <1>2 DEF IInv, FramesOK
  <1>6. FrameOK(g) /\ Kept(caller, g) /\ g.waits = Idle
    <2> HIDE DEF caller, r
    <2>1. QED BY <1>3, <1>5, AnsweredOK
  <1> HIDE DEF g, n
  <1>7. g \in FrameType
    BY <1>6 DEF FrameOK
  <1>8. /\ frames' \in Seq(FrameType) /\ Len(frames') = n
        /\ \A i \in 1..n : frames'[i] = IF i = n THEN g ELSE frames[i]
    <2> DEFINE s == SubSeq(frames, 1, Len(frames) - 2)
    <2>1. s \in Seq(FrameType) /\ Len(s) = Len(frames) - 2
          /\ \A i \in 1..(Len(frames) - 2) : s[i] = frames[i]
      <3> DEFINE k == Len(frames) - 2
      <3>1. k \in Nat /\ k <= Len(frames)
        BY <1>1
      <3> HIDE DEF k
      <3>2. SubSeq(frames, 1, k) \in Seq(FrameType) /\ Len(SubSeq(frames, 1, k)) = k
        BY <1>1, <3>1
      <3>3. \A i \in 1..k : SubSeq(frames, 1, k)[i] = frames[i]
        BY <1>1, <3>1
      <3>4. QED BY <3>2, <3>3 DEF k
    <2> HIDE DEF s
    <2>2. QED BY <1>2, <1>4, <1>7, <2>1 DEF s
  <1>9. 1..n \subseteq 1..Len(frames) /\ n \in Nat /\ n > 0
    BY <1>1, <1>2 DEF n
  <1>10. QED BY <1>6, <1>8, <1>9 DEF IInv, FramesOK

-----------------------------------------------------------------------------
(* The theorems                                                             *)

LEMMA Initially ==
  ASSUME Init
  PROVE  IInv
  <1>1. PICK code \in Programs : frames = <<new(code, FALSE, "CALL")>>
    BY DEF Init
  <1> DEFINE f == new(code, FALSE, "CALL")
  <1>2. code \in Seq(Byte) /\ "CALL" \in Scheme
    BY ConstAssumption DEF Scheme
  <1>3. FrameOK(f) /\ f.is_static = FALSE /\ f.scheme = "CALL" /\ f.waits = Idle
    BY <1>2, NewOK
  <1>4. frames = <<f>>
    BY <1>1
  <1> HIDE DEF f
  <1>5. f \in FrameType
    BY <1>3 DEF FrameOK
  <1>6. frames \in Seq(FrameType) /\ Len(frames) = 1 /\ \A i \in 1..Len(frames) : frames[i] = f
    BY <1>4, <1>5
  <1>7. QED BY <1>3, <1>6 DEF IInv, FramesOK

\* One step keeps the invariant.
LEMMA StepOK ==
  ASSUME IInv, Next
  PROVE  IInv'
  <1>1. CASE Enter
    BY <1>1, EnterOK
  <1>2. CASE Leave
    BY <1>2, LeaveOK
  <1>3. CASE HostAnswers
    BY <1>3, HostAnswersEvolves, EvolutionOK
  <1>4. CASE return_stop \/ return_invalid
    BY <1>4, StopEvolves, EvolutionOK
  <1>5. CASE Jump \/ JumpI \/ JumpDest
    BY <1>5, JumpsEvolve, EvolutionOK
  <1>6. CASE Pop \/ Push \/ Dup \/ Swap
    BY <1>6, StackOpcodesEvolve, EvolutionOK
  <1>7. CASE PushOwn \/ PushEnvironment \/ Compute \/ ReadHost
    BY <1>7, WordOpcodesEvolve, EvolutionOK
  <1>8. CASE \/ LoadMemory \/ StoreMemory \/ Sha3 \/ Copy \/ ExtCodeCopy
             \/ ReturnDataCopy \/ Return
    BY <1>8, MemoryOpcodesEvolve, EvolutionOK
  <1>9. CASE Sstore \/ Log \/ SelfDestruct
    BY <1>9, WriteOpcodesEvolve, EvolutionOK
  <1>10. CASE Create
    BY <1>10, CreateEvolves, EvolutionOK
  <1>11. CASE Call
    BY <1>11, CallEvolves, EvolutionOK
  <1>12. QED
    BY <1>1, <1>2, <1>3, <1>4, <1>5, <1>6, <1>7, <1>8, <1>9, <1>10, <1>11 DEF Next

\* Every frame is in bounds and typed.
THEOREM Invariance == Spec => []IInv
  <1>1. IInv /\ UNCHANGED vars => IInv'
    BY DEF IInv, vars
  <1>2. IInv /\ [Next]_vars => IInv'
    BY <1>1, StepOK
  <1>3. QED BY Initially, <1>2, PTL DEF Spec

\* The instruction pointer stays in the padded code and at an instruction, and
\* no stack or memory access leaves what was allocated (interpreter.rs, stack.rs,
\* memory.rs and the analysis).
THEOREM InBounds == Spec => []ExecutionInBounds
  <1>1. ASSUME IInv, NEW f \in Frame
        PROVE  /\ f.ip \in 0..Len(f.code)
               /\ f.result = "Continue" =>
                    f.ip < Len(f.code) /\ f.ip \in InstructionStarts(f.code)
               /\ Len(f.stack) <= STACK_LIMIT
               /\ f.result # "Panic" /\ f.memory % WORD = 0
    <2>1. FrameOK(f)
      BY <1>1 DEF IInv, FramesOK, Frame
    <2>2. f.code \in Seq(Byte) /\ f.ip \in Nat
      BY <2>1 DEF FrameOK, FrameType
    <2>3. InstructionStarts(f.code) \subseteq 0..(Len(f.code) - 1)
      BY <2>2, StartsClosed
    <2>4. QED BY <2>1, <2>2, <2>3 DEF FrameOK, MemoryOK
  <1>2. IInv => ExecutionInBounds
    BY <1>1 DEF ExecutionInBounds, PointerInCode, ExecutesNoData, StackIsBounded,
                MemoryCoversAccess
  <1>3. QED BY <1>2, Invariance, PTL
=============================================================================
