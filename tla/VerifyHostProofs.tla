-------------------------- MODULE VerifyHostProofs --------------------------
(***************************************************************************)
(* Proofs about VerifyHost for every value of its constants: the inductive *)
(* invariant IInv and the safety properties that follow from it; what      *)
(* call_depth counts; and that the host implements Detector.               *)
(***************************************************************************)
EXTENDS VerifyHost, SequenceTheorems, FiniteSetTheorems, TLAPS

-----------------------------------------------------------------------------
(* How the three shapes of step change the stack                            *)

\* g is f but for the status.
SameBut(g, f) ==
  /\ g.kind = f.kind /\ g.address = f.address /\ g.caller = f.caller
  /\ g.code_address = f.code_address /\ g.input = f.input /\ g.paid = f.paid
  /\ g.invoke = f.invoke /\ g.saved = f.saved /\ g.depth = f.depth

\* Marking the innermost interpreter keeps everything else of the stack.
LEMMA MarkTop ==
  ASSUME frames \in Seq(Frame), Depth > 0, NEW s \in Status
  PROVE  LET F == [frames EXCEPT ![Depth].status = s] IN
         /\ F \in Seq(Frame) /\ Len(F) = Depth
         /\ \A i \in 1..Depth : SameBut(F[i], frames[i])
         /\ \A i \in 1..Depth : F[i].status = IF i = Depth THEN s ELSE frames[i].status
  <1> DEFINE F == [frames EXCEPT ![Depth].status = s]
             g == [frames[Depth] EXCEPT !.status = s]
  <1>1. Depth \in Nat /\ Depth \in 1..Depth
    BY DEF Depth
  <1>2. frames[Depth] \in Frame
    BY <1>1, ElementOfSeq DEF Depth
  <1>3. g \in Frame /\ SameBut(g, frames[Depth]) /\ g.status = s
    BY <1>2 DEF Frame, SameBut
  <1>4. F = [frames EXCEPT ![Depth] = g]
    OBVIOUS
  <1> HIDE DEF g, F
  <1>5. /\ F \in Seq(Frame) /\ Len(F) = Depth
        /\ \A i \in 1..Depth : F[i] = IF i = Depth THEN g ELSE frames[i]
    BY <1>1, <1>3, <1>4, ExceptSeq DEF Depth
  <1>6. \A i \in 1..Depth : SameBut(frames[i], frames[i])
    BY DEF SameBut
  <1>7. QED
    BY <1>3, <1>5, <1>6 DEF F

\* A call pushes its frame and keeps the frames below it.
LEMMA PushFrame ==
  ASSUME NEW F \in Seq(Frame), NEW f \in Frame
  PROVE  /\ Append(F, f) \in Seq(Frame) /\ Len(Append(F, f)) = Len(F) + 1
         /\ \A i \in 1..Len(F) : Append(F, f)[i] = F[i]
         /\ Append(F, f)[Len(F) + 1] = f
  BY AppendProperties

\* What is below the innermost interpreter.
LEMMA BelowFrames ==
  ASSUME frames \in Seq(Frame), Depth > 0
  PROVE  /\ Below \in Seq(Frame) /\ Len(Below) = Depth - 1
         /\ \A i \in 1..(Depth - 1) : Below[i] = frames[i]
  <1>1. Depth \in Nat /\ Depth = Len(frames)
    BY DEF Depth
  <1>2. \A i \in 1..(Depth - 1) : frames[i] \in Frame
    BY <1>1, ElementOfSeq
  <1>3. QED
    BY <1>1, <1>2, SubSeqProperties DEF Below

\* A return pops one interpreter and marks at most the one below.
LEMMA ResumeFrames ==
  ASSUME frames \in Seq(Frame), Depth > 1, NEW r \in Result
  PROVE  LET F == Resume(r) IN
         /\ F \in Seq(Frame) /\ Len(F) = Depth - 1
         /\ \A i \in 1..(Depth - 1) : SameBut(F[i], frames[i])
         /\ \A i \in 1..(Depth - 1) :
              \/ F[i].status = frames[i].status
              \/ i = Depth - 1 /\ r \in {"leak", "hit"} /\ F[i].status = r
  <1> DEFINE F == Resume(r)
  <1>0. Depth \in Nat
    BY DEF Depth
  <1>1. /\ Below \in Seq(Frame) /\ Len(Below) = Depth - 1
        /\ \A i \in 1..(Depth - 1) : Below[i] = frames[i]
    BY <1>0, BelowFrames
  <1>2. \A i \in 1..(Depth - 1) : SameBut(Below[i], frames[i])
    BY <1>1 DEF SameBut
  <1>3. CASE r \notin {"leak", "hit"}
    BY <1>1, <1>2, <1>3 DEF Resume
  <1>4. CASE r \in {"leak", "hit"}
    <2>1. Below[Depth - 1] \in Frame
      BY <1>0, <1>1, ElementOfSeq
    <2> DEFINE g == [Below[Depth - 1] EXCEPT !.status = r]
    <2>2. g \in Frame /\ SameBut(g, Below[Depth - 1]) /\ g.status = r
      BY <1>4, <2>1 DEF Frame, Status, SameBut
    <2>3. F = [Below EXCEPT ![Depth - 1] = g]
      BY <1>4 DEF Resume
    <2> HIDE DEF g
    <2>4. /\ F \in Seq(Frame) /\ Len(F) = Depth - 1
          /\ \A i \in 1..(Depth - 1) : F[i] = IF i = Depth - 1 THEN g ELSE Below[i]
      BY <1>0, <1>1, <2>2, <2>3, ExceptSeq
    <2>5. Depth - 1 \in 1..(Depth - 1)
      BY <1>0
    <2>6. QED
      BY <1>0, <1>1, <1>2, <1>4, <2>2, <2>4, <2>5
  <1>5. QED
    BY <1>3, <1>4

\* Two interpreters stand for the same call.
SameCall(g, f) == g.kind = f.kind /\ g.address = f.address

\* The environment of an interpreter does not depend on what is marked.
LEMMA EnvAtSame ==
  ASSUME NEW fs, NEW gs, NEW i \in Nat, NEW e, EnvAt(fs, i, e),
         \A j \in 1..i : SameCall(gs[j], fs[j])
  PROVE  EnvAt(gs, i, e)
  <1>1. InVictim(gs, i) <=> InVictim(fs, i)
    BY DEF InVictim, SameCall
  <1>2. PICK k \in 1..i : InnermostCall(fs, i, k) /\ e.to = fs[k].address
    BY DEF EnvAt
  <1>3. InnermostCall(gs, i, k) /\ e.to = gs[k].address
    BY <1>2 DEF InnermostCall, SameCall
  <1>4. QED
    BY <1>1, <1>3 DEF EnvAt

-----------------------------------------------------------------------------
(* What the invariant says of the innermost interpreter                     *)

\* While the process runs there is an innermost interpreter, of its type.
LEMMA TopFacts ==
  ASSUME IInv, phase = "running"
  PROVE  /\ Depth \in Nat /\ Depth > 0 /\ Depth \in 1..Depth
         /\ Top \in Frame
         /\ \A i \in 1..Depth : frames[i] \in Frame
  BY ElementOfSeq DEF IInv, TypeOK, StackShape, Top, Depth

\* Every interpreter but the target transaction's own has one below it.
LEMMA NotTxHasCaller ==
  ASSUME IInv, phase = "running", Top.kind # "tx"
  PROVE  Depth > 1
  BY TopFacts DEF IInv, StackShape, Top

\* The parts of the invariant that a step keeps as long as the stack only
\* changes in what its interpreters are marked with.
Shape == /\ \A i \in 1..Depth : frames[i].kind = "tx" <=> i = 1
         /\ ModesMatchStack /\ DepthChain /\ EnvChain
         /\ VictimNeedsControl /\ EntryIsTested

\* Marking the innermost interpreter keeps the invariant's stack part.
LEMMA MarkKeepsShape ==
  ASSUME IInv, frames' \in Seq(Frame), Depth' = Depth,
         \A i \in 1..Depth : SameBut(frames'[i], frames[i]),
         UNCHANGED <<phase, snapshots, modes, env, call_depth, entry_function>>
  PROVE  Shape'
  <1>1. Depth \in Nat
    BY DEF IInv, TypeOK, Depth
  <1>2. /\ Tested' = Tested
        /\ \A i \in 1..Depth : frames'[i].kind = frames[i].kind
    BY DEF Tested, IsTested, SameBut
  <1>3. (\A i \in 1..Depth : frames[i].kind = "tx" <=> i = 1)'
    BY <1>2 DEF IInv, StackShape
  <1>4. ModesMatchStack'
    BY <1>2 DEF IInv, ModesMatchStack, modes
  <1>5. DepthChain'
    <2>1. phase' = "running" => call_depth' = Top'.depth
      <3>1. phase = "running" => Depth \in 1..Depth
        BY TopFacts
      <3>2. QED
        BY <3>1 DEF IInv, DepthChain, Top, SameBut
    <2>2. \A i \in 1..Depth : frames[i].kind \in {"plain", "cross", "create", "victim"} => i - 1 \in 1..Depth
      BY <1>1 DEF IInv, StackShape
    <2>3. \A i \in 1..Depth : frames'[i].depth = frames[i].depth
      BY DEF SameBut
    <2>4. QED
      BY <1>2, <2>1, <2>2, <2>3 DEF IInv, DepthChain
  <1>6. EnvChain'
    <2>1. \A i \in 1..Depth : SameCall(frames'[i], frames[i])
      BY DEF SameBut, SameCall
    <2>2. phase' = "running" => EnvAt(frames', Depth, env)
      BY <1>1, <2>1, EnvAtSame DEF IInv, EnvChain
    <2>3. ASSUME NEW i \in 2..Depth, frames'[i].kind # "create"
          PROVE  EnvAt(frames', i - 1, frames'[i].saved.env)
      <3>1. /\ i - 1 \in Nat /\ \A j \in 1..(i - 1) : j \in 1..Depth
            /\ i \in 1..Depth
        BY <1>1
      <3>2. EnvAt(frames, i - 1, frames[i].saved.env) /\ frames'[i].saved = frames[i].saved
        BY <1>2, <2>3, <3>1 DEF IInv, EnvChain, SameBut
      <3>3. QED
        BY <2>1, <3>1, <3>2, EnvAtSame
    <2>4. QED
      BY <2>2, <2>3 DEF EnvChain
  <1>7. VictimNeedsControl' /\ EntryIsTested'
    <2>1. \A i \in Tested : frames'[i].invoke = frames[i].invoke
      BY DEF Tested, SameBut
    <2>2. \A i \in Tested : i \in 1..Depth
      BY DEF Tested
    <2>3. QED
      BY <1>2, <2>1, <2>2 DEF IInv, VictimNeedsControl, EntryIsTested, modes
  <1>8. QED
    BY <1>3, <1>4, <1>5, <1>6, <1>7 DEF Shape

\* A new interpreter on top sees the environment of the one below, or its own
\* address in it.
LEMMA EnvAtPush ==
  ASSUME NEW fs, NEW gs, NEW i \in Nat, NEW e, NEW d, EnvAt(fs, i, e),
         \A j \in 1..i : SameCall(gs[j], fs[j]),
         gs[i + 1].kind # "victim",
         d.caller = e.caller, d.block = e.block,
         d.to = IF gs[i + 1].kind = "create" THEN e.to ELSE gs[i + 1].address
  PROVE  EnvAt(gs, i + 1, d)
  <1>1. EnvAt(gs, i, e)
    BY EnvAtSame
  <1>2. InVictim(gs, i + 1) <=> InVictim(gs, i)
    BY DEF InVictim
  <1>3. \E k \in 1..(i + 1) : InnermostCall(gs, i + 1, k) /\ d.to = gs[k].address
    <2>1. CASE gs[i + 1].kind = "create"
      <3>1. PICK k \in 1..i : InnermostCall(gs, i, k) /\ e.to = gs[k].address
        BY <1>1 DEF EnvAt
      <3>2. k \in 1..(i + 1) /\ \A j \in (k + 1)..(i + 1) : j \in (k + 1)..i \/ j = i + 1
        OBVIOUS
      <3>3. InnermostCall(gs, i + 1, k)
        BY <2>1, <3>1, <3>2 DEF InnermostCall
      <3>4. QED
        BY <2>1, <3>1, <3>2, <3>3
    <2>2. CASE gs[i + 1].kind # "create"
      <3>1. InnermostCall(gs, i + 1, i + 1)
        BY <2>2 DEF InnermostCall
      <3>2. QED
        BY <2>2, <3>1
    <2>3. QED
      BY <2>1, <2>2
  <1>4. QED
    BY <1>1, <1>2, <1>3 DEF EnvAt

\* So does starting a call, tested or not, or init code.
LEMMA PushKeepsShape ==
  ASSUME IInv, phase = "running",
         NEW f \in Frame, f.kind \in {"plain", "cross", "create"},
         frames' \in Seq(Frame), Depth' = Depth + 1, frames'[Depth + 1] = f,
         \A i \in 1..Depth : SameBut(frames'[i], frames[i]),
         f.depth = IF f.kind = "create" THEN call_depth ELSE call_depth + 1,
         call_depth' = f.depth,
         f.kind # "create" => f.saved.env = env,
         env' = IF f.kind = "create" THEN env ELSE [env EXCEPT !.to = f.address],
         f.kind = "cross" => ~is_diff_dapp /\ f.invoke.selector = entry_function',
         f.kind # "cross" => entry_function' = entry_function,
         is_diff_dapp' = (is_diff_dapp \/ f.kind = "cross"),
         no_need_for_test' =
           (no_need_for_test /\ ~(f.kind = "cross" /\ f.invoke.from_args)),
         UNCHANGED <<phase, snapshots, is_execute_victim_function>>
  PROVE  Shape'
  <1>1. Depth \in Nat /\ Depth > 0 /\ env \in Env /\ call_depth = Top.depth
    BY TopFacts DEF IInv, TypeOK, DepthChain
  <1>2. \A i \in 1..Depth : frames'[i].kind = frames[i].kind
    BY DEF SameBut
  <1>3. \A i \in 1..(Depth + 1) : i \in 1..Depth \/ i = Depth + 1
    BY <1>1
  <1>4. Tested' = IF f.kind = "cross" THEN Tested \union {Depth + 1} ELSE Tested
    BY <1>1, <1>2, <1>3 DEF Tested, IsTested
  <1>5. f.kind = "cross" => Tested = {}
    BY DEF IInv, ModesMatchStack
  <1>6. (\A i \in 1..Depth : frames[i].kind = "tx" <=> i = 1)'
    BY <1>1, <1>2, <1>3 DEF IInv, StackShape
  <1>7. ModesMatchStack'
    <2>1. is_diff_dapp' <=> Tested' # {}
      BY <1>4 DEF IInv, ModesMatchStack
    <2>2. f.kind # "victim" /\ \A i \in 1..Depth : i \in 1..(Depth + 1)
      BY <1>1
    <2>3. (\E i \in 1..(Depth + 1) : frames'[i].kind = "victim")
          <=> \E i \in 1..Depth : frames[i].kind = "victim"
      BY <1>2, <1>3, <2>2
    <2>4. \A i, j \in Tested' : i = j
      BY <1>4, <1>5 DEF IInv, ModesMatchStack
    <2>5. QED
      BY <2>1, <2>3, <2>4 DEF IInv, ModesMatchStack
  <1>8. DepthChain'
    <2>1. Top' = f
      BY DEF Top
    <2>2. \A i \in 1..Depth : frames'[i].depth = frames[i].depth
      BY DEF SameBut
    <2>3. \A i \in 1..Depth : i = 1 \/ i - 1 \in 1..Depth
      BY <1>1
    <2>4. frames'[Depth].depth = call_depth
      BY <1>1, <2>2 DEF Top
    <2>5. ASSUME NEW i \in 1..Depth
          PROVE  /\ frames'[i].kind \in {"plain", "cross"} =>
                      frames'[i].depth = frames'[i - 1].depth + 1
                 /\ frames'[i].kind = "create" => frames'[i].depth = frames'[i - 1].depth
                 /\ frames'[i].kind = "victim" =>
                      snapshots'[1].call_depth = frames'[i - 1].depth + 1
      BY <1>2, <2>2, <2>3 DEF IInv, DepthChain, StackShape
    <2>6. /\ f.kind \in {"plain", "cross"} => f.depth = frames'[Depth].depth + 1
          /\ f.kind = "create" => f.depth = frames'[Depth].depth
          /\ f.kind # "victim"
      BY <2>4
    <2>7. QED
      BY <1>1, <1>3, <2>1, <2>5, <2>6 DEF DepthChain
  <1>9. EnvChain'
    <2>1. \A i \in 1..Depth : SameCall(frames'[i], frames[i])
      BY DEF SameBut, SameCall
    <2>2. EnvAt(frames, Depth, env)
      BY DEF IInv, EnvChain
    <2>3. EnvAt(frames', Depth + 1, env')
      <3>1. /\ env'.caller = env.caller /\ env'.block = env.block
            /\ env'.to = IF f.kind = "create" THEN env.to ELSE f.address
        BY <1>1 DEF Env
      <3>2. QED
        BY <1>1, <2>1, <2>2, <3>1, EnvAtPush
    <2>4. ASSUME NEW i \in 2..(Depth + 1), frames'[i].kind # "create"
          PROVE  EnvAt(frames', i - 1, frames'[i].saved.env)
      <3>1. CASE i = Depth + 1
        BY <1>1, <2>1, <2>2, <2>4, <3>1, EnvAtSame
      <3>2. CASE i \in 2..Depth
        <4>1. /\ i - 1 \in Nat /\ \A j \in 1..(i - 1) : j \in 1..Depth
              /\ i \in 1..Depth
          BY <1>1, <3>2
        <4>2. EnvAt(frames, i - 1, frames[i].saved.env)
              /\ frames'[i].saved = frames[i].saved
          BY <1>2, <2>4, <3>2, <4>1 DEF IInv, EnvChain, SameBut
        <4>3. QED
          BY <2>1, <4>1, <4>2, EnvAtSame
      <3>3. QED
        BY <1>1, <3>1, <3>2
    <2>5. QED
      BY <2>3, <2>4 DEF EnvChain
  <1>10. VictimNeedsControl' /\ EntryIsTested'
    <2>1. \A i \in Tested : frames'[i].invoke = frames[i].invoke
                            /\ frames'[i].kind = frames[i].kind
      BY DEF Tested, SameBut
    <2>2. QED
      BY <1>4, <1>5, <2>1 DEF IInv, VictimNeedsControl, EntryIsTested
  <1>11. QED
    BY <1>6, <1>7, <1>8, <1>9, <1>10 DEF Shape

\* Init code sees the environment of the interpreter below it.
LEMMA EnvAtPopCreate ==
  ASSUME NEW fs, NEW i \in Nat, NEW e, EnvAt(fs, i + 1, e), i > 0,
         fs[i + 1].kind = "create"
  PROVE  EnvAt(fs, i, e)
  <1>1. \A j : j \in 1..(i + 1) <=> j \in 1..i \/ j = i + 1
    OBVIOUS
  <1>2. InVictim(fs, i + 1) <=> InVictim(fs, i)
    BY <1>1 DEF InVictim
  <1>3. PICK k \in 1..(i + 1) : InnermostCall(fs, i + 1, k) /\ e.to = fs[k].address
    BY DEF EnvAt
  <1>4. k \in 1..i /\ \A j \in (k + 1)..i : j \in (k + 1)..(i + 1)
    BY <1>3 DEF InnermostCall
  <1>5. InnermostCall(fs, i, k)
    BY <1>3, <1>4 DEF InnermostCall
  <1>6. QED
    BY <1>2, <1>3, <1>4, <1>5 DEF EnvAt

\* A return leaves every interpreter below with its own depth, environment
\* and test.
LEMMA PopKeepsShape ==
  ASSUME IInv, phase = "running", Depth > 1,
         frames' \in Seq(Frame), Depth' = Depth - 1,
         \A i \in 1..(Depth - 1) : SameBut(frames'[i], frames[i]),
         call_depth' = CASE Top.kind = "create" -> call_depth
                         [] Top.kind = "victim" -> snapshots[1].call_depth - 1
                         [] OTHER               -> call_depth - 1,
         env' = IF Top.kind = "create" THEN env ELSE Top.saved.env,
         snapshots' = IF Top.kind = "victim" THEN <<>> ELSE snapshots,
         is_diff_dapp' = (is_diff_dapp /\ Top.kind \notin {"cross", "victim"}),
         no_need_for_test' = (no_need_for_test \/ Top.kind \in {"cross", "victim"}),
         is_execute_victim_function' =
           (is_execute_victim_function /\ Top.kind # "victim"),
         UNCHANGED <<phase, entry_function>>
  PROVE  Shape'
  <1>1. /\ Depth \in Nat /\ Top \in Frame /\ call_depth = Top.depth
        /\ \A i \in 1..Depth : frames[i] \in Frame
    BY TopFacts DEF IInv, DepthChain
  <1>2. \A i \in 1..(Depth - 1) : i \in 1..Depth /\ frames'[i].kind = frames[i].kind
    BY <1>1 DEF SameBut
  <1>3. \A i : i \in 1..Depth <=> i \in 1..(Depth - 1) \/ i = Depth
    BY <1>1
  <1>4. Depth \notin 1..(Depth - 1) /\ Depth - 1 \in 1..(Depth - 1)
    BY <1>1
  <1>5. Tested' = Tested \ {Depth}
    BY <1>2, <1>3, <1>4 DEF Tested, IsTested
  <1>6. Top.kind \in {"cross", "victim"} => Tested = {Depth}
    BY <1>3 DEF IInv, ModesMatchStack, Tested, IsTested, Top
  <1>7. Top.kind \notin {"cross", "victim"} => Depth \notin Tested
    BY DEF Tested, IsTested, Top
  <1>8. (\A i \in 1..Depth : frames[i].kind = "tx" <=> i = 1)'
    BY <1>2 DEF IInv, StackShape
  <1>9. ModesMatchStack'
    <2>1. is_diff_dapp' <=> Tested' # {}
      BY <1>5, <1>6, <1>7 DEF IInv, ModesMatchStack
    <2>2. Top.kind = "victim" => \A i \in 1..(Depth - 1) : frames[i].kind # "victim"
      BY <1>2, <1>4, <1>6 DEF Tested, IsTested
    <2>3. is_execute_victim_function'
          <=> \E i \in 1..(Depth - 1) : frames'[i].kind = "victim"
      BY <1>2, <1>3, <2>2 DEF IInv, ModesMatchStack, Top
    <2>4. \A i, j \in Tested' : i = j
      BY <1>5 DEF IInv, ModesMatchStack
    <2>5. Len(snapshots') = IF is_execute_victim_function' THEN 1 ELSE 0
      BY EmptySeq DEF IInv, ModesMatchStack
    <2>6. QED
      BY <2>1, <2>3, <2>4, <2>5 DEF ModesMatchStack
  <1>10. DepthChain'
    <2>1. \A i \in 1..(Depth - 1) : frames'[i].depth = frames[i].depth
      BY DEF SameBut
    <2>2. Depth \in 1..Depth /\ frames[Depth - 1].depth \in Nat
      BY <1>1, <1>2, <1>4 DEF Frame
    <2>3. Top.kind \in {"plain", "cross", "create", "victim"}
      BY <1>1, <2>2 DEF IInv, StackShape, Top, Frame, Kind
    <2>4. call_depth' = frames[Depth - 1].depth
      <3>1. CASE Top.kind \in {"plain", "cross"}
        <4>1. Top.depth = frames[Depth - 1].depth + 1
          BY <2>2, <3>1 DEF IInv, DepthChain, Top
        <4>2. QED
          BY <1>1, <2>2, <3>1, <4>1
      <3>2. CASE Top.kind = "create"
        BY <1>1, <2>2, <3>2 DEF IInv, DepthChain, Top
      <3>3. CASE Top.kind = "victim"
        <4>1. snapshots[1].call_depth = frames[Depth - 1].depth + 1
          BY <2>2, <3>3 DEF IInv, DepthChain, Top
        <4>2. QED
          BY <2>2, <3>3, <4>1
      <3>4. QED
        BY <2>3, <3>1, <3>2, <3>3
    <2>5. call_depth' = Top'.depth
      BY <1>4, <2>1, <2>4 DEF Top
    <2>6. \A i \in 1..(Depth - 1) : i = 1 \/ i - 1 \in 1..(Depth - 1)
      BY <1>1
    <2>7. \A i \in 1..(Depth - 1) : Top.kind = "victim" => frames[i].kind # "victim"
      BY <1>2, <1>4, <1>6 DEF Tested, IsTested
    <2>8. ASSUME NEW i \in 1..(Depth - 1)
          PROVE  /\ frames'[i].kind \in {"plain", "cross"} =>
                      frames'[i].depth = frames'[i - 1].depth + 1
                 /\ frames'[i].kind = "create" => frames'[i].depth = frames'[i - 1].depth
                 /\ frames'[i].kind = "victim" =>
                      snapshots'[1].call_depth = frames'[i - 1].depth + 1
      BY <1>2, <2>1, <2>6, <2>7 DEF IInv, DepthChain, StackShape
    <2>9. QED
      BY <2>5, <2>8 DEF DepthChain
  <1>11. EnvChain'
    <2>1. \A i \in 1..(Depth - 1) : SameCall(frames'[i], frames[i])
      BY DEF SameBut, SameCall
    <2>2. EnvAt(frames, Depth - 1, env')
      <3>1. CASE Top.kind = "create"
        <4>1. EnvAt(frames, (Depth - 1) + 1, env) /\ frames[(Depth - 1) + 1].kind = "create"
          BY <1>1, <3>1 DEF IInv, EnvChain, Top
        <4>2. QED
          BY <1>1, <3>1, <4>1, EnvAtPopCreate
      <3>2. CASE Top.kind # "create"
        BY <1>1, <3>2 DEF IInv, EnvChain, Top
      <3>3. QED
        BY <3>1, <3>2
    <2>3. EnvAt(frames', Depth - 1, env')
      <3>1. Depth - 1 \in Nat
        BY <1>1
      <3>2. QED
        BY <2>1, <2>2, <3>1, EnvAtSame
    <2>4. ASSUME NEW i \in 2..(Depth - 1), frames'[i].kind # "create"
          PROVE  EnvAt(frames', i - 1, frames'[i].saved.env)
      <3>1. /\ i - 1 \in Nat /\ \A j \in 1..(i - 1) : j \in 1..(Depth - 1)
            /\ i \in 1..(Depth - 1) /\ i \in 2..Depth
        BY <1>1
      <3>2. EnvAt(frames, i - 1, frames[i].saved.env)
            /\ frames'[i].saved = frames[i].saved
        BY <1>2, <2>4, <3>1 DEF IInv, EnvChain, SameBut
      <3>3. QED
        BY <2>1, <3>1, <3>2, EnvAtSame
    <2>5. QED
      BY <2>3, <2>4 DEF EnvChain
  <1>12. VictimNeedsControl' /\ EntryIsTested'
    <2>1. \A i \in Tested' : /\ i \in Tested /\ frames'[i].invoke = frames[i].invoke
                             /\ frames'[i].kind = frames[i].kind
      BY <1>5, <1>3 DEF Tested, SameBut
    <2>2. EntryIsTested'
      BY <2>1 DEF IInv, EntryIsTested
    <2>3. ~no_need_for_test' <=> \E i \in Tested' : frames'[i].invoke.from_args
      BY <1>5, <1>6, <1>7, <2>1 DEF IInv, VictimNeedsControl
    <2>4. QED
      BY <2>1, <2>2, <2>3 DEF IInv, VictimNeedsControl
  <1>13. QED
    BY <1>8, <1>9, <1>10, <1>11, <1>12 DEF Shape

\* A return never marks an interpreter it may not: a leak is only raised when
\* no call is under test, and a hit is stopped by its victim run.
LEMMA PopKeepsMarks ==
  ASSUME IInv, phase = "running", Depth > 1,
         Depth' = Depth - 1,
         \A i \in 1..(Depth - 1) : SameBut(frames'[i], frames[i]),
         \A i \in 1..(Depth - 1) :
           \/ frames'[i].status = frames[i].status
           \/ /\ i = Depth - 1 /\ frames'[i].status = Top.status
              /\ Top.status = "hit" => Top.kind # "victim",
         victim_runs' \in {victim_runs, victim_runs + 1},
         UNCHANGED <<phase, bug_hit, report>>
  PROVE  LeakOutsideTest'
  <1>1. Depth \in Nat /\ victim_runs \in Nat
    BY TopFacts DEF IInv, TypeOK
  <1>2. \A i : i \in 1..Depth <=> i \in 1..(Depth - 1) \/ i = Depth
    BY <1>1
  <1>3. \A i \in 1..(Depth - 1) : frames'[i].kind = frames[i].kind
    BY DEF SameBut
  <1>4. \A i : i \in Tested' <=> i \in Tested /\ i # Depth
    BY <1>1, <1>2, <1>3 DEF Tested, IsTested
  <1>5. \A i \in 1..(Depth - 1) : frames'[i].status = "leak" => bug_hit /\ Tested' = {}
    BY <1>2, <1>4 DEF IInv, LeakOutsideTest, Top
  <1>6. ASSUME NEW i \in 1..(Depth - 1), frames'[i].status = "hit"
        PROVE  \E j \in Tested' : j <= i /\ frames'[j].kind = "victim"
    <2>1. CASE frames[i].status = "hit"
      <3>1. PICK j \in Tested : j <= i /\ frames[j].kind = "victim"
        BY <1>2, <2>1 DEF IInv, LeakOutsideTest
      <3>2. j \in 1..(Depth - 1)
        BY <1>1, <3>1 DEF Tested
      <3>3. QED
        BY <1>1, <1>3, <1>4, <3>1, <3>2
    <2>2. CASE frames[i].status # "hit"
      <3>1. i = Depth - 1 /\ frames[Depth].status = "hit" /\ frames[Depth].kind # "victim"
        BY <1>6, <2>2 DEF Top
      <3>2. PICK j \in Tested : j <= Depth /\ frames[j].kind = "victim"
        BY <1>1, <1>2, <3>1 DEF IInv, LeakOutsideTest
      <3>3. j \in 1..(Depth - 1)
        BY <1>1, <3>1, <3>2 DEF Tested
      <3>4. QED
        BY <1>1, <1>3, <1>4, <3>1, <3>2, <3>3
    <2>3. QED
      BY <2>1, <2>2
  <1>7. /\ bug_hit' \/ report' # NoSelector => victim_runs' > 0
        /\ report' # NoSelector => bug_hit' /\ phase' = "done"
    BY <1>1 DEF IInv, LeakOutsideTest
  <1>8. QED
    BY <1>5, <1>6, <1>7 DEF LeakOutsideTest

\* The parts, after a step, make the invariant after it.
LEMMA PartsMakeInvariant ==
  ASSUME TypeOK', Shape', phase' = "running" <=> Depth' > 0, phase' # "ready",
         RunTags', LeakOutsideTest'
  PROVE  IInv'
  BY DEF IInv, Shape, StackShape

-----------------------------------------------------------------------------
(* The balance ledger                                                       *)

\* Loading and moving value keep a ledger, and add no run but the one given.
LEMMA LedgerKeeps ==
  ASSUME NEW L \in Ledger, NEW A, NEW from, NEW to, NEW n \in Nat
  PROVE  /\ LoadBalance(L, A, n) \in Ledger /\ Transfer(L, from, to, n) \in Ledger
         /\ (\A a \in Address : L[a] \subseteq {n}) =>
              /\ \A a \in Address : LoadBalance(L, A, n)[a] \subseteq {n}
              /\ \A a \in Address : Transfer(L, from, to, n)[a] \subseteq {n}
  BY DEF LoadBalance, Transfer, send_balance, Ledger

\* The empty ledger is a ledger in which no run has left a balance.
LEMMA EmptyLedger == NoBalance \in Ledger /\ \A a \in Address : NoBalance[a] = {}
  BY DEF NoBalance, Ledger

\* The run that is executing, and the runs that may have written before.
LEMMA RunFacts ==
  ASSUME IInv
  PROVE  /\ Run \in Nat /\ victim_runs \in Nat
         /\ \A w \in evmstate : w[2] = Run
         /\ ~VictimPaid => \A a \in Address : address_to_balance[a] \subseteq {Run}
         /\ is_execute_victim_function => victim_runs > 0
  BY DEF IInv, TypeOK, Run, RunTags, StateIsolated, LedgerIsolated

\* A step that starts no run, adds to storage and to the ledger only what the
\* current run did, and leaves the snapshots alone keeps the tags.
LEMMA SameRunKeepsTags ==
  ASSUME IInv, UNCHANGED <<is_execute_victim_function, victim_runs, snapshots>>,
         \A w \in evmstate' : w \in evmstate \/ w[2] = Run,
         ~VictimPaid => \A a \in Address : address_to_balance'[a] \subseteq {Run}
  PROVE  RunTags'
  <1>1. Run' = Run
    BY DEF Run
  <1>2. QED
    BY <1>1, RunFacts DEF IInv, RunTags, StateIsolated, LedgerIsolated

-----------------------------------------------------------------------------
(* Every action keeps the invariant                                         *)

\* What the constants' assumption says of the two transactions.
LEMMA TxTypes ==
  /\ Target \in Address /\ Victim \in Address
  /\ TargetSender \in Address /\ VictimSender \in Address
  /\ TxInput \subseteq Address /\ VictimInput \subseteq Address
  /\ TxPaid \in BOOLEAN /\ VictimPaid \in BOOLEAN
  /\ target_dependency \in Selector /\ NoInvoke \in Invoke
  BY ConstAssumption DEF Address, NoInvoke, Invoke

\* What a call saves of its caller has the type of a saved context.
LEMMA HereType ==
  ASSUME IInv
  PROVE  Here \in Saved /\ env \in Env /\ records \in SUBSET Address
  BY DEF IInv, TypeOK, Here, Saved

\* The invariant holds when the process starts.
LEMMA InitInv == ASSUME Init PROVE IInv
  <1>1. Depth = 0 /\ Tested = {} /\ \A i \in 1..Depth : FALSE
    BY EmptySeq DEF Init, Depth, Tested
  <1>2. TypeOK
    <2>1. env \in Env /\ code \subseteq Address /\ frames \in Seq(Frame)
          /\ snapshots \in Seq(Snapshot)
      BY TxTypes, EmptySeq DEF Init, Env, Block, Address
    <2>2. call_count \in 0..MaxCalls /\ call_depth \in Nat /\ victim_runs \in Nat
      BY ConstAssumption DEF Init
    <2>3. QED
      BY <2>1, <2>2, EmptyLedger DEF Init, TypeOK
  <1>3. StackShape
    BY <1>1 DEF Init, StackShape
  <1>4. ModesMatchStack
    BY <1>1, EmptySeq DEF Init, ModesMatchStack
  <1>5. DepthChain
    BY <1>1 DEF Init, DepthChain
  <1>6. EnvChain
    BY <1>1 DEF Init, EnvChain
  <1>7. RunTags
    BY EmptyLedger DEF Init, RunTags, StateIsolated, LedgerIsolated
  <1>8. LeakOutsideTest /\ VictimNeedsControl /\ EntryIsTested
    BY <1>1 DEF Init, LeakOutsideTest, VictimNeedsControl, EntryIsTested
  <1>9. QED
    BY <1>2, <1>3, <1>4, <1>5, <1>6, <1>7, <1>8 DEF IInv

\* A step that leaves the stack and the modes alone.
LEMMA SameStackKeeps ==
  ASSUME IInv, phase = "running", TypeOK',
         UNCHANGED <<phase, frames, snapshots, modes, bug_hit, env, call_depth,
                     entry_function, report, victim_runs>>,
         \A w \in evmstate' : w \in evmstate \/ w[2] = Run,
         ~VictimPaid => \A a \in Address : address_to_balance'[a] \subseteq {Run}
  PROVE  IInv'
  <1>1. /\ Depth' = Depth /\ Depth \in Nat /\ Depth > 0
        /\ Tested' = Tested
        /\ \A i \in 1..Depth : SameBut(frames'[i], frames[i])
    BY TopFacts DEF Depth, Tested, IsTested, SameBut
  <1>2. Shape'
    <2>1. frames' \in Seq(Frame)
      BY DEF IInv, TypeOK
    <2>2. QED
      BY <1>1, <2>1, MarkKeepsShape
  <1>3. RunTags'
    BY SameRunKeepsTags DEF modes
  <1>4. LeakOutsideTest'
    BY <1>1 DEF IInv, LeakOutsideTest
  <1>5. QED
    BY <1>1, <1>2, <1>3, <1>4, PartsMakeInvariant

\* Recording a compared or loaded address preserves the invariant.
LEMMA ObserveStep ==
  ASSUME IInv, NEW a \in TxInput, Observe(a)
  PROVE  IInv'
  <1>1. TypeOK'
    BY TxTypes DEF IInv, TypeOK, Observe, modes, counts
  <1>2. QED
    BY <1>1, RunFacts, SameStackKeeps DEF Observe, Executing, counts

\* Loading a balance tags it with the run that is executing.
LEMMA BalanceStep ==
  ASSUME IInv, NEW a \in ReadBalance, Balance(a)
  PROVE  IInv'
  <1>1. /\ address_to_balance' \in Ledger
        /\ ~VictimPaid => \A b \in Address : address_to_balance'[b] \subseteq {Run}
    BY RunFacts, LedgerKeeps DEF IInv, TypeOK, Balance
  <1>2. TypeOK'
    BY <1>1 DEF IInv, TypeOK, Balance, modes, counts
  <1>3. QED
    BY <1>1, <1>2, RunFacts, SameStackKeeps DEF Balance, Executing, counts

\* The innermost interpreter is marked, or not.
LEMMA MarkOrNot ==
  ASSUME frames \in Seq(Frame), Depth > 0, NEW s \in Status, NEW b \in BOOLEAN,
         NEW F, F = IF b THEN [frames EXCEPT ![Depth].status = s] ELSE frames
  PROVE  /\ F \in Seq(Frame) /\ Len(F) = Depth
         /\ \A i \in 1..Depth : SameBut(F[i], frames[i])
         /\ \A i \in 1..Depth : F[i].status = IF b /\ i = Depth THEN s ELSE frames[i].status
  <1>1. CASE b
    BY <1>1, MarkTop
  <1>2. CASE ~b
    BY <1>2 DEF SameBut, Depth
  <1>3. QED
    BY <1>1, <1>2

\* SSTORE tags the slot with its run, and raises the leak outside tests.
LEMMA SStoreStep ==
  ASSUME IInv, SStore
  PROVE  IInv'
  <1>1. /\ phase = "running" /\ Depth \in Nat /\ Depth > 0 /\ Top \in Frame
        /\ frames \in Seq(Frame)
    BY TopFacts DEF SStore, Executing, IInv, TypeOK
  <1>2. /\ frames' \in Seq(Frame) /\ Depth' = Depth
        /\ \A i \in 1..Depth : SameBut(frames'[i], frames[i])
        /\ \A i \in 1..Depth :
             frames'[i].status = IF LeaksHere /\ i = Depth THEN "leak" ELSE frames[i].status
    <2>1. LeaksHere \in BOOLEAN /\ "leak" \in Status
      BY DEF LeaksHere, Status
    <2>2. QED
      BY <1>1, <2>1, MarkOrNot DEF SStore, Depth
  <1>3. TypeOK'
    <2>1. evmstate' \in SUBSET (Address \X Nat)
      BY <1>1, RunFacts DEF IInv, TypeOK, SStore, Frame
    <2>2. QED
      BY <1>2, <2>1 DEF IInv, TypeOK, SStore, modes, counts
  <1>4. Shape'
    BY <1>2, MarkKeepsShape DEF SStore, counts
  <1>5. RunTags'
    <2>1. \A w \in evmstate' : w \in evmstate \/ w[2] = Run
      BY DEF SStore
    <2>2. ~VictimPaid => \A a \in Address : address_to_balance'[a] \subseteq {Run}
      BY RunFacts DEF SStore
    <2>3. QED
      BY <2>1, <2>2, SameRunKeepsTags DEF SStore, modes
  <1>6. LeakOutsideTest'
    <2>1. /\ Tested' = Tested
          /\ \A i \in 1..Depth : frames'[i].kind = frames[i].kind
      BY <1>2 DEF Tested, IsTested, SameBut
    <2>2. LeaksHere => bug_hit /\ Tested = {}
      BY DEF IInv, ModesMatchStack, LeaksHere
    <2>3. \A i \in 1..Depth : frames'[i].status = "leak" => bug_hit /\ Tested = {}
      BY <1>2, <2>2 DEF IInv, LeakOutsideTest
    <2>4. \A i \in 1..Depth : frames'[i].status = "hit" => frames[i].status = "hit"
      BY <1>2
    <2>5. \A j \in Tested : j \in 1..Depth
      BY DEF Tested
    <2>6. QED
      BY <1>2, <2>1, <2>3, <2>4, <2>5 DEF IInv, LeakOutsideTest, SStore
  <1>7. QED
    BY <1>1, <1>2, <1>3, <1>4, <1>5, <1>6, PartsMakeInvariant DEF SStore

\* A new interpreter keeps the marks right, when it is not marked itself and
\* the one that starts it is at most marked with a hit inside a victim run.
LEMMA PushKeepsMarks ==
  ASSUME IInv, phase = "running", Depth' = Depth + 1,
         frames'[Depth + 1].status = "run",
         frames'[Depth + 1].kind \in {"plain", "cross", "create"},
         frames'[Depth + 1].kind = "cross" => ~bug_hit,
         \A i \in 1..Depth : SameBut(frames'[i], frames[i]),
         \A i \in 1..Depth :
           \/ frames'[i].status = frames[i].status
           \/ i = Depth /\ is_execute_victim_function /\ frames'[i].status = "hit",
         bug_hit' = bug_hit \/ (is_execute_victim_function /\ bug_hit'),
         UNCHANGED <<phase, report, victim_runs>>
  PROVE  LeakOutsideTest'
  <1>1. Depth \in Nat /\ \A i : i \in 1..(Depth + 1) <=> i \in 1..Depth \/ i = Depth + 1
    BY TopFacts
  <1>2. \A i \in 1..Depth : frames'[i].kind = frames[i].kind
    BY DEF SameBut
  <1>3. \A i \in Tested : i \in 1..Depth /\ i \in Tested'
    BY <1>1, <1>2 DEF Tested, IsTested
  <1>4. frames'[Depth + 1].kind # "cross" => Tested' = Tested
    BY <1>1, <1>2 DEF Tested, IsTested
  <1>5. \A i \in 1..Depth : frames'[i].status = "leak" => bug_hit' /\ Tested' = {}
    BY <1>4 DEF IInv, LeakOutsideTest
  <1>6. ASSUME NEW i \in 1..Depth, frames'[i].status = "hit"
        PROVE  \E j \in Tested' : j <= i /\ frames'[j].kind = "victim"
    <2>1. CASE frames[i].status = "hit"
      <3>1. PICK j \in Tested : j <= i /\ frames[j].kind = "victim"
        BY <2>1 DEF IInv, LeakOutsideTest
      <3>2. QED
        BY <1>2, <1>3, <3>1
    <2>2. CASE frames[i].status # "hit"
      <3>1. i = Depth /\ is_execute_victim_function
        BY <1>6, <2>2
      <3>2. PICK j \in 1..Depth : frames[j].kind = "victim"
        BY <3>1 DEF IInv, ModesMatchStack
      <3>3. j \in Tested
        BY <3>2 DEF Tested, IsTested
      <3>4. QED
        BY <1>1, <1>2, <1>3, <3>1, <3>2, <3>3
    <2>3. QED
      BY <2>1, <2>2
  <1>7. /\ bug_hit' \/ report' # NoSelector => victim_runs' > 0
        /\ report' # NoSelector => bug_hit' /\ phase' = "done"
    BY RunFacts DEF IInv, LeakOutsideTest
  <1>8. QED
    BY <1>1, <1>5, <1>6, <1>7 DEF LeakOutsideTest

\* Starting init code preserves the invariant.
LEMMA CreateStep ==
  ASSUME IInv, NEW f \in Fresh, Create(f)
  PROVE  IInv'
  <1> DEFINE g == frames'[Depth + 1]
  <1>1. /\ phase = "running" /\ Depth \in Nat /\ Depth > 0 /\ Top \in Frame
        /\ frames \in Seq(Frame) /\ call_depth \in Nat
    BY TopFacts DEF Create, Executing, IInv, TypeOK
  <1> DEFINE init == [kind |-> "create", address |-> f, caller |-> Top.address,
                      code_address |-> f, input |-> {}, paid |-> FALSE,
                      status |-> "run", invoke |-> NoInvoke, saved |-> Here,
                      depth |-> call_depth]
  <1>2. init \in Frame
    BY <1>1, HereType, TxTypes DEF Frame, Kind, Status, Address
  <1>3. frames' = Append(frames, init)
    BY DEF Create
  <1>4. /\ frames' \in Seq(Frame) /\ Depth' = Depth + 1 /\ frames'[Depth + 1] = init
        /\ \A i \in 1..Depth : frames'[i] = frames[i]
    BY <1>1, <1>2, <1>3, PushFrame DEF Depth
  <1>5. /\ init.kind = "create" /\ init.depth = call_depth /\ init.status = "run"
    OBVIOUS
  <1> HIDE DEF init
  <1>6. \A i \in 1..Depth : SameBut(frames'[i], frames[i])
    BY <1>4 DEF SameBut
  <1>7. TypeOK'
    BY <1>4 DEF IInv, TypeOK, Create, modes, counts, world
  <1>8. Shape'
    <2>1. /\ UNCHANGED <<phase, snapshots, is_execute_victim_function>>
          /\ env' = env /\ entry_function' = entry_function /\ call_depth' = call_depth
      BY DEF Create, modes, counts, world
    <2>2. /\ is_diff_dapp' = (is_diff_dapp \/ init.kind = "cross")
          /\ no_need_for_test' =
               (no_need_for_test /\ ~(init.kind = "cross" /\ init.invoke.from_args))
      BY <1>5 DEF Create, modes, IInv, TypeOK
    <2>3. init.kind \in {"plain", "cross", "create"}
      BY <1>5
    <2>4. QED
      BY <1>1, <1>2, <1>4, <1>5, <1>6, <2>1, <2>2, <2>3, PushKeepsShape
  <1>9. RunTags'
    BY RunFacts, SameRunKeepsTags DEF Create, modes, world
  <1>10. LeakOutsideTest'
    BY <1>1, <1>4, <1>5, <1>6, PushKeepsMarks DEF Create
  <1>11. QED
    BY <1>1, <1>4, <1>7, <1>8, <1>9, <1>10, PartsMakeInvariant DEF Create

\* Starting a callee, in the same DApp or a tested one, preserves it.
LEMMA CallStep ==
  ASSUME IInv, NEW scheme \in Scheme, NEW to \in Address, NEW selector \in Selector,
         NEW input \in CallInput, NEW paid \in CallPaid, NEW stipend \in CallStipend,
         Call(scheme, to, selector, input, paid, stipend)
  PROVE  IInv'
  <1> DEFINE
      address == IF scheme \in {"Call", "StaticCall"} THEN to ELSE Top.address
      caller  == IF scheme = "DelegateCall" THEN Top.caller ELSE Top.address
      value   == CASE scheme = "StaticCall"   -> FALSE
                   [] scheme = "DelegateCall" -> Top.paid
                   [] OTHER                   -> paid
      to_address == IF scheme = "DelegateCall" THEN to ELSE address
      from_args ==
        \/ /\ call_depth > 0
           /\ is_input_contain_address(Top.input, to_address, Top.code_address)
        \/ to_address \in {Top.caller, env.caller}
      hit   == /\ is_execute_victim_function
               /\ to_address = Target
               /\ selector = target_dependency
      cross == ~Untested(is_from_same_dapp(caller, address, to, scheme), hit)
      marked == IF hit THEN [frames EXCEPT ![Depth].status = "hit"] ELSE frames
      invoke == IF cross THEN [selector |-> selector, from_args |-> from_args,
                               stipend |-> stipend]
                         ELSE NoInvoke
      callee == [kind |-> IF cross THEN "cross" ELSE "plain",
                 address |-> address, caller |-> caller, code_address |-> to,
                 input |-> input, paid |-> value, status |-> "run",
                 invoke |-> invoke, saved |-> Here, depth |-> call_depth + 1]
  <1>1. /\ phase = "running" /\ Depth \in Nat /\ Depth > 0 /\ Top \in Frame
        /\ frames \in Seq(Frame) /\ call_depth \in Nat /\ call_count \in 0..MaxCalls
        /\ phase' = phase
    BY TopFacts DEF Call, Executing, IInv, TypeOK
  <1>2. /\ call_count < MaxCalls /\ call_count' = call_count + 1
        /\ bug_hit' = (bug_hit \/ hit)
        /\ address_to_balance' =
             IF ~value THEN address_to_balance
             ELSE IF scheme = "DelegateCall"
               THEN LoadBalance(address_to_balance, {caller, address}, Run)
               ELSE Transfer(address_to_balance, caller, address, Run)
        /\ IF cross \/ to \in code
             THEN /\ frames' = Append(marked, callee)
                  /\ call_depth' = call_depth + 1
                  /\ env' = [env EXCEPT !.to = address]
                  /\ records' = {}
             ELSE /\ frames' = marked
                  /\ UNCHANGED <<call_depth, env, records>>
        /\ entry_function' = EntryAfter(cross, selector)
        /\ is_diff_dapp' = (is_diff_dapp \/ cross)
        /\ no_need_for_test' = (no_need_for_test /\ ~(cross /\ from_args))
        /\ UNCHANGED <<snapshots, is_execute_victim_function, evmstate, code,
                       report, victim_runs>>
    BY DEF Call
  <1>3. /\ address \in Address /\ caller \in Address /\ value \in BOOLEAN
        /\ from_args \in BOOLEAN /\ hit \in BOOLEAN /\ cross \in BOOLEAN
        /\ input \in SUBSET Address /\ stipend \in BOOLEAN /\ paid \in BOOLEAN
    <2>1. input \in SUBSET Address /\ stipend \in BOOLEAN /\ paid \in BOOLEAN
      BY ConstAssumption
    <2>2. address \in Address /\ caller \in Address /\ Top.paid \in BOOLEAN
      BY <1>1 DEF Frame
    <2>3. from_args \in BOOLEAN /\ hit \in BOOLEAN /\ cross \in BOOLEAN
      BY DEF is_input_contain_address, Untested
    <2>4. value \in BOOLEAN
      BY <2>1, <2>2
    <2>5. QED
      BY <2>1, <2>2, <2>3, <2>4
  <1>4. cross => ~is_diff_dapp /\ ~bug_hit /\ ~hit
    BY DEF Untested
  <1>5. hit => is_execute_victim_function
    OBVIOUS
  <1>6. invoke \in Invoke /\ (cross => invoke.selector = selector /\ invoke.from_args = from_args)
    BY <1>3, TxTypes DEF Invoke
  <1> HIDE DEF address, caller, value, from_args, hit, cross, invoke
  <1>7. /\ callee \in Frame /\ callee.status = "run" /\ callee.depth = call_depth + 1
        /\ callee.kind = IF cross THEN "cross" ELSE "plain"
        /\ callee.saved.env = env /\ callee.address = address
        /\ callee.invoke = invoke
    BY <1>1, <1>3, <1>6, HereType DEF Frame, Kind, Status, Here
  <1> HIDE DEF callee
  <1>8. /\ marked \in Seq(Frame) /\ Len(marked) = Depth
        /\ \A i \in 1..Depth : SameBut(marked[i], frames[i])
        /\ \A i \in 1..Depth :
             marked[i].status = IF hit /\ i = Depth THEN "hit" ELSE frames[i].status
    <2>1. "hit" \in Status
      BY DEF Status
    <2>2. marked = IF hit THEN [frames EXCEPT ![Depth].status = "hit"] ELSE frames
      OBVIOUS
    <2> HIDE DEF marked
    <2>3. QED
      BY <1>1, <1>3, <2>1, <2>2, MarkOrNot
  <1> HIDE DEF marked
  <1>9. entry_function' = IF cross THEN selector ELSE entry_function
    BY <1>2 DEF EntryAfter
  <1>10. /\ address_to_balance' \in Ledger
         /\ ~VictimPaid => \A b \in Address : address_to_balance'[b] \subseteq {Run}
    BY <1>2, RunFacts, LedgerKeeps DEF IInv, TypeOK
  <1>11. RunTags'
    BY <1>2, <1>10, SameRunKeepsTags
  <1>12. CASE cross \/ to \in code
    <2>1. /\ frames' \in Seq(Frame) /\ Depth' = Depth + 1 /\ frames'[Depth + 1] = callee
          /\ \A i \in 1..Depth : frames'[i] = marked[i]
      BY <1>2, <1>7, <1>8, <1>12, PushFrame DEF Depth
    <2>2. TypeOK'
      <3>1. env' \in Env
        BY <1>2, <1>3, <1>12, HereType DEF Env
      <3>2. call_count' \in 0..MaxCalls /\ call_depth' \in Nat
        BY <1>1, <1>2, <1>12, ConstAssumption
      <3>3. QED
        BY <1>1, <1>2, <1>3, <1>9, <1>10, <1>12, <2>1, <3>1, <3>2 DEF IInv, TypeOK
    <2>3. Shape'
      <3>1. \A i \in 1..Depth : SameBut(frames'[i], frames[i])
        BY <1>8, <2>1
      <3>2. /\ callee.kind \in {"plain", "cross", "create"} /\ callee.kind # "create"
            /\ callee.kind = "cross" <=> cross
        BY <1>7
      <3>3. callee.kind = "cross" => ~is_diff_dapp /\ callee.invoke.selector = entry_function'
        BY <1>4, <1>6, <1>7, <1>9, <3>2
      <3>4. no_need_for_test' =
              (no_need_for_test /\ ~(callee.kind = "cross" /\ callee.invoke.from_args))
        BY <1>2, <1>3, <1>6, <1>7, <3>2 DEF IInv, TypeOK
      <3>5. is_diff_dapp' = (is_diff_dapp \/ callee.kind = "cross")
        BY <1>2, <3>2
      <3>6. /\ env' = [env EXCEPT !.to = callee.address] /\ call_depth' = callee.depth
            /\ callee.kind # "cross" => entry_function' = entry_function
        BY <1>2, <1>7, <1>9, <1>12, <3>2
      <3>7. QED
        BY <1>1, <1>2, <1>7, <2>1, <3>1, <3>2, <3>3, <3>4, <3>5, <3>6, PushKeepsShape
    <2>4. LeakOutsideTest'
      <3>1. /\ frames'[Depth + 1].status = "run"
            /\ frames'[Depth + 1].kind \in {"plain", "cross", "create"}
            /\ frames'[Depth + 1].kind = "cross" => ~bug_hit
            /\ \A i \in 1..Depth : SameBut(frames'[i], frames[i])
            /\ \A i \in 1..Depth :
                 \/ frames'[i].status = frames[i].status
                 \/ i = Depth /\ is_execute_victim_function /\ frames'[i].status = "hit"
        BY <1>4, <1>5, <1>7, <1>8, <2>1
      <3>2. bug_hit' = bug_hit \/ (is_execute_victim_function /\ bug_hit')
        BY <1>2, <1>5, <1>3 DEF IInv, TypeOK
      <3>3. QED
        BY <1>1, <1>2, <2>1, <3>1, <3>2, PushKeepsMarks
    <2>5. QED
      BY <1>1, <1>11, <2>1, <2>2, <2>3, <2>4, PartsMakeInvariant
  <1>13. CASE ~(cross \/ to \in code)
    <2>1. /\ frames' = marked /\ Depth' = Depth
          /\ UNCHANGED <<call_depth, env, records>>
      BY <1>2, <1>8, <1>13 DEF Depth
    <2>2. /\ entry_function' = entry_function
          /\ is_diff_dapp' = is_diff_dapp /\ no_need_for_test' = no_need_for_test
      BY <1>2, <1>9, <1>13 DEF IInv, TypeOK
    <2>3. TypeOK'
      <3>1. call_count' \in 0..MaxCalls
        BY <1>1, <1>2, ConstAssumption
      <3>2. QED
        BY <1>1, <1>2, <1>3, <1>8, <1>10, <2>1, <2>2, <3>1 DEF IInv, TypeOK
    <2>4. Shape'
      BY <1>1, <1>2, <1>8, <2>1, <2>2, MarkKeepsShape DEF modes
    <2>5. LeakOutsideTest'
      <3>1. /\ Tested' = Tested
            /\ \A i \in 1..Depth : frames'[i].kind = frames[i].kind
        BY <1>8, <2>1 DEF Tested, IsTested, SameBut
      <3>2. \A i \in 1..Depth : frames'[i].status = "leak" => bug_hit' /\ Tested = {}
        BY <1>2, <1>8, <2>1 DEF IInv, LeakOutsideTest
      <3>3. ASSUME NEW i \in 1..Depth, frames'[i].status = "hit"
            PROVE  \E j \in Tested : j <= i /\ frames'[j].kind = "victim"
        <4>1. CASE frames[i].status = "hit"
          <5>1. PICK j \in Tested : j <= i /\ frames[j].kind = "victim"
            BY <4>1 DEF IInv, LeakOutsideTest
          <5>2. QED
            BY <3>1, <5>1 DEF Tested
        <4>2. CASE frames[i].status # "hit"
          <5>1. hit /\ i = Depth
            BY <1>8, <2>1, <3>3, <4>2
          <5>2. PICK j \in 1..Depth : frames[j].kind = "victim"
            BY <1>5, <5>1 DEF IInv, ModesMatchStack
          <5>3. j \in Tested /\ j <= i
            BY <1>1, <5>1, <5>2 DEF Tested, IsTested
          <5>4. QED
            BY <3>1, <5>2, <5>3
        <4>3. QED
          BY <4>1, <4>2
      <3>4. /\ bug_hit' \/ report' # NoSelector => victim_runs' > 0
            /\ report' # NoSelector => bug_hit' /\ phase' = "done"
        BY <1>1, <1>2, <1>5, RunFacts DEF IInv, LeakOutsideTest
      <3>5. QED
        BY <2>1, <3>1, <3>2, <3>3, <3>4 DEF LeakOutsideTest
    <2>6. QED
      BY <1>1, <1>11, <2>1, <2>3, <2>4, <2>5, PartsMakeInvariant
  <1>14. QED
    BY <1>12, <1>13

\* So does the start of the target transaction.
LEMMA TransactionStep ==
  ASSUME IInv, execute_from_pc
  PROVE  IInv'
  <1> DEFINE tx == [kind |-> "tx", address |-> Target, caller |-> TargetSender,
                    code_address |-> Target, input |-> TxInput, paid |-> TxPaid,
                    status |-> "run", invoke |-> NoInvoke, saved |-> Here,
                    depth |-> call_depth]
  <1>1. /\ phase = "ready" /\ Depth = 0 /\ snapshots = <<>> /\ call_depth = 0
        /\ report = NoSelector /\ victim_runs = 0
        /\ address_to_balance = NoBalance
    BY DEF IInv, TypeOK, StackShape, execute_from_pc, Depth
  <1>2. /\ Tested = {} /\ ~is_diff_dapp /\ ~is_execute_victim_function
        /\ no_need_for_test
    BY <1>1 DEF Tested, IInv, ModesMatchStack, VictimNeedsControl, TypeOK
  <1>3. tx \in Frame
    BY <1>1, HereType, TxTypes DEF Frame, Kind, Status
  <1>4. frames' = <<tx>> /\ phase' = "running" /\ call_depth' = call_depth
        /\ env' = [caller |-> TargetSender, to |-> Target, block |-> "target"]
        /\ UNCHANGED <<snapshots, modes, report, victim_runs>>
    BY DEF execute_from_pc
  <1>5. tx.kind = "tx" /\ tx.depth = call_depth /\ tx.address = Target /\ tx.status = "run"
    OBVIOUS
  <1> HIDE DEF tx
  <1>6. frames' \in Seq(Frame) /\ Depth' = 1 /\ frames'[1] = tx
    BY <1>3, <1>4 DEF Depth
  <1>7. \A i \in 1..1 : i = 1 /\ frames'[i].kind = "tx" /\ frames'[i].status = "run"
    BY <1>5, <1>6
  <1>8. Tested' = {}
    BY <1>6, <1>7 DEF Tested, IsTested
  <1>9. address_to_balance' \in Ledger
        /\ \A a \in Address : address_to_balance'[a] \subseteq {0}
    BY <1>1, EmptyLedger, LedgerKeeps DEF execute_from_pc
  <1>10. TypeOK'
    <2>1. env' \in Env /\ 0 \in 0..MaxCalls
      BY <1>4, TxTypes, ConstAssumption DEF Env, Block
    <2>2. QED
      BY <1>6, <1>9, <2>1 DEF IInv, TypeOK, execute_from_pc, modes
  <1>11. Shape'
    <2>1. ModesMatchStack'
      BY <1>1, <1>2, <1>4, <1>6, <1>7, <1>8, EmptySeq DEF ModesMatchStack, modes
    <2>2. DepthChain'
      BY <1>4, <1>5, <1>6, <1>7 DEF DepthChain, Top
    <2>3. EnvChain'
      <3>1. ~InVictim(frames', 1) /\ InnermostCall(frames', 1, 1)
        BY <1>7 DEF InVictim, InnermostCall
      <3>2. EnvAt(frames', 1, env')
        BY <1>4, <1>5, <1>6, <3>1 DEF EnvAt
      <3>3. QED
        BY <1>6, <3>2 DEF EnvChain
    <2>4. VictimNeedsControl' /\ EntryIsTested'
      BY <1>2, <1>4, <1>8 DEF VictimNeedsControl, EntryIsTested, modes
    <2>5. QED
      BY <1>6, <1>7, <2>1, <2>2, <2>3, <2>4 DEF Shape
  <1>12. RunTags'
    BY <1>2, <1>4, <1>9 DEF RunTags, StateIsolated, LedgerIsolated, Run, modes,
                             execute_from_pc
  <1>13. LeakOutsideTest'
    BY <1>1, <1>4, <1>6, <1>7 DEF LeakOutsideTest, execute_from_pc
  <1>14. QED
    BY <1>4, <1>6, <1>10, <1>11, <1>12, <1>13, PartsMakeInvariant

\* So does its end, with a report or without.
LEMMA EndTransactionStep ==
  ASSUME IInv, NEW r \in Result, EndTransaction(r)
  PROVE  IInv'
  <1>1. /\ phase = "running" /\ Top.kind = "tx" /\ phase' = "done" /\ frames' = <<>>
        /\ Depth \in 1..Depth /\ Depth \in Nat
        /\ UNCHANGED <<snapshots, modes, bug_hit, counts, world, code,
                       entry_function, victim_runs>>
        /\ report' = IF r = "leak" THEN entry_function ELSE report
    BY TopFacts DEF EndTransaction, Ends
  <1>2. Depth = 1 /\ Tested = {}
    BY <1>1 DEF IInv, StackShape, Top, Tested, IsTested
  <1>3. ~is_diff_dapp /\ ~is_execute_victim_function /\ no_need_for_test
    <2>1. \A i \in 1..Depth : frames[i].kind # "victim"
      BY <1>1, <1>2 DEF Top
    <2>2. QED
      BY <1>2, <2>1 DEF IInv, ModesMatchStack, VictimNeedsControl, TypeOK
  <1>4. frames' \in Seq(Frame) /\ Depth' = 0 /\ Tested' = {} /\ \A i \in 1..0 : FALSE
    BY <1>1, EmptySeq DEF Depth, Tested
  <1>5. TypeOK'
    BY <1>1, <1>4 DEF IInv, TypeOK, modes, counts, world
  <1>6. Shape'
    <2>1. ModesMatchStack'
      BY <1>1, <1>3, <1>4 DEF IInv, ModesMatchStack, modes
    <2>2. DepthChain' /\ EnvChain'
      BY <1>1, <1>4 DEF DepthChain, EnvChain
    <2>3. VictimNeedsControl' /\ EntryIsTested'
      BY <1>1, <1>3, <1>4 DEF VictimNeedsControl, EntryIsTested, modes
    <2>4. QED
      BY <1>4, <2>1, <2>2, <2>3 DEF Shape
  <1>7. RunTags'
    BY <1>1, RunFacts, SameRunKeepsTags DEF modes, world
  <1>8. LeakOutsideTest'
    <2>1. r = "leak" => Top.status = "leak"
      BY DEF EndTransaction, Ends
    <2>2. r = "leak" => bug_hit
      BY <1>1, <2>1 DEF IInv, LeakOutsideTest, Top
    <2>3. bug_hit => victim_runs > 0
      BY DEF IInv, LeakOutsideTest
    <2>4. report # NoSelector => bug_hit /\ victim_runs > 0
      BY DEF IInv, LeakOutsideTest
    <2>5. QED
      BY <1>1, <1>4, <2>2, <2>3, <2>4 DEF LeakOutsideTest
  <1>9. QED
    BY <1>1, <1>4, <1>5, <1>6, <1>7, <1>8, PartsMakeInvariant

\* A return: what Resume does to the stack, and which marks can appear.
LEMMA ReturnFacts ==
  ASSUME IInv, NEW r \in Result, Ends(r), Top.kind # "tx"
  PROVE  /\ phase = "running" /\ Depth > 1 /\ Depth \in Nat /\ Top \in Frame
         /\ frames \in Seq(Frame)
         /\ r = "leak" => Top.status = "leak"
         /\ r = "hit" => Top.status = "hit"
         /\ Top.status = "hit" => r = "hit"
  <1>1. /\ phase = "running"
        /\ r = "leak" => Top.status = "leak"
        /\ r = "hit" => Top.status = "hit"
        /\ Top.status = "hit" => r = "hit"
    BY DEF Ends, Executing
  <1>2. Depth > 1 /\ Depth \in Nat /\ Top \in Frame
    BY <1>1, TopFacts, NotTxHasCaller
  <1>3. frames \in Seq(Frame)
    BY DEF IInv, TypeOK
  <1>4. QED
    BY <1>1, <1>2, <1>3

\* The number of calls open is never below zero at a return.
LEMMA DepthPositive ==
  ASSUME IInv, phase = "running", Depth > 1
  PROVE  /\ Top.kind \in {"plain", "cross"} => call_depth - 1 \in Nat
         /\ Top.kind = "victim" => snapshots[1].call_depth - 1 \in Nat
         /\ Top.saved.env \in Env /\ Top.saved.records \in SUBSET Address
  <1>1. /\ Depth \in Nat /\ Depth \in 1..Depth /\ Depth - 1 \in 1..Depth
        /\ Top \in Frame
    BY TopFacts
  <1>2. frames[Depth - 1].depth \in Nat
    BY <1>1, TopFacts DEF Frame
  <1>3. Top.kind \in {"plain", "cross"} => call_depth = frames[Depth - 1].depth + 1
    BY <1>1 DEF IInv, DepthChain, Top
  <1>4. Top.kind = "victim" => snapshots[1].call_depth = frames[Depth - 1].depth + 1
    BY <1>1 DEF IInv, DepthChain, Top
  <1>5. QED
    BY <1>1, <1>2, <1>3, <1>4 DEF Frame, Saved

\* The return of a call that is not under test preserves the invariant.
LEMMA ReturnPlainStep ==
  ASSUME IInv, NEW r \in Result, ReturnPlain(r)
  PROVE  IInv'
  <1>1. /\ Top.kind = "plain" /\ Ends(r) /\ frames' = Resume(r)
        /\ call_depth' = call_depth - 1
        /\ env' = Top.saved.env /\ records' = Top.saved.records
        /\ UNCHANGED <<phase, snapshots, modes, bug_hit, call_count,
                       address_to_balance, evmstate, code, entry_function, report,
                       victim_runs>>
    BY DEF ReturnPlain, RestoreCaller
  <1>2. /\ phase = "running" /\ Depth > 1 /\ Depth \in Nat /\ Top \in Frame
        /\ frames \in Seq(Frame)
        /\ r = "leak" => Top.status = "leak"
        /\ r = "hit" => Top.status = "hit"
    BY <1>1, ReturnFacts
  <1>3. /\ frames' \in Seq(Frame) /\ Depth' = Depth - 1
        /\ \A i \in 1..(Depth - 1) : SameBut(frames'[i], frames[i])
        /\ \A i \in 1..(Depth - 1) :
             \/ frames'[i].status = frames[i].status
             \/ i = Depth - 1 /\ r \in {"leak", "hit"} /\ frames'[i].status = r
    BY <1>1, <1>2, ResumeFrames DEF Depth
  <1>4. TypeOK'
    BY <1>1, <1>2, <1>3, DepthPositive DEF IInv, TypeOK, modes
  <1>5. Shape'
    <2>1. /\ is_diff_dapp' = (is_diff_dapp /\ Top.kind \notin {"cross", "victim"})
          /\ no_need_for_test' = (no_need_for_test \/ Top.kind \in {"cross", "victim"})
          /\ is_execute_victim_function' =
               (is_execute_victim_function /\ Top.kind # "victim")
      BY <1>1 DEF IInv, TypeOK, modes
    <2>2. QED
      BY <1>1, <1>2, <1>3, <2>1, PopKeepsShape
  <1>6. RunTags'
    BY <1>1, RunFacts, SameRunKeepsTags DEF modes
  <1>7. LeakOutsideTest'
    <2>1. \A i \in 1..(Depth - 1) :
             \/ frames'[i].status = frames[i].status
             \/ /\ i = Depth - 1 /\ frames'[i].status = Top.status
                /\ Top.status = "hit" => Top.kind # "victim"
      BY <1>1, <1>2, <1>3
    <2>2. QED
      BY <1>1, <1>2, <1>3, <2>1, PopKeepsMarks DEF IInv, TypeOK
  <1>8. QED
    BY <1>1, <1>2, <1>3, <1>4, <1>5, <1>6, <1>7, PartsMakeInvariant

\* So does the end of init code.
LEMMA ReturnCreateStep ==
  ASSUME IInv, NEW r \in Result, ReturnCreate(r)
  PROVE  IInv'
  <1>1. /\ Top.kind = "create" /\ Ends(r) /\ frames' = Below
        /\ code' = code \union {Top.address}
        /\ UNCHANGED <<phase, snapshots, modes, bug_hit, counts, world,
                       entry_function, report, victim_runs>>
    BY DEF ReturnCreate
  <1>2. /\ phase = "running" /\ Depth > 1 /\ Depth \in Nat /\ Top \in Frame
        /\ frames \in Seq(Frame)
    BY <1>1, ReturnFacts
  <1>3. /\ frames' \in Seq(Frame) /\ Depth' = Depth - 1
        /\ \A i \in 1..(Depth - 1) : frames'[i] = frames[i]
    BY <1>1, <1>2, BelowFrames DEF Depth
  <1>4. \A i \in 1..(Depth - 1) : SameBut(frames'[i], frames[i])
    BY <1>3 DEF SameBut
  <1>5. TypeOK'
    <2>1. code' \in SUBSET Address
      BY <1>1, <1>2 DEF IInv, TypeOK, Frame
    <2>2. QED
      BY <1>1, <1>3, <2>1 DEF IInv, TypeOK, modes, counts, world
  <1>6. Shape'
    <2>1. /\ is_diff_dapp' = (is_diff_dapp /\ Top.kind \notin {"cross", "victim"})
          /\ no_need_for_test' = (no_need_for_test \/ Top.kind \in {"cross", "victim"})
          /\ is_execute_victim_function' =
               (is_execute_victim_function /\ Top.kind # "victim")
      BY <1>1 DEF IInv, TypeOK, modes
    <2>2. UNCHANGED <<phase, snapshots, entry_function, env, call_depth>>
      BY <1>1 DEF counts, world
    <2>3. QED
      BY <1>1, <1>2, <1>3, <1>4, <2>1, <2>2, PopKeepsShape
  <1>7. RunTags'
    BY <1>1, RunFacts, SameRunKeepsTags DEF modes, world
  <1>8. LeakOutsideTest'
    <2>1. \A i \in 1..(Depth - 1) : frames'[i].status = frames[i].status
      BY <1>3
    <2>2. QED
      BY <1>1, <1>2, <1>3, <1>4, <2>1, PopKeepsMarks DEF IInv, TypeOK
  <1>9. QED
    BY <1>1, <1>2, <1>3, <1>5, <1>6, <1>7, <1>8, PartsMakeInvariant

\* A call to a different DApp, or its victim run, is the one test that is open.
LEMMA TestedTop ==
  ASSUME IInv, phase = "running", Top.kind \in {"cross", "victim"}
  PROVE  /\ Tested = {Depth} /\ is_diff_dapp
         /\ is_execute_victim_function <=> Top.kind = "victim"
         /\ ~no_need_for_test <=> Top.invoke.from_args
  <1>1. Depth \in 1..Depth
    BY TopFacts
  <1>2. Tested = {Depth}
    BY <1>1 DEF IInv, ModesMatchStack, Tested, IsTested, Top
  <1>3. is_execute_victim_function <=> Top.kind = "victim"
    BY <1>1, <1>2 DEF IInv, ModesMatchStack, Tested, IsTested, Top
  <1>4. QED
    BY <1>2, <1>3 DEF IInv, ModesMatchStack, VictimNeedsControl, Top

\* So does the return of a tested call without a victim run.
LEMMA ReturnCrossStep ==
  ASSUME IInv, NEW r \in Result, ReturnCross(r)
  PROVE  IInv'
  <1>1. /\ Top.kind = "cross" /\ Ends(r) /\ frames' = Resume(r)
        /\ call_depth' = call_depth - 1
        /\ env' = Top.saved.env /\ records' = Top.saved.records
        /\ no_need_for_test' = TRUE /\ is_diff_dapp' = FALSE
        /\ UNCHANGED <<phase, snapshots, is_execute_victim_function, bug_hit,
                       call_count, address_to_balance, evmstate, code,
                       entry_function, report, victim_runs>>
    BY DEF ReturnCross, RestoreCaller, CloseTest
  <1>2. /\ phase = "running" /\ Depth > 1 /\ Depth \in Nat /\ Top \in Frame
        /\ frames \in Seq(Frame)
        /\ r = "leak" => Top.status = "leak"
        /\ r = "hit" => Top.status = "hit"
    BY <1>1, ReturnFacts
  <1>3. /\ frames' \in Seq(Frame) /\ Depth' = Depth - 1
        /\ \A i \in 1..(Depth - 1) : SameBut(frames'[i], frames[i])
        /\ \A i \in 1..(Depth - 1) :
             \/ frames'[i].status = frames[i].status
             \/ i = Depth - 1 /\ r \in {"leak", "hit"} /\ frames'[i].status = r
    BY <1>1, <1>2, ResumeFrames DEF Depth
  <1>4. TypeOK'
    BY <1>1, <1>2, <1>3, DepthPositive DEF IInv, TypeOK
  <1>5. Shape'
    <2>1. /\ is_diff_dapp' = (is_diff_dapp /\ Top.kind \notin {"cross", "victim"})
          /\ no_need_for_test' = (no_need_for_test \/ Top.kind \in {"cross", "victim"})
          /\ is_execute_victim_function' =
               (is_execute_victim_function /\ Top.kind # "victim")
      BY <1>1 DEF IInv, TypeOK
    <2>2. QED
      BY <1>1, <1>2, <1>3, <2>1, PopKeepsShape
  <1>6. RunTags'
    BY <1>1, RunFacts, SameRunKeepsTags
  <1>7. LeakOutsideTest'
    <2>1. \A i \in 1..(Depth - 1) :
             \/ frames'[i].status = frames[i].status
             \/ /\ i = Depth - 1 /\ frames'[i].status = Top.status
                /\ Top.status = "hit" => Top.kind # "victim"
      BY <1>1, <1>2, <1>3
    <2>2. QED
      BY <1>1, <1>2, <1>3, <2>1, PopKeepsMarks DEF IInv, TypeOK
  <1>8. QED
    BY <1>1, <1>2, <1>3, <1>4, <1>5, <1>6, <1>7, PartsMakeInvariant

\* The ledger that a victim run saves.
LEMMA VictimTransferKeeps ==
  ASSUME IInv, ~is_execute_victim_function
  PROVE  /\ VictimTransfer \in Ledger
         /\ ~VictimPaid => \A a \in Address : VictimTransfer[a] \subseteq {0}
  <1>1. victim_runs + 1 \in Nat /\ address_to_balance \in Ledger
    BY DEF IInv, TypeOK
  <1>2. ~VictimPaid => \A a \in Address : address_to_balance[a] \subseteq {0}
    BY RunFacts DEF Run
  <1>3. Transfer(address_to_balance, VictimSender, Victim, victim_runs + 1) \in Ledger
    BY <1>1, LedgerKeeps
  <1>4. QED
    BY <1>1, <1>2, <1>3 DEF VictimTransfer

\* So does a victim transaction that is a bare transfer.
LEMMA SkipVictimStep ==
  ASSUME IInv, SkipVictim
  PROVE  IInv'
  <1>1. /\ Top.kind = "cross" /\ Ends("ok") /\ frames' = Below
        /\ call_depth' = call_depth - 1
        /\ env' = Top.saved.env /\ records' = Top.saved.records
        /\ no_need_for_test' = TRUE /\ is_diff_dapp' = FALSE
        /\ victim_runs' = victim_runs + 1
        /\ address_to_balance' = VictimTransfer
        /\ UNCHANGED <<phase, snapshots, is_execute_victim_function, bug_hit,
                       call_count, evmstate, code, entry_function, report>>
    BY DEF SkipVictim, RestoreCaller, CloseTest
  <1>2. /\ phase = "running" /\ Depth > 1 /\ Depth \in Nat /\ Top \in Frame
        /\ frames \in Seq(Frame) /\ victim_runs \in Nat
    BY <1>1, ReturnFacts, RunFacts DEF Result
  <1>3. ~is_execute_victim_function /\ Run = 0 /\ Run' = 0
    BY <1>1, <1>2, TestedTop DEF Run
  <1>4. /\ address_to_balance' \in Ledger
        /\ ~VictimPaid => \A a \in Address : address_to_balance'[a] \subseteq {0}
    BY <1>1, <1>3, VictimTransferKeeps
  <1>5. /\ frames' \in Seq(Frame) /\ Depth' = Depth - 1
        /\ \A i \in 1..(Depth - 1) : frames'[i] = frames[i]
    BY <1>1, <1>2, BelowFrames DEF Depth
  <1>6. \A i \in 1..(Depth - 1) : SameBut(frames'[i], frames[i])
    BY <1>5 DEF SameBut
  <1>7. TypeOK'
    <2>1. call_depth' \in Nat /\ env' \in Env /\ records' \in SUBSET Address
      BY <1>1, <1>2, DepthPositive
    <2>2. victim_runs' \in Nat
      BY <1>1, <1>2
    <2>3. QED
      BY <1>1, <1>4, <1>5, <2>1, <2>2 DEF IInv, TypeOK
  <1>8. Shape'
    <2>1. /\ is_diff_dapp' = (is_diff_dapp /\ Top.kind \notin {"cross", "victim"})
          /\ no_need_for_test' = (no_need_for_test \/ Top.kind \in {"cross", "victim"})
          /\ is_execute_victim_function' =
               (is_execute_victim_function /\ Top.kind # "victim")
      BY <1>1 DEF IInv, TypeOK
    <2>2. QED
      BY <1>1, <1>2, <1>5, <1>6, <2>1, PopKeepsShape
  <1>9. RunTags'
    BY <1>1, <1>3, <1>4, RunFacts DEF RunTags, StateIsolated, LedgerIsolated
  <1>10. LeakOutsideTest'
    <2>1. \A i \in 1..(Depth - 1) : frames'[i].status = frames[i].status
      BY <1>5
    <2>2. QED
      BY <1>1, <1>2, <1>5, <1>6, <2>1, PopKeepsMarks
  <1>11. QED
    BY <1>1, <1>2, <1>5, <1>7, <1>8, <1>9, <1>10, PartsMakeInvariant

\* So does the end of a victim run, which recovers the target's world.
LEMMA EndVictimStep ==
  ASSUME IInv, NEW r \in Result, EndVictim(r)
  PROVE  IInv'
  <1> DEFINE old == snapshots[Len(snapshots)]
             s   == IF r = "leak" THEN "leak" ELSE "ok"
  <1>1. /\ Top.kind = "victim" /\ Ends(r)
        /\ snapshots' = SubSeq(snapshots, 1, Len(snapshots) - 1)
        /\ frames' = Resume(s)
        /\ address_to_balance' = old.address_to_balance
        /\ evmstate' = old.evmstate
        /\ call_depth' = old.call_depth - 1
        /\ env' = Top.saved.env /\ records' = Top.saved.records
        /\ is_execute_victim_function' = FALSE
        /\ no_need_for_test' = TRUE /\ is_diff_dapp' = FALSE
        /\ UNCHANGED <<phase, bug_hit, call_count, code, entry_function, report,
                       victim_runs>>
    BY DEF EndVictim, RecoverWorld, CloseTest
  <1>2. /\ phase = "running" /\ Depth > 1 /\ Depth \in Nat /\ Top \in Frame
        /\ frames \in Seq(Frame)
        /\ r = "leak" => Top.status = "leak"
    BY <1>1, ReturnFacts
  <1>3. is_execute_victim_function /\ Tested = {Depth} /\ is_diff_dapp
    BY <1>1, <1>2, TestedTop
  <1>4. Len(snapshots) = 1 /\ old = snapshots[1] /\ snapshots' = <<>> /\ old \in Snapshot
    <2>1. Len(snapshots) = 1 /\ snapshots \in Seq(Snapshot)
      BY <1>3 DEF IInv, ModesMatchStack, TypeOK
    <2>2. SubSeq(snapshots, 1, 0) = <<>>
      BY <2>1
    <2>3. snapshots' = <<>>
      BY <1>1, <2>1, <2>2
    <2>4. snapshots[1] \in Snapshot
      <3>1. 1 \in 1..Len(snapshots)
        BY <2>1
      <3>2. QED
        BY <2>1, <3>1, ElementOfSeq
    <2>5. QED
      BY <2>1, <2>3, <2>4
  <1>5. r # "leak" /\ s = "ok"
    BY <1>2, <1>3 DEF IInv, LeakOutsideTest, Top
  <1>6. s \in Result /\ frames' = Resume(s)
    BY <1>1, <1>5 DEF Result
  <1>7. /\ frames' \in Seq(Frame) /\ Depth' = Depth - 1
        /\ \A i \in 1..(Depth - 1) : SameBut(frames'[i], frames[i])
        /\ \A i \in 1..(Depth - 1) : frames'[i].status = frames[i].status
    BY <1>2, <1>5, <1>6, ResumeFrames DEF Depth
  <1>8. TypeOK'
    <2>1. snapshots' \in Seq(Snapshot)
      BY <1>4, EmptySeq
    <2>2. call_depth' \in Nat
      BY <1>1, <1>2, <1>4, DepthPositive
    <2>3. address_to_balance' \in Ledger /\ evmstate' \in SUBSET (Address \X Nat)
      BY <1>1, <1>4 DEF Snapshot
    <2>4. QED
      BY <1>1, <1>2, <1>7, <2>1, <2>2, <2>3, DepthPositive DEF IInv, TypeOK
  <1>9. Shape'
    <2>1. /\ is_diff_dapp' = (is_diff_dapp /\ Top.kind \notin {"cross", "victim"})
          /\ no_need_for_test' = (no_need_for_test \/ Top.kind \in {"cross", "victim"})
          /\ is_execute_victim_function' =
               (is_execute_victim_function /\ Top.kind # "victim")
      BY <1>1 DEF IInv, TypeOK
    <2>2. call_depth' = snapshots[1].call_depth - 1
      BY <1>1, <1>4
    <2>3. QED
      BY <1>1, <1>2, <1>4, <1>7, <2>1, <2>2, PopKeepsShape
  <1>10. RunTags'
    <2>1. /\ \A w \in evmstate' : w[2] = 0
          /\ ~VictimPaid => \A a \in Address : address_to_balance'[a] \subseteq {0}
      BY <1>1, <1>3, <1>4 DEF IInv, RunTags
    <2>2. Run' = 0
      BY <1>1 DEF Run
    <2>3. QED
      BY <1>1, <2>1, <2>2 DEF RunTags, StateIsolated, LedgerIsolated
  <1>11. LeakOutsideTest'
    BY <1>1, <1>2, <1>7, PopKeepsMarks
  <1>12. QED
    BY <1>1, <1>2, <1>7, <1>8, <1>9, <1>10, <1>11, PartsMakeInvariant

\* The victim's interpreter takes the place of the call under test.
LEMMA StartVictimStep ==
  ASSUME IInv, StartVictim
  PROVE  IInv'
  <1> DEFINE snap == [env |-> env, records |-> records, evmstate |-> evmstate,
                      address_to_balance |-> VictimTransfer,
                      call_depth |-> call_depth]
             victim == [kind |-> "victim", address |-> Victim,
                        caller |-> VictimSender, code_address |-> Victim,
                        input |-> VictimInput, paid |-> VictimPaid,
                        status |-> "run", invoke |-> Top.invoke,
                        saved |-> Top.saved, depth |-> 0]
  <1>1. /\ Top.kind = "cross" /\ Ends("ok") /\ NeedsTest("ok")
        /\ is_execute_victim_function' = TRUE
        /\ victim_runs' = victim_runs + 1
        /\ snapshots' = Append(snapshots, snap)
        /\ frames' = Append(Below, victim)
        /\ address_to_balance' = NoBalance /\ evmstate' = {}
        /\ call_depth' = 0 /\ records' = {}
        /\ env' = [caller |-> VictimSender, to |-> Victim, block |-> "victim"]
        /\ UNCHANGED <<phase, is_diff_dapp, no_need_for_test, bug_hit, call_count,
                       code, entry_function, report>>
    BY DEF StartVictim, EmptyWorld
  <1>2. /\ phase = "running" /\ Depth > 1 /\ Depth \in Nat /\ Top \in Frame
        /\ frames \in Seq(Frame) /\ victim_runs \in Nat
    BY <1>1, ReturnFacts, RunFacts DEF Result
  <1>3. /\ ~is_execute_victim_function /\ Tested = {Depth} /\ is_diff_dapp
        /\ Run = 0 /\ ~no_need_for_test /\ Top.invoke.from_args /\ ~Top.invoke.stipend
    BY <1>1, <1>2, TestedTop DEF Run, NeedsTest
  <1>4. snap \in Snapshot
    <2>1. /\ env \in Env /\ records \in SUBSET Address
          /\ evmstate \in SUBSET (Address \X Nat) /\ call_depth \in Nat
      BY DEF IInv, TypeOK
    <2>2. VictimTransfer \in Ledger
      BY <1>3, VictimTransferKeeps
    <2>3. QED
      BY <2>1, <2>2 DEF Snapshot
  <1>5. victim \in Frame
    BY <1>2, TxTypes DEF Frame, Kind, Status
  <1>6. /\ victim.kind = "victim" /\ victim.status = "run" /\ victim.depth = 0
        /\ victim.address = Victim /\ victim.invoke = Top.invoke
        /\ victim.saved = Top.saved
        /\ snap.evmstate = evmstate /\ snap.call_depth = call_depth
        /\ snap.address_to_balance = VictimTransfer
    OBVIOUS
  <1> HIDE DEF victim, snap
  <1>7. /\ snapshots = <<>> /\ snapshots' \in Seq(Snapshot)
        /\ Len(snapshots') = 1 /\ snapshots'[1] = snap
    <2>1. snapshots \in Seq(Snapshot) /\ Len(snapshots) = 0
      BY <1>3 DEF IInv, ModesMatchStack, TypeOK
    <2>2. snapshots = <<>>
      BY <2>1, EmptySeq
    <2>3. snapshots' = <<snap>>
      BY <1>1, <2>2
    <2>4. QED
      BY <1>4, <2>2, <2>3
  <1>8. /\ Below \in Seq(Frame) /\ Len(Below) = Depth - 1
        /\ \A i \in 1..(Depth - 1) : Below[i] = frames[i]
    BY <1>2, BelowFrames
  <1>9. /\ frames' \in Seq(Frame) /\ Depth' = Depth /\ frames'[Depth] = victim
        /\ \A i \in 1..(Depth - 1) : frames'[i] = frames[i]
    <2>1. /\ frames' \in Seq(Frame) /\ Len(frames') = (Depth - 1) + 1
          /\ frames'[(Depth - 1) + 1] = victim
          /\ \A i \in 1..(Depth - 1) : frames'[i] = Below[i]
      BY <1>1, <1>5, <1>8, PushFrame
    <2>2. (Depth - 1) + 1 = Depth
      BY <1>2
    <2>3. QED
      BY <1>8, <2>1, <2>2 DEF Depth
  <1>10. /\ \A i : i \in 1..Depth <=> i \in 1..(Depth - 1) \/ i = Depth
         /\ Depth \notin 1..(Depth - 1)
    BY <1>2
  <1>11. \A i \in 1..(Depth - 1) : i \notin Tested /\ frames[i].kind \notin {"cross", "victim"}
    BY <1>3, <1>10 DEF Tested, IsTested
  <1>12. Tested' = {Depth}
    BY <1>6, <1>9, <1>10, <1>11 DEF Tested, IsTested
  <1>13. TypeOK'
    <2>1. env' \in Env /\ victim_runs' \in Nat
      BY <1>1, <1>2, TxTypes DEF Env, Block
    <2>2. QED
      BY <1>1, <1>7, <1>9, <2>1, EmptyLedger DEF IInv, TypeOK
  <1>14. Shape'
    <2>1. (\A i \in 1..Depth : frames[i].kind = "tx" <=> i = 1)'
      BY <1>2, <1>6, <1>9, <1>10 DEF IInv, StackShape
    <2>2. ModesMatchStack'
      BY <1>1, <1>3, <1>6, <1>7, <1>9, <1>10, <1>12 DEF ModesMatchStack
    <2>3. DepthChain'
      <3>1. call_depth = frames[Depth - 1].depth + 1
        BY <1>1, <1>2, <1>10 DEF IInv, DepthChain, Top
      <3>2. \A i \in 1..(Depth - 1) : i = 1 \/ i - 1 \in 1..(Depth - 1)
        BY <1>2
      <3>3. Depth - 1 \in 1..(Depth - 1)
        BY <1>2
      <3>4. ASSUME NEW i \in 1..(Depth - 1)
            PROVE  /\ frames'[i].kind \in {"plain", "cross"} =>
                        frames'[i].depth = frames'[i - 1].depth + 1
                   /\ frames'[i].kind = "create" => frames'[i].depth = frames'[i - 1].depth
                   /\ frames'[i].kind # "victim"
        BY <1>9, <1>10, <1>11, <3>2 DEF IInv, DepthChain, StackShape
      <3>5. snapshots'[1].call_depth = frames'[Depth - 1].depth + 1
        BY <1>6, <1>7, <1>9, <3>1, <3>3
      <3>6. call_depth' = Top'.depth
        BY <1>1, <1>6, <1>9 DEF Top
      <3>7. QED
        BY <1>6, <1>9, <1>10, <3>4, <3>5, <3>6 DEF DepthChain
    <2>4. EnvChain'
      <3>1. InVictim(frames', Depth) /\ InnermostCall(frames', Depth, Depth)
        BY <1>2, <1>6, <1>9 DEF InVictim, InnermostCall
      <3>2. EnvAt(frames', Depth, env')
        <4>1. /\ env'.caller = VictimSender /\ env'.to = Victim
              /\ env'.block = "victim" /\ Depth \in 1..Depth
              /\ frames'[Depth].address = Victim
          BY <1>1, <1>2, <1>6, <1>9
        <4>2. QED
          BY <3>1, <4>1 DEF EnvAt
      <3>3. \A i \in 1..(Depth - 1) : SameCall(frames'[i], frames[i])
        BY <1>9 DEF SameCall
      <3>4. ASSUME NEW i \in 2..Depth, frames'[i].kind # "create"
            PROVE  EnvAt(frames', i - 1, frames'[i].saved.env)
        <4>1. i - 1 \in Nat /\ \A j \in 1..(i - 1) : j \in 1..(Depth - 1)
          BY <1>2
        <4>2. frames'[i].saved = frames[i].saved
          BY <1>6, <1>9, <1>10 DEF Top
        <4>3. frames[i].kind # "create"
          <5>1. CASE i = Depth
            BY <1>1, <5>1 DEF Top
          <5>2. CASE i \in 1..(Depth - 1)
            BY <1>9, <3>4, <5>2
          <5>3. QED
            BY <1>2, <5>1, <5>2
        <4>4. EnvAt(frames, i - 1, frames[i].saved.env)
          BY <4>3 DEF IInv, EnvChain
        <4>5. QED
          BY <3>3, <4>1, <4>2, <4>4, EnvAtSame
      <3>5. QED
        BY <1>9, <3>2, <3>4 DEF EnvChain
    <2>5. VictimNeedsControl' /\ EntryIsTested'
      <3>1. Top.invoke.selector = entry_function
        BY <1>3 DEF IInv, EntryIsTested, Top
      <3>2. EntryIsTested'
        BY <1>1, <1>6, <1>9, <1>12, <3>1 DEF EntryIsTested
      <3>3. QED
        BY <1>1, <1>3, <1>6, <1>9, <1>12, <3>2 DEF VictimNeedsControl
    <2>6. QED
      BY <2>1, <2>2, <2>3, <2>4, <2>5 DEF Shape
  <1>15. RunTags'
    <2>1. \A w \in snapshots'[1].evmstate : w[2] = 0
      BY <1>3, <1>6, <1>7, RunFacts
    <2>2. ~VictimPaid => \A a \in Address : snapshots'[1].address_to_balance[a] \subseteq {0}
      BY <1>3, <1>6, <1>7, VictimTransferKeeps
    <2>3. StateIsolated' /\ LedgerIsolated'
      BY <1>1, EmptyLedger DEF StateIsolated, LedgerIsolated
    <2>4. victim_runs' > 0
      BY <1>1, <1>2
    <2>5. QED
      BY <2>1, <2>2, <2>3, <2>4 DEF RunTags
  <1>16. LeakOutsideTest'
    <2>1. \A i \in 1..(Depth - 1) : frames[i].status \notin {"leak", "hit"}
      <3>1. \A j \in Tested : frames[j].kind # "victim"
        BY <1>1, <1>3 DEF Top
      <3>2. QED
        BY <1>3, <1>10, <3>1 DEF IInv, LeakOutsideTest
    <2>2. \A i \in 1..Depth : frames'[i].status \notin {"leak", "hit"}
      BY <1>6, <1>9, <1>10, <2>1
    <2>3. victim_runs' > 0
      BY <1>1, <1>2
    <2>4. QED
      BY <1>1, <1>9, <2>2, <2>3 DEF IInv, LeakOutsideTest
  <1>17. QED
    BY <1>1, <1>2, <1>9, <1>13, <1>14, <1>15, <1>16, PartsMakeInvariant

-----------------------------------------------------------------------------
(* The theorems                                                             *)

\* A step that changes nothing keeps the invariant.
LEMMA StutterStep ==
  ASSUME IInv, UNCHANGED vars
  PROVE  IInv'
  <1>1. UNCHANGED <<phase, frames, snapshots, is_diff_dapp,
                    is_execute_victim_function, no_need_for_test, bug_hit,
                    call_depth, call_count, env, records, address_to_balance,
                    evmstate, code, entry_function, report, victim_runs>>
    BY DEF vars, modes, counts, world
  <1>2. Depth' = Depth /\ Tested' = Tested /\ Top' = Top /\ Run' = Run
    BY <1>1 DEF Depth, Tested, IsTested, Top, Run
  <1>3. TypeOK' /\ StackShape' /\ ModesMatchStack'
    BY <1>1, <1>2 DEF IInv, TypeOK, StackShape, ModesMatchStack
  <1>4. DepthChain' /\ EnvChain'
    BY <1>1, <1>2 DEF IInv, DepthChain, EnvChain
  <1>5. RunTags' /\ LeakOutsideTest' /\ VictimNeedsControl' /\ EntryIsTested'
    BY <1>1, <1>2 DEF IInv, RunTags, StateIsolated, LedgerIsolated,
                      LeakOutsideTest, VictimNeedsControl, EntryIsTested
  <1>6. QED
    BY <1>3, <1>4, <1>5 DEF IInv

\* Every step of the host preserves the invariant.
LEMMA NextInv ==
  ASSUME IInv, [Next]_vars
  PROVE  IInv'
  <1>1. CASE execute_from_pc
    BY <1>1, TransactionStep
  <1>2. CASE Opcode
    <2>1. CASE \E a \in TxInput : Observe(a)
      BY <2>1, ObserveStep
    <2>2. CASE \E a \in ReadBalance : Balance(a)
      BY <2>2, BalanceStep
    <2>3. CASE SStore
      BY <2>3, SStoreStep
    <2>4. CASE \E f \in Fresh : Create(f)
      BY <2>4, CreateStep
    <2>5. CASE \E scheme \in Scheme, to \in Address, selector \in Selector,
                  input \in CallInput, paid \in CallPaid, stipend \in CallStipend :
                 Call(scheme, to, selector, input, paid, stipend)
      BY <2>5, CallStep
    <2>6. QED
      BY <1>2, <2>1, <2>2, <2>3, <2>4, <2>5 DEF Opcode
  <1>3. ASSUME NEW r \in Result, Return(r)
        PROVE  IInv'
    BY <1>3, EndTransactionStep, ReturnPlainStep, ReturnCreateStep,
       ReturnCrossStep, EndVictimStep DEF Return
  <1>4. CASE StartVictim
    BY <1>4, StartVictimStep
  <1>5. CASE SkipVictim
    BY <1>5, SkipVictimStep
  <1>6. CASE UNCHANGED vars
    BY <1>6, StutterStep
  <1>7. QED
    BY <1>1, <1>2, <1>3, <1>4, <1>5, <1>6 DEF Next

\* IInv holds in every reachable state.
THEOREM Inductive == Spec => []IInv
  <1>1. Init => IInv
    BY InitInv
  <1>2. IInv /\ [Next]_vars => IInv'
    BY NextInv
  <1>3. QED
    BY <1>1, <1>2, PTL DEF Spec

\* Every variable of the host has its type; call_depth in particular never
\* goes below zero, where the u64 of the code would wrap.
THEOREM TypeCorrect == Spec => []TypeOK
  <1>1. IInv => TypeOK
    BY DEF IInv
  <1>2. QED
    BY <1>1, Inductive, PTL

\* The mode flags say what is on the stack: at most one call is under test and
\* no victim run starts inside another, however deep the calls nest.
THEOREM ModesAgree == Spec => []ModesMatchStack
  <1>1. IInv => ModesMatchStack
    BY DEF IInv
  <1>2. QED
    BY <1>1, Inductive, PTL

\* The environment opcodes see the run, the block and the call they are in.
THEOREM EnvironmentAgrees == Spec => []EnvMatchesRun
  <1>1. ASSUME IInv, phase = "running" PROVE EnvMatchesRun
    <2>1. Depth \in Nat /\ Depth > 0 /\ EnvAt(frames, Depth, env)
      BY <1>1, TopFacts DEF IInv, EnvChain
    <2>2. InVictim(frames, Depth) <=> is_execute_victim_function
      BY <1>1 DEF IInv, ModesMatchStack, InVictim
    <2>3. \E i \in 1..Depth : /\ env.to = frames[i].address
                              /\ frames[i].kind # "create"
                              /\ \A j \in (i + 1)..Depth : frames[j].kind = "create"
      BY <2>1 DEF EnvAt, InnermostCall
    <2>4. QED
      BY <2>1, <2>2, <2>3 DEF EnvAt, EnvMatchesRun
  <1>2. IInv => EnvMatchesRun
    BY <1>1 DEF EnvMatchesRun
  <1>3. QED
    BY <1>2, Inductive, PTL

\* No run of either transaction sees the storage another run wrote.
THEOREM StorageIsolation == Spec => []StateIsolated
  <1>1. IInv => StateIsolated
    BY DEF IInv, RunTags
  <1>2. QED
    BY <1>1, Inductive, PTL

\* Nor its balances, when the victim transaction pays no value.
THEOREM LedgerIsolation ==
  ASSUME ~VictimPaid
  PROVE  Spec => []LedgerIsolated
  <1>1. IInv => LedgerIsolated
    BY DEF IInv, RunTags
  <1>2. QED
    BY <1>1, Inductive, PTL

\* A report is saved only when a victim run has hit, and the write that raised
\* the leak was outside every call under test.
THEOREM LeakIsOutsideTest == Spec => []LeakOutsideTest
  <1>1. IInv => LeakOutsideTest
    BY DEF IInv
  <1>2. QED
    BY <1>1, Inductive, PTL

\* A victim run only interrupts a call whose target its caller controls.
THEOREM VictimIsControlled == Spec => []VictimNeedsControl
  <1>1. IInv => VictimNeedsControl
    BY DEF IInv
  <1>2. QED
    BY <1>1, Inductive, PTL

\* The entry function is that of the call under test.
THEOREM EntryUnderTest == Spec => []EntryIsTested
  <1>1. IInv => EntryIsTested
    BY DEF IInv
  <1>2. QED
    BY <1>1, Inductive, PTL

\* Once a victim run has hit, the entry function the report will name is
\* fixed: a later call is never tested.
THEOREM EntryFixed == Spec => EntryFixedByHit
  <1>1. ASSUME [Next]_vars, bug_hit PROVE entry_function' = entry_function
    <2>1. ASSUME NEW scheme \in Scheme, NEW to \in Address, NEW selector \in Selector,
                 NEW input \in CallInput, NEW paid \in CallPaid,
                 NEW stipend \in CallStipend,
                 Call(scheme, to, selector, input, paid, stipend)
          PROVE  entry_function' = entry_function
      BY <1>1, <2>1 DEF Call, Untested, EntryAfter
    <2>2. CASE Opcode
      BY <2>1, <2>2 DEF Opcode, Observe, Balance, SStore, Create
    <2>3. ASSUME NEW r \in Result, Return(r)
          PROVE  entry_function' = entry_function
      BY <2>3 DEF Return, EndTransaction, ReturnPlain, ReturnCreate,
                  ReturnCross, EndVictim
    <2>4. QED
      BY <1>1, <2>2, <2>3 DEF Next, execute_from_pc, StartVictim, SkipVictim, vars
  <1>2. [Next]_vars => [bug_hit => entry_function' = entry_function]_entry_function
    BY <1>1
  <1>3. QED
    BY <1>2, PTL DEF Spec, EntryFixedByHit

\* What the target transaction wrote outlives every victim run: it is in the
\* state, or in the snapshot that the end of the victim run puts back.
THEOREM WritesKept == Spec => TargetWritesKept
  <1>1. ASSUME IInv, [Next]_vars PROVE TargetWrites \subseteq TargetWrites'
    <2>1. CASE evmstate \subseteq evmstate' /\ snapshots' = snapshots
      BY <2>1 DEF TargetWrites
    <2>2. CASE execute_from_pc
      <3>1. evmstate = {} /\ snapshots = <<>>
        BY <1>1, <2>2 DEF IInv, StackShape, execute_from_pc
      <3>2. TargetWrites = {}
        BY <3>1, EmptySeq DEF TargetWrites
      <3>3. QED
        BY <3>2
    <2>3. CASE StartVictim
      <3>1. PICK snap : snapshots' = Append(snapshots, snap) /\ snap.evmstate = evmstate
        BY <2>3 DEF StartVictim
      <3>2. snapshots = <<>>
        <4>1. Top.kind = "cross" /\ phase = "running"
          BY <2>3 DEF StartVictim, Ends
        <4>2. snapshots \in Seq(Snapshot) /\ Len(snapshots) = 0
          BY <1>1, <4>1, TestedTop DEF IInv, TypeOK, ModesMatchStack
        <4>3. QED
          BY <4>2, EmptySeq
      <3>3. snapshots' = <<snap>>
        BY <3>1, <3>2
      <3>4. snapshots'[1] = snap /\ 1 \in 1..Len(snapshots')
        BY <3>3
      <3>5. TargetWrites \subseteq snapshots'[1].evmstate
        BY <3>1, <3>2, <3>4, EmptySeq DEF TargetWrites
      <3>6. QED
        BY <3>4, <3>5 DEF TargetWrites
    <2>4. ASSUME NEW r \in Result, EndVictim(r)
          PROVE  TargetWrites \subseteq TargetWrites'
      <3>1. Top.kind = "victim" /\ phase = "running"
        BY <2>4 DEF EndVictim, Ends
      <3>2. is_execute_victim_function /\ Len(snapshots) = 1
        BY <1>1, <3>1, TestedTop DEF IInv, ModesMatchStack
      <3>3. \A w \in evmstate : w[2] # 0
        BY <1>1, <3>2, RunFacts DEF Run
      <3>4. \A i \in 1..Len(snapshots) : i = 1
        BY <3>2
      <3>5. evmstate' = snapshots[1].evmstate
        BY <2>4, <3>2 DEF EndVictim, RecoverWorld
      <3>6. QED
        BY <3>3, <3>4, <3>5 DEF TargetWrites
    <2>5. CASE Opcode
      <3>1. ASSUME NEW scheme \in Scheme, NEW to \in Address, NEW selector \in Selector,
                   NEW input \in CallInput, NEW paid \in CallPaid,
                   NEW stipend \in CallStipend,
                   Call(scheme, to, selector, input, paid, stipend)
            PROVE  evmstate' = evmstate /\ snapshots' = snapshots
        BY <3>1 DEF Call
      <3>2. evmstate \subseteq evmstate' /\ snapshots' = snapshots
        BY <2>5, <3>1 DEF Opcode, Observe, Balance, SStore, Create, world
      <3>3. QED
        BY <2>1, <3>2
    <2>6. ASSUME NEW r \in Result, Return(r)
          PROVE  TargetWrites \subseteq TargetWrites'
      <3>1. EndVictim(r) \/ (evmstate \subseteq evmstate' /\ snapshots' = snapshots)
        BY <2>6 DEF Return, EndTransaction, ReturnPlain, ReturnCreate,
                    ReturnCross, world
      <3>2. QED
        BY <2>1, <2>4, <3>1
    <2>7. CASE SkipVictim \/ UNCHANGED vars
      BY <2>1, <2>7 DEF SkipVictim, vars, world
    <2>8. QED
      BY <1>1, <2>2, <2>3, <2>5, <2>6, <2>7 DEF Next
  <1>2. IInv /\ [Next]_vars =>
          [TargetWrites \subseteq TargetWrites']_<<evmstate, snapshots>>
    BY <1>1
  <1>3. QED
    BY <1>2, Inductive, PTL DEF Spec, TargetWritesKept

-----------------------------------------------------------------------------
(***************************************************************************)
(* call_depth counts the calls open in the run that is executing.  An      *)
(* interpreter starts with the number of calls that were open then, so the *)
(* counts of those below it survive whatever comes and goes above.         *)
(***************************************************************************)

\* The calls among the first n interpreters of stack fs that are open in the
\* run of the n-th.
OpenCalls(fs, n) ==
  {i \in 1..n : /\ fs[i].kind \in {"plain", "cross"}
                /\ \A j \in i..n : fs[j].kind # "victim"}

Counted(fs, n) == \A i \in 1..n : fs[i].depth = Cardinality(OpenCalls(fs, i))

DepthCounts ==
  /\ Counted(frames, Depth)
  /\ phase # "running" => call_depth = 0

DInv == IInv /\ DepthCounts

-----------------------------------------------------------------------------
(* Counting                                                                 *)

\* There are only finitely many, none at the bottom.
LEMMA OpenFinite ==
  ASSUME NEW fs, NEW n \in Nat
  PROVE  IsFiniteSet(OpenCalls(fs, n)) /\ OpenCalls(fs, 0) = {}
  <1>1. IsFiniteSet(1..n)
    BY FS_Interval
  <1>2. OpenCalls(fs, n) \subseteq 1..n /\ OpenCalls(fs, 0) \subseteq 1..0
    BY DEF OpenCalls
  <1>3. QED
    BY <1>1, <1>2, FS_Subset

\* The count depends on the kinds of the interpreters only.
LEMMA CountedSame ==
  ASSUME NEW fs, NEW gs, NEW n \in Nat, Counted(fs, n),
         \A j \in 1..n : gs[j].kind = fs[j].kind /\ gs[j].depth = fs[j].depth
  PROVE  Counted(gs, n)
  <1> SUFFICES ASSUME NEW i \in 1..n
               PROVE  gs[i].depth = Cardinality(OpenCalls(gs, i))
    BY DEF Counted
  <1>1. \A j \in 1..i : j \in 1..n /\ \A k \in j..i : k \in 1..n
    OBVIOUS
  <1>2. OpenCalls(gs, i) = OpenCalls(fs, i)
    BY <1>1 DEF OpenCalls
  <1>3. QED
    BY <1>2 DEF Counted

\* One more interpreter: a call is counted, a victim run starts over.
LEMMA CountedPush ==
  ASSUME NEW fs, NEW n \in Nat, Counted(fs, n),
         fs[n + 1].kind \in Kind,
         fs[n + 1].kind \in {"tx", "victim"} => fs[n + 1].depth = 0,
         fs[n + 1].kind = "tx" <=> n = 0,
         fs[n + 1].kind \in {"plain", "cross"} => fs[n + 1].depth = fs[n].depth + 1,
         fs[n + 1].kind = "create" => fs[n + 1].depth = fs[n].depth
  PROVE  Counted(fs, n + 1)
  <1> DEFINE old == OpenCalls(fs, n)
             new == OpenCalls(fs, n + 1)
  <1>1. IsFiniteSet(old) /\ n + 1 \notin old /\ Cardinality({}) = 0
    BY OpenFinite, FS_EmptySet DEF OpenCalls
  <1>2. n # 0 => fs[n].depth = Cardinality(old)
    BY DEF Counted
  <1>3. \A i \in 1..(n + 1) : i \in 1..n \/ i = n + 1
    OBVIOUS
  <1>4. \A i \in 1..n : \A j \in i..(n + 1) : j \in i..n \/ j = n + 1
    OBVIOUS
  <1>5. \A i \in 1..n : i..n \subseteq i..(n + 1) /\ n + 1 \in i..(n + 1)
    OBVIOUS
  <1>6. fs[n + 1].depth = Cardinality(new)
    <2>1. CASE fs[n + 1].kind = "victim"
      <3>1. \A i \in 1..(n + 1) : n + 1 \in i..(n + 1)
        OBVIOUS
      <3>2. new = {}
        BY <2>1, <3>1 DEF OpenCalls
      <3>3. QED
        BY <1>1, <2>1, <3>2
    <2>2. CASE fs[n + 1].kind = "tx"
      <3>1. n = 0 /\ \A i \in 1..(n + 1) : i = n + 1
        BY <2>2
      <3>2. new = {}
        BY <2>2, <3>1 DEF OpenCalls
      <3>3. QED
        BY <1>1, <2>2, <3>2
    <2>3. CASE fs[n + 1].kind = "create"
      <3>1. new = old
        BY <1>3, <1>4, <1>5, <2>3 DEF OpenCalls
      <3>2. QED
        BY <1>2, <2>3, <3>1
    <2>4. CASE fs[n + 1].kind \in {"plain", "cross"}
      <3>1. (n + 1)..(n + 1) = {n + 1}
        OBVIOUS
      <3>2. n + 1 \in new
        BY <2>4, <3>1 DEF OpenCalls
      <3>3. new = old \union {n + 1}
        BY <1>3, <1>4, <1>5, <2>4, <3>2 DEF OpenCalls
      <3>4. Cardinality(new) = Cardinality(old) + 1
        BY <1>1, <3>3, FS_AddElement
      <3>5. QED
        BY <1>2, <2>4, <3>4
    <2>5. QED
      BY <2>1, <2>2, <2>3, <2>4 DEF Kind
  <1>7. QED
    BY <1>3, <1>6 DEF Counted

-----------------------------------------------------------------------------
(* Steps                                                                    *)

\* gs keeps the first n interpreters of fs, up to what is marked, and has at
\* most one of its own, a new run starting at depth 0.
OneAbove(fs, gs, n) ==
  /\ Len(gs) \in {n, n + 1}
  /\ \A i \in 1..n : gs[i].kind = fs[i].kind /\ gs[i].depth = fs[i].depth
  /\ Len(gs) = n + 1 /\ gs[n + 1].kind \in {"tx", "victim"} => gs[n + 1].depth = 0

StackStep == \E n \in 0..Depth : OneAbove(frames, frames', n)

\* Opcodes are executed by the innermost interpreter of a running process.
LEMMA OpcodeExecutes ==
  ASSUME Opcode
  PROVE  Executing /\ phase' = phase
  <1>1. CASE \E a \in TxInput : Observe(a)
    BY <1>1 DEF Observe
  <1>2. CASE \E a \in ReadBalance : Balance(a)
    BY <1>2 DEF Balance
  <1>3. CASE SStore
    BY <1>3 DEF SStore
  <1>4. CASE \E f \in Fresh : Create(f)
    BY <1>4 DEF Create
  <1>5. ASSUME NEW scheme \in Scheme, NEW to \in Address, NEW selector \in Selector,
               NEW input \in CallInput, NEW paid \in CallPaid,
               NEW stipend \in CallStipend,
               Call(scheme, to, selector, input, paid, stipend)
        PROVE  Executing /\ phase' = phase
    BY <1>5 DEF Call
  <1>6. QED
    BY <1>1, <1>2, <1>3, <1>4, <1>5 DEF Opcode

\* An opcode marks the innermost interpreter at most, or starts another.
LEMMA OpcodeStack ==
  ASSUME IInv, Opcode
  PROVE  StackStep
  <1>1. /\ phase = "running" /\ Depth \in Nat /\ Depth > 0 /\ Depth \in 0..Depth
        /\ frames \in Seq(Frame) /\ Len(frames) = Depth
    <2>1. Executing
      BY OpcodeExecutes
    <2>2. QED
      BY <2>1, TopFacts DEF IInv, TypeOK, Depth, Executing
  <1>2. CASE UNCHANGED frames
    BY <1>1, <1>2 DEF StackStep, OneAbove
  <1>3. ASSUME NEW s \in Status, frames' = [frames EXCEPT ![Depth].status = s]
        PROVE  StackStep
    BY <1>1, <1>3, MarkTop DEF StackStep, OneAbove, SameBut
  <1>4. CASE SStore
    BY <1>2, <1>3, <1>4 DEF SStore, Status
  <1>5. ASSUME NEW f \in Fresh, Create(f)
        PROVE  StackStep
    <2>1. PICK g : frames' = Append(frames, g) /\ g.kind = "create"
      BY <1>5 DEF Create
    <2>2. /\ Len(frames') = Depth + 1 /\ frames'[Depth + 1] = g
          /\ \A i \in 1..Depth : frames'[i] = frames[i]
      BY <1>1, <2>1
    <2>3. QED
      BY <1>1, <2>1, <2>2 DEF StackStep, OneAbove
  <1>6. ASSUME NEW scheme \in Scheme, NEW to \in Address, NEW selector \in Selector,
               NEW input \in CallInput, NEW paid \in CallPaid,
               NEW stipend \in CallStipend,
               Call(scheme, to, selector, input, paid, stipend)
        PROVE  StackStep
    <2> DEFINE
        address == IF scheme \in {"Call", "StaticCall"} THEN to ELSE Top.address
        caller  == IF scheme = "DelegateCall" THEN Top.caller ELSE Top.address
        value   == CASE scheme = "StaticCall"   -> FALSE
                     [] scheme = "DelegateCall" -> Top.paid
                     [] OTHER                   -> paid
        to_address == IF scheme = "DelegateCall" THEN to ELSE address
        from_args ==
          \/ /\ call_depth > 0
             /\ is_input_contain_address(Top.input, to_address, Top.code_address)
          \/ to_address \in {Top.caller, env.caller}
        hit   == /\ is_execute_victim_function
                 /\ to_address = Target
                 /\ selector = target_dependency
        cross == ~Untested(is_from_same_dapp(caller, address, to, scheme), hit)
        F == IF hit THEN [frames EXCEPT ![Depth].status = "hit"] ELSE frames
        g == [kind |-> IF cross THEN "cross" ELSE "plain",
              address |-> address, caller |-> caller, code_address |-> to,
              input |-> input, paid |-> value, status |-> "run",
              invoke |-> IF cross THEN [selector |-> selector,
                                        from_args |-> from_args,
                                        stipend |-> stipend]
                                  ELSE NoInvoke,
              saved |-> Here, depth |-> call_depth + 1]
    <2>1. /\ frames' = F \/ frames' = Append(F, g)
          /\ g.kind \in {"cross", "plain"}
      <3>1. frames' = IF cross \/ to \in code THEN Append(F, g) ELSE F
        BY <1>6 DEF Call
      <3>2. g.kind \in {"cross", "plain"}
        OBVIOUS
      <3> HIDE DEF F, g, cross
      <3>3. QED
        BY <3>1, <3>2
    <2>2. /\ F \in Seq(Frame) /\ Len(F) = Depth
          /\ \A i \in 1..Depth : F[i].kind = frames[i].kind /\ F[i].depth = frames[i].depth
      <3>1. CASE hit
        <4> HIDE DEF hit
        <4>1. QED
          BY <1>1, <3>1, MarkTop DEF Status, SameBut
      <3>2. CASE ~hit
        <4> HIDE DEF hit
        <4>1. QED
          BY <1>1, <3>2
      <3>3. QED
        BY <3>1, <3>2
    <2> HIDE DEF F, g
    <2>3. CASE frames' = F
      <3>1. OneAbove(frames, frames', Depth)
        BY <1>1, <2>2, <2>3 DEF OneAbove
      <3>2. QED
        BY <1>1, <3>1 DEF StackStep
    <2>4. CASE frames' = Append(F, g)
      <3>1. /\ Len(frames') = Depth + 1 /\ frames'[Depth + 1] = g
            /\ \A i \in 1..Depth : frames'[i] = F[i]
        BY <1>1, <2>2, <2>4
      <3>2. QED
        BY <1>1, <2>1, <2>2, <3>1 DEF StackStep, OneAbove
    <2>5. QED
      BY <2>1, <2>3, <2>4
  <1>7. QED
    BY <1>2, <1>4, <1>5, <1>6 DEF Opcode, Observe, Balance

\* A return leaves what is below.
LEMMA ReturnStack ==
  ASSUME IInv, NEW r \in Result, Return(r)
  PROVE  StackStep
  <1>1. Ends(r) /\ phase = "running"
    BY DEF Return, EndTransaction, ReturnPlain, ReturnCreate, ReturnCross, EndVictim,
           Ends
  <1>2. /\ Depth \in Nat /\ Depth > 0 /\ Depth - 1 \in 0..Depth /\ 0 \in 0..Depth
        /\ frames \in Seq(Frame)
    BY <1>1, TopFacts DEF IInv, TypeOK
  <1>3. CASE EndTransaction(r)
    BY <1>2, <1>3, EmptySeq DEF EndTransaction, StackStep, OneAbove
  <1>4. CASE ReturnCreate(r)
    <2>1. /\ Len(frames') = Depth - 1
          /\ \A i \in 1..(Depth - 1) : frames'[i] = frames[i]
      BY <1>2, <1>4, BelowFrames DEF ReturnCreate
    <2>2. OneAbove(frames, frames', Depth - 1)
      BY <1>2, <2>1 DEF OneAbove
    <2>3. QED
      BY <1>2, <2>2 DEF StackStep
  <1>5. ASSUME NEW s \in Result, frames' = Resume(s), Top.kind # "tx"
        PROVE  StackStep
    <2>1. Depth > 1
      BY <1>1, <1>5, NotTxHasCaller
    <2>2. /\ Len(frames') = Depth - 1
          /\ \A i \in 1..(Depth - 1) : SameBut(frames'[i], frames[i])
      BY <1>2, <1>5, <2>1, ResumeFrames
    <2>3. QED
      BY <1>2, <2>2 DEF StackStep, OneAbove, SameBut
  <1>6. CASE ReturnPlain(r) \/ ReturnCross(r)
    BY <1>5, <1>6 DEF ReturnPlain, ReturnCross
  <1>7. CASE EndVictim(r)
    BY <1>5, <1>7 DEF EndVictim, Result
  <1>8. QED
    BY <1>3, <1>4, <1>6, <1>7 DEF Return

\* So do the steps that surround a test; a victim run starts over.
LEMMA TestStack ==
  ASSUME IInv, StartVictim \/ SkipVictim
  PROVE  StackStep
  <1> DEFINE g == [kind |-> "victim", address |-> Victim, caller |-> VictimSender,
                  code_address |-> Victim, input |-> VictimInput, paid |-> VictimPaid,
                  status |-> "run", invoke |-> Top.invoke, saved |-> Top.saved,
                  depth |-> 0]
  <1>1. Ends("ok") /\ phase = "running" /\ (frames' = Below \/ frames' = Append(Below, g))
    BY DEF StartVictim, SkipVictim, Ends
  <1>0. g.kind = "victim" /\ g.depth = 0
    OBVIOUS
  <1> HIDE DEF g
  <1>2. /\ Depth \in Nat /\ Depth > 0 /\ Depth - 1 \in 0..Depth
        /\ frames \in Seq(Frame)
    BY <1>1, TopFacts DEF IInv, TypeOK
  <1>3. /\ Below \in Seq(Frame) /\ Len(Below) = Depth - 1
        /\ \A i \in 1..(Depth - 1) : Below[i] = frames[i]
    BY <1>2, BelowFrames
  <1>4. CASE frames' = Below
    BY <1>2, <1>3, <1>4 DEF StackStep, OneAbove
  <1>5. CASE frames' # Below
    <2>1. frames' = Append(Below, g)
      BY <1>1, <1>5
    <2>2. /\ Len(frames') = Depth - 1 + 1 /\ frames'[Depth - 1 + 1] = g
          /\ \A i \in 1..(Depth - 1) : frames'[i] = Below[i]
      BY <1>2, <1>3, <2>1
    <2>3. QED
      BY <1>0, <1>2, <1>3, <2>2 DEF StackStep, OneAbove
  <1>6. QED
    BY <1>4, <1>5

\* The target transaction starts at depth 0.
LEMMA FirstStack ==
  ASSUME DInv, execute_from_pc
  PROVE  StackStep
  <1>1. PICK g : frames' = <<g>> /\ g.depth = call_depth /\ call_depth = 0
    BY DEF execute_from_pc, DInv, DepthCounts
  <1>2. Depth \in Nat
    BY DEF DInv, IInv, TypeOK, Depth
  <1>3. Len(frames') = 1 /\ frames'[1] = g /\ 0 \in 0..Depth
    BY <1>1, <1>2
  <1>4. QED
    BY <1>1, <1>3 DEF StackStep, OneAbove

\* So does every step.
LEMMA StackSteps ==
  ASSUME DInv, [Next]_vars
  PROVE  StackStep
  <1>1. IInv
    BY DEF DInv
  <1>2. CASE UNCHANGED vars
    <2>1. frames' = frames /\ Len(frames) = Depth /\ Depth \in Nat
      BY <1>1, <1>2 DEF vars, IInv, TypeOK, Depth
    <2>2. QED
      BY <2>1 DEF StackStep, OneAbove
  <1>3. QED
    BY <1>1, <1>2, OpcodeStack, ReturnStack, TestStack, FirstStack DEF Next

\* Outside an execution no call is open.
LEMMA ClearAtEnd ==
  ASSUME DInv, [Next]_vars
  PROVE  phase' # "running" => call_depth' = 0
  <1>1. IInv /\ IInv'
    BY NextInv DEF DInv
  <1>2. CASE \E r \in Result : EndTransaction(r)
    <2>1. Top.kind = "tx" /\ phase = "running" /\ call_depth' = call_depth
      BY <1>2 DEF EndTransaction, Ends, counts
    <2>2. Depth \in Nat /\ Depth = 1
      BY <1>1, <2>1, TopFacts DEF IInv, StackShape, Top
    <2>3. call_depth = Cardinality(OpenCalls(frames, 1)) /\ frames[1].kind = "tx"
      BY <1>1, <2>1, <2>2 DEF IInv, DepthChain, DInv, DepthCounts, Counted, Top
    <2>4. OpenCalls(frames, 1) = {}
      <3>1. \A i \in 1..1 : i = 1
        OBVIOUS
      <3>2. QED
        BY <2>3, <3>1 DEF OpenCalls
    <2>5. QED
      BY <2>1, <2>3, <2>4, FS_EmptySet
  <1>3. CASE UNCHANGED vars
    BY <1>3 DEF vars, counts, DInv, DepthCounts
  <1>4. CASE execute_from_pc
    BY <1>4 DEF execute_from_pc
  <1>5. CASE Opcode
    <2>1. Executing /\ phase' = phase
      BY <1>5, OpcodeExecutes
    <2>2. QED
      BY <2>1 DEF Executing
  <1>6. ASSUME NEW r \in Result, Return(r), ~EndTransaction(r)
        PROVE  phase' = "running"
    <2>1. Ends(r) /\ phase' = phase
      BY <1>6 DEF Return, ReturnPlain, ReturnCreate, ReturnCross, EndVictim
    <2>2. QED
      BY <2>1 DEF Ends
  <1>7. CASE StartVictim \/ SkipVictim
    <2>1. Ends("ok") /\ phase' = phase
      BY <1>7 DEF StartVictim, SkipVictim
    <2>2. QED
      BY <2>1 DEF Ends
  <1>8. QED
    BY <1>2, <1>3, <1>4, <1>5, <1>6, <1>7 DEF Next

\* The counts are right before the start, ...
LEMMA CountsInit == Init => DInv
  <1> SUFFICES ASSUME Init PROVE DInv
    OBVIOUS
  <1>1. Depth = 0 /\ call_depth = 0
    BY EmptySeq DEF Init, Depth
  <1>2. QED
    BY <1>1, InitInv DEF DInv, DepthCounts, Counted

\* ... and every step keeps them.
LEMMA CountsNext == DInv /\ [Next]_vars => DInv'
  <1> SUFFICES ASSUME DInv, [Next]_vars PROVE DInv'
    OBVIOUS
  <1>1. IInv' /\ IInv
    BY NextInv DEF DInv
  <1>2. PICK n \in 0..Depth : OneAbove(frames, frames', n)
    BY StackSteps DEF StackStep
  <1>3. n \in Nat /\ Depth \in Nat /\ Depth' = Len(frames') /\ Depth' \in {n, n + 1}
    BY <1>1, <1>2 DEF IInv, TypeOK, Depth, OneAbove
  <1>4. Counted(frames', n)
    <2>1. Counted(frames, n)
      BY <1>2, <1>3 DEF DInv, DepthCounts, Counted
    <2>2. QED
      BY <1>2, <1>3, <2>1, CountedSame DEF OneAbove
  <1>5. CASE Depth' = n + 1
    <2>1. n + 1 \in 1..Depth' /\ frames'[n + 1] \in Frame
      <3>1. n + 1 \in 1..Depth' /\ frames' \in Seq(Frame)
        BY <1>1, <1>3, <1>5 DEF IInv, TypeOK
      <3>2. QED
        BY <1>3, <3>1, ElementOfSeq
    <2>2. /\ frames'[n + 1].kind \in Kind
          /\ frames'[n + 1].kind = "tx" <=> n + 1 = 1
          /\ frames'[n + 1].kind \in {"plain", "cross"} =>
               frames'[n + 1].depth = frames'[n + 1 - 1].depth + 1
          /\ frames'[n + 1].kind = "create" =>
               frames'[n + 1].depth = frames'[n + 1 - 1].depth
      BY <1>1, <2>1 DEF IInv, StackShape, DepthChain, Frame
    <2>3. n + 1 - 1 = n /\ (n + 1 = 1 <=> n = 0)
      BY <1>3
    <2>4. frames'[n + 1].kind \in {"tx", "victim"} => frames'[n + 1].depth = 0
      BY <1>2, <1>3, <1>5 DEF OneAbove
    <2>5. Counted(frames', n + 1)
      BY <1>3, <1>4, <2>2, <2>3, <2>4, CountedPush
    <2>6. QED
      BY <1>1, <1>5, <2>5, ClearAtEnd DEF DInv, DepthCounts
  <1>6. CASE Depth' = n
    BY <1>1, <1>4, <1>6, ClearAtEnd DEF DInv, DepthCounts
  <1>7. QED
    BY <1>3, <1>5, <1>6

-----------------------------------------------------------------------------
(* The theorem                                                              *)

\* However calls, init code and victim runs nest, call_depth is the number of
\* calls open in the run that is executing: the call_from_args test is off for
\* the transaction's own frame, in the victim run as in the target's.
THEOREM DepthCorrect == Spec => []DepthMatchesRun
  <1>1. Init => DInv
    BY CountsInit
  <1>2. DInv /\ [Next]_vars => DInv'
    BY CountsNext
  <1>3. DInv => DepthMatchesRun
    <2> SUFFICES ASSUME DInv PROVE DepthMatchesRun
      OBVIOUS
    <2>1. CASE phase = "running"
      <3>1. Depth \in 1..Depth /\ call_depth = frames[Depth].depth
        BY <2>1, TopFacts DEF DInv, IInv, DepthChain, Top
      <3>2. QED
        BY <3>1 DEF DInv, DepthCounts, Counted, OpenCalls, DepthMatchesRun
    <2>2. CASE phase # "running"
      <3>1. call_depth = 0 /\ Depth = 0
        BY <2>2 DEF DInv, DepthCounts, IInv, StackShape, TypeOK, Depth
      <3>2. OpenCalls(frames, Depth) = {}
        BY <3>1, OpenFinite
      <3>3. QED
        BY <3>1, <3>2, FS_EmptySet DEF DepthMatchesRun, OpenCalls
    <2>3. QED
      BY <2>1, <2>2
  <1>4. QED
    BY <1>1, <1>2, <1>3, PTL DEF Spec

-----------------------------------------------------------------------------
(***************************************************************************)
(* The host implements Detector: every step of VerifyHost is, under the    *)
(* mapping Promise, a step of the abstract specification or a stutter.     *)
(***************************************************************************)

\* Some interpreter is stopped by a leak.
Leaking == Marked(frames, "leak")

\* A leak stops the innermost interpreter only: those below it wait.
LeakOnTop == \A i \in 1..(Depth - 1) : frames[i].status # "leak"

\* After a hit there is an entry function, that of the call that was tested.
HitHasEntry == bug_hit => entry_function # NoSelector

RInv == IInv /\ LeakOnTop /\ HitHasEntry

-----------------------------------------------------------------------------
(* Where the leak is, before and after each shape of step                   *)

\* While the innermost interpreter is not stopped by a leak, none is.
LEMMA NoLeakBelow ==
  ASSUME RInv, phase = "running", Top.status # "leak"
  PROVE  ~Leaking /\ \A i \in 1..Depth : frames[i].status # "leak"
  <1>1. Depth \in Nat /\ Depth > 0 /\ DOMAIN frames = 1..Depth
    BY TopFacts DEF RInv, IInv, TypeOK, Depth
  <1>2. \A i \in 1..Depth : i = Depth \/ i \in 1..(Depth - 1)
    BY <1>1
  <1>3. QED
    BY <1>1, <1>2 DEF RInv, LeakOnTop, Leaking, Marked, Top

\* An innermost interpreter with a leak is one.
LEMMA TopLeaks ==
  ASSUME RInv, phase = "running", Top.status = "leak"
  PROVE  Leaking
  BY TopFacts DEF RInv, IInv, TypeOK, Depth, Leaking, Marked, Top

\* A stack of running or hit interpreters, one more on top.
LEMMA PushNoLeak ==
  ASSUME NEW F \in Seq(Frame), \A i \in 1..Len(F) : F[i].status # "leak",
         NEW f \in Frame, f.status # "leak", frames' = Append(F, f)
  PROVE  LeakOnTop' /\ ~Leaking'
  <1>1. /\ Len(frames') = Len(F) + 1 /\ DOMAIN frames' = 1..(Len(F) + 1)
        /\ Len(F) \in Nat
        /\ \A i \in 1..Len(F) : frames'[i] = F[i]
        /\ frames'[Len(F) + 1] = f
    BY PushFrame
  <1>2. \A i \in 1..(Len(F) + 1) : frames'[i].status # "leak"
    BY <1>1
  <1>3. QED
    BY <1>1, <1>2 DEF LeakOnTop, Leaking, Marked, Depth

\* A stack without a leak.
LEMMA NoLeakAfter ==
  ASSUME frames' \in Seq(Frame), \A i \in 1..Len(frames') : frames'[i].status # "leak"
  PROVE  LeakOnTop' /\ ~Leaking'
  BY DEF LeakOnTop, Leaking, Marked, Depth

\* A return hands a leak to the caller, and only a leak.
LEMMA ResumeLeak ==
  ASSUME RInv, Depth > 1, NEW r \in Result, frames' = Resume(r)
  PROVE  /\ LeakOnTop'
         /\ r # "leak" => ~Leaking'
         /\ r = "leak" => Leaking'
  <1>1. frames \in Seq(Frame) /\ Depth \in Nat
    BY DEF RInv, IInv, TypeOK, Depth
  <1>2. /\ frames' \in Seq(Frame) /\ Len(frames') = Depth - 1
        /\ \A i \in 1..(Depth - 1) :
             \/ frames'[i].status = frames[i].status
             \/ i = Depth - 1 /\ r \in {"leak", "hit"} /\ frames'[i].status = r
    BY <1>1, ResumeFrames
  <1>3. \A i \in 1..(Depth - 1) : frames[i].status # "leak"
    BY DEF RInv, LeakOnTop
  <1>4. LeakOnTop'
    BY <1>1, <1>2, <1>3 DEF LeakOnTop, Depth
  <1>5. ASSUME r # "leak" PROVE ~Leaking'
    BY <1>1, <1>2, <1>3, <1>5 DEF Leaking, Marked, Depth
  <1>6. ASSUME r = "leak" PROVE Leaking'
    <2>1. /\ Below \in Seq(Frame) /\ Len(Below) = Depth - 1
      BY <1>1, BelowFrames
    <2>2. Depth - 1 \in DOMAIN Below /\ Below[Depth - 1] \in Frame
      BY <1>1, <2>1, ElementOfSeq
    <2>3. frames'[Depth - 1].status = "leak" /\ DOMAIN frames' = DOMAIN Below
      BY <1>6, <2>2 DEF Resume, Frame
    <2>4. QED
      BY <2>2, <2>3 DEF Leaking, Marked
  <1>7. QED
    BY <1>4, <1>5, <1>6

-----------------------------------------------------------------------------
(* One step, one lemma                                                      *)

\* The target transaction starts: nothing a report depends on changes.
LEMMA TransactionMaps ==
  ASSUME RInv, execute_from_pc
  PROVE  LeakOnTop' /\ ~Leaking' /\ ~Leaking /\ ~bug_hit /\ ~bug_hit'
  <1>1. /\ frames = <<>> /\ ~bug_hit
    <2>1. Depth = 0 /\ ~bug_hit
      BY DEF RInv, IInv, StackShape, execute_from_pc, Depth, TypeOK
    <2>2. QED
      BY <2>1, EmptySeq DEF RInv, IInv, TypeOK, Depth
  <1>2. ~Leaking
    BY <1>1 DEF Leaking, Marked
  <1>3. PICK f : frames' = <<f>> /\ f.status = "run"
    BY DEF execute_from_pc
  <1>4. Len(frames') = 1 /\ DOMAIN frames' = {1} /\ frames'[1] = f
    BY <1>3
  <1>5. LeakOnTop' /\ ~Leaking'
    BY <1>3, <1>4 DEF LeakOnTop, Leaking, Marked, Depth
  <1>6. QED
    BY <1>1, <1>2, <1>5 DEF execute_from_pc

\* An executing interpreter is not stopped, and none below it leaks.
LEMMA ExecutingNoLeak ==
  ASSUME RInv, Executing
  PROVE  /\ ~Leaking /\ \A i \in 1..Depth : frames[i].status # "leak"
         /\ frames \in Seq(Frame) /\ Depth > 0 /\ Depth \in Nat /\ Top \in Frame
         /\ phase = "running"
  BY NoLeakBelow, TopFacts DEF Executing, RInv, IInv, TypeOK

\* SSTORE leaks after a hit and outside a test, as Leak does.
LEMMA SStoreMaps ==
  ASSUME RInv, SStore
  PROVE  /\ LeakOnTop' /\ ~Leaking
         /\ Leaking' <=> LeaksHere
  <1>1. /\ ~Leaking /\ \A i \in 1..Depth : frames[i].status # "leak"
        /\ frames \in Seq(Frame) /\ Depth > 0 /\ Depth \in Nat
    BY ExecutingNoLeak DEF SStore
  <1>2. /\ frames' \in Seq(Frame) /\ Len(frames') = Depth
        /\ \A i \in 1..Depth :
             frames'[i].status = IF LeaksHere /\ i = Depth THEN "leak" ELSE frames[i].status
    <2>1. LeaksHere \in BOOLEAN /\ "leak" \in Status
      BY DEF LeaksHere, Status
    <2>2. QED
      BY <1>1, <2>1, MarkOrNot DEF SStore
  <1>3. LeakOnTop'
    BY <1>1, <1>2 DEF LeakOnTop, Depth
  <1>4. Leaking' <=> LeaksHere
    BY <1>1, <1>2 DEF Leaking, Marked
  <1>5. QED
    BY <1>1, <1>3, <1>4

\* CREATE and a call push an interpreter that runs; a call may mark its caller
\* with a hit, never with a leak.
LEMMA CreateMaps ==
  ASSUME RInv, NEW f \in Fresh, Create(f)
  PROVE  LeakOnTop' /\ ~Leaking /\ ~Leaking'
  <1>1. /\ ~Leaking /\ \A i \in 1..Depth : frames[i].status # "leak"
        /\ frames \in Seq(Frame)
    BY ExecutingNoLeak DEF Create
  <1>2. PICK g : frames' = Append(frames, g) /\ g.status = "run"
    BY DEF Create
  <1>3. IInv'
    BY CreateStep DEF RInv
  <1>4. /\ frames' \in Seq(Frame) /\ Len(frames') = Depth + 1 /\ Depth \in Nat
        /\ \A i \in 1..Depth : frames'[i] = frames[i]
        /\ frames'[Depth + 1] = g
    BY <1>1, <1>2, <1>3 DEF IInv, TypeOK, Depth
  <1>5. \A i \in 1..(Depth + 1) : frames'[i].status # "leak"
    BY <1>1, <1>2, <1>4
  <1>6. QED
    BY <1>1, <1>4, <1>5, NoLeakAfter

LEMMA CallMaps ==
  ASSUME RInv, NEW scheme \in Scheme, NEW to \in Address, NEW selector \in Selector,
         NEW input \in CallInput, NEW paid \in CallPaid, NEW stipend \in CallStipend,
         Call(scheme, to, selector, input, paid, stipend)
  PROVE  LeakOnTop' /\ ~Leaking /\ ~Leaking'
  <1>1. /\ ~Leaking /\ \A i \in 1..Depth : frames[i].status # "leak"
        /\ frames \in Seq(Frame) /\ Depth > 0 /\ Depth \in Nat
    BY ExecutingNoLeak DEF Call
  <1> DEFINE
      address == IF scheme \in {"Call", "StaticCall"} THEN to ELSE Top.address
      caller  == IF scheme = "DelegateCall" THEN Top.caller ELSE Top.address
      value   == CASE scheme = "StaticCall"   -> FALSE
                   [] scheme = "DelegateCall" -> Top.paid
                   [] OTHER                   -> paid
      to_address == IF scheme = "DelegateCall" THEN to ELSE address
      from_args ==
        \/ /\ call_depth > 0
           /\ is_input_contain_address(Top.input, to_address, Top.code_address)
        \/ to_address \in {Top.caller, env.caller}
      b == /\ is_execute_victim_function
           /\ to_address = Target
           /\ selector = target_dependency
      cross == ~Untested(is_from_same_dapp(caller, address, to, scheme), b)
      marked == IF b THEN [frames EXCEPT ![Depth].status = "hit"] ELSE frames
      g == [kind |-> IF cross THEN "cross" ELSE "plain",
            address |-> address, caller |-> caller, code_address |-> to,
            input |-> input, paid |-> value, status |-> "run",
            invoke |-> IF cross THEN [selector |-> selector, from_args |-> from_args,
                                      stipend |-> stipend]
                                ELSE NoInvoke,
            saved |-> Here, depth |-> call_depth + 1]
  <1>2. g.status = "run" /\ frames' \in {marked, Append(marked, g)}
    BY DEF Call
  <1> HIDE DEF g, cross
  <1>3. /\ marked \in Seq(Frame) /\ Len(marked) = Depth
        /\ \A i \in 1..Depth : marked[i].status # "leak"
    <2>1. b \in BOOLEAN /\ "hit" \in Status
      BY DEF Status
    <2> HIDE DEF b
    <2>2. marked = IF b THEN [frames EXCEPT ![Depth].status = "hit"] ELSE frames
      OBVIOUS
    <2> HIDE DEF marked
    <2>3. /\ marked \in Seq(Frame) /\ Len(marked) = Depth
          /\ \A i \in 1..Depth :
               marked[i].status = IF b /\ i = Depth THEN "hit" ELSE frames[i].status
      BY <1>1, <2>1, <2>2, MarkOrNot
    <2>4. QED
      BY <1>1, <2>3
  <1> HIDE DEF marked
  <1>4. IInv'
    BY CallStep DEF RInv
  <1>5. CASE frames' = marked
    BY <1>3, <1>5, <1>1, NoLeakAfter
  <1>6. CASE frames' = Append(marked, g)
    <2>1. /\ frames' \in Seq(Frame) /\ Len(frames') = Depth + 1
          /\ \A i \in 1..Depth : frames'[i] = marked[i]
          /\ frames'[Depth + 1] = g
      BY <1>1, <1>3, <1>4, <1>6 DEF IInv, TypeOK
    <2>2. \A i \in 1..(Depth + 1) : frames'[i].status # "leak"
      BY <1>2, <1>3, <2>1
    <2>3. QED
      BY <1>1, <2>1, <2>2, NoLeakAfter
  <1>7. QED
    BY <1>2, <1>5, <1>6

\* The innermost interpreter stops with a leak exactly when there is one.
LEMMA EndsLeak ==
  ASSUME RInv, NEW r \in Result, Ends(r)
  PROVE  /\ phase = "running" /\ Depth > 0
         /\ r = "leak" <=> Leaking
         /\ r = "ok" => Top.status # "leak"
  <1>1. phase = "running" /\ (r = "leak" <=> Top.status = "leak")
    BY DEF Ends, Executing
  <1>2. QED
    BY <1>1, NoLeakBelow, TopLeaks, TopFacts DEF RInv

\* A leak is raised outside every test.
LEMMA LeakIsIdle ==
  ASSUME RInv, Leaking
  PROVE  ~is_diff_dapp /\ ~is_execute_victim_function /\ bug_hit
  <1>1. PICK i \in 1..Depth : frames[i].status = "leak"
    BY DEF RInv, IInv, TypeOK, Leaking, Marked, Depth
  <1>2. bug_hit /\ Tested = {}
    BY <1>1 DEF RInv, IInv, LeakOutsideTest
  <1>3. \A j \in 1..Depth : frames[j].kind # "victim"
    BY <1>2 DEF Tested, IsTested
  <1>4. QED
    BY <1>2, <1>3 DEF RInv, IInv, ModesMatchStack

\* A return hands on its leak, unless CREATE swallows it.
LEMMA ReturnMaps ==
  ASSUME RInv, NEW r \in Result, Ends(r), Top.kind # "tx",
         NEW q \in Result, frames' = Resume(q)
  PROVE  LeakOnTop' /\ (Leaking' <=> q = "leak")
  <1>1. Depth > 1
    BY ReturnFacts DEF RInv
  <1>2. QED
    BY <1>1, ResumeLeak

\* What is below the innermost interpreter never leaks.
LEMMA BelowNoLeak ==
  ASSUME RInv, phase = "running"
  PROVE  /\ Below \in Seq(Frame) /\ \A i \in 1..Len(Below) : Below[i].status # "leak"
         /\ Resume("ok") = Below
  <1>1. frames \in Seq(Frame) /\ Depth > 0 /\ Depth \in Nat
    BY TopFacts DEF RInv, IInv, TypeOK
  <1>2. QED
    BY <1>1, BelowFrames DEF RInv, LeakOnTop, Resume

LEMMA StartVictimMaps ==
  ASSUME RInv, StartVictim
  PROVE  LeakOnTop' /\ ~Leaking /\ ~Leaking'
  <1>1. /\ Ends("ok") /\ phase = "running" /\ "ok" \in Result
    BY DEF StartVictim, Ends, Result
  <1>2. ~Leaking
    BY <1>1, EndsLeak
  <1>3. PICK f : frames' = Append(Below, f) /\ f.status = "run"
    BY DEF StartVictim
  <1>4. Below \in Seq(Frame) /\ \A i \in 1..Len(Below) : Below[i].status # "leak"
    BY <1>1, BelowNoLeak
  <1>5. IInv'
    BY StartVictimStep DEF RInv
  <1>6. /\ frames' \in Seq(Frame) /\ Len(frames') = Len(Below) + 1
        /\ \A i \in 1..Len(Below) : frames'[i] = Below[i]
        /\ frames'[Len(Below) + 1] = f /\ Len(Below) \in Nat
    BY <1>3, <1>4, <1>5 DEF IInv, TypeOK
  <1>7. \A i \in 1..(Len(Below) + 1) : frames'[i].status # "leak"
    BY <1>3, <1>4, <1>6
  <1>8. QED
    BY <1>2, <1>6, <1>7, NoLeakAfter

-----------------------------------------------------------------------------
(* The steps, mapped                                                        *)

Implements == [Promise!Next]_(Promise!vars)

\* Nothing a report depends on changes.
LEMMA Stutters ==
  ASSUME Leaking' <=> Leaking,
         UNCHANGED <<is_diff_dapp, is_execute_victim_function, no_need_for_test,
                     bug_hit, entry_function, report>>
  PROVE  Implements
  <1>1. Leaking \in BOOLEAN /\ Leaking' \in BOOLEAN
    BY DEF Leaking, Marked
  <1>2. UNCHANGED Promise!vars
    BY <1>1 DEF Promise!vars, Leaking
  <1>3. QED
    BY <1>2 DEF Implements

\* A test ends, with or without a victim run: Close.
LEMMA Closes ==
  ASSUME RInv, is_diff_dapp, CloseTest, is_execute_victim_function' = FALSE,
         Leaking' <=> Leaking, UNCHANGED <<bug_hit, entry_function, report>>
  PROVE  Implements
  <1>1. Leaking \in BOOLEAN /\ Leaking' \in BOOLEAN
    BY DEF Leaking, Marked
  <1>2. Promise!Close
    BY <1>1 DEF Promise!Close, CloseTest, Leaking
  <1>3. QED
    BY <1>2 DEF Implements, Promise!Next

LEMMA CallImplements ==
  ASSUME RInv, NEW scheme \in Scheme, NEW to \in Address, NEW selector \in Selector,
         NEW input \in CallInput, NEW paid \in CallPaid, NEW stipend \in CallStipend,
         Call(scheme, to, selector, input, paid, stipend)
  PROVE  Implements
  <1>1. ~Leaking /\ ~Leaking' /\ Leaking \in BOOLEAN /\ Leaking' \in BOOLEAN
    BY CallMaps DEF Leaking, Marked
  <1>2. /\ is_diff_dapp \in BOOLEAN /\ is_execute_victim_function \in BOOLEAN
        /\ no_need_for_test \in BOOLEAN /\ bug_hit \in BOOLEAN
    BY DEF RInv, IInv, TypeOK
  <1>3. is_execute_victim_function => is_diff_dapp
    BY DEF RInv, IInv, ModesMatchStack, Tested, IsTested
  <1>4. PICK cross \in BOOLEAN, hit \in BOOLEAN, same \in BOOLEAN, c \in BOOLEAN :
          /\ hit => is_execute_victim_function
          /\ cross => ~is_diff_dapp /\ ~bug_hit /\ ~hit
          /\ bug_hit' = (bug_hit \/ hit)
          /\ entry_function' = IF cross THEN selector ELSE entry_function
          /\ is_diff_dapp' = (is_diff_dapp \/ cross)
          /\ no_need_for_test' = (no_need_for_test /\ ~(cross /\ c))
    BY DEF Call, Untested, EntryAfter
  <1>5. UNCHANGED <<is_execute_victim_function, report>>
    BY DEF Call
  <1>6. CASE cross
    <2>1. Promise!Open(selector, ~no_need_for_test')
      BY <1>1, <1>2, <1>3, <1>4, <1>5, <1>6 DEF Promise!Open, Leaking
    <2>2. (~no_need_for_test') \in BOOLEAN
      OBVIOUS
    <2>3. QED
      BY <2>1, <2>2 DEF Implements, Promise!Next
  <1>7. CASE ~cross /\ hit
    <2>1. Promise!Hit
      BY <1>1, <1>2, <1>3, <1>4, <1>5, <1>7 DEF Promise!Hit, Leaking
    <2>2. QED
      BY <2>1 DEF Implements, Promise!Next
  <1>8. CASE ~cross /\ ~hit
    BY <1>1, <1>2, <1>4, <1>5, <1>8, Stutters
  <1>9. QED
    BY <1>6, <1>7, <1>8

\* The end of the transaction: with a leak it is Report.
LEMMA EndTransactionImplements ==
  ASSUME RInv, NEW r \in Result, EndTransaction(r)
  PROVE  LeakOnTop' /\ Implements
  <1>1. /\ Ends(r) /\ frames' = <<>> /\ phase = "running"
        /\ report' = IF r = "leak" THEN entry_function ELSE report
        /\ UNCHANGED <<is_diff_dapp, is_execute_victim_function,
                       no_need_for_test, bug_hit, entry_function>>
    BY DEF EndTransaction, Ends, modes
  <1>2. LeakOnTop' /\ ~Leaking'
    BY <1>1, NoLeakAfter
  <1>3. (r = "leak" <=> Leaking) /\ Leaking \in BOOLEAN /\ Leaking' \in BOOLEAN
    BY <1>1, EndsLeak DEF Leaking, Marked
  <1>4. CASE r # "leak"
    BY <1>1, <1>2, <1>3, <1>4, Stutters
  <1>5. CASE r = "leak"
    <2>1. report = NoSelector
      BY <1>1 DEF RInv, IInv, LeakOutsideTest
    <2>2. bug_hit
      BY <1>3, <1>5, LeakIsIdle
    <2>3. Promise!Report
      BY <1>1, <1>2, <1>3, <1>5, <2>1, <2>2 DEF Promise!Report, Leaking
    <2>4. QED
      BY <1>2, <2>3 DEF Implements, Promise!Next
  <1>6. QED
    BY <1>2, <1>4, <1>5

\* A return: Close for a call under test, Swallow for init code that leaked,
\* otherwise nothing.
LEMMA ReturnImplements ==
  ASSUME RInv, NEW r \in Result,
         ReturnPlain(r) \/ ReturnCreate(r) \/ ReturnCross(r) \/ EndVictim(r)
  PROVE  LeakOnTop' /\ Implements
  <1>1. /\ Ends(r) /\ Top.kind # "tx" /\ phase = "running"
        /\ (r = "leak" <=> Leaking)
    BY EndsLeak DEF ReturnPlain, ReturnCreate, ReturnCross, EndVictim
  <1>2. "ok" \in Result /\ "leak" \in Result
    BY DEF Result
  <1>3. CASE ReturnPlain(r)
    <2>1. LeakOnTop' /\ (Leaking' <=> Leaking)
      BY <1>1, <1>3, ReturnMaps DEF ReturnPlain
    <2>2. QED
      BY <1>3, <2>1, Stutters DEF ReturnPlain, modes
  <1>4. CASE ReturnCreate(r)
    <2>1. LeakOnTop' /\ ~Leaking'
      BY <1>1, <1>2, <1>4, ReturnMaps, BelowNoLeak DEF ReturnCreate
    <2>2. UNCHANGED <<is_diff_dapp, is_execute_victim_function, no_need_for_test,
                      bug_hit, entry_function, report>>
      BY <1>4 DEF ReturnCreate, modes
    <2>3. CASE ~Leaking
      BY <2>1, <2>2, <2>3, Stutters
    <2>4. CASE Leaking
      <3>1. Leaking \in BOOLEAN /\ Leaking' \in BOOLEAN
        BY DEF Leaking, Marked
      <3>2. Promise!Swallow
        BY <2>1, <2>2, <2>4, <3>1 DEF Promise!Swallow, Leaking
      <3>3. QED
        BY <2>1, <3>2 DEF Implements, Promise!Next
    <2>5. QED
      BY <2>1, <2>3, <2>4
  <1>5. CASE ReturnCross(r)
    <2>1. LeakOnTop' /\ (Leaking' <=> Leaking)
      BY <1>1, <1>5, ReturnMaps DEF ReturnCross
    <2>2. is_diff_dapp /\ ~is_execute_victim_function
      BY <1>1, <1>5, TestedTop DEF RInv, ReturnCross
    <2>3. is_execute_victim_function \in BOOLEAN
      BY DEF RInv, IInv, TypeOK
    <2>4. QED
      BY <1>5, <2>1, <2>2, <2>3, Closes DEF ReturnCross
  <1>6. CASE EndVictim(r)
    <2>1. is_diff_dapp
      BY <1>1, <1>6, TestedTop DEF RInv, EndVictim
    <2>2. ~Leaking /\ r # "leak"
      BY <1>1, <2>1, LeakIsIdle
    <2>3. LeakOnTop' /\ (Leaking' <=> Leaking)
      BY <1>1, <1>2, <1>6, <2>2, ReturnMaps DEF EndVictim
    <2>4. QED
      BY <1>6, <2>1, <2>3, Closes DEF EndVictim
  <1>7. QED
    BY <1>3, <1>4, <1>5, <1>6

\* A victim run starts (Probe), or is a bare transfer and the test is over.
LEMMA VictimImplements ==
  ASSUME RInv, StartVictim \/ SkipVictim
  PROVE  LeakOnTop' /\ Implements
  <1>1. /\ Ends("ok") /\ Top.kind = "cross" /\ phase = "running" /\ "ok" \in Result
        /\ ~no_need_for_test
    BY DEF StartVictim, SkipVictim, Ends, Result, NeedsTest
  <1>2. is_diff_dapp /\ ~is_execute_victim_function /\ ~Leaking
    BY <1>1, TestedTop, EndsLeak DEF RInv
  <1>3. Leaking \in BOOLEAN /\ Leaking' \in BOOLEAN
    BY DEF Leaking, Marked
  <1>4. CASE StartVictim
    <2>1. LeakOnTop' /\ ~Leaking'
      BY <1>4, StartVictimMaps
    <2>2. Promise!Probe
      BY <1>1, <1>2, <1>3, <1>4, <2>1 DEF Promise!Probe, StartVictim, Leaking
    <2>3. QED
      BY <2>1, <2>2 DEF Implements, Promise!Next
  <1>5. CASE SkipVictim
    <2>1. LeakOnTop' /\ ~Leaking'
      BY <1>1, <1>5, BelowNoLeak, ReturnMaps DEF SkipVictim
    <2>2. is_execute_victim_function' = FALSE
      BY <1>2, <1>5 DEF SkipVictim, RInv, IInv, TypeOK
    <2>3. QED
      BY <1>2, <1>5, <2>1, <2>2, Closes DEF SkipVictim
  <1>6. QED
    BY <1>4, <1>5

\* An opcode that does not call: SSTORE may be Leak.
LEMMA OpcodeImplements ==
  ASSUME RInv, Opcode
  PROVE  LeakOnTop' /\ Implements
  <1>1. ASSUME NEW a, Observe(a) \/ Balance(a)
        PROVE  LeakOnTop' /\ Implements
    <2>1. frames' = frames /\ LeakOnTop
      BY <1>1 DEF Observe, Balance, RInv
    <2>2. LeakOnTop' /\ (Leaking' <=> Leaking)
      BY <2>1 DEF LeakOnTop, Leaking, Depth
    <2>3. QED
      BY <1>1, <2>2, Stutters DEF Observe, Balance, modes
  <1>2. CASE SStore
    <2>1. /\ LeakOnTop' /\ ~Leaking /\ (Leaking' <=> LeaksHere)
          /\ Leaking \in BOOLEAN /\ Leaking' \in BOOLEAN
      BY <1>2, SStoreMaps DEF Leaking, Marked
    <2>2. UNCHANGED <<is_diff_dapp, is_execute_victim_function, no_need_for_test,
                      bug_hit, entry_function, report>>
      BY <1>2 DEF SStore, modes
    <2>3. CASE ~LeaksHere
      BY <2>1, <2>2, <2>3, Stutters
    <2>4. CASE LeaksHere
      <3>1. bug_hit /\ ~is_diff_dapp /\ ~is_execute_victim_function
        BY <2>4 DEF LeaksHere, RInv, IInv, ModesMatchStack, Tested, IsTested
      <3>2. entry_function # NoSelector
        BY <3>1 DEF RInv, HitHasEntry
      <3>3. Promise!Leak
        BY <2>1, <2>2, <2>4, <3>1, <3>2 DEF Promise!Leak, Leaking
      <3>4. QED
        BY <2>1, <3>3 DEF Implements, Promise!Next
    <2>5. QED
      BY <2>1, <2>3, <2>4
  <1>3. ASSUME NEW f \in Fresh, Create(f)
        PROVE  LeakOnTop' /\ Implements
    BY <1>3, CreateMaps, Stutters DEF Create, modes
  <1>4. ASSUME NEW scheme \in Scheme, NEW to \in Address, NEW selector \in Selector,
               NEW input \in CallInput, NEW paid \in CallPaid, NEW stipend \in CallStipend,
               Call(scheme, to, selector, input, paid, stipend)
        PROVE  LeakOnTop' /\ Implements
    BY <1>4, CallMaps, CallImplements
  <1>5. QED
    BY <1>1, <1>2, <1>3, <1>4 DEF Opcode

\* A hit is that of an entry function, since a call is under test.
LEMMA HitEntryStep ==
  ASSUME RInv, [Next]_vars
  PROVE  HitHasEntry'
  <1>1. ASSUME NEW scheme \in Scheme, NEW to \in Address, NEW selector \in Selector,
               NEW input \in CallInput, NEW paid \in CallPaid, NEW stipend \in CallStipend,
               Call(scheme, to, selector, input, paid, stipend)
        PROVE  HitHasEntry'
    <2>1. selector # NoSelector
      BY ConstAssumption
    <2>2. ASSUME is_execute_victim_function PROVE entry_function # NoSelector
      <3>1. PICK i \in 1..Depth : IsTested(i)
        BY <2>2 DEF RInv, IInv, ModesMatchStack, IsTested
      <3>2. frames[i] \in Frame /\ entry_function = frames[i].invoke.selector
        BY <1>1, <3>1, TopFacts
           DEF Call, Executing, RInv, IInv, EntryIsTested, Tested
      <3>3. QED
        BY <3>2, ConstAssumption DEF Frame, Invoke
    <2>3. /\ bug_hit' => bug_hit \/ is_execute_victim_function
          /\ entry_function' \in {selector, entry_function}
      BY <1>1 DEF Call, EntryAfter
    <2>4. QED
      BY <2>1, <2>2, <2>3 DEF RInv, HitHasEntry
  <1>2. CASE Opcode
    BY <1>1, <1>2 DEF Opcode, Observe, Balance, SStore, Create, RInv, HitHasEntry
  <1>3. ASSUME NEW r \in Result, Return(r)
        PROVE  HitHasEntry'
    BY <1>3 DEF Return, EndTransaction, ReturnPlain, ReturnCreate, ReturnCross,
                EndVictim, RInv, HitHasEntry
  <1>4. QED
    BY <1>2, <1>3 DEF Next, execute_from_pc, StartVictim, SkipVictim, vars, RInv,
                      HitHasEntry

\* Every step keeps the leak on top and implements a step of Detector.
LEMMA StepImplements ==
  ASSUME RInv, [Next]_vars
  PROVE  RInv' /\ Implements
  <1>1. IInv' /\ HitHasEntry'
    BY NextInv, HitEntryStep DEF RInv
  <1>2. CASE execute_from_pc
    <2>1. UNCHANGED <<is_diff_dapp, is_execute_victim_function, no_need_for_test,
                      entry_function, report>>
      BY <1>2 DEF execute_from_pc, modes
    <2>2. bug_hit \in BOOLEAN /\ bug_hit' \in BOOLEAN
      BY <1>1 DEF RInv, IInv, TypeOK
    <2>3. QED
      BY <1>1, <1>2, <2>1, <2>2, TransactionMaps, Stutters DEF RInv
  <1>3. CASE Opcode
    BY <1>1, <1>3, OpcodeImplements DEF RInv
  <1>4. ASSUME NEW r \in Result, Return(r)
        PROVE  LeakOnTop' /\ Implements
    BY <1>4, EndTransactionImplements, ReturnImplements DEF Return
  <1>5. CASE StartVictim \/ SkipVictim
    BY <1>1, <1>5, VictimImplements DEF RInv
  <1>6. CASE UNCHANGED vars
    <2>1. frames' = frames /\ LeakOnTop
      BY <1>6 DEF vars, RInv
    <2>2. LeakOnTop' /\ (Leaking' <=> Leaking)
      BY <2>1 DEF LeakOnTop, Leaking, Depth
    <2>3. QED
      BY <1>1, <1>6, <2>2, Stutters DEF vars, modes, RInv
  <1>7. QED
    BY <1>1, <1>2, <1>3, <1>4, <1>5, <1>6 DEF Next, RInv

\* The host starts as Detector does.
LEMMA InitImplements ==
  ASSUME Init
  PROVE  RInv /\ Promise!Init
  <1>1. IInv
    BY InitInv
  <1>2. LeakOnTop /\ ~Leaking
    BY DEF Init, LeakOnTop, Leaking, Marked, Depth
  <1>3. HitHasEntry
    BY DEF Init, HitHasEntry
  <1>4. Leaking \in BOOLEAN
    BY DEF Leaking, Marked
  <1>5. Promise!Init
    BY <1>2, <1>4 DEF Init, Promise!Init, Leaking
  <1>6. QED
    BY <1>1, <1>2, <1>3, <1>5 DEF RInv

\* The host implements Detector: a report names the entry function of a call
\* that its caller controls, into a different DApp, whose victim run read the
\* related function; and a write of the target after that call raised it.
THEOREM HostImplementsDetector == Spec => ReportIsPromised
  <1>1. Init => RInv /\ Promise!Init
    BY InitImplements
  <1>2. RInv /\ [Next]_vars => RInv' /\ [Promise!Next]_(Promise!vars)
    BY StepImplements DEF Implements
  <1>3. QED
    BY <1>1, <1>2, PTL DEF Spec, ReportIsPromised, Promise!Spec
=============================================================================
