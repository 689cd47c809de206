-------------------------- MODULE ReplayHostProofs --------------------------
(***************************************************************************)
(* Proofs about ReplayHost and ReplayDigest for every value of their       *)
(* constants: the types, that the recorded call graph is the tree of the   *)
(* calls made, and that the driver's digest counts each call in it once.   *)
(***************************************************************************)
EXTENDS ReplayDigest, FiniteSetTheorems, SequenceTheorems, WellFoundedInduction, TLAPS

-----------------------------------------------------------------------------
(* Nodes                                                                    *)

\* One level down, or one access more, is still a row; levels add up, and
\* counting commutes with going down.
LEMMA RowChanged ==
  ASSUME NEW r \in Row, NEW l \in Nat
  PROVE  /\ Lowered(r, l) \in Row /\ ReadMore(r) \in Row /\ WriteMore(r) \in Row
         /\ Lowered(Lowered(r, 1), l) = Lowered(r, l + 1)
         /\ Lowered(ReadMore(r), l) = ReadMore(Lowered(r, l))
         /\ Lowered(WriteMore(r), l) = WriteMore(Lowered(r, l))
  <1>1. r.level \in Nat /\ r.read \in Nat /\ r.write \in Nat
    BY DEF Row
  <1>2. (r.level + 1) + l = r.level + (l + 1)
    BY <1>1
  <1>3. /\ r.level + l \in Nat /\ r.read + 1 \in Nat /\ r.write + 1 \in Nat
    BY <1>1
  <1>4. /\ Lowered(r, l) \in Row /\ ReadMore(r) \in Row /\ WriteMore(r) \in Row
    BY <1>3 DEF Row, Lowered, ReadMore, WriteMore
  <1>5. Lowered(Lowered(r, 1), l) = Lowered(r, l + 1)
    BY <1>2 DEF Row, Lowered
  <1>6. /\ Lowered(ReadMore(r), l) = ReadMore(Lowered(r, l))
        /\ Lowered(WriteMore(r), l) = WriteMore(Lowered(r, l))
    BY DEF Row, Lowered, ReadMore, WriteMore
  <1>7. QED
    BY <1>4, <1>5, <1>6

\* The first invocation keeps its level.
LEMMA LoweredByZero ==
  ASSUME NEW r \in Row
  PROVE  Lowered(r, 0) = r
  BY DEF Row, Lowered

\* The listing of node and then child: what Vec::push appends to the children.
LEMMA AddChildListing ==
  ASSUME NEW node \in Seq(Row), NEW child \in Seq(Row)
  PROVE  /\ add_child(node, child) \in Seq(Row)
         /\ Len(add_child(node, child)) = Len(node) + Len(child)
         /\ \A j \in 1..Len(node) : add_child(node, child)[j] = node[j]
         /\ \A j \in 1..Len(child) :
              add_child(node, child)[Len(node) + j] =
                Lowered(child[j], 1)
  <1> DEFINE lower == [i \in DOMAIN child |-> Lowered(child[i], 1)]
  <1>1. DOMAIN child = 1..Len(child) /\ Len(child) \in Nat
    BY LenProperties
  <1>2. \A i \in 1..Len(child) : Lowered(child[i], 1) \in Row
    <2>1. TAKE i \in 1..Len(child)
    <2>2. child[i] \in Row
      BY ElementOfSeq
    <2>3. QED
      BY <2>2, RowChanged
  <1>3. lower \in [1..Len(child) -> Row]
    BY <1>1, <1>2
  <1>4. lower \in Seq(Row) /\ Len(lower) = Len(child)
    <2>1. lower \in Seq(Row)
      BY <1>1, <1>3, IsASeq
    <2>2. DOMAIN lower = 1..Len(lower) /\ Len(lower) \in Nat
      BY <2>1, LenProperties
    <2>3. QED
      BY <1>1, <1>3, <2>2
  <1>5. \A j \in 1..Len(child) : lower[j] = Lowered(child[j], 1)
    BY <1>1
  <1>6. add_child(node, child) = node \o lower
    BY DEF add_child
  <1> HIDE DEF lower
  <1>7. /\ node \o lower \in Seq(Row)
        /\ Len(node \o lower) = Len(node) + Len(lower)
        /\ \A i \in 1..(Len(node) + Len(lower)) :
             (node \o lower)[i] = IF i <= Len(node) THEN node[i]
                                  ELSE lower[i - Len(node)]
    BY <1>4, ConcatProperties
  <1>8. Len(node) \in Nat
    BY LenProperties
  <1>9. \A j \in 1..Len(node) : (node \o lower)[j] = node[j]
    BY <1>1, <1>4, <1>7, <1>8
  <1>10. \A j \in 1..Len(child) : (node \o lower)[Len(node) + j] = lower[j]
    BY <1>1, <1>4, <1>7, <1>8
  <1>11. QED
    BY <1>4, <1>5, <1>6, <1>7, <1>9, <1>10

\* A finished call's node, listed below its caller's, continues the listing.
LEMMA AddChildLists ==
  ASSUME NEW node \in Seq(Row), NEW child \in Seq(Row),
         NEW a \in Nat, NEW b \in Nat, NEW e \in Nat, NEW l \in Nat,
         Lists(node, a, b - 1, l), Lists(child, b, e, l + 1)
  PROVE  Lists(add_child(node, child), a, e, l)
  <1> DEFINE n == add_child(node, child)
  <1>1. Len(node) \in Nat /\ Len(child) \in Nat
    BY LenProperties
  <1>2. Len(node) = b - a /\ Len(child) = e - b + 1
    BY DEF Lists
  <1>3. /\ Len(n) = Len(node) + Len(child)
        /\ \A j \in 1..Len(node) : n[j] = node[j]
        /\ \A j \in 1..Len(child) :
             n[Len(node) + j] = Lowered(child[j], 1)
    BY AddChildListing
  <1>4. ASSUME NEW j \in 1..Len(n)
        PROVE  log[a + j - 1] = Lowered(n[j], l)
    <2>1. CASE j <= Len(node)
      BY <1>1, <1>3, <2>1 DEF Lists
    <2>2. CASE j > Len(node)
      <3> DEFINE k == j - Len(node)
      <3>0. j \in Nat /\ j <= Len(node) + Len(child)
        BY <1>1, <1>3
      <3>1. k \in 1..Len(child) /\ j = Len(node) + k /\ a + j - 1 = b + k - 1
        BY ONLY <1>1, <1>2, <2>2, <3>0, a \in Nat, b \in Nat
      <3>2. child[k] \in Row
        BY <3>1, ElementOfSeq
      <3>3. n[j] = Lowered(child[k], 1)
        BY <1>3, <3>1
      <3>4. log[b + k - 1] = Lowered(child[k], l + 1)
        BY <3>1 DEF Lists
      <3>5. Lowered(child[k], l + 1) = Lowered(n[j], l)
        BY <3>2, <3>3, RowChanged
      <3>6. QED
        BY <3>1, <3>4, <3>5
    <2>3. QED
      BY <1>1, <2>1, <2>2
  <1>5. QED
    BY <1>1, <1>2, <1>3, <1>4 DEF Lists

\* Counting an access changes the first row only, and by one count.
LEMMA CountRow ==
  ASSUME NEW node \in Seq(Row), Len(node) > 0
  PROVE  /\ add_read(node) \in Seq(Row) /\ add_write(node) \in Seq(Row)
         /\ Len(add_read(node)) = Len(node) /\ Len(add_write(node)) = Len(node)
         /\ add_read(node)[1] = ReadMore(node[1])
         /\ add_write(node)[1] = WriteMore(node[1])
         /\ \A j \in 2..Len(node) : /\ add_read(node)[j] = node[j]
                                    /\ add_write(node)[j] = node[j]
  <1>1. Len(node) \in Nat /\ 1 \in 1..Len(node)
    BY LenProperties
  <1>2. node[1] \in Row
    BY <1>1, ElementOfSeq
  <1>3. /\ ReadMore(node[1]) \in Row
        /\ WriteMore(node[1]) \in Row
    BY <1>2, RowChanged
  <1>4. /\ add_read(node) = [node EXCEPT ![1] = ReadMore(node[1])]
        /\ add_write(node) = [node EXCEPT ![1] = WriteMore(node[1])]
    BY DEF add_read, add_write
  <1>5. QED
    BY <1>1, <1>3, <1>4, ExceptSeq

-----------------------------------------------------------------------------
(* Initial states and steps                                                 *)

\* What a typed, ordered stack says of its innermost frame.
LEMMA TopFrame ==
  ASSUME TypeOK, FramesInOrder, phase = "running"
  PROVE  /\ Depth \in Nat \ {0} /\ Len(frames) = Depth
         /\ \A i \in 1..Depth : frames[i] \in Frame
         /\ Top \in Frame /\ Top.row \in 1..Len(log)
         /\ Len(log) \in Nat /\ Len(call_stack_cache) \in Nat
  <1>1. Len(frames) \in Nat /\ Len(log) \in Nat /\ Len(call_stack_cache) \in Nat
    BY LenProperties DEF TypeOK
  <1>2. frames # <<>>
    BY DEF FramesInOrder
  <1>3. Len(frames) # 0
    BY <1>2, EmptySeq DEF TypeOK
  <1>4. \A i \in 1..Len(frames) : frames[i] \in Frame
    BY ElementOfSeq DEF TypeOK
  <1>5. QED
    BY <1>1, <1>3, <1>4 DEF Depth, Top, FramesInOrder

\* The host starts with the root alone.
LEMMA ReplayInit == Init => IInv
  <1> SUFFICES ASSUME Init PROVE IInv
    OBVIOUS
  <1> USE ReplayAssumption
  <1> DEFINE root == [CallGraphNode(0, Root, RootSelector) EXCEPT !.is_same = TRUE]
             first == [address |-> Root, selector |-> RootSelector,
                       node_cache |-> <<>>,
                       old_env |-> [to |-> Root, data |-> RootSelector],
                       row |-> 1]
  <1>1. root \in Row
    BY DEF CallGraphNode, Row, Address
  <1>2. call_stack_cache = <<root>> /\ log = <<root>> /\ frames = <<first>>
    BY DEF Init, RootNode, RootFrame
  <1>3. first \in Frame
    BY DEF Frame, Env, Address
  <1> HIDE DEF root
  <1>4. <<root>> \in Seq(Row) /\ <<first>> \in Seq(Frame)
    BY <1>1, <1>3
  <1>5. TypeOK
    <2>1. inner \in Seq(Inner) /\ record = <<>>
      BY DEF Init, RootNode, RootFrame
    <2>2. /\ phase \in {"running", "saved"} /\ is_delegate_call \in BOOLEAN
          /\ env \in Env /\ call_depth \in Nat /\ calls \in Nat /\ accesses \in Nat
          /\ delegations \in SUBSET (Address \X Callee) /\ stopped \in BOOLEAN
      BY DEF Init, RootNode, RootFrame, Env, Address
    <2>3. contract_to_logic \in [Address -> Callee \union {NoLink}]
      BY DEF Init, RootNode, RootFrame
    <2>4. QED
      BY <1>2, <1>4, <2>1, <2>2, <2>3 DEF TypeOK
  <1>6. Depth = 1 /\ Len(log) = 1 /\ frames[1] = first /\ first.row = 1
    BY <1>2 DEF Depth
  <1>7. FramesInOrder
    BY <1>2, <1>6 DEF FramesInOrder, Init, RootNode, RootFrame
  <1>8. GraphIsCallTree
    <2>1. Lists(call_stack_cache, 1, 1, 0)
      BY <1>1, <1>2, LoweredByZero DEF Lists
    <2>2. Len(record) = 0
      BY DEF Init, RootNode, RootFrame
    <2>3. QED
      BY <1>6, <2>1, <2>2 DEF GraphIsCallTree, NodeOf, LastRow
  <1>9. DepthChain
    BY <1>6 DEF Init, RootNode, RootFrame, DepthChain
  <1>10. QED
    BY <1>5, <1>7, <1>8, <1>9 DEF IInv

\* A step that touches neither frames nor nodes keeps the graph.
LEMMA InnerKeepsGraph ==
  ASSUME FramesInOrder, GraphIsCallTree, phase = "running", phase' = phase,
         UNCHANGED <<frames, call_stack_cache, log, record>>
  PROVE  FramesInOrder' /\ GraphIsCallTree'
  <1>1. /\ Depth' = Depth
        /\ \A i \in 1..Depth : NodeOf(i)' = NodeOf(i) /\ LastRow(i)' = LastRow(i)
    BY DEF Depth, NodeOf, LastRow
  <1>2. FramesInOrder'
    BY <1>1 DEF FramesInOrder
  <1>3. GraphIsCallTree'
    BY <1>1 DEF GraphIsCallTree, Lists
  <1>4. QED
    BY <1>2, <1>3

\* Changing the current node's first row, and the invocation it stands for in
\* the same way, keeps every node a listing.
LEMMA CountKeepsInv ==
  ASSUME IInv, Access, NEW first \in Row, NEW entry \in Row,
         Lowered(first, Depth - 1) = entry,
         call_stack_cache' = [call_stack_cache EXCEPT ![1] = first],
         log' = [log EXCEPT ![Top.row] = entry]
  PROVE  IInv'
  <1> USE DEF IInv
  <1>0. /\ phase = "running" /\ phase' = phase /\ frames' = frames /\ inner' = inner
        /\ record' = record /\ accesses' = accesses + 1
        /\ UNCHANGED <<is_delegate_call, contract_to_logic, env, call_depth, calls,
                       delegations, stopped>>
    BY DEF Access, Recording
  <1>1. /\ Depth \in Nat \ {0} /\ Len(frames) = Depth
        /\ \A i \in 1..Depth : frames[i] \in Frame
        /\ Top.row \in 1..Len(log) /\ Len(log) \in Nat
        /\ Len(call_stack_cache) \in Nat
    BY <1>0, TopFrame
  <1>2. Len(call_stack_cache) = Len(log) - Top.row + 1 /\ Len(call_stack_cache) > 0
    <2>1. Lists(call_stack_cache, Top.row, Len(log), Depth - 1)
      BY <1>1 DEF GraphIsCallTree, NodeOf, LastRow, Top
    <2>2. QED
      BY <1>1, <2>1 DEF Lists
  <1>3. /\ call_stack_cache' \in Seq(Row)
        /\ Len(call_stack_cache') = Len(call_stack_cache)
        /\ \A j \in 1..Len(call_stack_cache) :
             call_stack_cache'[j] = IF j = 1 THEN first ELSE call_stack_cache[j]
    BY <1>1, <1>2, ExceptSeq DEF TypeOK
  <1>4. /\ log' \in Seq(Row) /\ Len(log') = Len(log)
        /\ \A k \in 1..Len(log) : log'[k] = IF k = Top.row THEN entry ELSE log[k]
    BY <1>1, ExceptSeq, SMTT(30) DEF TypeOK
  <1>5. TypeOK'
    BY <1>0, <1>3, <1>4 DEF TypeOK
  <1>6. Depth' = Depth /\ \A i \in 1..Depth : LastRow(i)' = LastRow(i)
    BY <1>0, <1>4 DEF Depth, LastRow
  <1>7. FramesInOrder'
    BY <1>0, <1>4, <1>6 DEF FramesInOrder
  <1>8. ASSUME NEW i \in 1..Depth
        PROVE  Lists(NodeOf(i), frames[i].row, LastRow(i), i - 1)'
    <2>1. Lists(NodeOf(i), frames[i].row, LastRow(i), i - 1)
      BY DEF GraphIsCallTree
    <2>2. frames[i].row \in 1..Len(log)
      BY DEF FramesInOrder
    <2>3. CASE i = Depth
      <3>1. NodeOf(i)' = call_stack_cache' /\ NodeOf(i) = call_stack_cache
        BY <1>6, <2>3 DEF NodeOf
      <3>2. frames[i].row = Top.row /\ LastRow(i) = Len(log)
        BY <2>3 DEF Top, LastRow
      <3>3. ASSUME NEW j \in 1..Len(call_stack_cache)
            PROVE  log'[Top.row + j - 1] = Lowered(call_stack_cache'[j], i - 1)
        <4>1. CASE j = 1
          BY <1>1, <1>2, <1>3, <1>4, <2>3, <4>1
        <4>2. CASE j # 1
          <5>1. Top.row + j - 1 \in 1..Len(log) /\ Top.row + j - 1 # Top.row
            BY <1>1, <1>2, <4>2
          <5>2. log[Top.row + j - 1] = Lowered(call_stack_cache[j], i - 1)
            BY <2>1, <3>1, <3>2 DEF Lists
          <5>3. QED
            BY <1>3, <1>4, <4>2, <5>1, <5>2
        <4>3. QED
          BY <4>1, <4>2
      <3>4. QED
        BY <1>0, <1>3, <1>6, <2>1, <3>1, <3>2, <3>3 DEF Lists
    <2>4. CASE i # Depth
      <3>1. NodeOf(i)' = NodeOf(i) /\ LastRow(i) = frames[i + 1].row - 1
        BY <1>0, <1>6, <2>4 DEF NodeOf, LastRow
      <3>2. frames[i + 1].row <= Top.row /\ frames[i + 1].row \in 1..Len(log)
        <4>1. i + 1 \in 1..Depth /\ (i + 1 = Depth \/ i + 1 \in 1..(Depth - 1))
          BY <1>1, <2>4
        <4>2. CASE i + 1 = Depth
          BY <1>1, <4>1, <4>2 DEF Top, FramesInOrder
        <4>3. CASE i + 1 \in 1..(Depth - 1)
          <5>1. frames[i + 1].row < frames[Depth].row /\ frames[i + 1].row \in 1..Len(log)
            BY <1>1, <4>1, <4>3 DEF FramesInOrder
          <5>2. QED
            BY <1>1, <5>1 DEF Top
        <4>4. QED
          BY <4>1, <4>2, <4>3
      <3>3. ASSUME NEW j \in 1..Len(NodeOf(i))
            PROVE  log'[frames[i].row + j - 1] = Lowered(NodeOf(i)[j], i - 1)
        <4>1. Len(NodeOf(i)) = frames[i + 1].row - frames[i].row
          BY SMTT(30), <1>1, <2>1, <2>2, <3>1, <3>2 DEF Lists
        <4>2. /\ frames[i].row + j - 1 \in 1..Len(log)
              /\ frames[i].row + j - 1 # Top.row
          <5>1. j \in 1..(frames[i + 1].row - frames[i].row)
            BY <4>1
          <5>2. /\ frames[i].row \in Nat \ {0} /\ frames[i + 1].row \in Nat
                /\ Top.row \in Nat /\ Top.row <= Len(log)
            BY SMTT(30), <1>1, <2>2, <3>2
          <5>3. QED
            BY ONLY SMTT(30), <1>1, <3>2, <5>1, <5>2
        <4>3. QED
          BY <1>4, <2>1, <4>2 DEF Lists
      <3>4. QED
        BY <1>0, <1>6, <2>1, <3>1, <3>3 DEF Lists
    <2>5. QED
      BY <2>3, <2>4
  <1>9. GraphIsCallTree'
    <2>1. record = <<>>
      BY <1>0 DEF FramesInOrder
    <2>2. QED
      BY <1>0, <1>6, <1>8, <2>1 DEF GraphIsCallTree
  <1>10. DepthChain'
    BY <1>0, <1>6 DEF DepthChain, TopInner
  <1>11. QED
    BY <1>5, <1>7, <1>9, <1>10

\* The current node lists what the innermost frame and the calls below it did.
LEMMA TopLists ==
  ASSUME IInv, phase = "running"
  PROVE  Lists(call_stack_cache, Top.row, Len(log), Depth - 1)
  <1>1. Depth \in Nat \ {0}
    BY TopFrame DEF IInv
  <1>2. Depth \in 1..Depth
    BY <1>1
  <1>3. NodeOf(Depth) = call_stack_cache /\ LastRow(Depth) = Len(log) /\ Top = frames[Depth]
    BY DEF NodeOf, LastRow, Top
  <1>4. \A i \in 1..Depth : Lists(NodeOf(i), frames[i].row, LastRow(i), i - 1)
    BY DEF IInv, GraphIsCallTree
  <1>5. QED
    BY <1>2, <1>3, <1>4

\* step() before SLOAD and SSTORE
LEMMA AccessKeepsInv == IInv /\ (SLoad \/ SStore) => IInv'
  <1> SUFFICES ASSUME IInv, SLoad \/ SStore PROVE IInv'
    OBVIOUS
  <1>0. Access /\ phase = "running"
    BY DEF SLoad, SStore, Access, Recording
  <1>1. /\ Depth \in Nat \ {0} /\ Top.row \in 1..Len(log) /\ Len(log) \in Nat
        /\ Len(call_stack_cache) \in Nat
    BY <1>0, TopFrame DEF IInv
  <1>2. /\ Len(call_stack_cache) = Len(log) - Top.row + 1
        /\ \A j \in 1..Len(call_stack_cache) :
             log[Top.row + j - 1] = Lowered(call_stack_cache[j], Depth - 1)
    BY <1>0, TopLists DEF Lists
  <1>3. 1 \in 1..Len(call_stack_cache) /\ Top.row + 1 - 1 = Top.row
    BY <1>1, <1>2
  <1>4. log[Top.row] = Lowered(call_stack_cache[1], Depth - 1)
    BY <1>2, <1>3
  <1>5. call_stack_cache[1] \in Row /\ log[Top.row] \in Row
    BY <1>1, <1>3, ElementOfSeq DEF IInv, TypeOK
  <1>6. CASE SLoad
    <2> DEFINE first == ReadMore(call_stack_cache[1])
               entry == ReadMore(log[Top.row])
    <2>1. first \in Row /\ entry \in Row
      BY <1>5, RowChanged
    <2>2. Lowered(first, Depth - 1) = entry
      <3>1. Depth - 1 \in Nat
        BY <1>1
      <3>2. QED
        BY <1>4, <1>5, <3>1, RowChanged
    <2>3. /\ call_stack_cache' = [call_stack_cache EXCEPT ![1] = first]
          /\ log' = [log EXCEPT ![Top.row] = entry]
      BY <1>6 DEF SLoad, add_read
    <2> HIDE DEF first, entry
    <2>4. QED
      BY <1>0, <2>1, <2>2, <2>3, CountKeepsInv
  <1>7. CASE SStore
    <2> DEFINE first == WriteMore(call_stack_cache[1])
               entry == WriteMore(log[Top.row])
    <2>1. first \in Row /\ entry \in Row
      BY <1>5, RowChanged
    <2>2. Lowered(first, Depth - 1) = entry
      <3>1. Depth - 1 \in Nat
        BY <1>1
      <3>2. QED
        BY <1>4, <1>5, <3>1, RowChanged
    <2>3. /\ call_stack_cache' = [call_stack_cache EXCEPT ![1] = first]
          /\ log' = [log EXCEPT ![Top.row] = entry]
      BY <1>7 DEF SStore, add_write
    <2> HIDE DEF first, entry
    <2>4. QED
      BY <1>0, <2>1, <2>2, <2>3, CountKeepsInv
  <1>8. QED
    BY <1>6, <1>7

-----------------------------------------------------------------------------
(* Calls                                                                    *)

\* A started call lists itself; the node saved in its frame is its caller's.
LEMMA CallKeepsInv ==
  ASSUME IInv, NEW s \in Scheme, NEW to \in Callee, NEW sel \in Selector,
         Call(s, to, sel)
  PROVE  IInv'
  <1> USE DEF IInv
  <1> DEFINE address == Storage(s, Top.address, to)
             f == [address |-> address, selector |-> sel,
                   node_cache |-> call_stack_cache, old_env |-> env,
                   row |-> Len(log) + 1]
             node == CallGraphNode(0, to, sel)
             entry == CallGraphNode(Depth, to, sel)
  <1>0. /\ phase = "running" /\ phase' = phase /\ inner' = inner /\ record' = record
        /\ calls' = calls + 1 /\ accesses' = accesses
    BY DEF Call, replay_call, Recording
  <1>1. /\ Depth \in Nat \ {0} /\ Len(frames) = Depth
        /\ \A i \in 1..Depth : frames[i] \in Frame
        /\ Top \in Frame /\ Len(log) \in Nat
    BY <1>0, TopFrame
  <1>2. /\ contract_to_logic' \in [Address -> Callee \union {NoLink}]
        /\ is_delegate_call' \in BOOLEAN
        /\ delegations' \in SUBSET (Address \X Callee) /\ stopped' = stopped
    <2>1. Top.address \in Address
      BY <1>1 DEF Frame
    <2>2. contract_to_logic' \in [Address -> Callee \union {NoLink}]
      BY <2>1 DEF Call, replay_call, Linked, TypeOK
    <2>3. is_delegate_call' \in BOOLEAN
      BY DEF Call, replay_call, Cleared
    <2>4. delegations' \in SUBSET (Address \X Callee)
      BY <2>1 DEF Call, replay_call, TypeOK
    <2>5. stopped' = stopped
      BY DEF Call, replay_call
    <2>6. QED
      BY <2>2, <2>3, <2>4, <2>5
  <1>2a. inner = <<>> /\ Len(inner) = 0
    BY EmptySeq DEF Call, replay_call, Recording
  <1>3. CASE to \in Precompile
    <2>1. UNCHANGED <<frames, call_stack_cache, env, call_depth, log>>
      BY <1>3 DEF Call, replay_call
    <2>2. TypeOK'
      BY <1>0, <1>2, <2>1 DEF TypeOK
    <2>3. DepthChain'
      BY <1>0, <1>2a, <2>1 DEF DepthChain, Depth
    <2>4. QED
      BY <1>0, <2>1, <2>2, <2>3, InnerKeepsGraph
  <1>4. CASE to \notin Precompile
    <2>1. /\ frames' = Append(frames, f) /\ call_stack_cache' = <<node>>
          /\ env' = [to |-> address, data |-> sel] /\ call_depth' = call_depth + 1
          /\ log' = Append(log, entry)
      BY <1>4 DEF Call, replay_call
    <2>2. to \in Address /\ address \in Address
      BY <1>1, <1>4 DEF Callee, Storage, Frame
    <2>3. node \in Row /\ entry \in Row /\ Lowered(node, Depth) = entry
      BY <1>1, <2>2 DEF CallGraphNode, Row, Lowered
    <2>4. f \in Frame /\ f.row = Len(log) + 1 /\ f.node_cache = call_stack_cache
      BY <1>1, <2>2 DEF Frame, TypeOK
    <2>5. env' \in Env
      BY <2>1, <2>2 DEF Env
    <2> HIDE DEF node, entry, f, address
    <2>6. /\ frames' \in Seq(Frame) /\ Len(frames') = Depth + 1
          /\ \A i \in 1..Depth : frames'[i] = frames[i]
          /\ frames'[Depth + 1] = f
      BY <1>1, <2>1, <2>4, AppendProperties DEF TypeOK
    <2>7. /\ log' \in Seq(Row) /\ Len(log') = Len(log) + 1
          /\ \A k \in 1..Len(log) : log'[k] = log[k]
          /\ log'[Len(log) + 1] = entry
      BY <1>1, <2>1, <2>3, AppendProperties DEF TypeOK
    <2>8. /\ call_stack_cache' \in Seq(Row) /\ Len(call_stack_cache') = 1
          /\ call_stack_cache'[1] = node
      BY <2>1, <2>3
    <2>9. TypeOK'
      BY <1>0, <1>2, <2>1, <2>5, <2>6, <2>7, <2>8 DEF TypeOK
    <2>10. Depth' = Depth + 1
      BY <2>6 DEF Depth
    <2>11. FramesInOrder'
      <3>1. /\ frames' # <<>> /\ phase' = "running" /\ record' = <<>>
            /\ frames'[1].row = 1
        BY <1>0, <1>1, <2>6 DEF FramesInOrder
      <3>2. ASSUME NEW i \in 1..(Depth + 1)
            PROVE  /\ frames'[i].row \in 1..Len(log')
                   /\ \A j \in 1..(i - 1) : frames'[j].row < frames'[i].row
        <4>1. CASE i \in 1..Depth
          BY <1>1, <2>6, <2>7, <4>1 DEF FramesInOrder
        <4>2. CASE i = Depth + 1
          BY <1>1, <2>4, <2>6, <2>7, <4>2 DEF FramesInOrder
        <4>3. QED
          BY <1>1, <4>1, <4>2
      <3>3. QED
        BY <2>10, <3>1, <3>2 DEF FramesInOrder
    <2>12. ASSUME NEW i \in 1..(Depth + 1)
           PROVE  Lists(NodeOf(i), frames[i].row, LastRow(i), i - 1)'
      <3>1. CASE i \in 1..Depth
        <4>1. NodeOf(i)' = NodeOf(i) /\ LastRow(i)' = LastRow(i)
          <5>1. CASE i = Depth
            BY <1>1, <2>4, <2>6, <2>10, <5>1 DEF NodeOf, LastRow
          <5>2. CASE i # Depth
            <6>1. i + 1 \in 1..Depth /\ i # Depth + 1
              BY <1>1, <3>1, <5>2
            <6>2. QED
              BY <2>6, <2>10, <5>2, <6>1 DEF NodeOf, LastRow
          <5>3. QED
            BY <5>1, <5>2
        <4>2. Lists(NodeOf(i), frames[i].row, LastRow(i), i - 1)
          BY <3>1 DEF GraphIsCallTree
        <4>3. /\ frames[i].row \in 1..Len(log) /\ LastRow(i) \in Nat
              /\ LastRow(i) <= Len(log)
          <5>1. CASE i = Depth
            BY <1>1, <3>1, <5>1 DEF LastRow, FramesInOrder
          <5>2. CASE i # Depth
            <6>1. i + 1 \in 1..Depth
              BY <1>1, <3>1, <5>2
            <6>2. QED
              BY <1>1, <3>1, <5>2, <6>1 DEF LastRow, FramesInOrder
          <5>3. QED
            BY <5>1, <5>2
        <4>4. ASSUME NEW j \in 1..Len(NodeOf(i))
              PROVE  log'[frames[i].row + j - 1] = Lowered(NodeOf(i)[j], i - 1)
          <5>1. j \in 1..(LastRow(i) - frames[i].row + 1)
            BY <4>2 DEF Lists
          <5>2. frames[i].row + j - 1 \in 1..Len(log)
            BY ONLY SMTT(30), <1>1, <4>3, <5>1
          <5>3. QED
            BY <2>7, <4>2, <5>2 DEF Lists
        <4>5. QED
          BY <2>6, <3>1, <4>1, <4>2, <4>4 DEF Lists
      <3>2. CASE i = Depth + 1
        <4>1. NodeOf(i)' = call_stack_cache' /\ LastRow(i)' = Len(log) + 1
          BY <2>7, <2>10, <3>2 DEF NodeOf, LastRow
        <4>2. frames'[i].row = Len(log) + 1 /\ i - 1 = Depth
          BY <1>1, <2>4, <2>6, <3>2
        <4>3. log'[(Len(log) + 1) + 1 - 1] = Lowered(node, Depth)
          BY <1>1, <2>3, <2>7
        <4>4. /\ Len(call_stack_cache') = (Len(log) + 1) - (Len(log) + 1) + 1
              /\ \A j \in 1..Len(call_stack_cache') :
                   log'[(Len(log) + 1) + j - 1] = Lowered(call_stack_cache'[j], Depth)
          BY <1>1, <2>8, <4>3
        <4>5. QED
          BY <4>1, <4>2, <4>4 DEF Lists
      <3>3. QED
        BY <1>1, <3>1, <3>2
    <2>13. GraphIsCallTree'
      <3>1. record' = <<>>
        BY <1>0 DEF FramesInOrder
      <3>2. QED
        BY <2>10, <2>12, <3>1 DEF GraphIsCallTree
    <2>14. DepthChain'
      BY <1>0, <1>1, <1>2a, <2>1, <2>10 DEF DepthChain
    <2>15. QED
      BY <2>9, <2>11, <2>13, <2>14
  <1>5. QED
    BY <1>3, <1>4

-----------------------------------------------------------------------------
(* Returns                                                                  *)

\* A returning frame's node becomes a child of its caller's; the transaction's
\* own node, once it ends, is the whole log.
LEMMA EndFrameKeepsInv ==
  ASSUME IInv, Recording, EndFrame, is_delegate_call' \in BOOLEAN,
         stopped' \in BOOLEAN,
         UNCHANGED <<inner, contract_to_logic, calls, accesses, log, delegations>>
  PROVE  IInv'
  <1> USE DEF IInv
  <1>0. /\ phase = "running" /\ inner = <<>> /\ inner' = inner /\ log' = log
        /\ delegations' = delegations /\ contract_to_logic' = contract_to_logic
        /\ calls' = calls /\ accesses' = accesses /\ record = <<>>
    BY DEF Recording, FramesInOrder
  <1>1. /\ Depth \in Nat \ {0} /\ Len(frames) = Depth
        /\ \A i \in 1..Depth : frames[i] \in Frame
        /\ Top \in Frame /\ Len(log) \in Nat
    BY <1>0, TopFrame
  <1>2. CASE Depth = 1
    <2> DEFINE saved == [call_graph |-> call_stack_cache,
                         delegatecall_record |-> contract_to_logic]
    <2>1. /\ phase' = "saved" /\ frames' = <<>> /\ record' = <<saved>>
          /\ UNCHANGED <<call_stack_cache, env, call_depth>>
      BY <1>2 DEF EndFrame, Save
    <2>2. /\ Len(call_stack_cache) = Len(log)
          /\ \A j \in 1..Len(log) : log[j] = Lowered(call_stack_cache[j], 0)
      BY <1>0, <1>1, <1>2 DEF GraphIsCallTree, Lists, NodeOf, LastRow, FramesInOrder
    <2>3. \A j \in 1..Len(log) : log[j] = call_stack_cache[j]
      <3>1. \A j \in 1..Len(log) : call_stack_cache[j] \in Row
        BY <2>2, ElementOfSeq DEF TypeOK
      <3>2. QED
        BY <2>2, <3>1, LoweredByZero
    <2>4. call_stack_cache = log
      BY <2>2, <2>3, SeqEqual DEF TypeOK
    <2>5. saved.call_graph = log /\ saved \in [call_graph: Seq(Row),
            delegatecall_record: [Address -> Callee \union {NoLink}]]
      BY <2>4 DEF TypeOK
    <2> HIDE DEF saved
    <2>6. TypeOK'
      BY <1>0, <2>1, <2>5 DEF TypeOK
    <2>7. Depth' = 0 /\ Len(record') = 1 /\ record'[1] = saved
      BY <2>1 DEF Depth
    <2>8. FramesInOrder'
      BY <1>0, <2>1, <2>7 DEF FramesInOrder
    <2>9. GraphIsCallTree'
      BY <1>0, <2>5, <2>7 DEF GraphIsCallTree
    <2>10. DepthChain'
      BY <2>1 DEF DepthChain
    <2>11. QED
      BY <2>6, <2>8, <2>9, <2>10
  <1>3. CASE Depth # 1
    <2> DEFINE D == Depth - 1
    <2>1. /\ frames' = Below /\ phase' = phase /\ record' = record
          /\ call_stack_cache' = add_child(Top.node_cache, call_stack_cache)
          /\ env' = Top.old_env /\ call_depth' = call_depth - 1
      BY <1>3 DEF EndFrame, Restore
    <2>2. Top.node_cache \in Seq(Row) /\ Top.old_env \in Env /\ D \in 1..Depth
          /\ D \in Nat \ {0} /\ Depth = D + 1 /\ Top = frames[D + 1]
      BY <1>1, <1>3 DEF Frame, Top
    <2>3. /\ frames' \in Seq(Frame) /\ Len(frames') = D
          /\ \A i \in 1..D : frames'[i] = frames[i]
      BY <1>1, <2>1, <2>2, SubSeqProperties DEF Below, TypeOK
    <2>4. Depth' = D
      BY <2>3 DEF Depth
    <2> HIDE DEF D
    <2>5. /\ call_stack_cache' \in Seq(Row)
      BY <2>1, <2>2, AddChildListing DEF TypeOK
    <2>6. FramesInOrder'
      <3>1. frames' # <<>>
        BY <2>2, <2>3, EmptySeq
      <3>2. QED
        BY <1>0, <1>1, <2>1, <2>2, <2>3, <2>4, <3>1 DEF FramesInOrder
    <2>7. /\ frames[D].row \in Nat /\ Top.row \in Nat
          /\ Lists(Top.node_cache, frames[D].row, Top.row - 1, D - 1)
          /\ Lists(call_stack_cache, Top.row, Len(log), (D - 1) + 1)
      <3>1. frames[D].row \in Nat /\ Top.row \in Nat
        BY <1>1, <2>2 DEF Frame
      <3>2. Lists(Top.node_cache, frames[D].row, Top.row - 1, D - 1)
        BY <2>2 DEF GraphIsCallTree, NodeOf, LastRow
      <3>3. Lists(call_stack_cache, Top.row, Len(log), (D - 1) + 1)
        <4>1. Lists(call_stack_cache, Top.row, Len(log), Depth - 1)
          BY <1>1 DEF GraphIsCallTree, NodeOf, LastRow, Top
        <4>2. Depth - 1 = (D - 1) + 1
          BY <2>2
        <4>3. QED
          BY <4>1, <4>2
      <3>4. QED
        BY <3>1, <3>2, <3>3
    <2>8. Lists(call_stack_cache', frames[D].row, Len(log), D - 1)
      <3>1. D - 1 \in Nat /\ call_stack_cache \in Seq(Row)
        BY <2>2 DEF TypeOK
      <3>2. QED
        BY <1>1, <2>1, <2>2, <2>7, <3>1, AddChildLists
    <2>9. ASSUME NEW i \in 1..D
          PROVE  Lists(NodeOf(i), frames[i].row, LastRow(i), i - 1)'
      <3>1. frames'[i].row = frames[i].row
        BY <2>3
      <3>2. CASE i = D
        BY <1>0, <2>4, <2>8, <3>1, <3>2 DEF Lists, NodeOf, LastRow
      <3>3. CASE i # D
        <4>1. i + 1 \in 1..D /\ i \in 1..Depth /\ i # Depth
          BY <2>2, <3>3
        <4>2. NodeOf(i)' = NodeOf(i) /\ LastRow(i)' = LastRow(i)
          BY <2>3, <2>4, <3>3, <4>1 DEF NodeOf, LastRow
        <4>3. Lists(NodeOf(i), frames[i].row, LastRow(i), i - 1)
          BY <4>1 DEF GraphIsCallTree
        <4>4. QED
          BY <1>0, <3>1, <4>2, <4>3 DEF Lists
      <3>4. QED
        BY <3>2, <3>3
    <2>10. GraphIsCallTree'
      BY <1>0, <2>1, <2>4, <2>9 DEF GraphIsCallTree
    <2>11. call_depth' = D - 1 /\ call_depth' \in Nat
      BY <1>0, <2>1, <2>2 DEF DepthChain
    <2>12. TypeOK'
      BY <1>0, <2>1, <2>2, <2>3, <2>5, <2>11 DEF TypeOK
    <2>13. DepthChain'
      BY <1>0, <2>4, <2>11, EmptySeq DEF DepthChain
    <2>14. QED
      BY <2>6, <2>10, <2>12, <2>13
  <1>4. QED
    BY <1>2, <1>3

-----------------------------------------------------------------------------
(* Init code and the calls below it                                         *)

\* Pushing an interpreter of the inner host
LEMMA PushInner ==
  ASSUME IInv, phase = "running", NEW e \in Inner, e.depth = call_depth,
         inner' = Append(inner, e), call_depth' = DepthOf(e), env' \in Env,
         calls' \in Nat,
         UNCHANGED <<phase, frames, recorded, is_delegate_call, accesses, record,
                     history>>
  PROVE  IInv'
  <1> USE DEF IInv
  <1>1. /\ inner' \in Seq(Inner) /\ Len(inner') = Len(inner) + 1
        /\ Len(inner) \in Nat
        /\ \A i \in 1..Len(inner) : inner'[i] = inner[i]
        /\ inner'[Len(inner) + 1] = e
    BY AppendProperties, LenProperties DEF TypeOK
  <1>2. inner' # <<>> /\ TopInner' = e
    BY <1>1, EmptySeq DEF TopInner
  <1>3. call_depth' \in Nat
    BY DEF DepthOf, Inner
  <1>4. TypeOK'
    BY <1>1, <1>3 DEF TypeOK, recorded, history
  <1>5. Depth' = Depth
    BY DEF Depth
  <1>6. DepthChain'
    <2>1. ASSUME NEW i \in 1..Len(inner')
          PROVE  inner'[i].depth = IF i = 1 THEN Depth - 1
                                            ELSE DepthOf(inner'[i - 1])
      <3>1. CASE i \in 1..Len(inner)
        <4>1. inner'[i] = inner[i] /\ (i # 1 => inner'[i - 1] = inner[i - 1])
          BY <1>1, <3>1
        <4>2. QED
          BY <3>1, <4>1 DEF DepthChain
      <3>2. CASE i = Len(inner) + 1 /\ Len(inner) = 0
        <4>1. inner = <<>>
          BY <3>2, EmptySeq DEF TypeOK
        <4>2. QED
          BY <1>1, <3>2, <4>1 DEF DepthChain
      <3>3. CASE i = Len(inner) + 1 /\ Len(inner) # 0
        <4>1. inner # <<>> /\ i # 1 /\ inner'[i - 1] = TopInner
          BY <1>1, <3>3, EmptySeq DEF TopInner
        <4>2. QED
          BY <1>1, <3>3, <4>1 DEF DepthChain
      <3>4. QED
        BY <1>1, <3>1, <3>2, <3>3
    <2>2. QED
      BY <1>2, <1>5, <2>1 DEF DepthChain
  <1>7. QED
    BY <1>4, <1>6, InnerKeepsGraph DEF recorded, history

\* FuzzHost::create starting init code
LEMMA CreateKeepsInv ==
  ASSUME IInv, NEW f \in Fresh, Create(f)
  PROVE  IInv'
  <1> DEFINE e == [kind |-> "init", address |-> f, selector |-> NoInput,
                   old_env |-> env, depth |-> call_depth]
  <1>1. e \in Inner /\ e.depth = call_depth /\ DepthOf(e) = call_depth
    BY ReplayAssumption DEF Inner, IInv, TypeOK, Address, DepthOf
  <1>2. /\ phase = "running" /\ inner' = Append(inner, e)
        /\ call_depth' = call_depth /\ env' = env
        /\ UNCHANGED <<phase, frames, recorded, is_delegate_call, accesses, record,
                       history>>
    BY DEF Create
  <1>3. calls' \in Nat /\ env' \in Env
    BY <1>2 DEF Create, IInv, TypeOK
  <1> HIDE DEF e
  <1>4. QED
    BY <1>1, <1>2, <1>3, PushInner

\* FuzzHost::call below init code
LEMMA InnerCallKeepsInv ==
  ASSUME IInv, NEW s \in Scheme, NEW to \in Address, NEW sel \in Selector,
         InnerCall(s, to, sel)
  PROVE  IInv'
  <1> DEFINE address == Storage(s, TopInner.address, to)
             e == [kind |-> "call", address |-> address, selector |-> sel,
                   old_env |-> env, depth |-> call_depth]
  <1>1. address \in Address
    <2>1. inner # <<>> /\ Len(inner) \in Nat
      BY LenProperties DEF InnerCall, InitCode, IInv, TypeOK
    <2>2. Len(inner) \in 1..Len(inner)
      BY <2>1, EmptySeq DEF IInv, TypeOK
    <2>3. TopInner \in Inner
      BY <2>2, ElementOfSeq DEF TopInner, IInv, TypeOK
    <2>4. QED
      BY <2>3 DEF Storage, Inner
  <1>2. e \in Inner /\ e.depth = call_depth /\ DepthOf(e) = call_depth + 1
    BY <1>1 DEF Inner, IInv, TypeOK, DepthOf
  <1>3. /\ phase = "running" /\ inner' = Append(inner, e)
        /\ call_depth' = call_depth + 1 /\ env' = [to |-> address, data |-> sel]
        /\ UNCHANGED <<phase, frames, recorded, is_delegate_call, accesses, record,
                       history>>
    BY DEF InnerCall, InitCode
  <1>4. calls' \in Nat /\ env' \in Env
    BY <1>1, <1>3 DEF InnerCall, IInv, TypeOK, Env
  <1> HIDE DEF e, address
  <1>5. QED
    BY <1>2, <1>3, <1>4, PushInner

\* An interpreter of the inner host ends.
LEMMA InnerReturnKeepsInv ==
  ASSUME IInv, InnerReturn
  PROVE  IInv'
  <1> USE DEF IInv
  <1>0. /\ phase = "running" /\ inner # <<>>
        /\ inner' = SubSeq(inner, 1, Len(inner) - 1)
        /\ UNCHANGED <<phase, frames, recorded, is_delegate_call, calls, accesses,
                       record, history>>
    BY DEF InnerReturn, InitCode
  <1>1. Len(inner) \in Nat \ {0} /\ TopInner \in Inner
    <2>1. Len(inner) \in Nat \ {0}
      BY <1>0, LenProperties, EmptySeq DEF TypeOK
    <2>2. QED
      BY <2>1, ElementOfSeq DEF TopInner, TypeOK
  <1>2. /\ inner' \in Seq(Inner) /\ Len(inner') = Len(inner) - 1
        /\ \A i \in 1..(Len(inner) - 1) : inner'[i] = inner[i]
    <2> DEFINE m == Len(inner) - 1
    <2>1. m \in Nat /\ m <= Len(inner) /\ inner \in Seq(Inner)
      BY <1>1 DEF TypeOK
    <2>2. \A i \in 1..m : i \in 1..Len(inner)
      BY <1>1
    <2>3. \A i \in 1..m : inner[i] \in Inner
      BY <2>1, <2>2, ElementOfSeq
    <2>4. inner' = SubSeq(inner, 1, m)
      BY <1>0
    <2> HIDE DEF m
    <2>5. /\ SubSeq(inner, 1, m) \in Seq(Inner) /\ Len(SubSeq(inner, 1, m)) = m
          /\ \A i \in 1..m : SubSeq(inner, 1, m)[i] = inner[i]
      BY <2>1, <2>2, <2>3, SubSeqProperties
    <2>6. QED
      BY <2>4, <2>5 DEF m
  <1>3. call_depth' = TopInner.depth /\ env' \in Env /\ TopInner.depth \in Nat
    <2>1. call_depth = DepthOf(TopInner)
      BY <1>0 DEF DepthChain
    <2>2. CASE TopInner.kind = "call"
      BY <1>1, <2>1, <2>2 DEF InnerReturn, Restore, DepthOf, Inner
    <2>3. CASE TopInner.kind # "call"
      BY <1>1, <2>1, <2>3 DEF InnerReturn, DepthOf, Inner, TypeOK
    <2>4. QED
      BY <2>2, <2>3
  <1>4. TypeOK'
    BY <1>0, <1>2, <1>3 DEF TypeOK, recorded, history
  <1>5. Depth' = Depth
    BY <1>0 DEF Depth
  <1>6. DepthChain'
    <2>1. call_depth' = IF inner' = <<>> THEN Depth - 1 ELSE DepthOf(TopInner')
      <3>1. CASE Len(inner) = 1
        <4>1. inner' = <<>>
          BY <1>2, <3>1, EmptySeq
        <4>2. TopInner.depth = Depth - 1
          BY <1>0, <3>1 DEF DepthChain, TopInner
        <4>3. QED
          BY <1>3, <4>1, <4>2
      <3>2. CASE Len(inner) # 1
        <4>1. inner' # <<>> /\ TopInner' = inner[Len(inner) - 1]
          BY <1>1, <1>2, <3>2, EmptySeq DEF TopInner
        <4>2. TopInner.depth = DepthOf(inner[Len(inner) - 1])
          <5>1. Len(inner) \in 1..Len(inner)
            BY <1>1
          <5>2. inner[Len(inner)].depth = DepthOf(inner[Len(inner) - 1])
            BY <1>0, <3>2, <5>1 DEF DepthChain
          <5>3. QED
            BY <5>2 DEF TopInner
        <4>3. QED
          BY <1>3, <4>1, <4>2
      <3>3. QED
        BY <3>1, <3>2
    <2>2. ASSUME NEW i \in 1..Len(inner')
          PROVE  inner'[i].depth = IF i = 1 THEN Depth - 1
                                            ELSE DepthOf(inner'[i - 1])
      <3>1. /\ i \in 1..Len(inner) /\ inner'[i] = inner[i]
            /\ i # 1 => inner'[i - 1] = inner[i - 1]
        BY <1>1, <1>2
      <3>2. QED
        BY <1>0, <3>1 DEF DepthChain
    <2>3. QED
      BY <1>5, <2>1, <2>2 DEF DepthChain
  <1>7. QED
    BY <1>0, <1>4, <1>6, InnerKeepsGraph DEF recorded, history

-----------------------------------------------------------------------------
(* The theorems                                                             *)

\* Every step keeps the inductive invariant.
LEMMA ReplayNext == IInv /\ [Next]_vars => IInv'
  <1> SUFFICES ASSUME IInv, [Next]_vars PROVE IInv'
    OBVIOUS
  <1>1. CASE SLoad \/ SStore
    BY <1>1, AccessKeepsInv
  <1>2. CASE Return
    <2>1. is_delegate_call' \in BOOLEAN /\ stopped' \in BOOLEAN
      BY <1>2 DEF Return, history, IInv, TypeOK
    <2>2. QED
      BY <1>2, <2>1, EndFrameKeepsInv DEF Return, history
  <1>3. CASE MalformedDelegateCall
    BY <1>3, EndFrameKeepsInv DEF MalformedDelegateCall
  <1>4. CASE InnerReturn
    BY <1>4, InnerReturnKeepsInv
  <1>5. CASE \E s \in Scheme, a \in Callee, f \in Selector : Call(s, a, f)
    BY <1>5, CallKeepsInv
  <1>6. CASE \E s \in Scheme, a \in Address, f \in Selector : InnerCall(s, a, f)
    BY <1>6, InnerCallKeepsInv
  <1>7. CASE \E f \in Fresh : Create(f)
    BY <1>7, CreateKeepsInv
  <1>8. CASE UNCHANGED vars
    <2>1. UNCHANGED <<phase, frames, inner, call_stack_cache, contract_to_logic,
                      is_delegate_call, env, call_depth, calls, accesses, record,
                      log, delegations, stopped>>
      BY <1>8 DEF vars, recorded, history
    <2>2. TypeOK' /\ FramesInOrder' /\ DepthChain'
      BY <2>1 DEF IInv, TypeOK, FramesInOrder, DepthChain, Depth, TopInner
    <2>3. GraphIsCallTree'
      BY <2>1 DEF IInv, GraphIsCallTree, Depth, NodeOf, LastRow, Lists
    <2>4. QED
      BY <2>2, <2>3 DEF IInv
  <1>9. QED
    BY <1>1, <1>2, <1>3, <1>4, <1>5, <1>6, <1>7, <1>8 DEF Next

\* The inductive invariant: types, stack order, depth and the graph together.
THEOREM ReplayInductive == Spec => []IInv
  BY ReplayInit, ReplayNext, PTL DEF Spec

\* replay_host.rs keeps its types; sub_call_depth never underflows.
THEOREM ReplayTypeCorrect == Spec => []TypeOK
  <1>1. IInv => TypeOK
    BY DEF IInv
  <1>2. QED
    BY <1>1, ReplayInductive, PTL

\* The saved call graph, and every partial node before it, is exactly the tree
\* of the calls the transaction made (call and replay_call of replay_host.rs).
THEOREM CallGraphCorrect == Spec => []GraphIsCallTree
  <1>1. IInv => GraphIsCallTree
    BY DEF IInv
  <1>2. QED
    BY <1>1, ReplayInductive, PTL

-----------------------------------------------------------------------------
(* Proxies                                                                  *)

\* Until a DELEGATECALL stops on its operands, the flag is down between two
\* opcodes.
FlagDown == ~stopped => ~is_delegate_call

\* No link and no flag at the start
LEMMA ProxyInit == Init => FlagDown /\ ProxyByDelegateCall
  BY DEF Init, RootNode, RootFrame, FlagDown, ProxyByDelegateCall, ProxyIsDelegate

\* Only a DELEGATECALL with the caller's own selector adds a link.
LEMMA ProxyNext ==
  ASSUME IInv, FlagDown, ProxyByDelegateCall, [Next]_vars
  PROVE  FlagDown' /\ ProxyByDelegateCall'
  <1> USE DEF FlagDown
  <1>1. CASE UNCHANGED <<is_delegate_call, contract_to_logic, delegations, stopped>>
    BY <1>1 DEF ProxyByDelegateCall, ProxyIsDelegate
  <1>2. CASE \E s \in Scheme, a \in Callee, f \in Selector : Call(s, a, f)
    <2>1. PICK s \in Scheme, to \in Callee, f \in Selector : Call(s, to, f)
      BY <1>2
    <2>2. Top.address \in Address
      <3>1. phase = "running"
        BY <2>1 DEF Call, replay_call, Recording
      <3>2. Top \in Frame
        BY <3>1, TopFrame DEF IInv
      <3>3. QED
        BY <3>2 DEF Frame
    <2>3. CASE stopped
      BY <2>1, <2>3 DEF Call, replay_call, ProxyByDelegateCall
    <2>4. CASE ~stopped
      <3>1. ~is_delegate_call /\ ProxyIsDelegate
        BY <2>4 DEF ProxyByDelegateCall
      <3>2. is_delegate_call' = FALSE
        BY <2>1 DEF Call, replay_call, Cleared
      <3>3. contract_to_logic' =
               IF s = "DelegateCall" /\ f = Top.selector
                 THEN [contract_to_logic EXCEPT ![Top.address] = to]
                 ELSE contract_to_logic
        BY <2>1, <3>1 DEF Call, replay_call, Linked
      <3>4. delegations' =
               IF s = "DelegateCall" /\ f = Top.selector
                 THEN delegations \union {<<Top.address, to>>} ELSE delegations
        BY <2>1 DEF Call, replay_call
      <3>5. contract_to_logic \in [Address -> Callee \union {NoLink}]
        BY DEF IInv, TypeOK
      <3>6. ProxyIsDelegate'
        BY <2>2, <3>1, <3>3, <3>4, <3>5 DEF ProxyIsDelegate
      <3>7. QED
        BY <3>2, <3>6 DEF ProxyByDelegateCall
    <2>5. QED
      BY <2>3, <2>4
  <1>3. CASE Next
    <2>1. CASE SLoad \/ SStore
      BY <1>1, <2>1 DEF SLoad, SStore, Access
    <2>2. CASE Return
      BY <1>1, <2>2 DEF Return, history
    <2>3. CASE MalformedDelegateCall
      BY <2>3 DEF MalformedDelegateCall, ProxyByDelegateCall
    <2>4. CASE InnerReturn
      BY <1>1, <2>4 DEF InnerReturn, recorded, history
    <2>5. CASE \E s \in Scheme, a \in Address, f \in Selector : InnerCall(s, a, f)
      BY <1>1, <2>5 DEF InnerCall, recorded, history
    <2>6. CASE \E f \in Fresh : Create(f)
      BY <1>1, <2>6 DEF Create, recorded, history
    <2>7. QED
      BY <1>2, <1>3, <2>1, <2>2, <2>3, <2>4, <2>5, <2>6 DEF Next
  <1>4. CASE UNCHANGED vars
    BY <1>1, <1>4 DEF vars, recorded, history
  <1>5. QED
    BY <1>3, <1>4

\* As long as no DELEGATECALL stops on its operands, a recorded proxy did
\* delegate the selector it was called with (the comment at
\* replay_host.rs:402-404).
THEOREM ProxiesDelegate == Spec => []ProxyByDelegateCall
  <1> DEFINE P == FlagDown /\ ProxyByDelegateCall
  <1>1. Init => P
    BY ProxyInit
  <1>2. IInv /\ P /\ [Next]_vars => P'
    BY ProxyNext
  <1>3. QED
    BY <1>1, <1>2, ReplayInductive, PTL DEF Spec

-----------------------------------------------------------------------------
(* The environment                                                          *)

EnvOf(f) == [to |-> f.address, data |-> f.selector]

\* e is the environment of the innermost call among the first k interpreters s
\* of the inner host, or, without one, of f, the innermost of the replay host.
Serves(s, f, k, e) ==
  IF \E i \in 1..k : s[i].kind = "call"
    THEN \E i \in 1..k :
           /\ s[i].kind = "call"
           /\ \A j \in i+1..k : s[j].kind = "init"
           /\ e = EnvOf(s[i])
    ELSE e = EnvOf(f)

\* What was saved on the way up serves the interpreter below.
EnvChain ==
  phase = "running" =>
    /\ \A i \in 2..Depth : frames[i].old_env = EnvOf(frames[i - 1])
    /\ \A k \in 1..Len(inner) : Serves(inner, Top, k - 1, inner[k].old_env)
    /\ Serves(inner, Top, Len(inner), env)

\* Only the first k interpreters matter.
LEMMA ServesPrefix ==
  ASSUME NEW s, NEW t, NEW f, NEW k \in Nat, NEW e, \A i \in 1..k : t[i] = s[i],
         Serves(s, f, k, e)
  PROVE  Serves(t, f, k, e)
  <1>1. \A i \in 1..k : \A j \in i+1..k : j \in 1..k
    OBVIOUS
  <1>2. QED
    BY <1>1 DEF Serves

\* A call runs in its own environment.
LEMMA ServesCall ==
  ASSUME NEW s, NEW f, NEW n \in Nat, s[n + 1].kind = "call"
  PROVE  Serves(s, f, n + 1, EnvOf(s[n + 1]))
  <1>1. n + 1 \in 1..(n + 1) /\ \A j \in (n + 1)+1..(n + 1) : FALSE
    OBVIOUS
  <1>2. QED
    BY <1>1 DEF Serves

\* Init code runs in the environment of its creator.
LEMMA ServesInit ==
  ASSUME NEW s, NEW f, NEW n \in Nat, NEW e, s[n + 1].kind = "init"
  PROVE  Serves(s, f, n, e) <=> Serves(s, f, n + 1, e)
  <1>1. \A i \in 1..(n + 1) : s[i].kind = "call" => i \in 1..n
    OBVIOUS
  <1>2. \A i \in 1..n : /\ i \in 1..(n + 1)
                        /\ \A j \in i+1..(n + 1) : j \in i+1..n \/ j = n + 1
                        /\ \A j \in i+1..n : j \in i+1..(n + 1)
    OBVIOUS
  <1>3. (\E i \in 1..n : s[i].kind = "call") <=> (\E i \in 1..(n + 1) : s[i].kind = "call")
    BY <1>1, <1>2
  <1>4. \A i \in 1..n : (\A j \in i+1..n : s[j].kind = "init")
                         <=> (\A j \in i+1..(n + 1) : s[j].kind = "init")
    BY <1>2
  <1>5. QED
    BY <1>1, <1>2, <1>3, <1>4 DEF Serves

\* The root alone runs in the transaction's environment.
LEMMA EnvInit == Init => EnvChain
  <1> SUFFICES ASSUME Init PROVE EnvChain
    OBVIOUS
  <1>1. frames = <<RootFrame>> /\ inner = <<>> /\ env = EnvOf(RootFrame)
    BY DEF Init, EnvOf, RootFrame
  <1>2. Depth = 1 /\ Len(inner) = 0 /\ Top = RootFrame
    BY <1>1 DEF Depth, Top
  <1>3. QED
    BY <1>1, <1>2 DEF EnvChain, Serves

\* The inner host puts an interpreter on top, which runs in its own environment
\* if it was called, and in that of its creator if not.
LEMMA EnvPushInner ==
  ASSUME IInv, EnvChain, NEW e \in Inner,
         phase = "running", UNCHANGED <<phase, frames>>,
         inner' = Append(inner, e), e.old_env = env,
         env' = IF e.kind = "call" THEN EnvOf(e) ELSE env
  PROVE  EnvChain'
  <1> DEFINE n == Len(inner)
  <1>1. n \in Nat /\ inner \in Seq(Inner)
    BY LenProperties DEF IInv, TypeOK
  <1>2. /\ Len(inner') = n + 1 /\ inner'[n + 1] = e
        /\ \A i \in 1..n : inner'[i] = inner[i]
    BY <1>1, AppendProperties
  <1> HIDE DEF n
  <1>3. Depth' = Depth /\ Top' = Top
    BY DEF Depth, Top
  <1>4. ASSUME NEW k \in 1..(n + 1)
        PROVE  Serves(inner', Top, k - 1, inner'[k].old_env)
    <2>1. k - 1 \in Nat /\ \A i \in 1..(k - 1) : inner'[i] = inner[i]
      BY <1>1, <1>2
    <2>2. Serves(inner, Top, k - 1, inner'[k].old_env)
      <3>1. CASE k \in 1..n
        BY <1>2, <3>1 DEF EnvChain, n
      <3>2. CASE k = n + 1
        <4>1. k - 1 = n /\ inner'[k].old_env = env
          BY <1>1, <1>2, <3>2
        <4>2. QED
          BY <4>1 DEF EnvChain, n
      <3>3. k \in 1..n \/ k = n + 1
        BY <1>1
      <3>4. QED
        BY <3>1, <3>2, <3>3
    <2>3. QED
      BY <2>1, <2>2, ServesPrefix
  <1>5. Serves(inner', Top, n + 1, env')
    <2>1. CASE e.kind = "call"
      BY <1>1, <1>2, <2>1, ServesCall
    <2>2. CASE e.kind # "call"
      <3>1. inner'[n + 1].kind = "init" /\ env' = env
        BY <1>2, <2>2 DEF Inner
      <3>2. Serves(inner, Top, n, env')
        BY <3>1 DEF EnvChain, n
      <3>3. Serves(inner', Top, n, env')
        BY <1>1, <1>2, <3>2, ServesPrefix
      <3>4. QED
        BY <1>1, <3>1, <3>3, ServesInit
    <2>3. QED
      BY <2>1, <2>2
  <1>6. \A i \in 2..Depth' : frames'[i].old_env = EnvOf(frames'[i - 1])
    BY <1>3 DEF EnvChain
  <1>7. /\ \A k \in 1..Len(inner') : Serves(inner', Top', k - 1, inner'[k].old_env)
        /\ Serves(inner', Top', Len(inner'), env')
    BY <1>2, <1>3, <1>4, <1>5
  <1>8. QED
    BY <1>6, <1>7 DEF EnvChain, EnvOf, Serves

\* An interpreter of the inner host ends: a call restores what it had saved.
LEMMA EnvInnerReturn ==
  ASSUME IInv, EnvChain, InnerReturn
  PROVE  EnvChain'
  <1> DEFINE n == Len(inner)
  <1>1. n \in Nat \ {0} /\ inner \in Seq(Inner)
    BY LenProperties, EmptySeq DEF IInv, TypeOK, InnerReturn, InitCode
  <1>2. inner[n] \in Inner
    BY <1>1
  <1>3. /\ inner' = SubSeq(inner, 1, n - 1) /\ UNCHANGED <<phase, frames>>
        /\ phase = "running"
        /\ env' = IF inner[n].kind = "call" THEN inner[n].old_env ELSE env
    BY DEF InnerReturn, InitCode, TopInner, Restore
  <1>4. Len(inner') = n - 1 /\ \A i \in 1..(n - 1) : inner'[i] = inner[i]
    <2> HIDE DEF n
    <2>1. 1 \in Int /\ n - 1 \in Int /\ \A i \in 1..(n - 1) : inner[i] \in Inner
      BY <1>1 DEF n
    <2>2. /\ Len(SubSeq(inner, 1, n - 1)) = IF 1 <= n - 1 THEN n - 1 - 1 + 1 ELSE 0
          /\ \A i \in 1..(n - 1 - 1 + 1) :
               SubSeq(inner, 1, n - 1)[i] = inner[1 + i - 1]
      BY <2>1, SubSeqProperties
    <2>3. QED
      BY <1>1, <1>3, <2>2
  <1> HIDE DEF n
  <1>5. Depth' = Depth /\ Top' = Top
    BY <1>3 DEF Depth, Top
  <1>6. ASSUME NEW k \in 1..(n - 1)
        PROVE  Serves(inner', Top, k - 1, inner'[k].old_env)
    <2>1. k \in 1..n /\ k - 1 \in Nat /\ \A i \in 1..(k - 1) : inner'[i] = inner[i]
      BY <1>1, <1>4
    <2>2. Serves(inner, Top, k - 1, inner'[k].old_env)
      BY <1>3, <1>4, <2>1 DEF EnvChain, n
    <2>3. QED
      BY <2>1, <2>2, ServesPrefix
  <1>7. Serves(inner, Top, n - 1, env')
    <2>1. CASE inner[n].kind = "call"
      BY <1>1, <1>3, <2>1 DEF EnvChain, n
    <2>2. CASE inner[n].kind # "call"
      <3>1. inner[(n - 1) + 1].kind = "init" /\ n - 1 \in Nat /\ (n - 1) + 1 = n
        BY <1>1, <1>2, <2>2 DEF Inner
      <3>2. Serves(inner, Top, (n - 1) + 1, env) /\ env' = env
        BY <1>3, <2>2, <3>1 DEF EnvChain, n
      <3>3. QED
        BY <3>1, <3>2, ServesInit
    <2>3. QED
      BY <2>1, <2>2
  <1>8. Serves(inner', Top, n - 1, env')
    BY <1>1, <1>4, <1>7, ServesPrefix
  <1>9. \A i \in 2..Depth' : frames'[i].old_env = EnvOf(frames'[i - 1])
    BY <1>3, <1>5 DEF EnvChain
  <1>10. QED
    BY <1>4, <1>5, <1>6, <1>8, <1>9 DEF EnvChain, EnvOf, Serves

\* While the replay host records, the inner host is idle, and only the chain of
\* its own frames counts.
LEMMA EnvOfFrames ==
  ASSUME inner = <<>>, phase = "running"
  PROVE  EnvChain <=> /\ \A i \in 2..Depth : frames[i].old_env = EnvOf(frames[i - 1])
                      /\ env = EnvOf(Top)
  BY DEF EnvChain, Serves

\* The same of the next state.
LEMMA EnvOfFramesNext ==
  ASSUME inner' = <<>>, phase' = "running"
  PROVE  EnvChain' <=> /\ \A i \in 2..Depth' : frames'[i].old_env = EnvOf(frames'[i - 1])
                       /\ env' = EnvOf(Top')
  BY DEF EnvChain, Serves, EnvOf

\* replay_call saves the environment of its caller and sets the callee's.
LEMMA EnvCall ==
  ASSUME IInv, EnvChain, NEW s \in Scheme, NEW to \in Callee, NEW f \in Selector,
         Call(s, to, f)
  PROVE  EnvChain'
  <1>1. /\ phase = "running" /\ inner = <<>> /\ phase' = "running" /\ inner' = <<>>
    BY DEF Call, replay_call, Recording
  <1>2. /\ \A i \in 2..Depth : frames[i].old_env = EnvOf(frames[i - 1])
        /\ env = EnvOf(Top)
    BY <1>1, EnvOfFrames
  <1>3. CASE to \in Precompile
    BY <1>1, <1>2, <1>3, EnvOfFramesNext DEF Call, replay_call, Depth, Top, EnvOf
  <1>4. CASE to \notin Precompile
    <2> DEFINE a == Storage(s, Top.address, to)
               new == [address |-> a, selector |-> f, node_cache |-> call_stack_cache,
                       old_env |-> env, row |-> Len(log) + 1]
               n == Depth
    <2>1. frames' = Append(frames, new) /\ env' = [to |-> a, data |-> f]
      BY <1>4 DEF Call, replay_call
    <2>2. n \in Nat \ {0} /\ Len(frames) = n
      BY <1>1, TopFrame DEF IInv
    <2>3. Top = frames[n]
      BY DEF Top
    <2> HIDE DEF new, n
    <2>4. /\ Len(frames') = n + 1 /\ frames'[n + 1] = new
          /\ \A i \in 1..n : frames'[i] = frames[i]
      <3>1. \A i \in 1..(n + 1) :
              Append(frames, new)[i] = IF i = n + 1 THEN new ELSE frames[i]
        BY <2>2 DEF IInv, TypeOK
      <3>2. Len(Append(frames, new)) = n + 1
        BY <2>2 DEF IInv, TypeOK
      <3>3. QED
        BY <2>1, <2>2, <3>1, <3>2
    <2>5. Depth' = n + 1 /\ Top' = new
      BY <2>4 DEF Depth, Top
    <2>6. new.old_env = EnvOf(frames[n]) /\ env' = EnvOf(new)
      BY <1>2, <2>1, <2>3 DEF new, EnvOf
    <2>7. ASSUME NEW i \in 2..(n + 1)
          PROVE  frames'[i].old_env = EnvOf(frames'[i - 1])
      <3>1. i - 1 \in 1..n
        BY <2>2
      <3>2. CASE i = n + 1
        BY <2>2, <2>4, <2>6, <3>1, <3>2
      <3>3. CASE i # n + 1
        <4>1. i \in 2..n /\ i \in 1..n
          BY <2>2, <3>3
        <4>2. frames[i].old_env = EnvOf(frames[i - 1])
          BY <1>2, <4>1 DEF n
        <4>3. QED
          BY <2>4, <3>1, <4>1, <4>2
      <3>4. QED
        BY <3>2, <3>3
    <2>8. QED
      BY <1>1, <2>5, <2>6, <2>7, EnvOfFramesNext
  <1>5. QED
    BY <1>3, <1>4

\* The tail of replay_call restores the caller's.
LEMMA EnvEndFrame ==
  ASSUME IInv, EnvChain, Recording, EndFrame, UNCHANGED inner
  PROVE  EnvChain'
  <1>1. phase = "running" /\ inner = <<>> /\ inner' = <<>>
    BY DEF Recording
  <1>2. CASE Depth = 1
    BY <1>2 DEF EndFrame, Save, EnvChain
  <1>3. CASE Depth # 1
    <2> DEFINE n == Depth
    <2>1. /\ frames' = SubSeq(frames, 1, n - 1) /\ env' = frames[n].old_env
          /\ phase' = "running"
      BY <1>1, <1>3 DEF EndFrame, Restore, Below, Top
    <2>2. n \in Nat /\ n > 1 /\ Len(frames) = n
      BY <1>1, <1>3, TopFrame DEF IInv
    <2> HIDE DEF n
    <2>3. Len(frames') = n - 1 /\ \A i \in 1..(n - 1) : frames'[i] = frames[i]
      <3>1. 1 \in Int /\ n - 1 \in Int /\ \A i \in 1..(n - 1) : frames[i] \in Frame
        BY <2>2 DEF IInv, TypeOK
      <3>2. /\ Len(SubSeq(frames, 1, n - 1)) = IF 1 <= n - 1 THEN n - 1 - 1 + 1 ELSE 0
            /\ \A i \in 1..(n - 1 - 1 + 1) :
                 SubSeq(frames, 1, n - 1)[i] = frames[1 + i - 1]
        BY <3>1, SubSeqProperties
      <3>3. QED
        BY <2>1, <2>2, <3>2
    <2>4. Depth' = n - 1 /\ Top' = frames[n - 1]
      BY <2>2, <2>3 DEF Depth, Top
    <2>5. \A i \in 2..n : frames[i].old_env = EnvOf(frames[i - 1])
      BY <1>1, EnvOfFrames DEF n
    <2>6. env' = EnvOf(Top')
      BY <2>1, <2>2, <2>4, <2>5
    <2>7. ASSUME NEW i \in 2..(n - 1)
          PROVE  frames'[i].old_env = EnvOf(frames'[i - 1])
      <3>1. i \in 2..n /\ i \in 1..(n - 1) /\ i - 1 \in 1..(n - 1)
        BY <2>2
      <3>2. QED
        BY <2>3, <2>5, <3>1
    <2>8. QED
      BY <1>1, <2>1, <2>4, <2>6, <2>7, EnvOfFramesNext
  <1>4. QED
    BY <1>2, <1>3

\* Every step leaves the environment of what is innermost then.
LEMMA EnvNext ==
  ASSUME IInv, EnvChain, [Next]_vars
  PROVE  EnvChain'
  <1>1. CASE UNCHANGED <<phase, frames, inner, env>>
    BY <1>1 DEF EnvChain, Serves, EnvOf, Top, Depth
  <1>2. CASE SLoad \/ SStore
    BY <1>1, <1>2 DEF SLoad, SStore, Access
  <1>3. CASE Return \/ MalformedDelegateCall
    BY <1>3, EnvEndFrame DEF Return, MalformedDelegateCall
  <1>4. CASE InnerReturn
    BY <1>4, EnvInnerReturn
  <1>5. CASE \E s \in Scheme, a \in Callee, f \in Selector : Call(s, a, f)
    BY <1>5, EnvCall
  <1>6. ASSUME NEW s \in Scheme, NEW to \in Address, NEW f \in Selector, InnerCall(s, to, f)
        PROVE  EnvChain'
    <2> DEFINE a == Storage(s, TopInner.address, to)
               e == [kind |-> "call", address |-> a, selector |-> f, old_env |-> env,
                     depth |-> call_depth]
    <2>1. /\ inner' = Append(inner, e) /\ env' = [to |-> a, data |-> f]
          /\ phase = "running" /\ UNCHANGED <<phase, frames>>
      BY <1>6 DEF InnerCall, InitCode
    <2>2. inner # <<>> /\ inner \in Seq(Inner) /\ env \in Env /\ call_depth \in Nat
      BY <1>6 DEF InnerCall, InitCode, IInv, TypeOK
    <2>3. TopInner \in Inner
      BY <2>2, EmptySeq DEF TopInner
    <2>4. a \in Address
      BY <2>3 DEF Storage, Inner
    <2>5. e \in Inner
      BY <2>2, <2>4 DEF Inner
    <2>6. e.old_env = env /\ e.kind = "call" /\ env' = EnvOf(e)
      BY <2>1 DEF EnvOf
    <2> HIDE DEF e
    <2>7. QED
      BY <2>1, <2>5, <2>6, EnvPushInner
  <1>7. ASSUME NEW f \in Fresh, Create(f)
        PROVE  EnvChain'
    <2> DEFINE e == [kind |-> "init", address |-> f, selector |-> NoInput, old_env |-> env,
                     depth |-> call_depth]
    <2>1. /\ inner' = Append(inner, e) /\ env' = env
          /\ phase = "running" /\ UNCHANGED <<phase, frames>>
      BY <1>7 DEF Create
    <2>2. e \in Inner
      BY ReplayAssumption DEF ReplayAssumption, IInv, TypeOK, Inner, Address
    <2>3. e.old_env = env /\ e.kind # "call"
      OBVIOUS
    <2> HIDE DEF e
    <2>4. QED
      BY <2>1, <2>2, <2>3, EnvPushInner
  <1>8. CASE UNCHANGED vars
    BY <1>1, <1>8 DEF vars
  <1>9. QED
    BY <1>2, <1>3, <1>4, <1>5, <1>6, <1>7, <1>8 DEF Next

\* Whatever calls and creations nest, env is that of the innermost call
\* (old_env in replay_call and FuzzHost::call, and create, which saves none).
THEOREM EnvironmentRestored == Spec => []EnvMatchesRun
  <1>1. EnvChain => EnvMatchesRun
    BY DEF EnvChain, Serves, EnvMatchesRun, EnvOf
  <1>2. IInv /\ EnvChain /\ [Next]_vars => EnvChain'
    BY EnvNext
  <1>3. QED
    BY <1>1, <1>2, EnvInit, ReplayInductive, PTL DEF Spec

-----------------------------------------------------------------------------
(* Sums over finite sets                                                    *)

\* A set of naturals with 0 and every successor of a member is all of Nat.
LEMMA Induction ==
  ASSUME NEW S, 0 \in S, \A n \in Nat : n \in S => n + 1 \in S
  PROVE  Nat \subseteq S
  <1> DEFINE Bad == {0..m : m \in Nat \ S}
             R   == StrictSubsetOrdering(Nat)
  <1>1. SUFFICES ASSUME Bad # {} PROVE FALSE
    OBVIOUS
  <1>2. Bad \subseteq FiniteSubsetsOf(Nat)
    <2>1. \A m \in Nat : IsFiniteSet(0..m) /\ 0..m \subseteq Nat
      BY FS_Interval
    <2>2. QED
      BY <2>1 DEF FiniteSubsetsOf
  <1>3. IsWellFoundedOn(R, FiniteSubsetsOf(Nat))
    BY FS_StrictSubsetOrderingWellFounded
  <1>4. PICK T \in Bad : \A U \in Bad : ~ (<<U, T>> \in R)
    <2> HIDE DEF Bad, R
    <2>1. QED BY <1>1, <1>2, <1>3, WFMin
  <1>5. PICK m \in Nat \ S : T = 0..m
    OBVIOUS
  <1>6. m # 0 /\ m - 1 \in Nat \ S
    OBVIOUS
  <1>7. 0..(m - 1) \in Bad
    BY <1>6
  <1>8. 0..(m - 1) \subseteq 0..m /\ 0..(m - 1) # 0..m
    <2>1. m \in 0..m /\ m \notin 0..(m - 1)
      BY <1>5
    <2>2. QED BY <2>1, <1>5
  <1>9. 0..(m - 1) \subseteq Nat /\ 0..m \subseteq Nat
    BY <1>5, <1>6
  <1>10. <<0..(m - 1), 0..m>> \in R
    BY <1>8, <1>9 DEF StrictSubsetOrdering
  <1>11. QED
    BY <1>4, <1>5, <1>7, <1>10

-----------------------------------------------------------------------------
\* The sum of f over the finite set S.
Sum(f, S) == SumFunctionOnSet(f, S)

\* The sum over s, given those over smaller sets.
Added(f, it, s) == IF s = {} THEN 0
                   ELSE f[CHOOSE x \in s : TRUE] + it[s \ {CHOOSE x \in s : TRUE}]

\* Such a sum for every subset of S.
Adds(f, it, S) == it = [s \in SUBSET S |-> Added(f, it, s)]

\* What the folds of the library define.
LEMMA SumIs ==
  ASSUME NEW f, NEW S
  PROVE  Sum(f, S) = (CHOOSE it : Adds(f, it, S))[S]
  BY DEF Sum, SumFunctionOnSet, FoldFunctionOnSet, MapThenFoldSet, Adds, Added

\* SumFunction of a function is its sum over its domain.
LEMMA SumFunctionIs ==
  ASSUME NEW f
  PROVE  SumFunction(f) = Sum(f, DOMAIN f)
  BY DEF SumFunction, Sum

\* Taking an element from a finite set.
LEMMA Smaller ==
  ASSUME NEW s, IsFiniteSet(s), NEW x \in s
  PROVE  /\ IsFiniteSet(s \ {x}) /\ Cardinality(s) \in Nat \ {0}
         /\ Cardinality(s \ {x}) = Cardinality(s) - 1
  BY FS_RemoveElement, FS_CardinalityType, FS_EmptySet

\* The recursive function of the sum exists.
LEMMA AddsExists ==
  ASSUME NEW f, NEW S, IsFiniteSet(S)
  PROVE  \E it : Adds(f, it, S)
  <1> DEFINE Small(n) == {s \in SUBSET S : Cardinality(s) <= n}
             N == {n \in Nat : \E it : it = [s \in Small(n) |-> Added(f, it, s)]}
  <1>1. \A s \in SUBSET S : IsFiniteSet(s) /\ Cardinality(s) \in Nat
    BY FS_Subset, FS_CardinalityType
  <1>2. 0 \in N
    <2> DEFINE it == [s \in Small(0) |-> 0]
    <2>1. \A s \in Small(0) : s = {}
      BY <1>1, FS_EmptySet
    <2>2. it = [s \in Small(0) |-> Added(f, it, s)]
      BY <2>1 DEF Added
    <2> HIDE DEF it, Small
    <2>3. QED BY <2>2
  <1>3. ASSUME NEW n \in Nat, n \in N PROVE n + 1 \in N
    <2>1. PICK it : it = [s \in Small(n) |-> Added(f, it, s)]
      BY <1>3
    <2> DEFINE g == [s \in Small(n + 1) |-> Added(f, it, s)]
    <2>2. \A s \in Small(n) : s \in Small(n + 1)
      BY <1>1
    <2>3. \A s \in Small(n) : g[s] = it[s]
      <3>1. \A s \in Small(n) : it[s] = Added(f, it, s)
        BY <2>1
      <3>2. \A s \in Small(n + 1) : g[s] = Added(f, it, s)
        OBVIOUS
      <3> HIDE DEF g, Small
      <3>3. QED BY <2>2, <3>1, <3>2
    <2>4. ASSUME NEW s \in Small(n + 1), s # {}
          PROVE  s \ {CHOOSE x \in s : TRUE} \in Small(n)
      <3> DEFINE x == CHOOSE x \in s : TRUE
      <3>1. x \in s
        BY <2>4
      <3> HIDE DEF x
      <3>2. IsFiniteSet(s) /\ Cardinality(s) \in Nat /\ Cardinality(s) <= n + 1 /\ s \subseteq S
        BY <1>1
      <3>3. Cardinality(s \ {x}) = Cardinality(s) - 1
        BY <3>1, <3>2, Smaller
      <3>4. Cardinality(s \ {x}) <= n
        BY <3>2, <3>3
      <3>5. s \ {x} \in Small(n)
        BY <3>2, <3>4
      <3>6. QED BY <3>5 DEF x
    <2>5. \A s \in Small(n + 1) : Added(f, g, s) = Added(f, it, s)
      <3> HIDE DEF g, Small
      <3>1. QED BY <2>3, <2>4 DEF Added
    <2>6. g = [s \in Small(n + 1) |-> Added(f, g, s)]
      <3>1. g = [s \in Small(n + 1) |-> g[s]] /\ \A s \in Small(n + 1) : g[s] = Added(f, it, s)
        OBVIOUS
      <3> HIDE DEF g, Small
      <3>2. QED BY <2>5, <3>1
    <2> HIDE DEF g, Small
    <2>7. QED BY <2>6
  <1>4. Cardinality(S) \in N
    <2>1. Cardinality(S) \in Nat
      BY <1>1
    <2> HIDE DEF N
    <2>2. QED BY <1>2, <1>3, <2>1, Induction
  <1>5. Small(Cardinality(S)) = SUBSET S
    BY FS_Subset, FS_CardinalityType
  <1>6. QED
    BY <1>4, <1>5 DEF Adds

\* It is the same function on the subsets of a smaller set.
LEMMA AddsAgree ==
  ASSUME NEW f, NEW S, IsFiniteSet(S), NEW T \in SUBSET S, NEW p, Adds(f, p, S),
         NEW q, Adds(f, q, T)
  PROVE  p[T] = q[T]
  <1> DEFINE N == {n \in Nat : \A s \in SUBSET T : Cardinality(s) = n => p[s] = q[s]}
  <1>1. \A s \in SUBSET T : /\ s \in SUBSET S /\ IsFiniteSet(s) /\ Cardinality(s) \in Nat
                            /\ p[s] = Added(f, p, s) /\ q[s] = Added(f, q, s)
    <2>1. ASSUME NEW s \in SUBSET T
          PROVE  /\ s \in SUBSET S /\ IsFiniteSet(s) /\ Cardinality(s) \in Nat
                 /\ p[s] = Added(f, p, s) /\ q[s] = Added(f, q, s)
      <3>1. s \in SUBSET S
        OBVIOUS
      <3>2. IsFiniteSet(s) /\ Cardinality(s) \in Nat
        BY <3>1, FS_Subset, FS_CardinalityType
      <3>3. p[s] = Added(f, p, s) /\ q[s] = Added(f, q, s)
        BY <3>1 DEF Adds
      <3>4. QED BY <3>1, <3>2, <3>3
    <2>2. QED BY <2>1
  <1>2. 0 \in N
    <2>1. ASSUME NEW s \in SUBSET T, Cardinality(s) = 0 PROVE p[s] = q[s]
      <3>1. s = {}
        BY <1>1, <2>1, FS_EmptySet
      <3>2. QED BY <1>1, <3>1 DEF Added
    <2>2. QED BY <2>1
  <1>3. ASSUME NEW n \in Nat, n \in N PROVE n + 1 \in N
    <2>1. ASSUME NEW s \in SUBSET T, Cardinality(s) = n + 1 PROVE p[s] = q[s]
      <3> DEFINE x == CHOOSE x \in s : TRUE
      <3>1. s # {}
        BY <1>3, <2>1, FS_EmptySet
      <3>2. x \in s
        BY <3>1
      <3> HIDE DEF x
      <3>3. Cardinality(s \ {x}) = Cardinality(s) - 1
        BY <1>1, <3>2, Smaller
      <3>4. Cardinality(s \ {x}) = n
        BY <1>3, <2>1, <3>3
      <3>5. p[s \ {x}] = q[s \ {x}]
        BY <1>3, <3>4
      <3>6. p[s] = f[x] + p[s \ {x}] /\ q[s] = f[x] + q[s \ {x}]
        BY <1>1, <3>1 DEF Added, x
      <3>7. QED BY <3>5, <3>6
    <2>2. QED BY <2>1
  <1>4. Nat \subseteq N
    <2> HIDE DEF N
    <2>1. QED BY <1>2, <1>3, Induction
  <1>5. QED
    BY <1>1, <1>4

\* A sum, one element at a time.
LEMMA SumChosen ==
  ASSUME NEW f, NEW S, IsFiniteSet(S)
  PROVE  /\ S = {} => Sum(f, S) = 0
         /\ S # {} => \E x \in S : Sum(f, S) = f[x] + Sum(f, S \ {x})
  <1> DEFINE p == CHOOSE it : Adds(f, it, S)
             x == CHOOSE x \in S : TRUE
             q == CHOOSE it : Adds(f, it, S \ {x})
  <1>1. Adds(f, p, S)
    BY AddsExists
  <1>2. Adds(f, q, S \ {x})
    <2>1. IsFiniteSet(S \ {x})
      BY FS_Subset
    <2> HIDE DEF x
    <2>2. QED BY <2>1, AddsExists
  <1>3. Sum(f, S) = p[S] /\ Sum(f, S \ {x}) = q[S \ {x}]
    BY SumIs
  <1> HIDE DEF p, q
  <1>4. p[S] = Added(f, p, S)
    BY <1>1 DEF Adds
  <1>5. p[S \ {x}] = q[S \ {x}]
    <2> HIDE DEF x
    <2>1. QED BY <1>1, <1>2, AddsAgree
  <1>6. S = {} => Sum(f, S) = 0
    BY <1>3, <1>4 DEF Added
  <1>7. S # {} => x \in S /\ Sum(f, S) = f[x] + Sum(f, S \ {x})
    BY <1>3, <1>4, <1>5 DEF Added
  <1> HIDE DEF x
  <1>8. QED BY <1>6, <1>7

\* f is an integer on every member of S.
Ints(f, S) == \A x \in S : f[x] \in Int

\* A sum of integers is one,
LEMMA SumType ==
  ASSUME NEW f, NEW A, IsFiniteSet(A), Ints(f, A)
  PROVE  \A S \in SUBSET A : Sum(f, S) \in Int
  <1> DEFINE N == {n \in Nat : \A S \in SUBSET A : Cardinality(S) = n => Sum(f, S) \in Int}
  <1>1. \A S \in SUBSET A : IsFiniteSet(S) /\ Cardinality(S) \in Nat
    BY FS_Subset, FS_CardinalityType
  <1>2. 0 \in N
    <2>1. ASSUME NEW S \in SUBSET A, Cardinality(S) = 0 PROVE Sum(f, S) \in Int
      BY <1>1, <2>1, FS_EmptySet, SumChosen
    <2>2. QED BY <2>1
  <1>3. ASSUME NEW n \in Nat, n \in N PROVE n + 1 \in N
    <2>1. ASSUME NEW S \in SUBSET A, Cardinality(S) = n + 1 PROVE Sum(f, S) \in Int
      <3>1. S # {}
        BY <1>3, <2>1, FS_EmptySet
      <3>2. PICK x \in S : Sum(f, S) = f[x] + Sum(f, S \ {x})
        BY <1>1, <3>1, SumChosen
      <3>3. Cardinality(S \ {x}) = Cardinality(S) - 1
        BY <1>1, Smaller
      <3>4. Cardinality(S \ {x}) = n /\ S \ {x} \in SUBSET A
        BY <1>3, <2>1, <3>3
      <3>5. Sum(f, S \ {x}) \in Int
        BY <1>3, <3>4
      <3>6. f[x] \in Int
        BY DEF Ints
      <3>7. QED BY <3>2, <3>5, <3>6
    <2>2. QED BY <2>1
  <1>4. Nat \subseteq N
    <2> HIDE DEF N
    <2>1. QED BY <1>2, <1>3, Induction
  <1>5. QED BY <1>1, <1>4

\* and it does not depend on the order.
LEMMA SumAny ==
  ASSUME NEW f, NEW A, IsFiniteSet(A), Ints(f, A)
  PROVE  \A S \in SUBSET A : \A x \in S : Sum(f, S) = f[x] + Sum(f, S \ {x})
  <1> DEFINE Free(S) == \A x \in S : Sum(f, S) = f[x] + Sum(f, S \ {x})
             N == {n \in Nat : \A S \in SUBSET A : Cardinality(S) = n => Free(S)}
  <1>1. \A S \in SUBSET A : IsFiniteSet(S) /\ Cardinality(S) \in Nat
    BY FS_Subset, FS_CardinalityType
  <1>2. 0 \in N
    <2>1. ASSUME NEW S \in SUBSET A, Cardinality(S) = 0 PROVE Free(S)
      BY <1>1, <2>1, FS_EmptySet
    <2> HIDE DEF Free
    <2>2. QED BY <2>1
  <1>3. ASSUME NEW n \in Nat, n \in N PROVE n + 1 \in N
    <2>1. ASSUME NEW S \in SUBSET A, Cardinality(S) = n + 1 PROVE Free(S)
      <3> SUFFICES ASSUME NEW x \in S PROVE Sum(f, S) = f[x] + Sum(f, S \ {x})
        OBVIOUS
      <3>1. PICK y \in S : Sum(f, S) = f[y] + Sum(f, S \ {y})
        BY <1>1, SumChosen
      <3>2. CASE x = y
        BY <3>1, <3>2
      <3>3. CASE x # y
        <4> DEFINE U == S \ {x}
                   V == S \ {y}
                   W == (S \ {y}) \ {x}
        <4>1. U \in SUBSET A /\ V \in SUBSET A /\ W \in SUBSET A /\ W = U \ {y}
              /\ y \in U /\ x \in V /\ W = V \ {x}
          BY <3>3
        <4>2. Cardinality(U) = n /\ Cardinality(V) = n
          <5>1. Cardinality(U) = Cardinality(S) - 1 /\ Cardinality(V) = Cardinality(S) - 1
            BY <1>1, Smaller
          <5>2. QED BY <1>3, <2>1, <5>1
        <4>3. Free(U) /\ Free(V)
          <5> HIDE DEF Free
          <5>1. QED BY <1>3, <4>1, <4>2
        <4>4. Sum(f, U) = f[y] + Sum(f, W) /\ Sum(f, V) = f[x] + Sum(f, W)
          <5> HIDE DEF U, V, W
          <5>1. QED BY <4>1, <4>3
        <4>5. Sum(f, W) \in Int /\ f[x] \in Int /\ f[y] \in Int
          <5> HIDE DEF W
          <5>1. Sum(f, W) \in Int
            BY <4>1, SumType
          <5>2. QED BY <5>1 DEF Ints
        <4>6. Sum(f, S) = f[y] + Sum(f, V)
          BY <3>1
        <4> HIDE DEF U, V, W
        <4>7. Sum(f, S) = f[x] + Sum(f, U)
          BY <4>4, <4>5, <4>6
        <4>8. QED BY <4>7 DEF U
      <3>4. QED BY <3>2, <3>3
    <2> HIDE DEF Free
    <2>2. QED BY <2>1
  <1>4. Nat \subseteq N
    <2> HIDE DEF N
    <2>1. QED BY <1>2, <1>3, Induction
  <1>5. \A S \in SUBSET A : Free(S)
    <2> HIDE DEF Free
    <2>1. QED BY <1>1, <1>4
  <1>6. QED BY <1>5

\* Sums of the same integers are the same.
LEMMA SumSame ==
  ASSUME NEW f, NEW g, NEW A, IsFiniteSet(A), Ints(f, A), \A x \in A : f[x] = g[x]
  PROVE  Sum(f, A) = Sum(g, A)
  <1> DEFINE N == {n \in Nat : \A S \in SUBSET A : Cardinality(S) = n => Sum(f, S) = Sum(g, S)}
  <1>1. \A S \in SUBSET A : IsFiniteSet(S) /\ Cardinality(S) \in Nat
    BY FS_Subset, FS_CardinalityType
  <1>2. Ints(g, A)
    BY DEF Ints
  <1>3. 0 \in N
    <2>1. ASSUME NEW S \in SUBSET A, Cardinality(S) = 0 PROVE Sum(f, S) = Sum(g, S)
      BY <1>1, <2>1, FS_EmptySet, SumChosen
    <2>2. QED BY <2>1
  <1>4. ASSUME NEW n \in Nat, n \in N PROVE n + 1 \in N
    <2>1. ASSUME NEW S \in SUBSET A, Cardinality(S) = n + 1 PROVE Sum(f, S) = Sum(g, S)
      <3>1. S # {}
        BY <1>4, <2>1, FS_EmptySet
      <3>2. PICK x \in S : TRUE
        BY <3>1
      <3>3. Cardinality(S \ {x}) = Cardinality(S) - 1
        BY <1>1, Smaller
      <3>4. Cardinality(S \ {x}) = n /\ S \ {x} \in SUBSET A
        BY <1>4, <2>1, <3>3
      <3>5. Sum(f, S \ {x}) = Sum(g, S \ {x})
        BY <1>4, <3>4
      <3>6. Sum(f, S) = f[x] + Sum(f, S \ {x}) /\ Sum(g, S) = g[x] + Sum(g, S \ {x})
        BY <1>2, SumAny
      <3>7. QED BY <3>5, <3>6
    <2>2. QED BY <2>1
  <1>5. Nat \subseteq N
    <2> HIDE DEF N
    <2>1. QED BY <1>3, <1>4, Induction
  <1>6. QED BY <1>1, <1>5

\* The sum over two disjoint sets is the sum of their sums,
LEMMA SumDisjoint ==
  ASSUME NEW f, NEW A, IsFiniteSet(A), Ints(f, A), NEW S \in SUBSET A
  PROVE  \A T \in SUBSET A : S \intersect T = {} => Sum(f, S \union T) = Sum(f, S) + Sum(f, T)
  <1> DEFINE Apart(T) == S \intersect T = {} => Sum(f, S \union T) = Sum(f, S) + Sum(f, T)
             N == {n \in Nat : \A T \in SUBSET A : Cardinality(T) = n => Apart(T)}
  <1>1. \A T \in SUBSET A : IsFiniteSet(T) /\ Cardinality(T) \in Nat
    BY FS_Subset, FS_CardinalityType
  <1>2. \A T \in SUBSET A : Sum(f, T) \in Int
    BY SumType
  <1>3. 0 \in N
    <2>1. ASSUME NEW T \in SUBSET A, Cardinality(T) = 0 PROVE Apart(T)
      <3>1. T = {} /\ S \union T = S
        BY <1>1, <2>1, FS_EmptySet
      <3>2. Sum(f, T) = 0
        BY <1>1, <3>1, SumChosen
      <3>3. Sum(f, S) \in Int
        BY <1>2
      <3>4. QED BY <3>1, <3>2, <3>3
    <2> HIDE DEF Apart
    <2>2. QED BY <2>1
  <1>4. ASSUME NEW n \in Nat, n \in N PROVE n + 1 \in N
    <2>1. ASSUME NEW T \in SUBSET A, Cardinality(T) = n + 1, S \intersect T = {}
          PROVE  Sum(f, S \union T) = Sum(f, S) + Sum(f, T)
      <3>1. T # {}
        BY <1>4, <2>1, FS_EmptySet
      <3>2. PICK x \in T : TRUE
        BY <3>1
      <3> DEFINE R == T \ {x}
      <3>3. Cardinality(R) = Cardinality(T) - 1
        BY <1>1, Smaller
      <3>4. Cardinality(R) = n /\ R \in SUBSET A /\ S \intersect R = {}
        BY <1>4, <2>1, <3>3
      <3>5. Sum(f, S \union R) = Sum(f, S) + Sum(f, R)
        BY <1>4, <3>4
      <3>6. Sum(f, T) = f[x] + Sum(f, R)
        BY SumAny
      <3>7. S \union T \in SUBSET A /\ x \in S \union T /\ (S \union T) \ {x} = S \union R
        BY <2>1
      <3>8. Sum(f, S \union T) = f[x] + Sum(f, (S \union T) \ {x})
        BY <3>7, SumAny
      <3>9. Sum(f, S) \in Int /\ Sum(f, R) \in Int /\ f[x] \in Int
        BY <1>2, <3>4 DEF Ints
      <3> HIDE DEF R
      <3>10. Sum(f, S \union T) = f[x] + Sum(f, S \union R)
        BY <3>7, <3>8
      <3>11. QED BY <3>5, <3>6, <3>9, <3>10
    <2>2. QED BY <2>1
  <1>5. Nat \subseteq N
    <2> HIDE DEF N
    <2>1. QED BY <1>3, <1>4, Induction
  <1>6. \A T \in SUBSET A : Apart(T)
    <2> HIDE DEF Apart
    <2>1. QED BY <1>1, <1>5
  <1>7. QED BY <1>6

\* and so is that over any number of them.
Apart(P, C) == \A c, d \in C : c # d => P[c] \intersect P[d] = {}

Union(P, D) == UNION {P[c] : c \in D}

\* The sum over a union of disjoint parts is the sum of the parts' sums.
LEMMA SumUnion ==
  ASSUME NEW f, NEW A, IsFiniteSet(A), Ints(f, A), NEW C, IsFiniteSet(C),
         NEW P \in [C -> SUBSET A], Apart(P, C),
         NEW g, \A c \in C : g[c] = Sum(f, P[c])
  PROVE  Sum(g, C) = Sum(f, Union(P, C))
  <1> DEFINE Agrees(D) == Sum(g, D) = Sum(f, Union(P, D))
             N == {n \in Nat : \A D \in SUBSET C : Cardinality(D) = n => Agrees(D)}
  <1>1. \A D \in SUBSET C : IsFiniteSet(D) /\ Cardinality(D) \in Nat
    BY FS_Subset, FS_CardinalityType
  <1>2. \A S \in SUBSET A : Sum(f, S) \in Int
    BY SumType
  <1>3. Ints(g, C)
    BY <1>2 DEF Ints
  <1>4. 0 \in N
    <2>1. ASSUME NEW D \in SUBSET C, Cardinality(D) = 0 PROVE Agrees(D)
      <3>1. D = {}
        BY <1>1, <2>1, FS_EmptySet
      <3>2. Union(P, D) = {}
        BY <3>1 DEF Union
      <3>3. IsFiniteSet({})
        BY FS_EmptySet
      <3>4. QED BY <3>1, <3>2, <3>3, SumChosen
    <2> HIDE DEF Agrees
    <2>2. QED BY <2>1
  <1>5. ASSUME NEW n \in Nat, n \in N PROVE n + 1 \in N
    <2>1. ASSUME NEW D \in SUBSET C, Cardinality(D) = n + 1 PROVE Agrees(D)
      <3>1. D # {}
        BY <1>5, <2>1, FS_EmptySet
      <3>2. PICK x \in D : TRUE
        BY <3>1
      <3> DEFINE E == D \ {x}
      <3>3. Cardinality(E) = Cardinality(D) - 1
        BY <1>1, Smaller
      <3>4. Cardinality(E) = n /\ E \in SUBSET C
        BY <1>5, <2>1, <3>3
      <3>5. Sum(g, E) = Sum(f, Union(P, E))
        BY <1>5, <3>4
      <3>6. Sum(g, D) = g[x] + Sum(g, E)
        BY <1>3, SumAny
      <3>7. P[x] \in SUBSET A /\ Union(P, E) \in SUBSET A
        BY DEF Union
      <3>8. P[x] \intersect Union(P, E) = {}
        BY DEF Union, Apart
      <3>9. Union(P, D) = P[x] \union Union(P, E)
        BY DEF Union
      <3> HIDE DEF E
      <3>10. Sum(f, Union(P, D)) = Sum(f, P[x]) + Sum(f, Union(P, E))
        BY <3>7, <3>8, <3>9, SumDisjoint
      <3>11. g[x] = Sum(f, P[x])
        OBVIOUS
      <3>12. QED BY <3>5, <3>6, <3>10, <3>11
    <2> HIDE DEF Agrees
    <2>2. QED BY <2>1
  <1>6. Nat \subseteq N
    <2> HIDE DEF N
    <2>1. QED BY <1>4, <1>5, Induction
  <1>7. Agrees(C)
    <2> HIDE DEF Agrees
    <2>1. QED BY <1>1, <1>6
  <1>8. QED BY <1>7

\* Nothing adds up to nothing.
LEMMA SumZeros ==
  ASSUME NEW f, NEW A, IsFiniteSet(A), \A x \in A : f[x] = 0
  PROVE  Sum(f, A) = 0
  <1> DEFINE N == {n \in Nat : \A S \in SUBSET A : Cardinality(S) = n => Sum(f, S) = 0}
  <1>1. \A S \in SUBSET A : IsFiniteSet(S) /\ Cardinality(S) \in Nat
    BY FS_Subset, FS_CardinalityType
  <1>2. 0 \in N
    <2>1. ASSUME NEW S \in SUBSET A, Cardinality(S) = 0 PROVE Sum(f, S) = 0
      BY <1>1, <2>1, FS_EmptySet, SumChosen
    <2>2. QED BY <2>1
  <1>3. ASSUME NEW n \in Nat, n \in N PROVE n + 1 \in N
    <2>1. ASSUME NEW S \in SUBSET A, Cardinality(S) = n + 1 PROVE Sum(f, S) = 0
      <3>1. S # {}
        BY <1>3, <2>1, FS_EmptySet
      <3>2. PICK x \in S : Sum(f, S) = f[x] + Sum(f, S \ {x})
        BY <1>1, <3>1, SumChosen
      <3>3. Cardinality(S \ {x}) = Cardinality(S) - 1
        BY <1>1, Smaller
      <3>4. Cardinality(S \ {x}) = n /\ S \ {x} \in SUBSET A
        BY <1>3, <2>1, <3>3
      <3>5. Sum(f, S \ {x}) = 0
        BY <1>3, <3>4
      <3>6. f[x] = 0
        OBVIOUS
      <3>7. QED BY <3>2, <3>5, <3>6
    <2>2. QED BY <2>1
  <1>4. Nat \subseteq N
    <2> HIDE DEF N
    <2>1. QED BY <1>2, <1>3, Induction
  <1>5. QED BY <1>1, <1>4

-----------------------------------------------------------------------------
(* Subtrees of a listing                                                    *)

\* A listing goes down one level at a time.
Steps(g) == \A j \in 2..Len(g) : g[j].level <= g[j - 1].level + 1

\* What the definitions of subtrees say, with the types their levels have.
LEMMA SubtreeIs ==
  ASSUME NEW g \in Seq(Row)
  PROVE  /\ Len(g) \in Nat /\ \A i \in 1..Len(g) : g[i].level \in Nat
         /\ \A i, j : j \in Subtree(g, i) <=>
              j \in i..Len(g) /\ \A k \in (i + 1)..j : g[k].level > g[i].level
         /\ \A i, j : j \in Children(g, i) <=>
              j \in Subtree(g, i) /\ g[j].level = g[i].level + 1
  <1>1. Len(g) \in Nat
    BY LenProperties
  <1>2. ASSUME NEW i \in 1..Len(g) PROVE g[i].level \in Nat
    <2>1. g[i] \in Row
      BY ElementOfSeq
    <2>2. QED BY <2>1 DEF Row
  <1>3. QED BY <1>1, <1>2 DEF Subtree, Children

\* A descendant of a descendant is a descendant,
LEMMA SubtreeIn ==
  ASSUME NEW g \in Seq(Row), NEW i \in 1..Len(g), NEW c \in Subtree(g, i), NEW j \in Subtree(g, c)
  PROVE  j \in Subtree(g, i)
  <1> DEFINE n == Len(g)
             l(k) == g[k].level
  <1>1. n \in Nat /\ \A k \in 1..n : l(k) \in Nat
    BY SubtreeIs
  <1>2. c \in i..n /\ \A k \in (i + 1)..c : l(k) > l(i)
    BY SubtreeIs
  <1>3. j \in c..n /\ \A k \in (c + 1)..j : l(k) > l(c)
    BY SubtreeIs
  <1> HIDE DEF n, l
  <1>4. ASSUME NEW k \in (i + 1)..j PROVE l(k) > l(i)
    <2>1. CASE k <= c
      <3>1. k \in (i + 1)..c
        BY <1>1, <1>2, <1>3, <2>1
      <3>2. QED BY <1>2, <3>1
    <2>2. CASE k > c
      <3>1. k \in (c + 1)..j
        BY <1>1, <1>2, <1>3, <2>2
      <3>2. CASE c = i
        BY <1>3, <3>1, <3>2
      <3>3. CASE c # i
        <4>1. c \in (i + 1)..c
          BY <1>1, <1>2, <3>3
        <4>2. l(k) > l(c) /\ l(c) > l(i)
          BY <1>2, <1>3, <3>1, <4>1
        <4>3. k \in 1..n /\ c \in 1..n
          BY <1>1, <1>2, <1>3, <3>1
        <4>4. l(k) \in Nat /\ l(c) \in Nat /\ l(i) \in Nat
          BY <1>1, <4>3
        <4>5. QED BY <4>2, <4>4
      <3>4. QED BY <3>2, <3>3
    <2>3. k \in Int /\ c \in Int
      BY <1>1, <1>2
    <2>4. QED BY <2>1, <2>2, <2>3
  <1>5. j \in i..n
    BY <1>1, <1>2, <1>3
  <1>6. QED BY <1>4, <1>5, SubtreeIs DEF n, l

\* two children have no descendant in common,
LEMMA ChildrenApart ==
  ASSUME NEW g \in Seq(Row), NEW i \in 1..Len(g), NEW c \in Children(g, i),
         NEW d \in Children(g, i), NEW j \in Subtree(g, c), j \in Subtree(g, d)
  PROVE  c = d
  <1> DEFINE n == Len(g)
             l(k) == g[k].level
  <1>1. n \in Nat /\ \A k \in 1..n : l(k) \in Nat
    BY SubtreeIs
  <1>2. c \in i..n /\ d \in i..n /\ l(c) = l(i) + 1 /\ l(d) = l(i) + 1
    BY SubtreeIs
  <1>3. j \in c..n /\ \A k \in (c + 1)..j : l(k) > l(c)
    BY SubtreeIs
  <1>4. j \in d..n /\ \A k \in (d + 1)..j : l(k) > l(d)
    BY SubtreeIs
  <1>5. l(c) = l(d) /\ l(c) \in Nat
    BY <1>1, <1>2
  <1> HIDE DEF n, l
  <1>6. c \in Int /\ d \in Int /\ j \in Int
    BY <1>1, <1>2, <1>3
  <1>7. ~ (c < d)
    <2> SUFFICES ASSUME c < d PROVE FALSE
      OBVIOUS
    <2>1. d \in (c + 1)..j
      BY <1>1, <1>4, <1>6
    <2>2. QED BY <1>3, <1>5, <2>1
  <1>8. ~ (d < c)
    <2> SUFFICES ASSUME d < c PROVE FALSE
      OBVIOUS
    <2>1. c \in (d + 1)..j
      BY <1>1, <1>3, <1>6
    <2>2. QED BY <1>4, <1>5, <2>1
  <1>9. QED BY <1>6, <1>7, <1>8

\* and every other descendant is one of a child.
LEMMA ChildCovers ==
  ASSUME NEW g \in Seq(Row), Steps(g), NEW i \in 1..Len(g)
  PROVE  \A j \in Subtree(g, i) : j = i \/ \E c \in Children(g, i) : j \in Subtree(g, c)
  <1> DEFINE n == Len(g)
             l(k) == g[k].level
             Covered(j) == j \in Subtree(g, i) => \E c \in Children(g, i) : j \in Subtree(g, c)
             N == {m \in Nat : i + 1 + m <= n => Covered(i + 1 + m)}
  <1>1. n \in Nat /\ i \in 1..n /\ \A k \in 1..n : l(k) \in Nat
    BY SubtreeIs
  <1>2. \A a, j : j \in Subtree(g, a) <=> j \in a..n /\ \A k \in (a + 1)..j : l(k) > l(a)
    BY SubtreeIs
  <1>3. \A j : j \in Children(g, i) <=> j \in Subtree(g, i) /\ l(j) = l(i) + 1
    BY SubtreeIs
  <1>4. \A j \in 2..n : l(j) <= l(j - 1) + 1
    BY DEF Steps
  <1> HIDE DEF n, l
  <1>5. \A j \in (i + 1)..n : j \in Subtree(g, j)
    BY <1>1, <1>2
  <1>6. 0 \in N
    <2> DEFINE j == i + 1
    <2>1. ASSUME j <= n, j \in Subtree(g, i) PROVE \E c \in Children(g, i) : j \in Subtree(g, c)
      <3>1. j \in 2..n /\ j - 1 = i /\ j \in (i + 1)..j /\ j \in 1..n /\ j \in (i + 1)..n
        BY <1>1, <2>1
      <3>2. l(j) <= l(i) + 1 /\ l(j) > l(i) /\ l(j) \in Nat /\ l(i) \in Nat
        <4>1. l(j) <= l(i) + 1
          BY <1>4, <3>1
        <4>2. l(j) > l(i)
          BY <1>2, <2>1, <3>1
        <4>3. QED BY <1>1, <3>1, <4>1, <4>2
      <3>3. j \in Children(g, i)
        BY <1>3, <2>1, <3>2
      <3>4. QED BY <1>5, <3>1, <3>3
    <2>2. i + 1 + 0 = j
      BY <1>1
    <2>3. QED BY <2>1, <2>2
  <1>7. ASSUME NEW m \in Nat, m \in N PROVE m + 1 \in N
    <2> DEFINE h == i + 1 + m
               j == i + 1 + (m + 1)
    <2>1. ASSUME j <= n, j \in Subtree(g, i) PROVE \E c \in Children(g, i) : j \in Subtree(g, c)
      <3>1. h \in (i + 1)..n /\ j = h + 1 /\ j \in (i + 1)..n /\ h \in 1..n /\ h \in Int /\ j \in 1..n
        BY <1>1, <1>7, <2>1
      <3> HIDE DEF h, j
      <3>2. h \in Subtree(g, i)
        <4>1. \A k \in (i + 1)..h : k \in (i + 1)..j
          BY <1>1, <3>1
        <4>2. h \in i..n
          BY <1>1, <3>1
        <4>3. QED BY <1>2, <2>1, <4>1, <4>2
      <3>3. Covered(h)
        BY <1>7, <3>1 DEF h
      <3>4. PICK c \in Children(g, i) : h \in Subtree(g, c)
        BY <3>2, <3>3
      <3>5. c \in i..n /\ l(c) = l(i) + 1 /\ h \in c..n /\ \A k \in (c + 1)..h : l(k) > l(c)
        BY <1>2, <1>3, <3>4
      <3>6. CASE l(j) = l(i) + 1
        BY <1>3, <1>5, <2>1, <3>1, <3>6
      <3>7. CASE l(j) # l(i) + 1
        <4>1. l(j) > l(i)
          <5>1. j \in (i + 1)..j
            BY <1>1, <3>1
          <5>2. QED BY <1>2, <2>1, <5>1
        <4>2. l(j) > l(c)
          BY <1>1, <3>1, <3>5, <3>7, <4>1
        <4>3. \A k \in (c + 1)..j : k \in (c + 1)..h \/ k = j
          BY <1>1, <3>1, <3>5
        <4>4. \A k \in (c + 1)..j : l(k) > l(c)
          BY <3>5, <4>2, <4>3
        <4>5. j \in c..n
          BY <1>1, <3>1, <3>5
        <4>6. QED BY <1>2, <3>4, <4>4, <4>5
      <3>8. QED BY <3>6, <3>7
    <2>2. QED BY <2>1
  <1>8. Nat \subseteq N
    <2> HIDE DEF N
    <2>1. QED BY <1>6, <1>7, Induction
  <1>9. ASSUME NEW j \in Subtree(g, i), j # i
        PROVE  \E c \in Children(g, i) : j \in Subtree(g, c)
    <2>1. j \in i..n
      BY <1>2
    <2>2. j - (i + 1) \in Nat /\ i + 1 + (j - (i + 1)) = j /\ j <= n
      BY <1>1, <1>9, <2>1
    <2>3. j - (i + 1) \in N
      BY <1>8, <2>2
    <2>4. Covered(j)
      BY <2>2, <2>3
    <2>5. QED BY <2>4
  <1>10. QED BY <1>9

Part(g, C) == [c \in C |-> Subtree(g, c)]

\* Siblings' subtrees add up to their union.
LEMMA SubtreesAdd ==
  ASSUME NEW g \in Seq(Row), NEW i \in 1..Len(g), NEW C \in SUBSET Children(g, i),
         NEW f, Ints(f, 1..Len(g)), NEW it, \A c \in C : it[c] = Sum(f, Subtree(g, c))
  PROVE  SumFunction([c \in C |-> it[c]]) = Sum(f, Union(Part(g, C), C))
  <1> DEFINE n == Len(g)
             h == [c \in C |-> it[c]]
             P == Part(g, C)
  <1>1. n \in Nat /\ Children(g, i) \subseteq i..n /\ \A c : Subtree(g, c) \subseteq c..n
    BY SubtreeIs
  <1>2. C \subseteq 1..n /\ \A c \in C : Subtree(g, c) \in SUBSET (1..n)
    BY <1>1
  <1>3. IsFiniteSet(1..n) /\ IsFiniteSet(C)
    <2>1. IsFiniteSet(1..n)
      BY <1>1, FS_Interval
    <2> HIDE DEF n
    <2>2. QED BY <1>2, <2>1, FS_Subset
  <1>4. P \in [C -> SUBSET (1..n)] /\ \A c \in C : P[c] = Subtree(g, c)
    BY <1>2 DEF Part
  <1>5. Apart(P, C)
    BY <1>4, ChildrenApart DEF Apart
  <1>6. \A c \in C : h[c] = Sum(f, P[c])
    BY <1>4
  <1>7. SumFunction(h) = Sum(h, C)
    BY SumFunctionIs
  <1> HIDE DEF h, P, n
  <1>8. Sum(h, C) = Sum(f, Union(P, C))
    BY <1>3, <1>4, <1>5, <1>6, SumUnion DEF n
  <1>9. QED BY <1>7, <1>8 DEF h, P

\* The nodes' own entries, and what the recursion makes of them.
Entries(g, operation, key) == [i \in 1..Len(g) |-> OfNode(g[i], operation, key)]

Adding(g, operation, key, it) ==
  it = [i \in 1..Len(g) |-> OfNode(g[i], operation, key)
                              + SumFunction([j \in Children(g, i) |-> it[j]])]

\* A node adds a number.
LEMMA EntriesType ==
  ASSUME NEW g \in Seq(Row), NEW operation \in {"read", "write", "invoke"}, NEW key
  PROVE  Ints(Entries(g, operation, key), 1..Len(g))
  <1>1. ASSUME NEW i \in 1..Len(g) PROVE OfNode(g[i], operation, key) \in Int
    <2>1. g[i] \in Row
      BY ElementOfSeq
    <2>2. g[i].read \in Int /\ g[i].write \in Int
      BY <2>1 DEF Row
    <2>3. Operation(g[i], operation) \in Int
      BY <2>2 DEF Operation
    <2>4. QED BY <2>3 DEF OfNode
  <1>2. QED BY <1>1 DEF Ints, Entries

\* A node's subtree is the node and its children's subtrees.
LEMMA SubtreeAdds ==
  ASSUME NEW g \in Seq(Row), Steps(g), NEW i \in 1..Len(g), NEW f, Ints(f, 1..Len(g)),
         NEW it, \A c \in Children(g, i) : it[c] = Sum(f, Subtree(g, c))
  PROVE  Sum(f, Subtree(g, i)) = f[i] + SumFunction([c \in Children(g, i) |-> it[c]])
  <1> DEFINE n == Len(g)
             C == Children(g, i)
             U == Union(Part(g, C), C)
  <1>1. n \in Nat /\ C \subseteq i..n /\ \A c : Subtree(g, c) \subseteq c..n
    BY SubtreeIs
  <1>2. U = Subtree(g, i) \ {i}
    <2>1. ASSUME NEW j \in U PROVE j \in Subtree(g, i) \ {i}
      <3>1. PICK c \in C : j \in Subtree(g, c)
        BY DEF Union, Part
      <3>2. c \in Subtree(g, i) /\ g[c].level = g[i].level + 1
        BY SubtreeIs
      <3>3. j \in Subtree(g, i)
        BY <3>1, <3>2, SubtreeIn
      <3>4. c # i
        <4>1. g[i].level \in Nat
          BY SubtreeIs
        <4>2. QED BY <3>2, <4>1
      <3>5. c \in i..n /\ j \in c..n
        BY <1>1, <3>1
      <3>6. j # i
        BY <1>1, <3>4, <3>5
      <3>7. QED BY <3>3, <3>6
    <2>2. ASSUME NEW j \in Subtree(g, i), j # i PROVE j \in U
      <3>1. PICK c \in C : j \in Subtree(g, c)
        BY <2>2, ChildCovers
      <3>2. QED BY <3>1 DEF Union, Part
    <2> HIDE DEF U
    <2>3. QED BY <2>1, <2>2
  <1>3. i \in Subtree(g, i)
    <2>1. i \in i..n /\ (i + 1)..i = {}
      BY <1>1
    <2>2. QED BY SMTT(30), <2>1, SubtreeIs
  <1>4. SumFunction([c \in C |-> it[c]]) = Sum(f, U)
    BY SubtreesAdd
  <1>5. IsFiniteSet(1..n) /\ Subtree(g, i) \in SUBSET (1..n)
    BY <1>1, FS_Interval
  <1> HIDE DEF U, C
  <1>6. Sum(f, Subtree(g, i)) = f[i] + Sum(f, Subtree(g, i) \ {i})
    BY <1>3, <1>5, SumAny
  <1>7. QED BY <1>2, <1>4, <1>6 DEF C

\* The recursion is total: it has the sums over the subtrees as a solution,
LEMMA AddingExists ==
  ASSUME NEW g \in Seq(Row), Steps(g), NEW operation \in {"read", "write", "invoke"}, NEW key
  PROVE  \E it : Adding(g, operation, key, it)
  <1> DEFINE f  == Entries(g, operation, key)
             it == [i \in 1..Len(g) |-> Sum(f, Subtree(g, i))]
             F(i) == OfNode(g[i], operation, key) + SumFunction([j \in Children(g, i) |-> it[j]])
  <1>1. Ints(f, 1..Len(g))
    BY EntriesType
  <1>2. ASSUME NEW i \in 1..Len(g) PROVE it[i] = F(i)
    <2>1. Len(g) \in Nat /\ Children(g, i) \subseteq 1..Len(g)
      BY SubtreeIs
    <2>2. \A c \in Children(g, i) : it[c] = Sum(f, Subtree(g, c))
      BY <2>1
    <2>3. it[i] = Sum(f, Subtree(g, i)) /\ f[i] = OfNode(g[i], operation, key)
      BY DEF Entries
    <2> HIDE DEF it, f
    <2>4. Sum(f, Subtree(g, i)) = f[i] + SumFunction([c \in Children(g, i) |-> it[c]])
      BY <1>1, <2>2, SubtreeAdds
    <2>5. QED BY <2>3, <2>4
  <1>3. it = [i \in 1..Len(g) |-> it[i]]
    OBVIOUS
  <1> HIDE DEF it
  <1>4. it = [i \in 1..Len(g) |-> F(i)]
    <2> HIDE DEF F
    <2>1. QED BY <1>2, <1>3
  <1>5. Adding(g, operation, key, it)
    BY <1>4 DEF Adding
  <1>6. QED BY <1>5

\* and no other.
LEMMA AddingIs ==
  ASSUME NEW g \in Seq(Row), Steps(g), NEW operation \in {"read", "write", "invoke"}, NEW key,
         NEW it, Adding(g, operation, key, it)
  PROVE  \A i \in 1..Len(g) : it[i] = Sum(Entries(g, operation, key), Subtree(g, i))
  <1> DEFINE n == Len(g)
             f == Entries(g, operation, key)
             Right(i) == it[i] = Sum(f, Subtree(g, i))
             N == {m \in Nat : \A i \in 1..n : n - i <= m => Right(i)}
  <1>1. n \in Nat /\ Ints(f, 1..n)
    BY SubtreeIs, EntriesType
  <1>2. ASSUME NEW i \in 1..n, \A c \in Children(g, i) : Right(c) PROVE Right(i)
    <2>1. it[i] = OfNode(g[i], operation, key) + SumFunction([j \in Children(g, i) |-> it[j]])
      BY DEF Adding
    <2>2. f[i] = OfNode(g[i], operation, key)
      BY DEF Entries
    <2> HIDE DEF f
    <2>3. Sum(f, Subtree(g, i)) = f[i] + SumFunction([c \in Children(g, i) |-> it[c]])
      BY <1>1, <1>2, SubtreeAdds
    <2>4. QED BY <2>1, <2>2, <2>3
  <1>3. ASSUME NEW i \in 1..n, NEW c \in Children(g, i) PROVE c \in (i + 1)..n
    <2>1. c \in i..n /\ g[c].level = g[i].level + 1 /\ g[i].level \in Nat
      BY SubtreeIs
    <2>2. c # i
      BY <2>1
    <2>3. QED BY <1>1, <2>1, <2>2
  <1> HIDE DEF Right, n
  <1>4. 0 \in N
    <2>1. ASSUME NEW i \in 1..n, n - i <= 0 PROVE Right(i)
      <3>1. (i + 1)..n = {}
        BY <1>1, <2>1
      <3>2. QED BY <1>2, <1>3, <3>1
    <2>2. QED BY <2>1
  <1>5. ASSUME NEW m \in Nat, m \in N PROVE m + 1 \in N
    <2>1. ASSUME NEW i \in 1..n, n - i <= m + 1 PROVE Right(i)
      <3>1. ASSUME NEW c \in Children(g, i) PROVE Right(c)
        <4>1. c \in (i + 1)..n
          BY <1>3
        <4>2. c \in 1..n /\ n - c <= m
          BY <1>1, <1>5, <2>1, <4>1
        <4>3. QED BY <1>5, <4>2
      <3>2. QED BY <1>2, <3>1
    <2>2. QED BY <2>1
  <1>6. Nat \subseteq N
    <2> HIDE DEF N
    <2>1. QED BY <1>4, <1>5, Induction
  <1>7. ASSUME NEW i \in 1..n PROVE Right(i)
    <2>1. n - i \in Nat /\ n - i <= n - i
      BY <1>1
    <2>2. n - i \in N
      BY <1>6, <2>1
    <2>3. QED BY <2>1, <2>2
  <1>8. QED BY <1>7 DEF Right, n

\* organize_in_order_with_callgraph adds up the nodes' entries, each once, over
\* the subtrees of the nodes it starts at.
LEMMA OrganizedIs ==
  ASSUME NEW g \in Seq(Row), Steps(g), NEW operation \in {"read", "write", "invoke"}, NEW key,
         NEW r \in 1..Len(g), NEW C \in SUBSET Children(g, r)
  PROVE  organize_in_order_with_callgraph(g, C, operation, key)
           = Sum(Entries(g, operation, key), Union(Part(g, C), C))
  <1> DEFINE below == CHOOSE it : Adding(g, operation, key, it)
  <1>1. organize_in_order_with_callgraph(g, C, operation, key) = SumFunction([i \in C |-> below[i]])
    BY DEF organize_in_order_with_callgraph, Adding
  <1>2. Adding(g, operation, key, below)
    BY AddingExists
  <1> HIDE DEF below
  <1>3. C \subseteq 1..Len(g)
    BY SubtreeIs
  <1>4. \A i \in C : below[i] = Sum(Entries(g, operation, key), Subtree(g, i))
    BY <1>2, <1>3, AddingIs
  <1>5. Ints(Entries(g, operation, key), 1..Len(g))
    BY EntriesType
  <1>6. QED BY <1>1, <1>4, <1>5, SubtreesAdd

-----------------------------------------------------------------------------
(* The digest                                                               *)

\* An invocation is made by those whose subtrees it is in.
LEMMA MadeByIs ==
  ASSUME log \in Seq(Row), NEW k \in 1..Len(log)
  PROVE  \A m \in 1..Len(log) : m \in MadeBy(k) <=> k \in Subtree(log, m)
  <1> DEFINE n == Len(log)
  <1>1. n \in Nat /\ k \in 1..n
    BY SubtreeIs
  <1>2. \A m : k \in Subtree(log, m) <=>
                 k \in m..n /\ \A h \in (m + 1)..k : log[h].level > log[m].level
    BY SubtreeIs
  <1>3. \A m : m \in MadeBy(k) <=>
                 m \in 1..k /\ \A h \in (m + 1)..k : log[h].level > log[m].level
    BY DEF MadeBy
  <1> HIDE DEF n
  <1>4. \A m \in 1..n : m \in 1..k <=> k \in m..n
    BY <1>1
  <1>5. QED BY <1>2, <1>3, <1>4 DEF n

\* The invocations that count are those in the subtrees of the root's children
\* that are not ignored: one such child at most is above an invocation.
LEMMA CountingIs ==
  ASSUME log \in Seq(Row), Steps(log), NEW r \in 1..Len(log), NEW proxies
  PROVE  LET C == {c \in Children(log, r) : ~IgnoredLeaf(log[c], proxies)}
         IN  \A k : k \in Counting(r, proxies) <=>
               /\ k \in Union(Part(log, C), C)
               /\ ~log[k].is_same /\ log[k].contract_address \notin UnknownDapp
  <1> DEFINE n == Len(log)
             C == {c \in Children(log, r) : ~IgnoredLeaf(log[c], proxies)}
             Free(k) == \A m \in MadeBy(k) :
                          log[m].level = log[r].level + 1 => ~IgnoredLeaf(log[m], proxies)
  <1>1. n \in Nat /\ Children(log, r) \subseteq r..n /\ \A c : Subtree(log, c) \subseteq c..n
    BY SubtreeIs
  <1>2. ASSUME NEW k \in 1..n, r \in MadeBy(k) \ {k}, Free(k)
        PROVE  k \in Union(Part(log, C), C)
    <2>1. k \in Subtree(log, r) /\ k # r
      BY <1>2, MadeByIs
    <2>2. PICK c \in Children(log, r) : k \in Subtree(log, c)
      BY <2>1, ChildCovers
    <2>3. c \in 1..n
      BY <1>1
    <2>4. c \in MadeBy(k)
      BY <2>2, <2>3, MadeByIs
    <2>5. log[c].level = log[r].level + 1
      BY SubtreeIs
    <2>6. c \in C
      BY <1>2, <2>4, <2>5
    <2>7. QED BY <2>2, <2>6 DEF Union, Part
  <1>3. ASSUME NEW k \in Union(Part(log, C), C)
        PROVE  k \in 1..n /\ r \in MadeBy(k) \ {k} /\ Free(k)
    <2>1. PICK c \in C : k \in Subtree(log, c)
      BY <1>3 DEF Union, Part
    <2>2. c \in Subtree(log, r) /\ log[c].level = log[r].level + 1 /\ log[r].level \in Nat
      BY SubtreeIs
    <2>3. c \in 1..n /\ c \in r..n /\ k \in 1..n /\ k \in c..n
      BY <1>1, <2>1
    <2>4. k \in Subtree(log, r)
      BY <2>1, <2>2, SubtreeIn
    <2>5. r \in MadeBy(k)
      BY <2>3, <2>4, MadeByIs
    <2>6. r # k
      <3>1. c # r
        BY <2>2
      <3>2. QED BY <1>1, <2>3, <3>1
    <2>7. ASSUME NEW m \in MadeBy(k), log[m].level = log[r].level + 1
          PROVE  ~IgnoredLeaf(log[m], proxies)
      <3>1. m \in 1..n /\ m <= k /\ m \in Nat /\ \A h \in (m + 1)..k : log[h].level > log[m].level
        BY <1>1, <2>3 DEF MadeBy
      <3>2. k \in Subtree(log, c) => k \in c..n /\ \A h \in (c + 1)..k : log[h].level > log[c].level
        BY SubtreeIs
      <3>3. \A h \in (c + 1)..k : log[h].level > log[c].level
        BY <2>1, <3>2
      <3>4. log[m].level = log[c].level /\ log[c].level \in Nat
        BY <2>2, <2>7
      <3>5. ~ (m < c)
        <4>1. c \in (m + 1)..k \/ ~ (m < c)
          BY <1>1, <2>3, <3>1
        <4>2. QED BY <3>1, <3>4, <4>1
      <3>6. ~ (c < m)
        <4>1. m \in (c + 1)..k \/ ~ (c < m)
          BY <1>1, <2>3, <3>1
        <4>2. QED BY <3>3, <3>4, <4>1
      <3>7. m = c
        BY <1>1, <2>3, <3>1, <3>5, <3>6
      <3>8. QED BY <3>7
    <2>8. QED BY <2>3, <2>5, <2>6, <2>7
  <1>4. \A k : k \in Counting(r, proxies) <=>
          /\ k \in 1..n /\ r \in MadeBy(k) \ {k} /\ Free(k)
          /\ ~log[k].is_same /\ log[k].contract_address \notin UnknownDapp
    BY DEF Counting
  <1> HIDE DEF C, Free, n
  <1>5. \A k : k \in Counting(r, proxies) <=>
               /\ k \in Union(Part(log, C), C)
               /\ ~log[k].is_same /\ log[k].contract_address \notin UnknownDapp
    BY <1>2, <1>3, <1>4
  <1>6. QED BY <1>5 DEF C

\* The digest below r, when the saved graph is the log.
LEMMA DigestBelow ==
  ASSUME log \in Seq(Row), Steps(log), NEW r \in 1..Len(log), NEW proxies,
         NEW operation \in {"read", "write", "invoke"}, NEW key
  PROVE  LET C == {c \in Children(log, r) : ~IgnoredLeaf(log[c], proxies)}
         IN  organize_in_order_with_callgraph(log, C, operation, key) =
               SumFunction([k \in {k \in Counting(r, proxies) : Key(log[k]) = key}
                              |-> Operation(log[k], operation)])
  <1> DEFINE n == Len(log)
             C == {c \in Children(log, r) : ~IgnoredLeaf(log[c], proxies)}
             U == Union(Part(log, C), C)
             T == {k \in Counting(r, proxies) : Key(log[k]) = key}
             f == Entries(log, operation, key)
             h == [k \in T |-> Operation(log[k], operation)]
  <1>1. organize_in_order_with_callgraph(log, C, operation, key) = Sum(f, U)
    BY OrganizedIs
  <1>2. \A k : k \in Counting(r, proxies) <=>
               /\ k \in U
               /\ ~log[k].is_same /\ log[k].contract_address \notin UnknownDapp
    BY CountingIs
  <1>3. T \subseteq U
    <2> HIDE DEF U
    <2>1. QED BY <1>2
  <1>4. n \in Nat /\ U \in SUBSET (1..n)
    <2>1. n \in Nat /\ Children(log, r) \subseteq r..n /\ \A c : Subtree(log, c) \subseteq c..n
      BY SubtreeIs
    <2>2. \A c \in C : Subtree(log, c) \subseteq 1..n
      BY <2>1
    <2>3. QED BY <2>1, <2>2 DEF Union, Part
  <1>5. Ints(f, 1..n)
    BY EntriesType
  <1>6. IsFiniteSet(1..n)
    BY <1>4, FS_Interval
  <1> HIDE DEF U
  <1>7. \A k \in U : f[k] = OfNode(log[k], operation, key)
    BY <1>4 DEF Entries
  <1>8. \A k \in U \ T : f[k] = 0
    BY <1>2, <1>7 DEF OfNode
  <1>9. \A k \in T : f[k] = h[k]
    <2>1. ASSUME NEW k \in T PROVE f[k] = h[k]
      <3>1. /\ ~log[k].is_same /\ log[k].contract_address \notin UnknownDapp /\ k \in U
            /\ Key(log[k]) = key
        BY <1>2
      <3>2. QED BY <1>7, <3>1 DEF OfNode
    <2>2. QED BY <2>1
  <1>10. DOMAIN h = T
    OBVIOUS
  <1> HIDE DEF T, f, h, n
  <1>11. IsFiniteSet(T) /\ IsFiniteSet(U \ T) /\ T \in SUBSET (1..n) /\ U \ T \in SUBSET (1..n)
    BY <1>3, <1>4, <1>6, FS_Subset
  <1>12. U = T \union (U \ T) /\ T \intersect (U \ T) = {}
    BY <1>3
  <1>13. Sum(f, U) = Sum(f, T) + Sum(f, U \ T)
    <2> DEFINE R == U \ T
               A == 1..n
    <2>1. /\ T \in SUBSET A /\ R \in SUBSET A /\ T \intersect R = {} /\ U = T \union R
          /\ IsFiniteSet(A) /\ Ints(f, A)
      BY <1>5, <1>6, <1>11, <1>12
    <2> HIDE DEF R, A
    <2>2. Sum(f, T \union R) = Sum(f, T) + Sum(f, R)
      BY <2>1, SumDisjoint
    <2>3. QED BY <2>1, <2>2 DEF R
  <1>14. Sum(f, U \ T) = 0
    BY <1>8, <1>11, SumZeros
  <1>15. Sum(f, T) \in Int
    BY <1>5, <1>6, <1>11, SumType
  <1>16. Sum(f, T) = Sum(h, T)
    <2>1. Ints(f, T)
      BY <1>5, <1>11 DEF Ints
    <2>2. QED BY <1>9, <1>11, <2>1, SumSame
  <1>17. SumFunction(h) = Sum(h, T)
    BY <1>10, SumFunctionIs
  <1>18. Sum(f, U) = SumFunction(h)
    BY <1>13, <1>14, <1>15, <1>16, <1>17
  <1>19. QED BY <1>1, <1>18 DEF T, h

\* What the digest needs of the log: it is a preorder listing, and it is what
\* fast_call has saved.
DigestInv == Steps(log) /\ (phase = "saved" => record # <<>>)

\* The root alone is a listing.
LEMMA DigestInit == Init => DigestInv
  <1> SUFFICES ASSUME Init PROVE DigestInv
    OBVIOUS
  <1>1. log = <<RootNode>> /\ phase = "running"
    BY DEF Init
  <1>2. Len(log) = 1
    BY <1>1
  <1>3. QED BY <1>1, <1>2 DEF DigestInv, Steps

\* One invocation more, one level below the innermost frame's at most.
LEMMA StepsAppend ==
  ASSUME NEW g \in Seq(Row), Steps(g), NEW row \in Row,
         Len(g) > 0 => row.level <= g[Len(g)].level + 1
  PROVE  Steps(Append(g, row))
  <1> DEFINE n == Len(g)
             t == Append(g, row)
  <1>1. n \in Nat
    BY LenProperties
  <1>2. Len(t) = n + 1 /\ t[n + 1] = row /\ \A i \in 1..n : t[i] = g[i]
    BY AppendProperties
  <1>3. (\A j \in 2..n : g[j].level <= g[j - 1].level + 1)
        /\ (n > 0 => row.level <= g[n].level + 1)
    BY DEF Steps
  <1> HIDE DEF n, t
  <1>4. ASSUME NEW j \in 2..(n + 1) PROVE t[j].level <= t[j - 1].level + 1
    <2>1. j - 1 \in 1..n /\ n > 0
      BY <1>1
    <2>2. CASE j = n + 1
      <3>1. j - 1 = n /\ t[j] = row /\ t[j - 1] = g[n]
        BY <1>1, <1>2, <2>1, <2>2
      <3>2. QED BY <1>3, <2>1, <3>1
    <2>3. CASE j # n + 1
      <3>1. j \in 2..n /\ j \in 1..n
        BY <1>1, <2>3
      <3>2. t[j] = g[j] /\ t[j - 1] = g[j - 1]
        BY <1>2, <2>1, <3>1
      <3>3. QED BY <1>3, <3>1, <3>2
    <2>4. QED BY <2>2, <2>3
  <1>5. QED BY <1>2, <1>4 DEF Steps, t

\* The last invocation is the innermost frame's, or one below it.
LEMMA LastLevel ==
  ASSUME IInv, phase = "running"
  PROVE  Len(log) \in Nat \ {0} /\ Depth \in Nat /\ log[Len(log)].level + 1 >= Depth
         /\ log[Len(log)].level \in Nat
  <1> DEFINE n == Len(log)
             d == Depth
             m == Len(call_stack_cache)
  <1>1. d \in Nat \ {0} /\ Top.row \in 1..n /\ n \in Nat /\ m \in Nat
    BY TopFrame DEF IInv
  <1>2. Lists(call_stack_cache, Top.row, n, d - 1)
    BY TopLists
  <1>3. m = n - Top.row + 1 /\ \A j \in 1..m : log[Top.row + j - 1] = Lowered(call_stack_cache[j], d - 1)
    BY <1>2 DEF Lists
  <1>4. call_stack_cache \in Seq(Row) /\ log \in Seq(Row)
    BY DEF IInv, TypeOK
  <1>5. ASSUME NEW j \in 1..m PROVE call_stack_cache[j].level \in Nat
    BY <1>4, SubtreeIs
  <1>6. \A j \in 1..n : log[j].level \in Nat
    BY <1>4, SubtreeIs
  <1>7. ASSUME NEW row \in Row PROVE Lowered(row, d - 1).level = row.level + (d - 1)
    BY DEF Row, Lowered
  <1>8. ASSUME NEW j \in 1..m PROVE call_stack_cache[j] \in Row
    BY <1>4, ElementOfSeq
  <1> HIDE DEF n, m, d
  <1>9. m \in 1..m /\ Top.row + m - 1 = n /\ n \in 1..n
    BY <1>1, <1>3
  <1>10. log[n] = Lowered(call_stack_cache[m], d - 1)
    BY <1>3, <1>9
  <1>11. log[n].level = call_stack_cache[m].level + (d - 1)
    BY <1>7, <1>8, <1>9, <1>10
  <1>12. call_stack_cache[m].level \in Nat /\ log[n].level \in Nat
    BY <1>5, <1>6, <1>9
  <1>13. n \in Nat \ {0} /\ d \in Nat /\ log[n].level + 1 >= d
    BY <1>1, <1>9, <1>11, <1>12
  <1>14. QED BY <1>12, <1>13 DEF n, d

\* Accesses keep the levels, and only a call adds an invocation.
LEMMA DigestNext ==
  ASSUME IInv, DigestInv, [Next]_vars
  PROVE  DigestInv'
  <1> DEFINE n == Len(log)
  <1>1. log \in Seq(Row) /\ record \in Seq([call_graph: Seq(Row),
                     delegatecall_record: [Address -> Callee \union {NoLink}]])
    BY DEF IInv, TypeOK
  <1>2. n \in Nat
    BY <1>1, LenProperties
  <1>3. CASE UNCHANGED <<phase, log, record>>
    BY <1>3 DEF DigestInv, Steps
  <1>4. CASE SLoad \/ SStore
    <2>1. phase = "running" /\ phase' = phase
      BY <1>4 DEF SLoad, SStore, Access, Recording
    <2>2. PICK r \in 1..n : \/ log' = [log EXCEPT ![r] = ReadMore(@)]
                            \/ log' = [log EXCEPT ![r] = WriteMore(@)]
      <3>1. Top.row \in 1..n
        BY <2>1, TopFrame DEF IInv
      <3>2. QED BY <1>4, <3>1 DEF SLoad, SStore
    <2>3. log[r] \in Row /\ DOMAIN log = 1..n
      BY <1>1, LenProperties
    <2>4. ReadMore(log[r]) \in Row /\ WriteMore(log[r]) \in Row
      BY <2>3, RowChanged
    <2>5. ReadMore(log[r]).level = log[r].level /\ WriteMore(log[r]).level = log[r].level
      BY <2>3 DEF ReadMore, WriteMore, Row
    <2>6. Len(log') = n
      BY <1>1, <2>2, <2>4, ExceptSeq
    <2>7. \A i \in 1..n : log'[i].level = log[i].level
      BY <2>2, <2>3, <2>5
    <2> HIDE DEF n
    <2>8. \A j \in 2..n : j \in 1..n /\ j - 1 \in 1..n
      BY <1>2
    <2>9. \A j \in 2..n : log'[j].level <= log'[j - 1].level + 1
      <3>1. \A j \in 2..n : log[j].level <= log[j - 1].level + 1
        BY DEF DigestInv, Steps, n
      <3>2. QED BY <2>7, <2>8, <3>1
    <2>10. Steps(log')
      BY <2>6, <2>9 DEF Steps
    <2>11. QED BY <2>1, <2>10 DEF DigestInv, Steps
  <1>5. CASE Return \/ MalformedDelegateCall
    <2>1. log' = log /\ EndFrame
      BY <1>5 DEF Return, MalformedDelegateCall, history
    <2>2. phase = "running"
      BY <1>5 DEF Return, MalformedDelegateCall, Recording
    <2>3. phase' = "saved" => record' # <<>>
      BY <2>1, <2>2 DEF EndFrame, Save
    <2>4. QED BY <2>1, <2>3 DEF DigestInv, Steps
  <1>6. CASE InnerReturn
    BY <1>3, <1>6 DEF InnerReturn, history
  <1>7. CASE \E s \in Scheme, a \in Callee, f \in Selector : Call(s, a, f)
    <2>1. PICK s \in Scheme, to \in Callee, f \in Selector : Call(s, to, f)
      BY <1>7
    <2>2. phase = "running" /\ phase' = phase
      BY <2>1 DEF Call, Recording
    <2>3. CASE to \in Precompile
      BY <1>3, <2>1, <2>3 DEF Call
    <2>4. CASE to \notin Precompile
      <3> DEFINE row == CallGraphNode(Depth, to, f)
      <3>1. log' = Append(log, row)
        BY <2>1, <2>4 DEF Call, replay_call
      <3>2. /\ Len(log) \in Nat \ {0} /\ Depth \in Nat /\ log[Len(log)].level + 1 >= Depth
            /\ log[Len(log)].level \in Nat
        BY <2>2, LastLevel
      <3>3. row \in Row /\ row.level = Depth
        BY <2>4, <3>2 DEF CallGraphNode, Row, Callee
      <3> HIDE DEF row
      <3>4. Steps(Append(log, row))
        <4>1. row.level <= log[Len(log)].level + 1
          BY <3>2, <3>3
        <4>2. QED BY <1>1, <3>3, <4>1, StepsAppend DEF DigestInv
      <3>5. Steps(log')
        BY <3>1, <3>4
      <3>6. QED BY <2>2, <3>5 DEF DigestInv, Steps
    <2>5. QED BY <2>3, <2>4
  <1>8. CASE \E s \in Scheme, a \in Address, f \in Selector : InnerCall(s, a, f)
    BY <1>3, <1>8 DEF InnerCall, history
  <1>9. CASE \E f \in Fresh : Create(f)
    BY <1>3, <1>9 DEF Create, history
  <1>10. CASE UNCHANGED vars
    BY <1>3, <1>10 DEF vars, history
  <1>11. QED
    BY <1>4, <1>5, <1>6, <1>7, <1>8, <1>9, <1>10 DEF Next

\* What fast_call saved is the log, so that its digest is the log's.
LEMMA DigestHolds == IInv /\ DigestInv => DigestCountsOnce
  <1> SUFFICES ASSUME IInv, DigestInv, phase = "saved" PROVE DigestCountsOnce
    BY DEF DigestCountsOnce
  <1> DEFINE graph   == record[1].call_graph
             proxies == record[1].delegatecall_record
             root    == RootContract(graph, proxies)
  <1>1. log \in Seq(Row) /\ Steps(log) /\ Len(log) \in Nat
    BY LenProperties DEF IInv, TypeOK, DigestInv
  <1>2. Len(record) \in Nat /\ Len(record) # 0
    BY LenProperties, EmptySeq DEF IInv, TypeOK, DigestInv
  <1>3. graph = log
    <2>1. 1 \in 1..Len(record)
      BY <1>2
    <2>2. QED BY <2>1 DEF IInv, GraphIsCallTree
  <1> HIDE DEF proxies
  <1>4. ASSUME IsProxy(log, proxies) => Len(log) > 1, NEW i \in 1..Len(log),
               NEW operation \in {"read", "write", "invoke"}
        PROVE  filter_ignore(log, proxies, operation, Key(log[i])) =
                 SumFunction([k \in {k \in Counting(RootContract(log, proxies), proxies) :
                                       Key(log[k]) = Key(log[i])}
                                |-> Operation(log[k], operation)])
    <2> DEFINE r == RootContract(log, proxies)
               C == {c \in Children(log, r) : ~IgnoredLeaf(log[c], proxies)}
    <2>1. r \in 1..Len(log)
      BY <1>1, <1>4 DEF RootContract
    <2>2. filter_ignore(log, proxies, operation, Key(log[i]))
            = organize_in_order_with_callgraph(log, C, operation, Key(log[i]))
      BY DEF filter_ignore
    <2> HIDE DEF r
    <2>3. organize_in_order_with_callgraph(log, C, operation, Key(log[i])) =
            SumFunction([k \in {k \in Counting(r, proxies) : Key(log[k]) = Key(log[i])}
                           |-> Operation(log[k], operation)])
      BY <1>1, <2>1, DigestBelow
    <2>4. QED BY <2>2, <2>3 DEF r
  <1>5. QED BY <1>3, <1>4 DEF DigestCountsOnce, proxies

\* The digest of every saved replay counts each invocation below the root, its
\* reads and its writes exactly once (execute_with_transaction.py's traversals).
THEOREM DigestIsExact == Spec => []DigestCountsOnce
  <1>1. IInv /\ DigestInv /\ [Next]_vars => DigestInv'
    BY DigestNext
  <1>2. QED
    BY <1>1, DigestInit, DigestHolds, ReplayInductive, PTL DEF Spec
=============================================================================
