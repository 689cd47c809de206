----------------------------- MODULE ReplayHost -----------------------------
(***************************************************************************)
(* The replay host (src/evm/replay/replay_host.rs, replay_vm.rs): one      *)
(* process replays the victim's transaction and saves its call graph and   *)
(* its proxies, which the driver searches for functions worth testing.     *)
(*                                                                         *)
(* ReplayFuzzHost wraps a FuzzHost.  The interpreters it drives are        *)
(* frames; init code is handed to the inner FuzzHost, which drives it and  *)
(* everything below it (inner) and records nothing.  Bytecode is           *)
(* arbitrary: the running interpreter may issue any modelled opcode next.  *)
(*                                                                         *)
(* A CallGraphNode is the preorder listing of its tree: a sequence of rows *)
(* with their level below its root.  dapp_invoke_count and                 *)
(* logic_to_storage_contract are written but never read or saved, and are  *)
(* left out.                                                               *)
(***************************************************************************)
EXTENDS Naturals, Sequences

CONSTANTS
  Contract,          \* addresses called, apart from precompiles and new contracts
  Precompile,
  Fresh,             \* addresses CREATE may draw
  SameDapp,          \* the contracts whose known DApp is the root's
  Selector, NoInput, \* 4-byte selectors; NoInput is [0;4], for short input
  Root, RootSelector,\* the transaction's receiver and selector
  NoLink,            \* contract_to_logic_contract without an entry
  Scheme,
  MaxCalls, MaxAccess  \* bounds on what the bytecode does

Address == Contract \union Fresh
Callee  == Address \union Precompile

ASSUME ReplayAssumption ==
  /\ Address \intersect Precompile = {} /\ NoLink \notin Callee
  /\ Root \in Contract /\ RootSelector \in Selector /\ NoInput \in Selector
  /\ Scheme \subseteq {"Call", "CallCode", "DelegateCall", "StaticCall"}
  /\ MaxCalls \in Nat /\ MaxAccess \in Nat

VARIABLES
  phase,             \* "running", "saved"
  frames,            \* the interpreters of the replay host, innermost last
  inner,             \* above them, those of the inner host
  call_stack_cache,  \* the node of the innermost frame
  is_delegate_call,
  contract_to_logic, \* execute_dapp_data.contract_to_logic_contract
  env,               \* fuzzhost.env.tx: transact_to and data
  call_depth,
  calls, accesses,   \* bounds: host calls, and SLOADs and SSTOREs, so far
  record,            \* what fast_call saved
  log,               \* history: every recorded invocation, in order of start
  delegations,       \* history: DELEGATECALLs with the caller's own selector
  stopped            \* history: has a DELEGATECALL stopped on its operands?

recorded == <<call_stack_cache, contract_to_logic>>
history  == <<log, delegations, stopped>>
vars == <<phase, frames, inner, recorded, is_delegate_call, env, call_depth,
          calls, accesses, record, history>>

-----------------------------------------------------------------------------
Row   == [level: Nat, contract_address: Address, is_same: BOOLEAN,
          called_function_signature: Selector, read: Nat, write: Nat]
Env   == [to: Address, data: Selector]
Frame == [address: Address,       \* interp.contract.address: its storage
          selector: Selector,     \* of interp.contract.input
          node_cache: Seq(Row),   \* the caller's node, a local of call()
          old_env: Env,           \* a local of replay_call()
          row: Nat]               \* history: its row in log
Inner == [kind: {"init", "call"}, address: Address, selector: Selector,
          old_env: Env,
          depth: Nat]             \* history: call_depth when it started

CallGraphNode(level, a, selector) ==
  [level |-> level, contract_address |-> a, is_same |-> a \in SameDapp,
   called_function_signature |-> selector, read |-> 0, write |-> 0]

Lowered(row, n) == [row EXCEPT !.level = @ + n]

\* mutant: the child replaces the children before it
AddOnlyChild(node, child) ==
  <<node[1]>> \o [i \in DOMAIN child |-> Lowered(child[i], 1)]

add_child(node, child) ==
  node \o [i \in DOMAIN child |-> Lowered(child[i], 1)]

ReadMore(row)  == [row EXCEPT !.read = @ + 1]
WriteMore(row) == [row EXCEPT !.write = @ + 1]

add_read(node)  == [node EXCEPT ![1] = ReadMore(@)]
add_write(node) == [node EXCEPT ![1] = WriteMore(@)]

Depth == Len(frames)
Top   == frames[Depth]
Below == SubSeq(frames, 1, Depth - 1)

Recording == phase = "running" /\ inner = <<>>
InitCode  == phase = "running" /\ inner # <<>>
TopInner  == inner[Len(inner)]

\* The storage address of a callee: its own, or the caller's.
Storage(scheme, address, to) ==
  IF scheme \in {"Call", "StaticCall"} THEN to ELSE address

-----------------------------------------------------------------------------
\* ReplayFuzzHost::new: the root counts as its own DApp, known or not.
RootNode == [CallGraphNode(0, Root, RootSelector) EXCEPT !.is_same = TRUE]

\* fast_call and the start of execute_from_pc
RootFrame == [address |-> Root, selector |-> RootSelector, node_cache |-> <<>>,
              old_env |-> [to |-> Root, data |-> RootSelector], row |-> 1]

\* evm_fuzzer sets up the host and starts the transaction.
Init ==
  /\ phase = "running"
  /\ frames = <<RootFrame>>
  /\ inner = <<>>
  /\ call_stack_cache = <<RootNode>>
  /\ is_delegate_call = FALSE
  /\ contract_to_logic = [a \in Address |-> NoLink]
  /\ env = [to |-> Root, data |-> RootSelector]
  /\ call_depth = 0 /\ calls = 0 /\ accesses = 0
  /\ record = <<>>
  /\ log = call_stack_cache /\ delegations = {} /\ stopped = FALSE

\* step() before SLOAD and SSTORE counts them in the current node.
Access ==
  /\ Recording /\ accesses < MaxAccess
  /\ accesses' = accesses + 1
  /\ UNCHANGED <<phase, frames, inner, is_delegate_call, contract_to_logic,
                 env, call_depth, calls, record, delegations, stopped>>

SLoad ==
  /\ Access
  /\ call_stack_cache' = add_read(call_stack_cache)
  /\ log' = [log EXCEPT ![Top.row] = ReadMore(@)]

SStore ==
  /\ Access
  /\ call_stack_cache' = add_write(call_stack_cache)
  /\ log' = [log EXCEPT ![Top.row] = WriteMore(@)]

\* call(): a call that the DELEGATECALL step has announced, with the selector
\* of the caller's own input, makes the caller a proxy.
LinkAny(announced, to, selector) ==                        \* mutant
  IF announced THEN [contract_to_logic EXCEPT ![Top.address] = to]
               ELSE contract_to_logic

Linked(announced, to, selector) ==
  IF announced /\ selector = Top.selector
    THEN [contract_to_logic EXCEPT ![Top.address] = to]
    ELSE contract_to_logic

Cleared(announced) == FALSE

\* replay_call: the callee's interpreter starts in an environment of its own.
replay_call(to, address, selector) ==
  /\ frames' = Append(frames,
       [address |-> address, selector |-> selector,
        node_cache |-> call_stack_cache, old_env |-> env, row |-> Len(log) + 1])
  /\ call_stack_cache' = <<CallGraphNode(0, to, selector)>>
  /\ env' = [to |-> address, data |-> selector]
  /\ call_depth' = call_depth + 1
  /\ log' = Append(log, CallGraphNode(Depth, to, selector))

\* CALL, CALLCODE, DELEGATECALL, STATICCALL: step(), then call() up to the
\* start of the callee, or all of it for a precompile.
Call(scheme, to, selector) ==
  LET announced == is_delegate_call \/ scheme = "DelegateCall"
      address   == Storage(scheme, Top.address, to)
  IN
  /\ Recording /\ calls < MaxCalls
  /\ calls' = calls + 1
  /\ contract_to_logic' = Linked(announced, to, selector)
  /\ is_delegate_call' = Cleared(announced)
  /\ delegations' = IF scheme = "DelegateCall" /\ selector = Top.selector
                      THEN delegations \union {<<Top.address, to>>}
                      ELSE delegations
  /\ IF to \in Precompile
       THEN UNCHANGED <<frames, call_stack_cache, env, call_depth, log>>
       ELSE replay_call(to, address, selector)
  /\ UNCHANGED <<phase, inner, accesses, record, stopped>>

-----------------------------------------------------------------------------
\* The tail of replay_call and of call
RestoreDepthOnly(old_env) ==                               \* mutant
  call_depth' = call_depth - 1 /\ env' = env

\* mutant: the depth was never counted
RestoreUncounted(old_env) ==
  call_depth' = call_depth - 2 /\ env' = old_env

Restore(old_env) ==
  /\ call_depth' = call_depth - 1
  /\ env' = old_env

\* fast_call saves the record; only its receiver's own result matters.
Save ==
  /\ phase' = "saved" /\ frames' = <<>>
  /\ record' = <<[call_graph |-> call_stack_cache,
                  delegatecall_record |-> contract_to_logic]>>
  /\ UNCHANGED <<call_stack_cache, env, call_depth>>

\* An interpreter ends, with whatever result: the graph keeps the call of an
\* interpreter that reverted.
EndFrame ==
  IF Depth = 1 THEN Save
  ELSE /\ frames' = Below
       /\ call_stack_cache' = add_child(Top.node_cache, call_stack_cache)
       /\ Restore(Top.old_env)
       /\ UNCHANGED <<phase, record>>

Return ==
  /\ Recording
  /\ EndFrame
  /\ UNCHANGED <<inner, is_delegate_call, contract_to_logic, calls, accesses,
                 history>>

\* step() announces a DELEGATECALL whose operands then stop the interpreter
\* before call(): the stack is too short or an offset too large.
MalformedDelegateCall ==
  /\ Recording
  /\ is_delegate_call' = TRUE /\ stopped' = TRUE
  /\ EndFrame
  /\ UNCHANGED <<inner, contract_to_logic, calls, accesses, log, delegations>>

-----------------------------------------------------------------------------
\* create(): FuzzHost::create runs the init code at a drawn address, in the
\* environment as it is.
Create(f) ==
  /\ phase = "running"
  /\ \A i \in 1..Len(inner) : inner[i].address # f
  /\ calls < MaxCalls
  /\ calls' = calls + 1
  /\ inner' = Append(inner, [kind |-> "init", address |-> f,
                             selector |-> NoInput, old_env |-> env,
                             depth |-> call_depth])
  /\ UNCHANGED <<phase, frames, recorded, is_delegate_call, env, call_depth,
                 accesses, record, history>>

\* FuzzHost::call, as far as the wrapping host can see it
InnerCall(scheme, to, selector) ==
  LET address == Storage(scheme, TopInner.address, to) IN
  /\ InitCode /\ calls < MaxCalls
  /\ calls' = calls + 1
  /\ inner' = Append(inner, [kind |-> "call", address |-> address,
                             selector |-> selector, old_env |-> env,
                             depth |-> call_depth])
  /\ env' = [to |-> address, data |-> selector]
  /\ call_depth' = call_depth + 1
  /\ UNCHANGED <<phase, frames, recorded, is_delegate_call, accesses, record,
                 history>>

InnerReturn ==
  /\ InitCode
  /\ inner' = SubSeq(inner, 1, Len(inner) - 1)
  /\ IF TopInner.kind = "call" THEN Restore(TopInner.old_env)
                               ELSE UNCHANGED <<env, call_depth>>
  /\ UNCHANGED <<phase, frames, recorded, is_delegate_call, calls, accesses,
                 record, history>>

Next ==
  \/ SLoad \/ SStore \/ Return \/ MalformedDelegateCall \/ InnerReturn
  \/ \E s \in Scheme, a \in Callee, f \in Selector : Call(s, a, f)
  \/ \E s \in Scheme, a \in Address, f \in Selector : InnerCall(s, a, f)
  \/ \E f \in Fresh : Create(f)

Spec == Init /\ [][Next]_vars

-----------------------------------------------------------------------------
\* Types of every variable; replay_host.rs's field declarations.
TypeOK ==
  /\ phase \in {"running", "saved"}
  /\ frames \in Seq(Frame) /\ inner \in Seq(Inner)
  /\ call_stack_cache \in Seq(Row) /\ log \in Seq(Row)
  /\ is_delegate_call \in BOOLEAN
  /\ contract_to_logic \in [Address -> Callee \union {NoLink}]
  /\ env \in Env
  /\ call_depth \in Nat /\ calls \in Nat /\ accesses \in Nat
  /\ record \in Seq([call_graph: Seq(Row),
                     delegatecall_record: [Address -> Callee \union {NoLink}]])
  /\ delegations \in SUBSET (Address \X Callee) /\ stopped \in BOOLEAN

\* The node that frame i's calls and accesses are being added to, and the last
\* invocation that belongs to it or to a call below it.
NodeOf(i)  == IF i = Depth THEN call_stack_cache ELSE frames[i + 1].node_cache
LastRow(i) == IF i = Depth THEN Len(log) ELSE frames[i + 1].row - 1

\* node is the listing of the invocations first..last, its root at level.
Lists(node, first, last, level) ==
  /\ Len(node) = last - first + 1
  /\ \A j \in 1..Len(node) :
       log[first + j - 1] = Lowered(node[j], level)

\* The call graph is the tree of the calls really made: while call() of each
\* frame holds its caller's node in a local and the current one in the shared
\* field, every node lists the invocations of its subtree, each once, in
\* order, with its own reads and writes; and so does the saved graph.
GraphIsCallTree ==
  /\ \A i \in 1..Depth : Lists(NodeOf(i), frames[i].row, LastRow(i), i - 1)
  /\ \A k \in 1..Len(record) : record[k].call_graph = log

\* "a contract [is] proxy only if current function signature and target
\* function signature are same and is a Delegatecall" (replay_host.rs:402-404).
ProxyIsDelegate ==
  \A a \in Address :
    contract_to_logic[a] # NoLink => <<a, contract_to_logic[a]>> \in delegations

\* The same, as long as no DELEGATECALL stops between its announcement by
\* step() and call(): whatever calls, reverts and init code come in between.
ProxyByDelegateCall == ~stopped => ProxyIsDelegate

\* Whatever calls and init code are in progress, env is that of the innermost
\* call: replay_call restores old_env, and create changes nothing.
EnvMatchesRun ==
  phase = "running" =>
    IF \E i \in 1..Len(inner) : inner[i].kind = "call"
      THEN \E i \in 1..Len(inner) :
             /\ inner[i].kind = "call"
             /\ \A j \in i+1..Len(inner) : inner[j].kind = "init"
             /\ env = [to |-> inner[i].address, data |-> inner[i].selector]
      ELSE env = [to |-> Top.address, data |-> Top.selector]

\* What GraphIsCallTree needs to be inductive: the transaction is the bottom
\* frame until its record is saved, and frames started in stack order.
FramesInOrder ==
  /\ (phase = "running") = (frames # <<>>)
  /\ phase = "saved" => inner = <<>>
  /\ phase = "running" => record = <<>> /\ frames[1].row = 1
  /\ \A i \in 1..Depth :
       /\ frames[i].row \in 1..Len(log)
       /\ \A j \in 1..(i - 1) : frames[j].row < frames[i].row

\* Every call of either host added one to the depth, and init code did not:
\* sub_call_depth, on an unsigned field, never finds 0.
DepthOf(e) == IF e.kind = "call" THEN e.depth + 1 ELSE e.depth

DepthChain ==
  phase = "running" =>
    /\ call_depth = IF inner = <<>> THEN Depth - 1 ELSE DepthOf(TopInner)
    /\ \A i \in 1..Len(inner) :
         inner[i].depth = IF i = 1 THEN Depth - 1 ELSE DepthOf(inner[i - 1])

IInv == TypeOK /\ FramesInOrder /\ DepthChain /\ GraphIsCallTree

=============================================================================
