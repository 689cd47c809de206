----------------------------- MODULE ReplayDigest -----------------------------
(***************************************************************************)
(* What the driver reads out of a replay (execute_with_transaction.py):    *)
(* from the saved call graph and its proxies, how often each function of   *)
(* each DApp was invoked and read and wrote, by which the candidates for   *)
(* tests are ranked.                                                       *)
(*                                                                         *)
(* A call graph is the preorder listing of ReplayHost; a node is its       *)
(* number.  The DApp of a contract is fixed, so that a record keyed by     *)
(* DApp, contract and function is one keyed by contract and function.      *)
(***************************************************************************)
EXTENDS ReplayHost, Functions

CONSTANTS
  UnknownDapp,   \* the contracts without a known DApp
  Unanalysed,    \* those without source, or whose analysis fails
  OwnerOnly      \* <<contract, selector>> of the functions only owners call

Subtree(graph, i) ==
  {j \in i..Len(graph) : \A k \in (i + 1)..j : graph[k].level > graph[i].level}

Children(graph, i) == {j \in Subtree(graph, i) : graph[j].level = graph[i].level + 1}

Key(node) == <<node.contract_address, node.called_function_signature>>

\* What a node adds to its entry; every node is one invocation.
Operation(node, operation) ==
  IF operation = "invoke" THEN 1 ELSE node[operation]

\* organize_in_order_with_callgraph_for_leaf
OfNode(node, operation, key) ==
  IF node.is_same \/ node.contract_address \in UnknownDapp \/ Key(node) # key THEN 0
  ELSE Operation(node, operation)

\* mutant: a node of the root's own DApp hides the calls below it
StopsAtSame(graph, nodes, operation, key) ==
  LET below[i \in 1..Len(graph)] ==
        IF graph[i].is_same THEN 0
        ELSE OfNode(graph[i], operation, key)
               + SumFunction([j \in Children(graph, i) |-> below[j]])
  IN  SumFunction([i \in nodes |-> below[i]])

\* The entry of key, once each node has been added below its children
organize_in_order_with_callgraph(graph, nodes, operation, key) ==
  LET below[i \in 1..Len(graph)] ==
        OfNode(graph[i], operation, key)
          + SumFunction([j \in Children(graph, i) |-> below[j]])
  IN  SumFunction([i \in nodes |-> below[i]])

logic_address(proxies, a) == IF proxies[a] = NoLink THEN a ELSE proxies[a]

\* A call of the root's DApp that only owners can make is of no interest.
IgnoredLeaf(node, proxies) ==
  LET behind == logic_address(proxies, node.contract_address)
  IN  /\ node.is_same
      /\ behind \notin Unanalysed
      /\ <<behind, node.called_function_signature>> \in OwnerOnly

\* A proxy's root stands for its first child; one without children, which a
\* DELEGATECALL to a precompile leaves, ends in IndexError.
IsProxy(graph, proxies) == proxies[graph[1].contract_address] # NoLink

RootContract(graph, proxies) == IF IsProxy(graph, proxies) THEN 2 ELSE 1

\* filter_ignore_contract_with_callgraph
filter_ignore(graph, proxies, operation, key) ==
  organize_in_order_with_callgraph(graph,
    {i \in Children(graph, RootContract(graph, proxies)) : ~IgnoredLeaf(graph[i], proxies)},
    operation, key)

-----------------------------------------------------------------------------
\* The invocations that the i-th one is made by, itself included
MadeBy(i) == {k \in 1..i : \A m \in (k + 1)..i : log[m].level > log[k].level}

\* The invocations that count: under the root's contract, of another, known
\* DApp, and not on behalf of an owner's call.
Counting(root, proxies) ==
  {i \in 1..Len(log) :
     /\ root \in MadeBy(i) \ {i}
     /\ ~log[i].is_same /\ log[i].contract_address \notin UnknownDapp
     /\ \A k \in MadeBy(i) :
          log[k].level = log[root].level + 1 => ~IgnoredLeaf(log[k], proxies)}

\* Whatever the transaction called, reverted or created: the driver's count of
\* each function is the number of invocations, SLOADs and SSTOREs the function
\* really made below the root (or below the root's logic contract, when that
\* is what a proxy called first), each once.
DigestCountsOnce ==
  phase = "saved" =>
    LET graph   == record[1].call_graph
        proxies == record[1].delegatecall_record
        root    == RootContract(graph, proxies)
        used    == IsProxy(graph, proxies) =>
                     /\ Len(graph) > 1
                     /\ graph[2].contract_address = proxies[graph[1].contract_address]
    IN  used => \A i \in 1..Len(log), operation \in {"read", "write", "invoke"} :
          filter_ignore(graph, proxies, operation, Key(log[i])) =
            SumFunction([k \in {k \in Counting(root, proxies) : Key(log[k]) = Key(log[i])}
                           |-> Operation(log[k], operation)])
=============================================================================
