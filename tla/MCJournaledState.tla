-------------------------- MODULE MCJournaledState --------------------------
(* One sender; a contract n1 created first, m that it     *)
(* creates, and x, the CREATE2 address of both.                              *)
EXTENDS JournaledState

CONSTANTS u1, p3, c0, n1, n2, m, x

MCAddress == {u1, p3, c0, n1, n2, m, x}
MCTxCaller == {u1}
MCGenesis == u1 :> 3
MCCreateAddress == [p \in MCAddress \X (0..MaxNonce) |->
  CASE p = <<u1, 0>> -> n1 [] p[1] = u1 -> n2 [] p[1] = n1 -> m [] OTHER -> x]
MCCreate2Address == [a \in MCAddress |-> x]
MCAccessList == x :> {"k"}
MCNamed == {p3, n1, x}
MCKey == {"k"}
=============================================================================
