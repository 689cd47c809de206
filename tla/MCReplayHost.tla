---------------------------- MODULE MCReplayHost ----------------------------
(* Instances of ReplayHost for TLC.                                         *)
EXTENDS ReplayDigest

CONSTANTS proxy, logic, zero

MCContract == {proxy, logic}
MCSameDapp == {proxy}
MCOwnerOnly == {<<proxy, zero>>, <<logic, zero>>}
=============================================================================
