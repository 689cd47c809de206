------------------------------- MODULE MCParts -------------------------------
(***************************************************************************)
(* The small components of the static side, each by itself: the algorithms *)
(* on the inputs of MCAlgorithms, the driver on a block with two            *)
(* transactions cut by a page, and the files of a contract with source and  *)
(* of one without.  They share nothing: a behaviour is one of one part,     *)
(* while the others stay as they begin.                                     *)
(***************************************************************************)
EXTENDS MCAlgorithms, Driver, ContractFiles

CONSTANTS t, c, f, g, c1, c2

MCBlock      == <<6, 5, 5, 4, 2, 1>>
MCReplayable == {1, 2, 3, 5, 6}
MCMethod     == <<f, f, g, f, g, f>>

VARIABLE part

PartsInit == part \in {"algorithms", "driver", "files"} /\ TaskInit /\ Init /\ FilesInit

PartsNext ==
  /\ UNCHANGED part
  /\ \/ part = "algorithms" /\ TaskNext /\ UNCHANGED <<vars, file_vars>>
     \/ part = "driver" /\ Next /\ UNCHANGED <<task, file_vars>>
     \/ part = "files" /\ FilesNext /\ UNCHANGED <<task, vars>>

PartsSpec == PartsInit /\ [][PartsNext]_<<part, task, vars, file_vars>>
=============================================================================
