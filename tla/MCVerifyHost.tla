---------------------------- MODULE MCVerifyHost ----------------------------
(***************************************************************************)
(* Instances of VerifyHost for TLC.  t is the target, l a library of the   *)
(* same builder (its DApp is not in the dataset, the creator decides), v   *)
(* the victim, x a contract of another DApp that the target's input names. *)
(***************************************************************************)
EXTENDS VerifyHost

CONSTANTS t, l, v, x

MCDappOf == [a \in Address |->
  CASE a = t -> "lending" [] a = v -> "reader" [] a = x -> "pool"
    [] OTHER -> "unknown"]
MCCreatorOf == [a \in Address |->
  CASE a \in {t, l} -> "builder" [] a = v -> "reader" [] a = x -> "pool"
    [] OTHER -> "zero"]
MCBytecodeMentions == [a \in Address |->
  IF a = l THEN {x} ELSE {}]
MCCallInput == {{}, {x}}
MCOneInput == {{x}}
MCNoInput == {{}}
=============================================================================
