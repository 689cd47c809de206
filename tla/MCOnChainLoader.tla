--------------------------- MODULE MCOnChainLoader ---------------------------
(***************************************************************************)
(* Instances of OnChainLoader for TLC: a deployed target t, a contract p   *)
(* that a factory of another DApp made, and q, made by a contract of that  *)
(* factory: with MaxSteps = 2, one creation more than the lookup follows   *)
(* when all goes well; an account without code and two addresses, of equal *)
(* use, for CREATE.                                                        *)
(***************************************************************************)
EXTENDS OnChainLoader, TLC

CONSTANTS t, p, q, factory, maker

MCCreatedBy == [c \in Created |->
  CASE c = t -> "builder" [] c = p -> factory [] c = q -> maker
    [] c = factory -> "other" [] c = maker -> factory]
MCBorn == [c \in Created |->
  CASE c = t -> 1 [] c = factory -> 2 [] c = p -> 3 [] c = maker -> 4 [] c = q -> 5]
MCRows == << <<"builder", "lending">>, <<"other", "swap">> >>
MCSymmetry == Permutations(Fresh)
=============================================================================
