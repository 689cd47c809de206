--------------------------- MODULE MCEndpointCache ---------------------------
(***************************************************************************)
(* Instances of EndpointCache for TLC: a slot and a balance that change    *)
(* between the two blocks, a user who has no code, and the creator of a    *)
(* pool.                                                                   *)
(***************************************************************************)
EXTENDS EndpointCache

CONSTANTS price, pool, user

MCAsked ==
  {<<"slot", price>>, <<"balance", user>>, <<"code", user>>, <<"contract", user>>,
   <<"creator", pool>>}

MCChain ==
  [k \in Key |-> IF k[1] = "code" /\ k[2] = user THEN "0x"
                 ELSE IF k[3] = 1 THEN "new" ELSE "old"]

MCLaunch ==
  {[target |-> t, victim |-> 3 - t, mode |-> "onebyone"] : t \in Block}
    \union {[target |-> 1, victim |-> 2, mode |-> f] : f \in {"all", "dump"}}
=============================================================================
