---------------------------- MODULE OnChainLoader ----------------------------
(***************************************************************************)
(* What the verification process loads from the chain while bytecode runs: *)
(* the OnChain middleware (src/evm/onchain/onchain.rs) fills the host's    *)
(* code and address_to_dapp before each opcode, and CREATE adds code of    *)
(* its own.  Bytecode may name any address in any order; what must not     *)
(* depend on that order is which code runs, which DApp it belongs to, and  *)
(* whether the process survives the opcode.                                *)
(***************************************************************************)
EXTENDS Integers, Sequences

CONSTANTS
  Contract,     \* addresses with code on chain
  EOA,          \* addresses without
  Fresh,        \* addresses CREATE may draw
  Launched,     \* the receivers of the target and the victim transaction
  Factory,      \* contracts met only as creators
  Builder,      \* accounts that create contracts
  CreatedBy,    \* the account or contract that created each contract
  Creations,    \* how many creations the chain has seen
  Born,         \* the place of each contract among them
  Rows,         \* the rows of data.csv: creators and DApps
  MaxSteps,     \* creations get_contract_creator follows (5)
  Zero,         \* the zero address as creator
  MaxCreates    \* bound on nested CREATEs

Address == Contract \union EOA \union Fresh
Created == Contract \union Factory
Creator == Created \union Builder \union {Zero}

ASSUME ConstAssumption ==
  /\ Contract \intersect EOA = {} /\ Fresh \intersect (Contract \union EOA) = {}
  /\ Created \intersect Builder = {} /\ Zero \notin Created \union Builder
  /\ "absent" \notin Creator /\ "not Dapp" \notin Creator
  /\ Launched \subseteq Contract /\ CreatedBy \in [Created -> Created \union Builder]
  /\ Creations \in Nat /\ Born \in [Created -> 1..Creations]
  /\ \A a \in Created : CreatedBy[a] \in Created => Born[CreatedBy[a]] < Born[a]
  /\ Rows \in Seq(Builder \X STRING)
  /\ \A i, j \in DOMAIN Rows : Rows[i][1] = Rows[j][1] => i = j
  /\ MaxSteps \in Nat \ {0} /\ MaxCreates \in Nat

VARIABLES
  code,           \* host.code: "absent", "empty" or "code" per address
  loaded_code, loaded_abi, \* what the middleware takes as loaded
  address_to_dapp,  \* the creator found per address, "absent" before
  address_to_name,  \* the DApp per creator, as far as data.csv was read
  creating,         \* addresses whose init code is running, innermost last
  called,           \* history: addresses that were called
  panic             \* how the process died, <<>> while it lives

loads == <<loaded_code, loaded_abi>>
vars == <<code, loads, address_to_dapp, address_to_name, creating, called, panic>>

-----------------------------------------------------------------------------

ChainCode(a) == IF a \in Contract THEN "code" ELSE "empty"

\* add_from_file: a file that is missing or breaks off is reported and ignored.
add_from_file(read) ==
  [c \in {Rows[i][1] : i \in 1..read} |->
     Rows[CHOOSE i \in 1..read : Rows[i][1] = c][2]]

search_by_address(names, creator) ==
  IF creator \in DOMAIN names THEN names[creator] ELSE "unknown"

DatasetDapp(creator) == search_by_address(address_to_name, creator)

\* get_contract_dapp_info: a missing entry counts as creator zero.
CreatorAt(a) == IF address_to_dapp[a] = "absent" THEN Zero ELSE address_to_dapp[a]

\* is_from_same_dapp on two addresses as the host knows them
SameByName(a, b) ==                                     \* mutant
  DatasetDapp(CreatorAt(a)) = DatasetDapp(CreatorAt(b))

is_from_same_dapp(a, b) ==
  IF "unknown" \in {DatasetDapp(CreatorAt(a)), DatasetDapp(CreatorAt(b))}
    THEN CreatorAt(a) = CreatorAt(b)
    ELSE DatasetDapp(CreatorAt(a)) = DatasetDapp(CreatorAt(b))

\* What get_contract_creator may return when n more creations can be followed:
\* the creator, if that is an account or its own creation cannot be looked up;
\* else what is found above it, or zero if its transaction is not.
Above[n \in 0..MaxSteps] == [a \in Created |->
  IF n = 0 THEN {"not Dapp"}
  ELSE {CreatedBy[a]}
         \union IF CreatedBy[a] \notin Created THEN {}
                ELSE Above[n - 1][CreatedBy[a]] \union
                       (IF n = 1 THEN {} ELSE {Zero})]

get_contract_creator(a) == {Zero} \union Above[MaxSteps][a]

\* What get_dapp_info can find; "not Dapp" is no address, and ends the process.
Creators(a) ==
  (IF a \in Contract THEN get_contract_creator(a) ELSE {Zero}) \intersect Creator

\* from_address: the creators of the contracts a process is started on, which
\* may not be found.
from_address(given) ==
  {f \in [Address -> Creator \union {"absent"}] :
     \A a \in Address : IF a \in given THEN f[a] \in Creators(a) ELSE f[a] = "absent"}

initialize_contract(given) ==
  [a \in Address |-> IF a \in given THEN "code" ELSE "absent"]

\* evm_fuzzer: a new host that knows these contracts and nothing else
evm_fuzzer(given) ==
  /\ code = initialize_contract(given) /\ called = given
  /\ address_to_dapp \in from_address(given)
  /\ loaded_code = {} /\ loaded_abi = {} /\ creating = <<>> /\ panic = <<>>

\* A verification is started on both receivers, a replay on one.
evm_main == evm_fuzzer(Launched)

replay_main == \E receiver \in Launched : evm_fuzzer({receiver})

Init ==
  /\ \E read \in 0..Len(Rows) : address_to_name = add_from_file(read)
  /\ evm_main \/ replay_main

-----------------------------------------------------------------------------
(* The loading path of CALL, CALLCODE, DELEGATECALL, STATICCALL,            *)
(* EXTCODESIZE and EXTCODECOPY                                              *)

FetchesCode(a) == code[a] = "absent" /\ a \notin loaded_code

LoadOnceSeen(a, creator) ==                             \* mutant
  IF a \in loaded_abi \/ code[a] # "absent" THEN
    UNCHANGED <<code, loads, address_to_dapp>>
  ELSE
    /\ code' = IF FetchesCode(a) THEN [code EXCEPT ![a] = ChainCode(a)] ELSE code
    /\ loaded_abi' = loaded_abi \union {a} /\ loaded_code' = loaded_code
    /\ address_to_dapp' = [address_to_dapp EXCEPT ![a] = creator]

Load(a, creator) ==
  IF a \in loaded_abi THEN
    UNCHANGED <<code, loads, address_to_dapp>>
  ELSE IF a \notin Contract THEN
    /\ loaded_code' = loaded_code \union {a}
    /\ loaded_abi' = loaded_abi \union {a}
    /\ UNCHANGED <<code, address_to_dapp>>
  ELSE
    /\ code' = IF FetchesCode(a) THEN [code EXCEPT ![a] = "code"] ELSE code
    /\ loaded_abi' = loaded_abi \union {a}
    /\ address_to_dapp' = IF address_to_dapp[a] = "absent"
                            THEN [address_to_dapp EXCEPT ![a] = creator]
                            ELSE address_to_dapp
    /\ UNCHANGED loaded_code

ExtCodeSize(a, creator) ==
  /\ panic = <<>>
  /\ Load(a, creator)
  /\ UNCHANGED <<address_to_name, creating, called, panic>>

Call(a, creator) ==
  /\ panic = <<>>
  /\ Load(a, creator)
  /\ called' = called \union {a}
  /\ UNCHANGED <<address_to_name, creating, panic>>

\* get_contract_creator gives up after MaxSteps creations with "not Dapp", which
\* get_dapp_info parses as an address; the process dies in the middle of Load.
CreatorTooDeep(a) ==
  /\ panic = <<>> /\ a \in Contract \ loaded_abi
  /\ "not Dapp" \in get_contract_creator(a)
  /\ loaded_abi' = loaded_abi \union {a}
  /\ panic' = <<"creator", a>>
  /\ UNCHANGED <<code, loaded_code, address_to_dapp, address_to_name, creating, called>>

-----------------------------------------------------------------------------
(* EXTCODEHASH and CREATE                                                   *)

\* The middleware sets the code it fetched, even if that is empty; the opcode
\* then unwraps host.code.
ExtCodeHash(a) ==
  LET fetched == IF FetchesCode(a) THEN [code EXCEPT ![a] = ChainCode(a)] ELSE code
  IN
  /\ panic = <<>>
  /\ code' = fetched
  /\ panic' = IF fetched[a] = "absent" THEN <<"code_hash", a>> ELSE panic
  /\ UNCHANGED <<loads, address_to_dapp, address_to_name, creating, called>>

\* The addresses bytecode can name: a CREATE address once it was drawn.
Named == Contract \union EOA \union
  {f \in Fresh : code[f] # "absent" \/ \E i \in DOMAIN creating : creating[i] = f}

Create(f) ==
  /\ panic = <<>> /\ Len(creating) < MaxCreates
  /\ f \notin Named
  /\ creating' = Append(creating, f)
  /\ UNCHANGED <<code, loads, address_to_dapp, address_to_name, called, panic>>

\* set_code asserts that the address had none; the code returned may be empty.
EndCreate(runtime) ==
  LET f == creating[Len(creating)]
  IN
  /\ panic = <<>> /\ creating # <<>>
  /\ creating' = SubSeq(creating, 1, Len(creating) - 1)
  /\ code' = [code EXCEPT ![f] = runtime]
  /\ panic' = IF code[f] # "absent" THEN <<"set_code", f>> ELSE panic
  /\ UNCHANGED <<loads, address_to_dapp, address_to_name, called>>

Next ==
  \/ \E a \in Named :
       \/ \E creator \in Creators(a) : ExtCodeSize(a, creator) \/ Call(a, creator)
       \/ CreatorTooDeep(a)
       \/ ExtCodeHash(a)
  \/ \E f \in Fresh : Create(f)
  \/ \E runtime \in {"empty", "code"} : EndCreate(runtime)

Spec == Init /\ [][Next]_vars

-----------------------------------------------------------------------------
(* Properties                                                               *)

\* Every variable has its type.
TypeOK ==
  /\ code \in [Address -> {"absent", "empty", "code"}]
  /\ loaded_code \in SUBSET Address /\ loaded_abi \in SUBSET Address
  /\ address_to_dapp \in [Address -> Creator \union {"absent"}]
  /\ creating \in Seq(Fresh) /\ called \in SUBSET Address
  /\ Len(panic) \in {0, 2}

\* In whatever order bytecode looked at a contract before it called it, the
\* call runs the contract's code and its creator has been looked up.
CalledIsKnown == \A a \in called \intersect Contract :
  code[a] = "code" /\ address_to_dapp[a] # "absent"

\* The two unwraps and asserts of the host never kill the process over a
\* contract of the chain: EXTCODEHASH only over an account without code, and
\* set_code only over an address that CREATE drew.
ContractsAreSafe ==
  /\ \A a \in Contract : panic \notin {<<"code_hash", a>>, <<"set_code", a>>}
  /\ \A a \in EOA : panic # <<"set_code", a>>

\* The account at the top of a contract's creations
CreatorOf[a \in Created] ==
  IF CreatedBy[a] \in Created THEN CreatorOf[CreatedBy[a]] ELSE CreatedBy[a]

Truly(a, b) ==
  LET listed == add_from_file(Len(Rows))
      dapp(c) == search_by_address(listed, CreatorOf[c])
  IN  CreatorOf[a] = CreatorOf[b] \/ (dapp(a) = dapp(b) /\ dapp(a) # "unknown")

\* However many lookups fail and wherever data.csv breaks off, two contracts of
\* different builders and DApps pass for one DApp only when neither's creator
\* was found.
MergedOnlyByFailure == \A a, b \in called \intersect Contract :
  is_from_same_dapp(a, b) => Truly(a, b) \/ {CreatorAt(a), CreatorAt(b)} = {Zero}

\* set_code's assertion: "assert!(self.code.insert(..).is_none())".
InsertedOnce == \A f \in Fresh : panic # <<"set_code", f>>

\* Loading on demand is complete when it matters, and never fatal for a contract.
LoadedInTime == TypeOK /\ CalledIsKnown /\ ContractsAreSafe
=============================================================================
