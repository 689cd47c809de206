------------------------------- MODULE Driver -------------------------------
(***************************************************************************)
(* The static driver (smartReco_static_analysis/code/smartReco.py and      *)
(* execute_with_transaction.py): it pages through the transactions of a    *)
(* contract, newest first, replays each, and for every contract of another *)
(* DApp that the replay met tests the functions that write what it reads.  *)
(*                                                                         *)
(* The explorer, Slither and the replay and verification processes are     *)
(* nondeterministic: each may answer, answer with nothing, or fail.        *)
(* Reading the files they share is in ContractFiles; here it may raise.    *)
(***************************************************************************)
EXTENDS Naturals, Sequences, FiniteSets

CONSTANTS
  Block,         \* blocks of the contract's transactions, newest first
  Replayable,    \* transactions with a receiver and without error
  Method,        \* methodId of each transaction
  Target,        \* the target's logic contract
  Contract,      \* logic contracts met in replays, the target's included
  Latest,        \* --block-number
  tx_length, max_round, max_test, max_check_count,
  Page,          \* related transactions an explorer page may have (1000)
  Generated,     \* generated transactions per round (50)
  MaxImplicit    \* bound on the implicit functions of a candidate

Tx == DOMAIN Block
MethodId == {Method[i] : i \in Tx}

ASSUME DriverAssumption ==
  /\ Block \in Seq(Nat \ {0}) /\ Latest \in Nat
  /\ \A i, j \in Tx : i < j => Block[i] >= Block[j]
  /\ Replayable \subseteq Tx /\ DOMAIN Method = Tx /\ Target \in Contract
  /\ {tx_length, max_round, max_test, max_check_count, Generated}
       \subseteq Nat \ {0}
  /\ Page \in Nat /\ MaxImplicit \in Nat

VARIABLES
  pc,                 \* "fetch", "main", "replayed", "search", "check",
                      \* "finished", "dead"
  end_block,          \* of the next page
  tx_list, count, tx_round,
  todo,               \* contracts of sorted_list still to be visited
  storage_bound,      \* is main's local storage_address assigned?
  function_count,     \* a local of main
  implicit,           \* implicit functions left of the current candidate
  check_count, check_count_round,
  related,            \* matching transactions of onchain_tx_list
  listed,             \* is onchain_tx_list not empty?
  contract_abi_cache, \* per contract: "none", "empty" or "full"
  seen,               \* history: the transactions given to main
  raised,             \* history: transactions whose main raised
  err_info            \* transactions with an entry under err_info

paging  == <<end_block, tx_list, count, tx_round>>
testing == <<implicit, check_count, check_count_round, related, listed>>
errors  == <<raised, err_info>>
local   == <<storage_bound, function_count>>
vars == <<pc, paging, todo, local, testing, contract_abi_cache, seen, errors>>

-----------------------------------------------------------------------------
\* get_tx_list: the newest tx_length transactions up to end_block
TxList(end) ==
  LET upto  == {i \in Tx : Block[i] <= end}
      newer == Len(Block) - Cardinality(upto)
  IN  SubSeq([i \in Tx |-> i], newer + 1,
             IF newer + tx_length < Len(Block) THEN newer + tx_length
                                               ELSE Len(Block))

CurrentTx == tx_list[count]

\* mutants: the last block again; one block too many; one round too many
SameBlock(block)   == block
TwoBlocksOn(block) == block - 2

EndBlock(block) == block - 1

RoundsIncluding(n) == n <= max_round                       \* mutant

RoundsLeft(n) == n < max_round

Init ==
  /\ pc = "fetch" /\ end_block = Latest
  /\ tx_list = <<>> /\ count = 0 /\ tx_round = 0
  /\ todo = {} /\ storage_bound = FALSE
  /\ implicit = 0 /\ check_count = 0 /\ check_count_round = 0
  /\ related = 0 /\ listed = FALSE
  /\ contract_abi_cache = [c \in Contract |-> "none"]
  /\ function_count = [m \in MethodId |-> 0]
  /\ seen = <<>>
  /\ raised = {} /\ err_info = {}

\* main is entered with its locals unassigned, function_count empty.
Enter(i, list) ==
  /\ pc' = "main" /\ count' = i /\ seen' = Append(seen, list[i])
  /\ storage_bound' = FALSE /\ function_count' = [m \in MethodId |-> 0]

\* The head of the outer loop, with the page it tests
FetchList ==
  LET list == TxList(end_block) IN
  /\ pc = "fetch"
  /\ tx_list' = list
  /\ IF list # <<>> /\ RoundsLeft(tx_round)
       THEN Enter(1, list)
       ELSE /\ pc' = "finished"
            /\ UNCHANGED <<count, seen, local>>
  /\ UNCHANGED <<end_block, tx_round, todo, testing, contract_abi_cache,
                 errors>>

\* No answer, or an error text in place of the list: either raises outside
\* main, or in main before storage_address is assigned.
FetchFails ==
  /\ pc = "fetch" /\ pc' = "dead"
  /\ UNCHANGED <<paging, todo, local, testing, contract_abi_cache, seen,
                 errors>>

\* main returns: the next transaction, or the next round
NextTx ==
  /\ todo' = {} /\ implicit' = 0 /\ check_count' = 0 /\ check_count_round' = 0
  /\ related' = 0 /\ listed' = FALSE
  /\ IF count < Len(tx_list)
       THEN /\ Enter(count + 1, tx_list)
            /\ UNCHANGED <<end_block, tx_list, tx_round>>
       ELSE /\ pc' = "fetch" /\ tx_round' = tx_round + 1
            /\ end_block' = EndBlock(Block[tx_list[count]])
            /\ UNCHANGED <<tx_list, count, seen, local>>

-----------------------------------------------------------------------------
\* main's handler, which names storage_address: when that is unbound the
\* handler itself raises, nothing is stored and the process ends.
HandlesAll ==                                              \* mutant
  /\ err_info' = err_info \union {CurrentTx} /\ NextTx

\* mutant: an error without a storage address is passed over
HandlesSearchOnly ==
  /\ err_info' = err_info \union IF storage_bound THEN {CurrentTx} ELSE {}
  /\ NextTx

Handle ==
  IF storage_bound
    THEN /\ err_info' = err_info \union {CurrentTx}
         /\ NextTx
    ELSE /\ pc' = "dead"
         /\ UNCHANGED <<paging, todo, local, testing, seen, err_info>>

Raise == raised' = raised \union {CurrentTx} /\ Handle

Cached(c, entry) == [contract_abi_cache EXCEPT ![c] = entry]

\* The first lines of main: skip, replay, read the record.
Skip ==
  /\ pc = "main" /\ CurrentTx \notin Replayable
  /\ NextTx
  /\ UNCHANGED <<contract_abi_cache, errors>>

ReplayFails ==
  /\ pc = "main" /\ CurrentTx \in Replayable
  /\ err_info' = err_info \union {CurrentTx}
  /\ NextTx
  /\ UNCHANGED <<contract_abi_cache, raised>>

\* get_replay_record: filter_ignore_contract_with_callgraph looks up the
\* contracts of the target's own DApp, and yields those of other DApps.
Replay(looked_up, candidates) ==
  /\ pc = "main" /\ CurrentTx \in Replayable
  /\ \A c \in looked_up : contract_abi_cache[c] # "empty"
  /\ contract_abi_cache' = [c \in Contract |->
       IF c \in looked_up THEN "full" ELSE contract_abi_cache[c]]
  /\ pc' = "replayed" /\ todo' = candidates
  /\ UNCHANGED <<paging, local, testing, seen, errors>>

\* It enters {} before it reads the abi, which may raise.
RecordRaises(c) ==
  /\ pc = "main" /\ CurrentTx \in Replayable
  /\ contract_abi_cache' =
       IF contract_abi_cache[c] = "none" THEN Cached(c, "empty")
                                         ELSE contract_abi_cache
  /\ Raise

-----------------------------------------------------------------------------
\* main, "analysis for victim transaction"
TargetUnknown ==
  /\ pc = "replayed" /\ pc' = "search"
  /\ contract_abi_cache[Target] # "empty"
  /\ UNCHANGED <<paging, todo, local, testing, contract_abi_cache, seen,
                 errors>>

TargetKnown ==
  LET m     == Method[CurrentTx]
      tests == function_count[m] + 1
  IN
  /\ pc = "replayed"
  /\ contract_abi_cache[Target] # "empty"
  /\ contract_abi_cache' = Cached(Target, "full")
  /\ IF tests > max_test
       THEN NextTx
       ELSE \/ /\ pc' = "search"
               /\ function_count' = [function_count EXCEPT ![m] = tests]
               /\ UNCHANGED <<paging, todo, storage_bound, testing, seen>>
            \/ NextTx                       \* an only-owner function
  /\ UNCHANGED errors

TargetRaises ==
  /\ pc = "replayed"
  /\ Raise
  /\ UNCHANGED contract_abi_cache

-----------------------------------------------------------------------------
\* for contracts in dapp["contract_list"]: one without source is noted, one
\* that Slither cannot analyse is passed over.
NoSource(c) ==
  /\ pc = "search" /\ c \in todo
  /\ todo' = todo \ {c} /\ storage_bound' = TRUE
  /\ err_info' = err_info \union {CurrentTx}
  /\ UNCHANGED <<pc, paging, function_count, testing, contract_abi_cache,
                 seen, raised>>

NotAnalysed(c) ==
  /\ pc = "search" /\ c \in todo /\ contract_abi_cache[c] # "empty"
  /\ todo' = todo \ {c} /\ storage_bound' = TRUE
  /\ contract_abi_cache' = Cached(c, "full")
  /\ UNCHANGED <<pc, paging, function_count, testing, seen, errors>>

\* The page of related transactions, newest first
GetTxList ==
  \/ related' \in 0..Page /\ listed' = TRUE
  \/ related' = 0 /\ listed' = FALSE

\* A candidate with n implicit functions to test
Visit(c, n) ==
  /\ pc = "search" /\ c \in todo /\ contract_abi_cache[c] # "empty"
  /\ todo' = todo \ {c} /\ storage_bound' = TRUE
  /\ contract_abi_cache' = Cached(c, "full")
  /\ implicit' = n /\ check_count' = 0 /\ check_count_round' = 0
  /\ IF n = 0 THEN UNCHANGED <<pc, related, listed>>
              ELSE pc' = "check" /\ GetTxList
  /\ UNCHANGED <<paging, function_count, seen, errors>>

\* An exception in the search is handled: storage_address is the first thing
\* the loop assigns.
SearchRaises(c) ==
  /\ pc = "search" /\ c \in todo
  /\ raised' = raised \union {CurrentTx}
  /\ err_info' = err_info \union {CurrentTx}
  /\ contract_abi_cache' \in {contract_abi_cache, Cached(c, "full")}
  /\ NextTx

FinishTx ==
  /\ pc = "search" /\ todo = {}
  /\ NextTx
  /\ UNCHANGED <<contract_abi_cache, errors>>

\* while check_count < max_check_count
CheckRound ==
  /\ pc = "check" /\ check_count < max_check_count
  /\ check_count' = check_count + (IF related = 0 THEN Generated ELSE related)
  /\ check_count_round' = check_count_round + 1
  /\ IF check_count_round + 1 > max_round THEN related' = 0 /\ listed' = FALSE
     ELSE IF listed THEN GetTxList ELSE UNCHANGED <<related, listed>>
  /\ UNCHANGED <<pc, paging, todo, local, implicit, contract_abi_cache,
                 seen, errors>>

CheckEndsOneMore ==                                        \* mutant
  /\ pc = "check" /\ check_count >= max_check_count
  /\ implicit' = implicit - 1 /\ check_count' = 0 /\ check_count_round' = 0
  /\ IF implicit = 0 THEN pc' = "search" /\ related' = 0 /\ listed' = FALSE
                     ELSE pc' = pc /\ GetTxList
  /\ UNCHANGED <<paging, todo, local, contract_abi_cache, seen, errors>>

CheckEnds ==
  /\ pc = "check" /\ check_count >= max_check_count
  /\ implicit' = implicit - 1 /\ check_count' = 0 /\ check_count_round' = 0
  /\ IF implicit = 1 THEN pc' = "search" /\ related' = 0 /\ listed' = FALSE
                     ELSE pc' = pc /\ GetTxList
  /\ UNCHANGED <<paging, todo, local, contract_abi_cache, seen, errors>>

CheckRaises ==
  /\ pc = "check"
  /\ Raise
  /\ UNCHANGED contract_abi_cache

Next ==
  \/ FetchList \/ FetchFails
  \/ Skip \/ ReplayFails
  \/ \E l, t \in SUBSET Contract : Replay(l, t)
  \/ TargetUnknown \/ TargetKnown \/ TargetRaises
  \/ \E c \in Contract :
       \/ RecordRaises(c) \/ NoSource(c) \/ NotAnalysed(c) \/ SearchRaises(c)
       \/ \E n \in 0..MaxImplicit : Visit(c, n)
  \/ FinishTx
  \/ CheckRound \/ CheckEnds \/ CheckRaises

Spec == Init /\ [][Next]_vars

-----------------------------------------------------------------------------
\* Types of every variable
TypeOK ==
  /\ pc \in {"fetch", "main", "replayed", "search", "check", "finished", "dead"}
  /\ end_block \in Nat /\ tx_list \in Seq(Tx) /\ tx_round \in Nat
  /\ count \in Nat
  /\ (pc \notin {"fetch", "finished", "dead"} => count \in DOMAIN tx_list)
  /\ todo \subseteq Contract /\ storage_bound \in BOOLEAN
  /\ function_count \in [MethodId -> Nat]
  /\ implicit \in Nat /\ check_count \in Nat /\ check_count_round \in Nat
  /\ related \in 0..Page /\ listed \in BOOLEAN
  /\ contract_abi_cache \in [Contract -> {"none", "empty", "full"}]
  /\ seen \in Seq(Tx) /\ raised \subseteq Tx /\ err_info \subseteq Tx

\* No transaction is tested twice, across pages too, and newer ones go first.
SeenOnce == \A i, j \in DOMAIN seen : i < j => seen[i] < seen[j]

\* The next page ends one block below the last one's oldest transaction
\* (smartReco.py:165-166): a transaction is passed over only when a newer one
\* of its own block was tested.
MissedShareBlock ==
  \A n \in DOMAIN seen : \A i \in 1..seen[n] :
    \/ Block[i] > Latest
    \/ \E k \in DOMAIN seen : seen[k] <= i /\ Block[seen[k]] = Block[i]

\* "MAX_TEST= max_round * tx_length" (smartReco.py:130)
AtMostMaxTest == Len(seen) <= max_round * tx_length

\* An exception between "contract_abi_cache[logic_address] = {}" and the two
\* entries (execute_with_transaction.py:197-200) leaves an entry that no later
\* transaction could use; none is ever met, since the process ends with it.
AbiCacheComplete ==
  pc # "dead" => \A c \in Contract : contract_abi_cache[c] # "empty"

\* "If SmartReco executes unsuccessful, the error will store here"
\* (smartReco_static_analysis/README.md:12): an exception is stored or, when
\* the handler fails on it, is the last thing that happens.
RaisedIsStored == pc # "dead" => raised \subseteq err_info

\* The pages that are read, one below the other, hold every transaction once,
\* newest first and no more of them than promised.
PagesInOrder == TypeOK /\ SeenOnce /\ MissedShareBlock /\ AtMostMaxTest
=============================================================================
