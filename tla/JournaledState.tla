--------------------------- MODULE JournaledState ---------------------------
(***************************************************************************)
(* revm's world state (crates/revm/src/journaled_state.rs) under the       *)
(* transactions of EVMImpl (evm_impl.rs) over a CacheDB                    *)
(* (db/in_memory_db.rs): every change of an account is journaled, a        *)
(* subroutine is committed or undone from the journal, and the touched     *)
(* accounts are written to the database when the transaction ends.         *)
(*                                                                         *)
(* The build measures no gas (USE_GAS is FALSE).  In this tree             *)
(* EVMImpl::code() hands every call empty code, so only init code runs: a  *)
(* running frame is an interpreter of init code, which may issue any       *)
(* modelled opcode next and end with any result.                           *)
(***************************************************************************)
EXTENDS Integers, SequencesExt

CONSTANTS
  Address, Key,
  PRECOMPILE3,      \* the precompile the revert makes an exception for
  coinbase,
  TxCaller,         \* senders of transactions, EOAs of the database
  Genesis,          \* address |-> balance, the accounts inserted first
  CreateAddress,    \* <<creator, nonce>> |-> address of CREATE
  Create2Address,   \* creator |-> address of CREATE2 with its only salt
  AccessList,       \* address |-> the slots it lists
  Prepaid,          \* gas_limit * gas_price
  Paid,             \* the values calls and creations may carry
  CALL_STACK_LIMIT, \* 1024 in the code
  MaxNonce,         \* u64::MAX in the code
  \* bounds; Named are the addresses that transactions and bytecode name
  Named, MaxTx, MaxOps, MaxFrames

ASSUME ConstAssumption ==
  /\ IsFiniteSet(Address)
  /\ PRECOMPILE3 \in Address /\ coinbase \in Address
  /\ TxCaller \subseteq Address \ {PRECOMPILE3}
  /\ Named \subseteq Address
  /\ DOMAIN Genesis \subseteq Address /\ Genesis \in [DOMAIN Genesis -> Nat]
  /\ CreateAddress \in [Address \X (0..MaxNonce) -> Address]
  /\ Create2Address \in [Address -> Address]
  /\ DOMAIN AccessList \subseteq Address
  /\ AccessList \in [DOMAIN AccessList -> SUBSET Key]
  /\ {Prepaid, CALL_STACK_LIMIT} \subseteq Nat /\ Paid \subseteq Nat
  /\ MaxNonce \in Nat \ {0}

VARIABLES
  js,       \* the JournaledState: state, logs, depth, journal
  db,       \* the CacheDB's accounts; its ExtDB is empty
  frames,   \* interpreters of init code, innermost last
  result,   \* the InstructionResult that the last subroutine ended with
  txs, ops, \* transactions started, opcodes executed
  burnt     \* history: whether a SELFDESTRUCT was executed

vars == <<js, db, frames, result, txs, ops, burnt>>

-----------------------------------------------------------------------------
(* Accounts and the database                                                *)

Code   == {"empty", "some"}
Status == {"Created", "SelfDestructed", "Touched", "LoadedAsNotExisting"}

DefaultInfo == [balance |-> 0, nonce |-> 0, code |-> "empty"]
DbAccount(account_state, info, storage) ==
  [account_state |-> account_state, info |-> info, storage |-> storage]
new_not_existing == DbAccount("NotExisting", DefaultInfo, <<>>)

\* f where it has a value, or else g
Over(f, g) == [x \in DOMAIN f \union DOMAIN g |-> IF x \in DOMAIN f THEN f[x] ELSE g[x]]

Present(storage, k) == IF k \in DOMAIN storage THEN storage[k] ELSE 0

\* basic() and storage() of the CacheDB.
db_account(d, a) ==
  [info    |-> d[a].info,
   storage |-> <<>>,
   status  |-> IF d[a].account_state = "NotExisting"
                 THEN {"LoadedAsNotExisting"} ELSE {}]

db_storage(d, a, k) == Present(d[a].storage, k)

\* commit(): only touched accounts are written; a destroyed one is forgotten.
Written(old, account) ==
  IF "SelfDestructed" \in account.status THEN new_not_existing
  ELSE LET created == "Created" \in account.status
           kept    == IF created THEN <<>> ELSE old.storage
           present == [k \in DOMAIN account.storage |-> account.storage[k].present_value]
       IN DbAccount(
            IF created \/ old.account_state = "StorageCleared"
              THEN "StorageCleared" ELSE "Touched",
            account.info, Over(present, kept))

commit(d, state) ==
  [a \in Address |->
     IF a \in DOMAIN state /\ "Touched" \in state[a].status
       THEN Written(d[a], state[a]) ELSE d[a]]

-----------------------------------------------------------------------------
(* JournaledState: its operations, as functions of the whole structure      *)

NoJournal == [state |-> <<>>, logs |-> 0, depth |-> 0, journal |-> << <<>> >>]

Push(j, entry) == [j EXCEPT !.journal[Len(j.journal)] = Append(@, entry)]
Entry(kind, a) == [kind |-> kind, address |-> a]

Loaded(a, slots) ==
  [db_account(db, a) EXCEPT !.storage =
     [k \in slots |-> [original_value |-> db_storage(db, a, k),
                       present_value  |-> db_storage(db, a, k)]]]

initial_account_load(j, a, slots) ==
  IF a \in DOMAIN j.state THEN j
  ELSE [j EXCEPT !.state = Over(@, [b \in {a} |-> Loaded(a, slots)])]

load_account(j, a) ==
  IF a \in DOMAIN j.state THEN j
  ELSE initial_account_load(Push(j, Entry("AccountLoaded", a)), a, {})

touch(j, a) ==
  IF "Touched" \in j.state[a].status THEN j
  ELSE [Push(j, Entry("AccountTouched", a))
          EXCEPT !.state[a].status = @ \union {"Touched"}]

\* The journal keeps the new code where it means the old one.
set_code(j, a, code) ==
  [Push(touch(j, a), [kind |-> "CodeChange", address |-> a, had_code |-> code])
     EXCEPT !.state[a].info.code = code]

inc_nonce(j, a) ==
  [Push(touch(j, a), Entry("NonceChange", a)) EXCEPT !.state[a].info.nonce = @ + 1]

TransferEntry(from, to, value) ==
  [kind |-> "BalanceTransfer", from |-> from, to |-> to, balance |-> value]

\* The caller has checked that from can pay; a balance never reaches U256::MAX.
Move(j, from, to, value) ==
  LET paid == [j EXCEPT !.state[from].info.balance = @ - value]
  IN [paid EXCEPT !.state[to].info.balance = @ + value]

transfer(j, from, to, value) ==
  Push(Move(touch(touch(j, from), to), from, to, value), TransferEntry(from, to, value))

checkpoint(j) == [j EXCEPT !.depth = @ + 1, !.journal = Append(@, <<>>)]
checkpoint_commit(j) == [j EXCEPT !.depth = @ - 1]

\* journal_revert of one entry.
UndoTransferTwice(entry, state) ==                      \* mutant
  [state EXCEPT ![entry.from].info.balance = @ + entry.balance]

UndoTransfer(entry, state) ==
  LET back == [state EXCEPT ![entry.from].info.balance = @ + entry.balance]
  IN [back EXCEPT ![entry.to].info.balance = @ - entry.balance]

UndoDestroyed(entry, state) ==
  LET a    == entry.address
      back == [state EXCEPT
        ![a].status = IF entry.was_destroyed THEN @ \union {"SelfDestructed"}
                                             ELSE @ \ {"SelfDestructed"},
        ![a].info.balance = @ + entry.had_balance]
  IN IF a = entry.target THEN back
     ELSE [back EXCEPT ![entry.target].info.balance = @ - entry.had_balance]

Without(f, x) == [y \in DOMAIN f \ {x} |-> f[y]]

UndoStorage(entry, state) ==
  [state EXCEPT ![entry.address].storage =
     IF entry.had_value = <<>> THEN Without(@, entry.key)
     ELSE [@ EXCEPT ![entry.key].present_value = entry.had_value[1]]]

Undo(entry, state) ==
  CASE entry.kind = "AccountLoaded" ->
         IF entry.address = PRECOMPILE3 THEN state ELSE Without(state, entry.address)
    [] entry.kind = "AccountTouched" ->
         IF entry.address = PRECOMPILE3 THEN state
         ELSE [state EXCEPT ![entry.address].status = @ \ {"Touched"}]
    [] entry.kind = "AccountDestroyed" -> UndoDestroyed(entry, state)
    [] entry.kind = "BalanceTransfer"  -> UndoTransfer(entry, state)
    [] entry.kind = "NonceChange"   -> [state EXCEPT ![entry.address].info.nonce = @ - 1]
    [] entry.kind = "StorageChange" -> UndoStorage(entry, state)
    [] entry.kind = "CodeChange"    ->
         [state EXCEPT ![entry.address].info.code = entry.had_code]

\* cp is what checkpoint() returned: the lengths of the logs and the journal.
Checkpoint(j) == [log_i |-> j.logs, journal_i |-> Len(j.journal)]

\* A set of the journal is undone from its last entry on, the journal from its
\* last set on.
journal_revert(state, entries) ==
  LET n == Len(entries)
      undone[k \in 0..n] ==
        IF k = 0 THEN state ELSE Undo(entries[n + 1 - k], undone[k - 1])
  IN undone[n]

RevertSets(state, journal, n) ==
  LET sets == Len(journal)
      reverted[k \in 0..sets] ==
        IF k = 0 THEN state ELSE journal_revert(reverted[k - 1], journal[sets + 1 - k])
  IN reverted[n]

RevertLastSet(j, cp) ==                                 \* mutant
  [state   |-> RevertSets(j.state, j.journal, 1),
   logs    |-> cp.log_i,
   depth   |-> j.depth - 1,
   journal |-> SubSeq(j.journal, 1, cp.journal_i)]

RevertOneSetMore(j, cp) ==                              \* mutant
  [state   |-> RevertSets(j.state, j.journal, Len(j.journal) - cp.journal_i),
   logs    |-> cp.log_i,
   depth   |-> j.depth - 1,
   journal |-> SubSeq(j.journal, 1, cp.journal_i - 1)]

checkpoint_revert(j, cp) ==
  [state   |-> RevertSets(j.state, j.journal, Len(j.journal) - cp.journal_i),
   logs    |-> cp.log_i,
   depth   |-> j.depth - 1,
   journal |-> SubSeq(j.journal, 1, cp.journal_i)]

\* num_of_precompiles covers PRECOMPILE3 here.
check_account_collision(account, a) ==
  account.info.code # "empty" \/ account.info.nonce # 0 \/ a = PRECOMPILE3

\* create_account_checkpoint once the collision check has passed: the account
\* is marked as created, its slots are zero, and it is paid.
CreateUntouched(j, caller, a, value) ==                 \* mutant
  LET fresh == [j EXCEPT
        !.state[a].status = @ \union {"Created"},
        !.state[a].storage =
          [k \in DOMAIN @ |-> [original_value |-> 0, present_value |-> 0]],
        !.state[a].info.nonce = 1]
  IN Push(Move(Push(fresh, Entry("NonceChange", a)), caller, a, value),
          TransferEntry(caller, a, value))

CreateAccount(j, caller, a, value) ==
  LET fresh == [j EXCEPT
        !.state[a].status = @ \union {"Created"},
        !.state[a].storage =
          [k \in DOMAIN @ |-> [original_value |-> 0, present_value |-> 0]]]
      numbered == [touch(fresh, a) EXCEPT !.state[a].info.nonce = 1]
  IN Push(Move(Push(numbered, Entry("NonceChange", a)), caller, a, value),
          TransferEntry(caller, a, value))

\* The balance of a goes to target, or nowhere when they are the same.
selfdestruct(j, a, target) ==
  LET loaded  == load_account(j, target)
      balance == loaded.state[a].info.balance
      entry   == [kind |-> "AccountDestroyed", address |-> a, target |-> target,
                  was_destroyed |-> "SelfDestructed" \in loaded.state[a].status,
                  had_balance |-> balance]
      emptied == [loaded EXCEPT !.state[a].info.balance = 0,
                                !.state[a].status = @ \union {"SelfDestructed"}]
  IN Push(IF a = target THEN emptied
          ELSE [touch(emptied, target) EXCEPT !.state[target].info.balance = @ + balance],
          entry)

StorageEntry(a, k, had) ==
  [kind |-> "StorageChange", address |-> a, key |-> k, had_value |-> had]

sload(j, a, k) ==
  IF k \in DOMAIN j.state[a].storage THEN j
  ELSE LET value == IF "Created" \in j.state[a].status THEN 0 ELSE db_storage(db, a, k)
       IN [Push(j, StorageEntry(a, k, <<>>)) EXCEPT !.state[a].storage =
             Over(@, [l \in {k} |-> [original_value |-> value, present_value |-> value]])]

sstore(j, a, k, new) ==
  LET loaded  == sload(j, a, k)
      present == loaded.state[a].storage[k].present_value
  IN IF present = new THEN loaded
     ELSE [Push(loaded, StorageEntry(a, k, <<present>>))
             EXCEPT !.state[a].storage[k].present_value = new]

-----------------------------------------------------------------------------
(* EVMImpl: subroutines                                                     *)

Depth == Len(frames)
Top   == frames[Depth]

\* call_inner: the account whose code runs is loaded before the checkpoint; a
\* precompile may fail, any other call finds empty code and stops at once.
call_inner(j, contract, from, to, value, precompile_ok) ==
  LET loaded == load_account(j, contract)
      cp     == Checkpoint(loaded)
      opened == checkpoint(loaded)
      moved  == transfer(IF value = 0 THEN touch(opened, to) ELSE opened, from, to, value)
  IN IF j.depth > CALL_STACK_LIMIT THEN [js |-> loaded, result |-> "fail"]
     ELSE IF opened.state[from].info.balance < value
       THEN [js |-> checkpoint_revert(touch(opened, from), cp), result |-> "fail"]
     ELSE IF contract = PRECOMPILE3 /\ ~precompile_ok
       THEN [js |-> checkpoint_revert(moved, cp), result |-> "fail"]
     ELSE [js |-> checkpoint_commit(moved), result |-> "ok"]

CreatedAddress(j, caller, scheme) ==
  IF scheme = "Create2" THEN Create2Address[caller]
                        ELSE CreateAddress[<<caller, j.state[caller].info.nonce>>]

\* create_inner up to the start of the init code, which it may not reach; a
\* nonce that would overflow ends it as a success without an address.
create_inner(j, caller, value, scheme) ==
  LET a      == CreatedAddress(j, caller, scheme)
      loaded == load_account(inc_nonce(j, caller), a)
      opened == checkpoint(loaded)
      over(k, r) == [js |-> k, result |-> r, init |-> <<>>]
  IN IF j.depth > CALL_STACK_LIMIT \/ j.state[caller].info.balance < value
       THEN over(j, "fail")
     ELSE IF j.state[caller].info.nonce = MaxNonce THEN over(j, "ok")
     ELSE IF check_account_collision(loaded.state[a], a)
       THEN over(checkpoint_revert(opened, Checkpoint(loaded)), "fail")
     ELSE [js |-> CreateAccount(opened, caller, a, value), result |-> "ok",
           init |-> << [address |-> a, checkpoint |-> Checkpoint(loaded),
                        before |-> loaded.state] >>]

\* finalize: the coinbase is touched, and the state goes to the database.
Settled(j) == touch(load_account(j, coinbase), coinbase).state

Finalize(j) ==
  /\ js' = NoJournal
  /\ db' = commit(db, Settled(j))

-----------------------------------------------------------------------------
(* transact: one transaction                                                *)

Init ==
  /\ js = NoJournal
  /\ db = [a \in Address |->
       IF a \in DOMAIN Genesis
         THEN DbAccount("None", [DefaultInfo EXCEPT !.balance = Genesis[a]], <<>>)
         ELSE new_not_existing]
  /\ frames = <<>> /\ result = "ok" /\ txs = 0 /\ ops = 0 /\ burnt = FALSE

\* Coinbase, access list and caller are loaded, and the caller pays for gas it
\* never gets back, since none is measured.
Prepare(caller) ==
  LET start == initial_account_load(NoJournal, coinbase, {})
      warm  == [start EXCEPT !.state =
                  Over(@, [a \in DOMAIN AccessList |-> Loaded(a, AccessList[a])])]
      loaded == load_account(warm, caller)
  IN [loaded EXCEPT !.state[caller].info.balance = @ - Prepaid,
                    !.state[caller].status = @ \union {"Touched"}]

\* validate_tx_agains_state
Valid(caller, value) ==
  /\ db[caller].info.code = "empty"
  /\ db[caller].info.balance >= Prepaid + value

Idle == js = NoJournal /\ txs < MaxTx

TransactCall(caller, to, value, precompile_ok) ==
  LET j   == Prepare(caller)
      n   == j.state[caller].info.nonce
      ret == call_inner([j EXCEPT !.state[caller].info.nonce =
                           IF n = MaxNonce THEN n ELSE n + 1],
                        to, caller, to, value, precompile_ok)
  IN
  /\ Idle /\ Valid(caller, value)
  /\ Finalize(ret.js)
  /\ result' = ret.result
  /\ txs' = txs + 1
  /\ UNCHANGED <<frames, ops, burnt>>

\* A creation that starts no init code is over at once.
TransactCreate(caller, value) ==
  LET ret == create_inner(Prepare(caller), caller, value, "Create") IN
  /\ Idle /\ Valid(caller, value)
  /\ frames' = ret.init
  /\ IF ret.init = <<>> THEN Finalize(ret.js) ELSE js' = ret.js /\ UNCHANGED db
  /\ result' = ret.result
  /\ txs' = txs + 1
  /\ UNCHANGED <<ops, burnt>>

-----------------------------------------------------------------------------
(* Opcodes of the running init code                                         *)

Opcode == /\ frames # <<>> /\ ops < MaxOps /\ ops' = ops + 1
          /\ UNCHANGED <<db, txs>>

\* BALANCE, EXTCODESIZE, EXTCODECOPY, EXTCODEHASH
Load(a) ==
  /\ Opcode
  /\ js' = load_account(js, a)
  /\ UNCHANGED <<frames, result, burnt>>

log ==
  /\ Opcode
  /\ js' = [js EXCEPT !.logs = @ + 1]
  /\ UNCHANGED <<frames, result, burnt>>

SStore(k, value) ==
  /\ Opcode
  /\ js' = sstore(js, Top.address, k, value)
  /\ UNCHANGED <<frames, result, burnt>>

SLoad(k) ==
  /\ Opcode
  /\ js' = sload(js, Top.address, k)
  /\ UNCHANGED <<frames, result, burnt>>

\* CALL and STATICCALL reach the account called, CALLCODE and DELEGATECALL
\* stay with the caller; the opcode has loaded the account named.
Call(contract, scheme, value, precompile_ok) ==
  LET to  == IF scheme = "Call" THEN contract ELSE Top.address
      ret == call_inner(load_account(js, contract), contract, Top.address, to, value,
                        precompile_ok)
  IN
  /\ Opcode
  /\ js' = ret.js /\ result' = ret.result
  /\ UNCHANGED <<frames, burnt>>

Create(value, scheme) ==
  LET ret == create_inner(js, Top.address, value, scheme) IN
  /\ Opcode /\ Depth < MaxFrames
  /\ js' = ret.js /\ frames' = frames \o ret.init /\ result' = ret.result
  /\ UNCHANGED burnt

\* The end of create_inner for the innermost init code; the outermost ends the
\* transaction.
Leave(j, r) ==
  /\ IF Depth = 1 THEN Finalize(j) ELSE js' = j /\ UNCHANGED db
  /\ frames' = Front(frames) /\ result' = r
  /\ UNCHANGED txs

ReturnOk(code) ==
  /\ frames # <<>>
  /\ Leave(set_code(checkpoint_commit(js), Top.address, code), "ok")
  /\ UNCHANGED <<ops, burnt>>

\* A revert or halt, code that starts with 0xEF, or too much of it.
ReturnFail ==
  /\ frames # <<>>
  /\ Leave(checkpoint_revert(js, Top.checkpoint), "fail")
  /\ UNCHANGED <<ops, burnt>>

\* SELFDESTRUCT ends the init code as a success without code.
SelfDestruct(target) ==
  /\ frames # <<>> /\ ops < MaxOps /\ ops' = ops + 1
  /\ burnt' = TRUE
  /\ Leave(set_code(checkpoint_commit(selfdestruct(js, Top.address, target)),
                    Top.address, "empty"), "ok")

Next ==
  \/ \E caller \in TxCaller, value \in Paid :
       \/ \E to \in Named, ok \in BOOLEAN : TransactCall(caller, to, value, ok)
       \/ TransactCreate(caller, value)
  \/ \E a \in Named : Load(a) \/ SelfDestruct(a)
  \/ log
  \/ \E k \in Key : SLoad(k) \/ \E v \in 0..1 : SStore(k, v)
  \/ \E a \in Named, scheme \in {"Call", "CallCode"}, value \in Paid, ok \in BOOLEAN :
       Call(a, scheme, value, ok)
  \/ \E value \in Paid, scheme \in {"Create", "Create2"} : Create(value, scheme)
  \/ \E code \in Code : ReturnOk(code)
  \/ ReturnFail

Spec == Init /\ [][Next]_vars

-----------------------------------------------------------------------------
(* Properties                                                               *)

\* What a transaction sees of an account: its journal, or else the database.
Balance(a) == IF a \in DOMAIN js.state THEN js.state[a].info.balance
                                       ELSE db[a].info.balance
Supply ==
  SumFunction([a \in Address |-> IF a \in DOMAIN Genesis THEN Genesis[a] ELSE 0])

\* No sequence of transfers, creations, reverts and destructions makes value.
\* All that disappears is prepaid gas and, once something was destroyed, the
\* balance of what was.
NoValueCreated ==
  LET total == SumFunction([a \in Address |-> Balance(a)]) + txs * Prepaid
  IN /\ total <= Supply
     /\ ~burnt => total = Supply
     /\ \A a \in Address : Balance(a) >= 0

\* commit writes touched accounts only, so an account that differs from the
\* database must be touched (set_code's journal entry spoils the code of an
\* account, which is left out here).
ChangedIsTouched ==
  \A a \in DOMAIN js.state :
    LET account == js.state[a] IN
    "Touched" \notin account.status =>
      /\ account.info.balance = db[a].info.balance
      /\ account.info.nonce = db[a].info.nonce
      /\ "SelfDestructed" \notin account.status
      /\ \A k \in DOMAIN account.storage :
           account.storage[k].present_value = db_storage(db, a, k)

\* The checkpoints of the subroutines on the stack can all still be reverted
\* to, innermost first, although a committed subroutine leaves its journal set.
CheckpointsNest ==
  /\ js.depth = Depth
  /\ \A i \in 1..Depth :
       LET cp == frames[i].checkpoint IN
       /\ cp.journal_i < Len(js.journal) /\ cp.log_i <= js.logs
       /\ i > 1 => /\ frames[i - 1].checkpoint.journal_i < cp.journal_i
                   /\ frames[i - 1].checkpoint.log_i <= cp.log_i

\* The journal can take every subroutine back, and commit will miss no change.
JournalIsSound == CheckpointsNest /\ ChangedIsTouched

\* What survives of an account in a comparison: code is left out, and so is
\* the mark Created, which a revert does not take back.
Essence(account) ==
  [balance |-> account.info.balance, nonce |-> account.info.nonce,
   storage |-> [k \in DOMAIN account.storage |-> account.storage[k].present_value],
   marks   |-> account.status \intersect {"Touched", "SelfDestructed"}]

Restored(before, after) ==
  /\ DOMAIN after \ {PRECOMPILE3} = DOMAIN before \ {PRECOMPILE3}
  /\ \A a \in DOMAIN before \ {PRECOMPILE3} : Essence(after[a]) = Essence(before[a])

\* A subroutine that fails leaves balances, nonces, storage, loaded accounts
\* and marks as they were when it was entered, whatever it and the subroutines
\* it called and committed had done; a transaction that fails writes as if its
\* init code had not run.
RevertRestores ==
  [][ReturnFail =>
       IF Depth > 1 THEN Restored(Top.before, js'.state)
       ELSE \A a \in Address \ {PRECOMPILE3} :
              LET old == commit(db, Settled([NoJournal EXCEPT !.state = Top.before]))[a]
              IN /\ db'[a].info.balance = old.info.balance
                 /\ db'[a].info.nonce = old.info.nonce
                 /\ db'[a].storage = old.storage]_vars
=============================================================================
