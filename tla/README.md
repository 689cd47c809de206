# SmartReco: specifications and proofs

TLA+ models of SmartReco, the TLC runs that check them and the TLAPS proofs
about them. SmartReco looks for read-only reentrancy: it replays a *target*
transaction, stops in the middle of each call that leaves the target's DApp,
executes a *victim* transaction there, and reports a leak if the victim reads
the target's related function and the target then writes storage.

Paths below are relative to `src/`; DA is `smartReco_dynamic_analysis`, SA is
`smartReco_static_analysis/code`, HE is `DA/externals/heimdall-rs`.

## The system

| Component | State | Operations | Module |
|---|---|---|---|
| verification host, `DA/src/evm/host.rs` | mode flags, call depth, env, records, balances, storage, code, entry function; the Rust call stack | one callback per opcode of interest, `call`, `create`, the victim run | VerifyHost, against Detector |
| executor, `DA/src/evm/vm.rs` | the report | `execute_from_pc`, `execute_abi` | VerifyHost |
| on-chain middleware, `DA/src/evm/onchain/onchain.rs`, with `contract_utils.rs`, `dapp_utils.rs` | `loaded_code`, `loaded_abi`; fills the host's `code`, `address_to_dapp` | `on_step` before each opcode; creators followed through factories | OnChainLoader |
| endpoint and file cache, `DA/src/evm/onchain/endpoints.rs`, `DA/src/cache.rs` | memory caches per question, cache files | `get`, `get_contract_slot`, `get_balance`, `get_contract_code`, `is_contract`, `get_contract_creator`, ..., `save`, `load` | EndpointCache |
| local proxy, `DA/proxy/main.py` | `lru_cache` of replies | forwards requests to a node and to Etherscan | in EndpointCache |
| replay host, `DA/src/evm/replay` | call graph, proxy record, `is_delegate_call` | as the host's; `fast_call` saves the record | ReplayHost |
| command line, `DA/cli/src` | none | builds the host and the loader, chooses blocks and storage modes | initial states of OnChainLoader, EndpointCache, ReplayHost |
| static driver, `SA/smartReco.py`, `execute_with_transaction.py`, `analysis_slither.py` | candidate lists, counters, `contract_abi_cache` | page, replay, digest, analyse, verify; kills a process after 300 s | Driver, ReplayDigest, StaticAnalysis; processes in EndpointCache |
| its files, `SA/lib/onchain_tool.py`, `analysis_slither.py`, `generate_tx_with_abi.py` | source, type, version, ABI and analysis of each contract | fetch, read, analyse | ContractFiles |
| DApp data set, `SA/collect_dapp_information.py`, `DA/src/evm/dapp_utils.rs` | CSV files | find creators, merge DApps, load | DappMerge; OnChainLoader reads it |
| EVM interpreter, `DA/revm/crates/interpreter` | stack, memory, pointer, return data, gas | `run`, one function per opcode | Interpreter, Words, GasMeter |
| world state of revm, `DA/revm/crates/revm` | journal, accounts, database | `transact`, `call_inner`, `create_inner`, checkpoints | JournaledState |
| EVM precompiles, `DA/revm/crates/precompile` | none | pure functions | Precompiles |
| ABI codec, `DA/src/evm/abi.rs` | a value per argument | `get_abi_type`, `get_bytes`, `set_bytes` | AbiCodec |
| heimdall-rs, `HE` | VM of the decompiler, tables of handled jumps | `_step`, `resolve_entry_point`, `map_selector`, the lexers | Words, HeimdallVM, HeimdallExplorer, TraceLexer |
| fuzzer remnants (`input.rs`, `mutation_utils.rs`, `srcmap`, ...) | | not run | not modelled |

One process executes one target transaction on one thread. All that is
concurrent is in the processes the driver starts one after another, which share
the cache files. Within a process the difficulty is the nesting: the host is
one mutable object that every interpreter on the Rust stack calls back into,
and a victim transaction runs inside the return of a target's call. The flags
that say where one is (`is_diff_dapp`, `is_execute_victim_function`,
`no_need_for_test`) are set at one level and cleared at another.

What makes each component correct:

- *Host.* The flags, the depth and the environment agree with the stack. The
  target and the victim do not see each other's storage or balances. A leak is
  raised only by a write outside every tested call after a victim run hit. A
  report is one that the abstract Detector makes.
- *Middleware.* Which code runs and which DApp it belongs to does not depend on
  the order in which bytecode names addresses; no address kills the process.
- *Endpoint, proxy.* What is served, and what is left in the files, is the
  chain's, whatever happened to earlier processes; every request ends.
- *Replay host.* The saved graph is the tree of the calls that were made, with
  their storage accesses; a contract is recorded as a proxy only if it forwards.
- *Driver.* No transaction is tested twice or passed over without reason; a failure
  of one transaction is stored and does not harm the next; each invocation in a
  graph is counted once; the functions tested together depend on each other.
- *Files.* A reader never takes what a killed driver left for the whole file.
- *Data set.* A creator has one name, that of all the DApps it is linked to.
- *Interpreter.* Nothing is executed or touched outside what was allocated; a
  static call is to change nothing, which the hosts do not keep; words are two's complement; gas adds up.
- *World state.* No value is made; a revert restores; a change is marked.
- *Pure code.* The encoder, the precompile, the gas and the lexers meet references.
- *Decompiler.* Its VM follows the interpreter; it traces what is reachable and ends.

## Modules

### VerifyHost

The Rust call stack is the sequence `frames`: an interpreter each, with a kind:
`tx` (the target transaction), `plain` (a call within a DApp or below a tested
call), `cross` (a call under test), `victim`, `create` (init code). `status` is
the mark that `step` or `call` put into `interp.instruction_result`; `saved` are
the locals that hold the caller's environment and records; `snapshots` are the
`old_*` locals of the victim run in progress.

| Action | Code |
|---|---|
| `execute_from_pc` | vm.rs `execute_from_pc` |
| `Observe`, `Balance`, `SStore` | `step`, `sload`, `balance`, `sstore` and the middleware's balance loading |
| `Call` | `FuzzHost::call`, `divide_call_by_is_same_dapp` and the head of `call_forbid_control_leak_in_diff_dapp`, up to the start of the callee |
| `ReturnPlain`, `ReturnCross` | the tails of the same functions and of revm's `call_inner` |
| `StartVictim`, `SkipVictim`, `EndVictim` | the rest of `call_forbid_control_leak_in_diff_dapp` |
| `Create`, `ReturnCreate` | `create` |
| `EndTransaction` | `execute_abi` |

Bytecode is arbitrary: a running interpreter may issue any of these opcodes or
end with any result. That is what the code must cope with, since it executes
contracts it does not know. Storage maps and balances are represented by the
set of runs that wrote or loaded them (0 is the target, k the k-th victim run):
isolation does not depend on the amounts. Precompiles leave no trace in the
host and are left out; `GLOBAL_CALL_CONTEXT` is written and never read.
`send_balance` always succeeds, because `from - value < 0` never holds for
unsigned words, so the `OutOfFund` returns are unreachable. Whether the victim
transaction has input is a set, so that one run tests both.

### Detector

Detector is what a verification promises, without stack, ledgers or storage: a
call to a different DApp is opened (`Open`), a victim run may interrupt it only if
the caller controls it (`Probe`), the run may read the related function (`Hit`), and
only after that a write outside every test raises a leak, which is reported with the
entry function that was under test (`Leak`, `Report`). VerifyHost
instantiates it as `Promise`, with the flags of the host for its stages, and
`ReportIsPromised` is `Promise!Spec`, which VerifyHostProofs proves.

### OnChainLoader

The order of loads, for addresses with code, without code, and drawn by CREATE:
`Call` and `ExtCodeSize` are the middleware's path for calls, EXTCODESIZE and
EXTCODECOPY; `ExtCodeHash` the path for EXTCODEHASH with the host's unwrap; `Create`
and `EndCreate` the host's `create` with `set_code`'s assertion. `Init` is the start
of either command line, which loads what it is `Launched` with, on a data.csv of
which only some first rows may have been read (a failure is only printed, and makes
every later DApp unknown). `get_contract_creator` follows the creations of
factories: a failed lookup yields zero, a failed lookup of an internal
transaction the factory reached so far, and after `MaxSteps` it gives up with
"not Dapp", which kills the process (`CreatorTooDeep`). A process that panicked stays
in its last state (`panic`). Assumed of Etherscan: its contractCreator is the direct
creator; and a contract that another one created is younger than it (`Born`, its place
among all `Creations`), so that the walk over creations ends at an account.

### EndpointCache

Processes one after another (`Start`, `Kill`, which may come between any two
steps), each with two runs (`SwitchRun`) at the blocks before the two transactions,
ask questions: slots, balances, code, is-it-a-contract, creators and
creation transactions. A question is answered from the process's memory (`Cached`),
from its file (`Loaded`) or by a request (`Ask`), which `Retry`, `Limited`, `Receive`
and `GiveUp` carry through the closure of `retry_with_index`. `Receive` and
`Save` are the two steps of `save`, which truncates the file and then writes it.
`is_contract` and `get_contract_code` share a file. The proxy keeps what Etherscan
answered, refusals and the rate limit included (`lru`), so that later tries
meet the same answer; error pages are neither kept nor saved, and the unwraps on
them end the process. The storage modes "all" and "dump" always die, on an
assertion and on a block written "0x0x..." (`fetch_storage_all`,
`fetch_storage_dump`).

### ReplayHost

`ReplayFuzzHost` drives the interpreters of the victim transaction (`frames`) and
hands init code to the `FuzzHost` it wraps, whose own interpreters (`inner`) it
does not see. A `CallGraphNode` is represented by the listing of its tree in
preorder, a row per call with its level, so that `to_nested_dict` is the identity
up to layout and nesting stays exact. `call_stack_cache` is the node of the
innermost frame; the others wait in the local `node_cache` of their callee's
`call()`, which is a field of the callee's frame here, as is `old_env`.

| Action | Code |
|---|---|
| `SLoad`, `SStore` | `step` |
| `Call` | `step` on the opcode, then `call` and `replay_call` up to the callee; all of it for a precompile |
| `Return` | the tails of `replay_call` and `call`; for the transaction itself `fast_call` saving the record |
| `MalformedDelegateCall` | `step` on DELEGATECALL, then `call_inner` stopping before `host.call` |
| `Create`, `InnerCall`, `InnerReturn` | `FuzzHost::create` and `FuzzHost::call` as far as the wrapping host shares their state |

`log`, `delegations` and `stopped` are history: what was really called, which
DELEGATECALLs forwarded the caller's own selector, and whether one has stopped on
its operands. `dapp_invoke_count` and
`logic_to_storage_contract` are written and never read or saved; they are left
out, and so is `replay_call`'s early return for an overflowing balance.

### ReplayDigest

The driver's reading of a saved graph (`execute_with_transaction.py`), on the
records that ReplayHost saves: which node stands for the root when it is a proxy,
which leaves are ignored, and how often each function of each DApp was invoked,
read and wrote. `DigestCountsOnce` compares it with a count over what was really
called. The recursion is a function on the nodes of the graph, which are a listing
in preorder; that it has a result at all is part of the theorem.

### Driver

`pc` says where the driver is: fetching a page (`fetch`), at the start of `main`
for a transaction (`main`), after its replay (`replayed`), in the loop over
candidate contracts (`search`), or in the `while` loop of one implicit function
(`check`). The history of the contract is a constant, newest first, since pages
after the first lie in the past. Everything outside the driver is a choice: what a
replay yields (`Replay`), whether a contract has source and Slither succeeds
(`NoSource`, `NotAnalysed`, `Visit`), how many related transactions a page has.
Each step may also raise (`RecordRaises`, `TargetRaises`, `SearchRaises`,
`CheckRaises`), and `Handle` is `main`'s handler with its unbound variable. The
locals `storage_address` and `function_count` are reset when `main` is entered.

### ContractFiles

One driver after another over the files of each contract. `Open` and `Close` are
the two halves of `with open(..)`; a file is `part` in between, which stands for
an empty file and for the beginning of one. `Kill` may come anywhere, and the next
driver starts with an empty memory. `CachedInfo` and `FetchInfo` are the two paths
of `get_contract_online_info`. A read that raises is an action that is not
enabled.

### StaticAnalysis

Slither's results are given: a contract is what its API says of it. The module is
what `analysis_slither.py` does with that: what a function reads and writes through
its internal calls, which are for owners only or guarded, and from that
`find_implicit_dependency`. The reference `DependsOn` is about `Runs`, the least set
closed under calls; `Reached` is the code's recursion, and `Recurses` says when Python
gives up on it. `DependencyIsExact` has two premises, since the code merges what they
tell apart: signatures are distinct, and a modifier's body has at most one
comparison and one state variable (`Unambiguous`). Of writers with one name only the
first is kept (`FirstOfName`).

### DappMerge

`Walk` goes from a listed contract up to the account behind it, five creations at
most; `unique_dapp_information` merges, in the order of the code's dictionaries,
the DApps that have a creator in common; `tables` is its loop over the creators.
The reference is the closure `Linked`.

### Tasks

The pure algorithms have no state, so a run needs one: a task is asked of an
algorithm, which takes one of its inputs. `Inputs` is a constant, so that a theorem
about an algorithm is one about every input.

### Interpreter and GasMeter

The frames of revm's interpreter, with real pushes, jumps and memory. Bytecode is
analysed and padded as in the code, so that what follows from its shape (the
pointer is incremented unchecked, the stack written without a capacity check,
memory sliced by unchecked ranges) is a property of every small program. A
CALL or CREATE hands over to the host, which enters another frame (`Enter`,
`Leave`) or answers by itself (`HostAnswers`); it may refuse before that, CREATE for init
code beyond `MAX_INITCODE_SIZE` too. The flag of a static call is in what the opcode hands
over, and `callee_static` is what the hosts of this tree make of it: FALSE. Memory is its length, and values
that the environment or arithmetic produce are any of `HostWord`. GasMeter is what
the build leaves out (feature `no_gas_measuring`): prices per fork, the meter of
each frame, refunds, and the settlement of a transaction.

### Opcodes

The numbers and names of revm's opcodes, what `eval` does with each, heimdall's own table
of operands, and the disassembler that reads it. Three assumptions on tables are
evaluated by TLC when the runs start: both machines take and leave as many words for every byte
(`TablesAgree`), the real table is as InterpreterProofs assumes (`EvalIsAssumed`),
and the disassembly of a code starts an instruction wherever `analyze` finds a jump
target (`DisassemblyFindsTargets`).

### Words

The operators of both EVMs on words of `BITS` bits, as each code computes them,
beside `Reference`, two's complement arithmetic.

### HeimdallVM and HeimdallExplorer

HeimdallVM is `_step` as a function from machine to machine, with its own counter
(one beyond the pc), its lenient stack and the operations that made each word.
HeimdallExplorer runs it: `Resolve` is the loop of `resolve_entry_point`, `Select`
that of `map_selector`; `Trace`, `Fork`, `LoopDetected` are `recursive_map`, whose
recursion is the stack `pending`, with the table of handled jumps that all
branches share. The table of `resolve_entry_point` holds 32-bit numbers, with 0 for every
destination beyond them (`HandledJump`). In mode `execute` the same code also runs in Interpreter.

### TraceLexer

From the traces of a function to statements with their blocks, events,
errors, arguments, and the entry in the ABI. How a statement reads is left out, but for
one thing: at the end of a trace the lexer of Yul closes the block unless the *text* of the last line
contains "if", in which case it drops that line (yul.rs:429). An `if` does, and so does a statement with
`difficulty()` in it. So a line is told apart by that (`Statement`, kind "mention"), and an operation says of
its statement whether it does (`contains_if`). A LOG0 has no topic to unwrap and ends the analysis (`panicked`); a LOG
whose operation recorded no event is only noted.
The lexers recurse over the tree of traces; their input here is that walk, a list of
events ("enter" a trace, its operations, its children, "leave" it), and `jumped` keeps the local
`jumped_conditional` of each trace that is entered and not left. `IsWalk` is what is assumed of the list
(`LexerAssumption`): it enters before it leaves, operations come before children, and a JUMPI ends
the operations of its trace, as `recursive_map` records them. MCAlgorithms makes the walks from trees.

### JournaledState

`js` is revm's journal, `db` the CacheDB, `frames` the interpreters of init code
with the checkpoint each was entered with. `TransactCall` and
`TransactCreate` are `transact`, `Call` and `Create` are `call_inner` and
`create_inner`; `ReturnOk`, `ReturnFail` and `SelfDestruct` end a frame. Only init
code runs, because `EVMImpl::code()` hands every call empty code in this tree.
`journal_revert` undoes the entries of one set, newest first, by what each kind of entry
says of an account (`Undo`); `RevertSets` does it for the sets from the top of the
journal down to the checkpoint. Both are functions on the number of entries and sets that
are left, in place of the code's iterators.

### Precompiles and AbiCodec

The modular exponentiation contract on call data that may end anywhere, with its
price; and the encoder from types and values to call data, with `set_bytes`.
References: the power itself, and the decoder of the Solidity ABI.

## Runs

| Run | Shows | Bounds |
|---|---|---|
| `host` | the host: flags, depth, environment, isolation of storage, leaks and victim runs, and that it implements Detector | 3 calls, 4 contracts of 3 DApps, 2 EOAs, 2 selectors, CALL and DELEGATECALL, with and without input of the victim |
| `host_value` | balances, the environment with CREATE, and that a leak or hit unwinds | 3 paid calls, 3 contracts, one fresh address, BALANCE of one address, paid target transaction |
| `host_victim_value` | *violation*: a paying victim leaves its transfer in the target's ledger | 3 calls |
| `loader` | loading in any order, and what may pass for one DApp | 3 contracts, 2 factories, 1 EOA, 2 fresh addresses, 2 nested CREATEs, 2 rows, lookups of 2 creations (5 in the code) |
| `endpoint` | files, memories and the proxy's replies; that requests end | 2 processes, 5 questions, 2 blocks, 2 tries (5 in the code) |
| `replay` | the call graph, the proxies, the environment, and the driver's counts | 3 calls or creations, 2 accesses, 2 contracts, a precompile, a fresh address, 2 selectors |
| `parts` | three parts that share nothing, one at a time: the driver (pages, rounds, failures and the ABI cache), the files after kills, and the pure algorithms against their references | 6 transactions in 5 blocks, pages of 2, 2 rounds, 2 contracts, 2 implicit functions; 2 contracts, 3 kills; sets of contracts, values and types nested twice, call data, scripts of up to 5 steps, merges of 3 creators and 4 DApps, trees of traces with and without mentions of the difficulty and anonymous events |
| `evm` | value, marks and reverts in the journal | 2 transactions, 3 opcodes, 3 nested creations, 7 addresses, one slot |
| `interpreter` | pointer, stack and memory in bounds; ends; the tables of opcodes | every code of up to 4 bytes over 6 opcodes that move the pointer, families for memory, calls and creations; words of 2 bytes |
| `heimdall` | both EVMs' arithmetic; the VM beside the interpreter; tracing | words of 12 bits at their boundaries; every code of up to 4 bytes over 7 opcodes; loops, subroutines, dispatchers |
| `static_call` | *violation*: a callee below a STATICCALL changes the world | as `interpreter` |
| `yul_blocks` | *violation*: a block whose last statement mentions the difficulty is never closed in Yul | the trees of traces of `parts` |

Why the bounds are enough. Three calls make the shapes that matter: a call
inside a tested call, a call inside the victim run, and a second tested call
after the first; and, in `host_value`, a leak that has to unwind through a callee;
with a library of the target's builder (`l`, DApp unknown, so
the creator decides), a contract named by the target's input (`x`), the victim
and the target. `MaxCalls` counts the calls of a whole execution and only bounds
TLC; the proofs are for every number. Value under CALLCODE and a mix of paid and
unpaid calls are left to the theorem `LedgerIsolation`. The loader's lookup needs one
creation more than `MaxSteps` follows, which `q` has; `Creations` and `Born` only number the five creations of the instance. For the endpoint a process has to
meet files of a killed one and of a successful one, and both blocks; two tries
already separate the first from the last. The
driver's history has a block that a page cuts in two and
more transactions than two rounds can test. In the replay three calls give a node with two children
and a chain of three levels, the shapes in which a misplaced `node_cache` shows.
In `evm` a creation in a creation that commits and is then reverted by its caller is
three frames, and a second transaction meets what the first destroyed. Codes of
four bytes already have jumps into the data of a PUSH and pushes that run
beyond the end. MaxStack and MaxAlloc stand for what an allocator grants.
CHECK_DEADLOCK is off because all the systems stop: a process ends,
saves its record, panics or is killed, and the number of processes is bounded. MCParts starts one of
its three parts and takes steps of that part alone, so a state of the run is one of the driver, of the files or of a task.

Fairness. `VerifyHost` assumes weak fairness of `Unwind` alone: an interpreter
whose result is set to a leak or hit leaves its loop at the next test and returns
in the same thread. Nothing is assumed of a running interpreter, which may loop
because gas is not measured. `EndpointCache` assumes weak fairness of
`Progress`: a process that is not killed goes on with its request (the HTTP
client has a timeout of 20 s and the retry delay is one second). `Interpreter` and
`HeimdallExplorer` assume weak fairness of `Next`: each is one thread in a loop that
waits for nothing. What they then promise excepts runs that jump back for ever.

## What the models show of the code

- `host_victim_value`: the victim's value is moved by `send_balance`
  (host.rs:740) before `address_to_balance` is saved (768). "recover context"
  (789) then restores balances with the victim's transfer in them, and the victim
  itself starts from an empty ledger and never sees it.
- `static_call`: `FuzzHost` (host.rs:632-655, 716, 990) and `ReplayHost` (replay_host.rs:235-253)
  create callees with `is_static` false. revm's own `EVMImpl` hands the flag on, but gives every callee empty code in this
  tree. So a STATICCALL, which revm's book calls "a read-only operation"
  (`DA/revm/documentation/src/crates/interpreter/inner_models.md:20`), runs code that may write: STATICCALL, `Enter`, SELFDESTRUCT.
- `yul_blocks`: "if the last logic is an if statement, remove it because it's empty" (yul.rs:428) takes any line
  with "if" in it for one. In `if c { sload; sstore(0x0, difficulty()) }` the store is dropped and the block
  stays open. `FunctionsAreWhole` says what holds beside this.

The following are reached in a few steps of the models; no run is kept for them, and
the properties of the runs are stated so as to hold beside them.

Dynamic analysis:

- Init code that executes EXTCODEHASH on its own address makes
  the middleware insert empty code for it; when it returns, `set_code` asserts
  that there was none (host.rs:565) and the process dies. (`InsertedOnce` of OnChainLoader
  is the promise that fails; `ContractsAreSafe` is what is left of it.)
- `slot_cache` is keyed by contract and slot (endpoints.rs:921).
  `on_step` passes the victim's block for a victim run (cli/src/evm.rs:113), but a slot
  the target has read is served from memory at the target's block. (`SlotAtBlock`
  of EndpointCache fails; `ServedIsAnswer` allows either block.)
- `step` of the replay host raises `is_delegate_call` before the opcode is executed
  (replay_host.rs:320) and only `call` lowers it. A DELEGATECALL with too short a
  stack or too large an offset stops its interpreter in `call_inner` before
  `call`; the flag stays, and the caller's next plain CALL with its own selector is
  recorded as that of a proxy, against the comment at replay_host.rs:402-404.
  (`ProxyByDelegateCall` speaks of the time before such a stop.)
- `is_contract` takes everything but "0x" for a contract, an error page too; `[]` for a non-200 answer of Etherscan and "NOTOK" are saved in the cache
  file for good, and the proxy's `lru_cache` repeats a rate limit for as long
  as it remembers it, so that retries cannot succeed.
- After `bug_hit` calls to a different DApp no longer raise `is_diff_dapp`, so an
  SSTORE of a foreign contract raises the leak too; `create` swallows a leak or hit
  raised in init code (`StopUnwinds` therefore speaks of stacks without init code);
  neither storage nor balances are rolled back by a revert; a self-transfer in
  `send_balance` creates money; `get` makes five tries while its message says three;
  records go to `record_data` whatever `--output-dir` says (replay_vm.rs:115).

revm:

- `set_code` journals the new code as `had_code` (journaled_state.rs:69-73, 153-167), so a
  revert puts the new code back; `Essence` therefore leaves code out.
- `EVMImpl::code()` returns empty bytecode for every call. An overflow of the
  receiver's balance leaves the debit of the sender in place until the caller reverts.
- "self.refunded is always positive" (gas.rs:86-87) is false within a callee;
  only the sum of a transaction is, which is what `MeteringIsNet` checks.

Driver and data:

- `main`'s handler names `storage_address` (smartReco.py:121), which is assigned at
  line 63. An exception before that raises again in the handler and ends the whole
  run with nothing under `err_info`, where "the error will store here" is said of it
  (smartReco_static_analysis/README.md:12). `RaisedIsStored` says what is left of
  that promise. `AbiCacheComplete` holds for a reason worth knowing: an exception can
  leave an empty entry in `contract_abi_cache`, but only at a point where the handler's
  own error ends the process. Whoever repairs the handler must repair that order too.
- `function_count` is local to `main`, so `--max-test`, "max test count per function"
  (smartReco.py:133), bounds nothing; `--max-check-count` (134) is looked at
  between rounds of 50 or of a whole page.
- A driver killed in `json.dump` (analysis_slither.py:356) leaves the beginning of a
  result, which every later run takes for "already analyzed" (275); one killed between
  the source and the ABI file of a contract can never read that contract again.
- The digest takes the first child of a proxy's root for its logic contract; a proxy that
  asks a beacon first is misread. A DELEGATECALL to a precompile links a
  proxy without a child, which raises an IndexError.
- Of overloaded functions only the first is kept (`FirstOfName`); the flags of
  `is_only_owner_modifier` are overwritten by the last variable or comparison
  (`Unambiguous`); internal calls in a cycle end in a RecursionError.
- `collect_dapp_information.py`: `if i == 5` is never true, so a contract behind more than
  five creations is dropped silently; a failed lookup stores the listed address as
  creator; a status "0" is compared with the number 0, so that a failed reply in the cache
  is served for good. Merging raises a KeyError when a merged DApp is met a third
  time ({A,B}, {A,C}, {A,D}) and gives a creator two names for {A,B}, {C,D}, {A,C}, contrary
  to lines 19-20; `CreatorsAreNamed` states when it does not.

heimdall-rs and the ABI codec:

- ADDMOD and MULMOD wrap before they take the modulus; SAR of negative words depends on
  how ethers shifts an I256 (`I256_KEEPS_SIGN`); PC pushes the instruction counter; a
  PUSH cut off by the end and a jump to the end panic; a shift by more than a usize
  panics before it could give 0; a jump beyond the code is not refused.
- A failed JUMPI leaves its fall-through branch untraced; `map_selector` stops one
  instruction beyond the entry point; the similarity heuristics drop branches. `cut` and
  `Overflows` set these cases apart.
- The lexers look for "SELDFESTRUCT", so SELFDESTRUCT writes no statement; all ifs of
  the size that a revert names become requirements, a closed sibling's too; a LOG does not
  keep a function from being view; a LOG0 panics in both lexers (solidity.rs:136-145, yul.rs:111-121).
- `set_bytes` is not the inverse of `get_bytes` for dynamic values ("TODO" at abi.rs:747).
  Nothing calls it.

## Proofs

Every theorem is proved for all values of the constants that satisfy the
assumption of its module (disjoint address sets, functions of the right domains,
a sorted history, contracts as Slither gives them, lists of pairs, walks over traces). The modules with
proofs use no recursive operator.

| Module | Proves |
|---|---|
| VerifyHostProofs | the host's invariant: flags, environment, isolation of storage and (if the victim does not pay) balances, leaks, control, the entry function, the target's writes; `call_depth` counts the calls open in the run that executes; VerifyHost implements Detector |
| ReplayHostProofs | the graph is the call tree, the environment, the depth, the proxies; the driver's digest counts each call once |
| OnChainLoaderProofs | a called contract is known, no contract kills the process, and no failure merges two DApps that are not one |
| EndpointCacheProofs | what is served and stored is the chain's, and an answer is kept |
| ContractFilesProofs | only whole files are served, and whole files stay |
| DriverProofs | pages in order, the ABI cache, stored exceptions; and of algorithms among Tasks: the static analysis tells exactly what depends on what; a creator has one name, of all DApps linked to its own; heimdall's lexers close the blocks they open, as far as they do, and declare what the traces do |
| InterpreterProofs | pointer, stack, memory and jumps in bounds |
| JournaledStateProofs | a subroutine that fails leaves the world as it found it; checkpoints nest, changes are marked; no value is made out of nothing |

*VerifyHostProofs.* The inductive invariant `IInv` (in VerifyHost) adds to the checked
properties what the stack must remember for a *return* to re-establish them:

- `StackShape`: the transaction is the bottom interpreter and only it; before the
  start everything is clear.
- `DepthChain`: each interpreter starts one deeper than its caller, init code at
  the same depth, and the snapshot holds the depth of the call under test. `depth`
  is a history field of the frame for this purpose. Without it, `sub_call_depth`
  could leave the natural numbers.
- `EnvChain`: what an interpreter saved is the environment of the interpreter
  below. This makes the restore on return right.
- `RunTags`: the snapshot of a victim run holds writes of the target only.

The argument: `InitInv`; one lemma per action, on top of two lemmas for the two
ways a step changes the stack without closing a test (`MarkKeepsShape`,
`PushKeepsShape`) and lemmas on what a return leaves; `NextInv` combines them, and
`Inductive` is `Spec => []IInv`. The other theorems follow from it, the action
properties (`EntryFixed`, `WritesKept`) with a case per action. `LedgerIsolation`
assumes `~VictimPaid`; the run `host_victim_value` shows that it must.

*The depth* (VerifyHostProofs, second part). `DInv` adds `DepthCounts`: an interpreter's `depth` is the number
of calls that were open in its run when it started. Every step keeps the lower
part of the stack and puts at most one interpreter on it (`StackStep`), so one
lemma, `CountedPush`, counts.

*The refinement* (VerifyHostProofs, third part). `RInv` adds two facts to `IInv`: a leak stops the innermost
interpreter only (`LeakOnTop`), and after a hit there is an entry function
(`HitHasEntry`). Each action then is one step of Detector or a stutter: a leak is
on the stack before a return exactly if it is after, or is reported, or is
swallowed by CREATE.

*ReplayHostProofs.* `IInv` adds to `GraphIsCallTree` that frames started in stack order
with the transaction at the bottom (`FramesInOrder`), so that the rows of a callee
follow those of its caller, and that every interpreter of the inner host
remembers the depth it started at (`DepthChain`), which is why `sub_call_depth`
never meets zero. While frame i is not the innermost,
its node lists the log from its own row up to the row before frame i + 1;
`add_child` joins two such adjacent listings, one level apart. For the
environment `EnvChain` says that what a frame saved serves the frame below. `ProxiesDelegate`
speaks of executions in which no DELEGATECALL has stopped on its operands
(`~stopped`).

*The digest* (ReplayHostProofs, second part). `DigestInv` adds that the listing goes down one
level at a time (`Steps`). So the nodes below a node are the disjoint union of what is below
its children (`ChildCovers`, `ChildrenApart`), and the driver's recursion over children has exactly one
solution, the sum over the node's subtree: it is one (`AddingExists`), and by induction from the end of the
listing there is no other (`AddingIs`). Sums over finite sets are handled by
induction on the number of members, with `Induction` on a set of numbers. `CountingIs` says the same for invocations, reads and
writes of each DApp.

*OnChainLoaderProofs.* While the process lives, every contract in `loaded_abi` has code
and creator (`LoadedIsKnown`), and no path but CREATE gives an address other code
than the chain's (`CodeIsChains`): which opcode came first does not matter. For
`MergedOnlyByFailure` the walk of `get_contract_creator` has to be compared with the
account at its end. Both are functions by recursion on a number of creations, and that
such a function has the values its definition says is a theorem by well-founded
induction (`Induction`, on a set of numbers, since a theorem with an operator as parameter
cannot be instantiated here). From it: the `n`-th creator above a contract is again one of its
kin (`AboveIsKin`), so whatever a lookup finds is zero or shares the account behind it
(`FoundIsKin`). `FoundOrRead` is the invariant: each entry of `address_to_dapp` is the result of some
lookup, and the names are those of some first rows of data.csv. What is assumed of the chain
is only that a creator is older than what it creates.

*EndpointCacheProofs.* The invariant follows an answer through memory
(`MemoryIsRight`), the proxy (`ReplyKept`) and `save` (`ReplyWritten`). `RequestIsNew`, that a
request is opened only for what neither memory nor file holds, is why `save` never
truncates an answer. Code and is-it-a-contract share a file, so both answers are
parsed from the same reply (`CachesAgree`).

*ContractFilesProofs.* The files of a contract are written in a fixed order, the one
that marks it last, so that a kill leaves a beginning of that order (`DiskInOrder`) and what is
pending is its rest (`WritesInOrder`).

*DriverProofs.* A page is a stretch of the history (`PageIsStretch`), the transaction given
to `main` last is the current one (`LastIsCurrent`), the next page starts below it
(`NextPageBelow`), and no more were seen than the pages held (`SeenPerPage`). `NewerIsSplit`
is the counting lemma: `end_block` splits a sorted history in two. `LocalsFollowPc`
ties `main`'s locals to where it is, which decides what its handler does.

*The static analysis* (DriverProofs, second part). The equations of the recursion over calls have a solution, `Runs` itself (`ReachingExists`), and where
calls form a cycle they have others. `ReachedIs`: for a function that does not recurse, every solution is `Runs`,
by induction on the number of functions that it runs (a callee runs fewer). The
rest compares tables with what they are tables of: the last function of a signature is the only one
(`KeyedIs`), flags that are overwritten are right if there is one thing to flag (`FlagsAre`, `OwnerIs`), and the first writer of a
name is kept (`WritersAre`). `AnalysisExact` holds for every contract with finitely many functions.

*The DApp data set* (DriverProofs, third part). DApps that are linked form classes (`LinkedFacts`). Two invariants of the loop over
creators: `Shape` (a DApp not renamed has its own name, every other name joins DApps that
were renamed) and `Classes` (names stay inside a class, every creator has one, and two names never share their
least DApp). The last part is what makes no creator disappear: a merge overwrites the
creators of the name it makes, if that name exists, and its least DApp is one that
no name left over has (`NameIsNew`). This holds for all lists, as long as there is no KeyError. For creators whose
sets of DApps are equal or disjoint (`Apart`) the tables after every creator are known (`Form`, `FormKept`), there
is no KeyError, and each name is a whole class (`NamedAsLinked`).

*The lexers* (DriverProofs, fourth part). The invariant of the walk, after every event and as long as no panic ended it (`Walked`): as many
blocks are open as there are conditions on the stack (`BlocksFit`; in Yul at least as many, once a mention of the
difficulty may have cost a block its end), and up to no line are more closed than
opened (`Covers`); a condition is on the stack at most as often as traces that are not left hold it (`Tracked`);
those are as many as were entered and not left. Three steps are not obvious. A revert that turns blocks into requirements takes the
last ones opened, which need not be those still open, but as many as there are conditions
(`CoversTurned`). The end of a trace takes its condition off only where it is still on the stack, so
it never closes a block that a revert in a child took away (`LeaveFits`). And in Yul the block dropped at the end is the
last line, so nothing behind it is uncovered (`CoversDropped`); that the last line opens a block takes that no
statement mentions the difficulty (`NoMention`), and otherwise the balance is lost for good, to the side of
open blocks (`MentionFits`). At the end no trace is left over, so the stack is empty (`Tracked`) and the blocks are
balanced or, in that case, not overdrawn.

*InterpreterProofs.* `IInv` says of every frame on the stack (`FrameOK`) that its code is an
original followed by a word and a byte of zeros, its jump map the analysis of the original, its
pointer at most at the end and, while it runs, at an instruction; that the stack has at most `STACK_LIMIT` words; and that
memory is a number of words that covers the ranges of its return data and of a pending call, since
`Leave` writes there after the callee ran. The argument for the unchecked pointer: the set of
instruction starts is closed under "the next instruction" (`StartsClosed`), the last byte of any
padded code is a STOP that cannot lie in the data of a PUSH (there is one byte more
padding than the longest data), so an instruction that does not stop has a successor inside
the code. One lemma per opcode shows `Evolves`, and `StepOK` combines them with `Enter`, `Leave` and
`HostAnswers`. Assumed of the opcode table is what Opcodes checks of the real one.

*JournaledStateProofs.* What has to be shown is that undoing the journal down to a checkpoint gives
back the state the checkpoint was made in, after any sequence of operations, nested subroutines
and reverts in between. The layers:

- `UndoAt`: what undoing one entry does to each account. From this, undoing leads from states
  that are alike (`Restored`: equal but for what nothing takes back, namely codes, original
  values and the marks of the precompile at address 3) to states that are alike (`UndoLike`),
  and never creates an account (`Beneath`). The same for a set of entries (`RevertAlike`) and
  for several sets (`SetsAlike`), by induction on their number.
- `Step` and `Grows`: what an operation leaves. The journal only gets longer; reverting it to any
  earlier set gives what reverting before the operation would have given; accounts of the database
  that changed are touched (`Nice`); and what an account that runs must have does not get lost
  (`Keeps`). One lemma per primitive: loading, touching, nonces, transfers, storage, codes, destruction.
- `Leads`, `Enters`: the same for the composed operations, `call_inner` and `create_inner`
  with their checkpoints and every early return.
- `Sound`, the first conjunct of the inductive invariant `IInv`: the journal is good, the database in order, every frame
  can be reverted to the state before it (`FrameOK`), and each frame was running when the next was
  entered (`Below`). Two conjuncts are not obvious. An account with a nonce must not be created a second
  time, since creating clears its storage and a revert only resets the mark; so `Keeps` says that a
  running creator keeps a nonce. And the outermost checkpoint is made after the sender has paid,
  which is what a failing transaction goes back to (`Outermost`).
- `Solvency`, its second conjunct, for `NoValueCreated`. The `Wealth` of a state is the sum of
  the balances over all addresses, the database's where an account is not loaded. The lemmas on sums over a finite set
  (`SumOne`: one summand changed; `SumPaid`: something moved from one to another, which may be
  the same; `SumLess`) come from the fold of the library by induction on the set's size. A step is `Frugal` if the
  wealth does not grow, and stays while nothing is destroyed; every primitive is, and `Grows` says so of
  all that is composed. A failing subroutine takes back what the entries say: the sum is right
  again only because the state is the earlier one, so `Solvent` must hold of `before` in every
  frame of the stack as well as now. `Restored` leaves out the precompile, whose marks stay; its balance does not
  stay, so the lemmas compare states by `Alike`, which adds that balance (`SameP`). Between
  transactions commit loses the balances of accounts marked as destroyed and no others
  (`CommitWealth`, `FinalizeWealth`), and `Prepare` takes exactly `Prepaid`.

Checked by TLC only, because it is out of the provers' reach:

- liveness: `StopUnwinds`, `RequestEnds`, `EndsOrJumpsBack`, `ExplorationEnds`;
- heimdall's `WordsAreTwosComplement`, `FollowsInterpreter` and `ReachableIsTraced`: bitwise operators on words
  and a recursive exploration of code;
- `AbiIsDecodable`: recursion over values nested in each other, which would need structural induction;
- `PowerIsExact`: powers, of which the provers know nothing;
- `MeteringIsNet`: a loop over scripts of every length, compared with a sum over them.

## Plan

Done: all modules above, in the order VerifyHost, OnChainLoader, EndpointCache, ReplayHost,
Driver, ContractFiles; Detector and its refinement; ReplayDigest, StaticAnalysis,
DappMerge; the interpreter, the world state, the precompile and the ABI codec;
heimdall-rs; the opcode tables; then the proofs, last those of the interpreter, of the
world state, of the creators, and of the algorithms (digest, static analysis, DApp
data set, lexers).

Open, in this order:

1. A BalanceLedger with wrapping words: the self-transfer and the uncovered transfer
   of `send_balance`.
2. The composition of Driver with EndpointCache (each process of the driver asks under a
   deadline), against the promise that a killed verification is only a lost one.
3. Larger instances of `host` (four calls) where time allows.

Hazards that no property covers and PROJECT.json does not list: a call that
reverts keeps the storage and balances it changed (host.rs:685) and CREATE returns a
leak as a zero address (1018), both choices of the code that no document contradicts;
an uncovered transfer wraps (535); EXTCODEHASH of an
account without loaded code unwraps nothing (920); a reply that contains "error"
anywhere is not saved (endpoints.rs:393), and `post` serves whatever its file holds
(410); a lookup of a creator that gives up is printed and then parsed
(contract_utils.rs:184); the bounds on tests per function (smartReco.py:13, 95); the ABI
file (onchain_tool.py:104) and the analysis (analysis_slither.py:270) of a killed
driver; a shift beyond a usize in the decompiler (vm.rs:560).

## Not modelled and why

- Argument parsing, logging, reports' layout: no state that a property could be about.
- What Slither finds, what Etherscan and the nodes answer, what the allocator grants: external,
  and choices in the models.
- The precompiles besides modular exponentiation: they hand their input to cryptographic
  libraries, of which TLC can say nothing.
- The fuzzer remnants (`input.rs`, `mutation_utils.rs`, sampling and mutation in `abi.rs`, `srcmap`, feedback): neither
  verification nor replay runs them. The middleware's loading of ABIs feeds only them.
- `deploy` of the executor: the command lines load contracts that are already deployed.
- `post`, block hashes, prices and pairs of the endpoint and the proxy: the shape of the
  modelled requests, or no caller in this build.
- revm's inspectors, EthersDB, legacy forks of the world state, the static table of gas per
  opcode (`opcode.rs`, which nothing reads), the contents of code, logs and memory.
- heimdall's signature look-ups, disassembly output, caches, and the wording and rewriting of
  statements (`postprocessers`): text to text, with no behaviour but the text. SmartReco builds the crate and does not call
  it (`fetch_abi_heimdall` is commented out, contract_utils.rs:27).
