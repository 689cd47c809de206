----------------------------- MODULE VerifyHost -----------------------------
(***************************************************************************)
(* The verification host of the dynamic analysis (src/evm/host.rs) and the *)
(* executor around it (src/evm/vm.rs): one process replays a TARGET        *)
(* transaction; whenever the target's DApp calls a contract of a different *)
(* DApp that the caller controls, the host runs a VICTIM transaction in    *)
(* the middle of that call, in a world of its own.  If the victim reads    *)
(* the target's related function, bug_hit is set; if the target then       *)
(* writes storage, the run ends with CrossContractControlLeak and a report *)
(* is saved.                                                               *)
(*                                                                         *)
(* The Rust call stack is the sequence frames.  Bytecode is arbitrary: a   *)
(* running frame may issue any modelled opcode next.  A storage map or a   *)
(* balance is represented by the set of RUNS that wrote or loaded it (0 is *)
(* the target transaction, k the k-th victim run), which is what isolation *)
(* is about.                                                               *)
(***************************************************************************)
EXTENDS Naturals, Sequences, FiniteSets

CONSTANTS
  Contract,         \* addresses with code on chain
  EOA,              \* addresses without code
  Fresh,            \* addresses CREATE may draw (generate_random_address)
  Target, Victim,   \* contracts the two transactions are sent to
  TargetSender, VictimSender,
  DappOf,           \* CreatorDapp.dapp per address, "unknown" when not known
  CreatorOf,        \* CreatorDapp.creator per address
  BytecodeMentions, \* the addresses embedded in a contract's bytecode
  TxInput,          \* the addresses that occur in the target tx's input
  VictimInput,      \* the same for the victim tx
  VictimHasInput,   \* whether the victim tx has input; a plain transfer has none
  TxPaid,           \* is tx.value of the target > 0
  VictimPaid,       \* is tx.value of the victim > 0
  IsVerified,       \* the --is-verified argument
  Selector, target_dependency, \* 4-byte selectors, the related function's one
  NoSelector,       \* entry_function and report before there is one
  \* bounds on what the bytecode does
  Scheme, CallInput, CallPaid, CallStipend, ReadBalance, MaxCalls

Address == Contract \union EOA \union Fresh
Result  == {"ok", "revert", "fail", "leak", "hit"}
Status  == {"run", "leak", "hit"}
Kind    == {"tx", "plain", "cross", "victim", "create"}

ASSUME ConstAssumption ==
  /\ Contract \intersect EOA = {} /\ Fresh \intersect (Contract \union EOA) = {}
  /\ Target \in Contract /\ Victim \in Contract
  /\ TargetSender \in EOA /\ VictimSender \in EOA
  /\ DOMAIN CreatorOf = Address /\ DOMAIN DappOf = Address
  /\ BytecodeMentions \in [Address -> SUBSET Address]
  /\ TxInput \in SUBSET Address /\ VictimInput \in SUBSET Address
  /\ VictimHasInput \subseteq BOOLEAN /\ {TxPaid, VictimPaid, IsVerified} \subseteq BOOLEAN
  /\ target_dependency \in Selector /\ NoSelector \notin Selector
  /\ Scheme \subseteq {"Call", "CallCode", "DelegateCall", "StaticCall"}
  /\ CallInput \subseteq SUBSET Address
  /\ CallPaid \subseteq BOOLEAN /\ CallStipend \subseteq BOOLEAN
  /\ ReadBalance \subseteq Address
  /\ MaxCalls \in Nat

VARIABLES
  phase,            \* "ready", "running", "done": the process's one execution
  frames,           \* the interpreters on the Rust stack, innermost last
  snapshots,        \* the old_* locals of a victim run in progress
  is_diff_dapp, is_execute_victim_function, no_need_for_test, bug_hit,
  call_depth, call_count,
  env,              \* self.env: tx.caller, tx.transact_to and the block
  records,          \* compare_record and sload_record, only used together
  address_to_balance, \* per address, the runs that loaded or moved it
  evmstate,         \* <<address, run>>: run wrote storage of address
  code,             \* addresses with code in the host
  entry_function,
  report,           \* what execute_abi saved
  victim_runs       \* history: number of victim runs started

modes == <<is_diff_dapp, is_execute_victim_function, no_need_for_test>>
world == <<env, records, address_to_balance, evmstate>>
counts == <<call_depth, call_count>>
vars == <<phase, frames, snapshots, modes, bug_hit, counts, world, code,
          entry_function, report, victim_runs>>

-----------------------------------------------------------------------------
(* Data of the host                                                         *)

Block   == {"target", "victim"}
Env     == [caller: Address, to: Address, block: Block]
Saved   == [env: Env, records: SUBSET Address]
\* What the host knows of the call that entered a different DApp
Invoke  == [selector: Selector, from_args: BOOLEAN, stipend: BOOLEAN]
Frame   == [kind: Kind, address: Address, caller: Address,
            code_address: Address, input: SUBSET Address, paid: BOOLEAN,
            status: Status, invoke: Invoke, saved: Saved,
            depth: Nat]     \* history: call_depth when it started
Ledger  == [Address -> SUBSET Nat]
Snapshot == [env: Env, records: SUBSET Address, address_to_balance: Ledger,
             evmstate: SUBSET (Address \X Nat), call_depth: Nat]

NoInvoke == [selector |-> target_dependency, from_args |-> FALSE,
             stipend |-> FALSE]
Here     == [env |-> env, records |-> records]
NoBalance == [a \in Address |-> {}]

Depth  == Len(frames)
Top    == frames[Depth]
Below  == SubSeq(frames, 1, Depth - 1)
Run    == IF is_execute_victim_function THEN victim_runs ELSE 0

\* The innermost interpreter is about to execute an opcode of real code
Executing ==
  /\ phase = "running"
  /\ Top.status = "run"
  /\ Top.kind = "create" \/ Top.code_address \in code

-----------------------------------------------------------------------------
(* is_from_same_dapp and the call_from_args test                            *)

SameDapp(a, b) ==
  IF "unknown" \in {DappOf[a], DappOf[b]}
    THEN CreatorOf[a] = CreatorOf[b]
    ELSE DappOf[a] = DappOf[b]

is_from_same_dapp(from, to, code_address, scheme) ==
  IF scheme = "DelegateCall" THEN SameDapp(to, code_address)
                             ELSE SameDapp(from, to)

input_record == IF IsVerified THEN {} ELSE TxInput

is_input_contain_address(input, to, code_address) ==
  /\ to \in input
  /\ ~ (code_address \in code /\ to \in BytecodeMentions[code_address])
  /\ to \in input_record
  /\ to \notin records

-----------------------------------------------------------------------------
(* The balance ledger: on_get_additional_information loads what is absent,  *)
(* send_balance then moves value between the two.                           *)

LoadBalance(ledger, addrs, run) ==
  [a \in Address |-> IF a \in addrs /\ ledger[a] = {} THEN {run} ELSE ledger[a]]

send_balance(ledger, from, to, run) ==
  [a \in Address |->
     IF a \in {from, to} THEN ledger[a] \union {run} ELSE ledger[a]]

Transfer(ledger, from, to, run) ==
  send_balance(LoadBalance(ledger, {from, to}, run), from, to, run)

-----------------------------------------------------------------------------
(* execute_from_pc: the process's single execution of the target tx         *)

Init ==
  /\ phase = "ready" /\ frames = <<>> /\ snapshots = <<>>
  /\ is_diff_dapp = FALSE /\ is_execute_victim_function = FALSE
  /\ no_need_for_test = TRUE /\ bug_hit = FALSE
  /\ call_depth = 0 /\ call_count = 0
  /\ env = [caller |-> TargetSender, to |-> Target, block |-> "target"]
  /\ records = {} /\ address_to_balance = NoBalance /\ evmstate = {}
  /\ code = Contract
  /\ entry_function = NoSelector
  /\ report = NoSelector
  /\ victim_runs = 0

execute_from_pc ==
  /\ phase = "ready"
  /\ phase' = "running"
  /\ frames' = <<[kind |-> "tx", address |-> Target, caller |-> TargetSender,
                  code_address |-> Target, input |-> TxInput, paid |-> TxPaid,
                  status |-> "run", invoke |-> NoInvoke, saved |-> Here,
                  depth |-> call_depth]>>
  /\ bug_hit' = FALSE /\ evmstate' = {} /\ call_count' = 0
  /\ env' = [caller |-> TargetSender, to |-> Target, block |-> "target"]
  /\ address_to_balance' =
       IF TxPaid THEN Transfer(address_to_balance, TargetSender, Target, 0)
                 ELSE address_to_balance
  /\ UNCHANGED <<snapshots, modes, call_depth, records, code, entry_function,
                 report, victim_runs>>

-----------------------------------------------------------------------------
(* Opcodes of the innermost interpreter                                     *)

\* A comparison or an SLOAD records an address it saw (an address outside the
\* target's input is never looked up again).
Observe(a) ==
  /\ Executing
  /\ records' = records \union {a}
  /\ UNCHANGED <<phase, frames, snapshots, modes, bug_hit, counts, env,
                 address_to_balance, evmstate, code, entry_function, report,
                 victim_runs>>

\* BALANCE and SELFBALANCE load the balance on first use.
Balance(a) ==
  /\ Executing
  /\ address_to_balance' = LoadBalance(address_to_balance, {a}, Run)
  /\ UNCHANGED <<phase, frames, snapshots, modes, bug_hit, counts, env,
                 records, evmstate, code, entry_function, report, victim_runs>>

\* SSTORE: step() may mark the interpreter, the store itself still happens.
LeaksAnywhere == bug_hit                     \* mutant

LeaksHere == bug_hit /\ ~is_diff_dapp

SStore ==
  /\ Executing
  /\ evmstate' = evmstate \union {<<Top.address, Run>>}
  /\ frames' = IF LeaksHere
                 THEN [frames EXCEPT ![Depth].status = "leak"]
                 ELSE frames
  /\ UNCHANGED <<phase, snapshots, modes, bug_hit, counts, env, records,
                 address_to_balance, code, entry_function, report, victim_runs>>

\* CREATE runs the init code in an interpreter of its own; neither the depth
\* nor the environment changes.
Create(f) ==
  /\ Executing
  /\ f \notin code /\ \A i \in 1..Depth : frames[i].address # f
  /\ frames' = Append(frames,
       [kind |-> "create", address |-> f, caller |-> Top.address,
        code_address |-> f, input |-> {}, paid |-> FALSE, status |-> "run",
        invoke |-> NoInvoke, saved |-> Here, depth |-> call_depth])
  /\ UNCHANGED <<phase, snapshots, modes, bug_hit, counts, world, code,
                 entry_function, report, victim_runs>>

\* A call is only tested when no test is open, none has hit, and it leaves
\* the DApp.
UntestedBeforeHit(same, hit) == is_diff_dapp \/ same      \* mutant

Untested(same, hit) == is_diff_dapp \/ same \/ bug_hit \/ hit

EntryOfAnyCall(cross, selector) == selector             \* mutant

EntryAfter(cross, selector) == IF cross THEN selector ELSE entry_function

\* CALL, CALLCODE, DELEGATECALL and STATICCALL: FuzzHost::call up to the start
\* of the callee, with divide_call_by_is_same_dapp and, for a call to a
\* different DApp, the head of call_forbid_control_leak_in_diff_dapp.
Call(scheme, to, selector, input, paid, stipend) ==
  LET address == IF scheme \in {"Call", "StaticCall"} THEN to ELSE Top.address
      caller  == IF scheme = "DelegateCall" THEN Top.caller ELSE Top.address
      value   == CASE scheme = "StaticCall"   -> FALSE
                   [] scheme = "DelegateCall" -> Top.paid
                   [] OTHER                   -> paid
      to_address == IF scheme = "DelegateCall" THEN to ELSE address
      from_args ==
        \/ /\ call_depth > 0
           /\ is_input_contain_address(Top.input, to_address, Top.code_address)
        \/ to_address \in {Top.caller, env.caller}
      hit   == /\ is_execute_victim_function
               /\ to_address = Target
               /\ selector = target_dependency
      cross == ~Untested(is_from_same_dapp(caller, address, to, scheme), hit)
      marked == IF hit THEN [frames EXCEPT ![Depth].status = "hit"] ELSE frames
      callee == [kind |-> IF cross THEN "cross" ELSE "plain",
                 address |-> address, caller |-> caller, code_address |-> to,
                 input |-> input, paid |-> value, status |-> "run",
                 invoke |-> IF cross THEN [selector |-> selector,
                                           from_args |-> from_args,
                                           stipend |-> stipend]
                                     ELSE NoInvoke,
                 saved |-> Here, depth |-> call_depth + 1]
  IN
  /\ Executing /\ call_count < MaxCalls
  /\ call_count' = call_count + 1
  /\ bug_hit' = (bug_hit \/ hit)
  /\ address_to_balance' =
       IF ~value THEN address_to_balance
       ELSE IF scheme = "DelegateCall"
         THEN LoadBalance(address_to_balance, {caller, address}, Run)
         ELSE Transfer(address_to_balance, caller, address, Run)
  /\ IF cross \/ to \in code
       THEN /\ frames' = Append(marked, callee)
            /\ call_depth' = call_depth + 1
            /\ env' = [env EXCEPT !.to = address]
            /\ records' = {}
       ELSE /\ frames' = marked      \* no code: Continue, at once
            /\ UNCHANGED <<call_depth, env, records>>
  /\ entry_function' = EntryAfter(cross, selector)
  /\ is_diff_dapp' = (is_diff_dapp \/ cross)
  /\ no_need_for_test' = (no_need_for_test /\ ~(cross /\ from_args))
  /\ UNCHANGED <<phase, snapshots, is_execute_victim_function, evmstate, code,
                 report, victim_runs>>

-----------------------------------------------------------------------------
(* The innermost interpreter ends with result r                             *)

\* r is free while the code runs; a marked interpreter stops with its mark,
\* and an address without code returns at once.
Ends(r) ==
  /\ phase = "running"
  /\ CASE Top.status # "run" -> r = Top.status
       [] Executing          -> r \in {"ok", "revert", "fail"}
       [] OTHER              -> r = "ok"

\* call_inner: only a leak or a hit stops the calling interpreter too.
ResumeOnHitOnly(r) ==                                   \* mutant
  IF r = "hit" THEN [Below EXCEPT ![Depth - 1].status = r] ELSE Below

Resume(r) ==
  IF r \in {"leak", "hit"} THEN [Below EXCEPT ![Depth - 1].status = r] ELSE Below

\* The tail of divide_call_by_is_same_dapp and of FuzzHost::call.
RestoreCallerTwice ==                                   \* mutant
  call_depth' = call_depth - 2 /\ env' = Top.saved.env /\ records' = Top.saved.records

RestoreCallerNotDepth ==                                \* mutant
  call_depth' = call_depth /\ env' = Top.saved.env /\ records' = Top.saved.records

RestoreCallerNotEnv ==                                  \* mutant
  call_depth' = call_depth - 1 /\ env' = env /\ records' = Top.saved.records

RestoreCaller ==
  /\ call_depth' = call_depth - 1
  /\ env' = Top.saved.env
  /\ records' = Top.saved.records

\* A tested call is over: no test is open any more.
CloseTestKeepsFlag ==                                   \* mutant
  no_need_for_test' = no_need_for_test /\ is_diff_dapp' = FALSE

CloseTestKeepsMode ==                                   \* mutant
  no_need_for_test' = TRUE /\ is_diff_dapp' = is_diff_dapp

CloseTest ==
  /\ no_need_for_test' = TRUE
  /\ is_diff_dapp' = FALSE

\* The target transaction ends: execute_abi saves a report on a leak.
EndTransaction(r) ==
  /\ Ends(r) /\ Top.kind = "tx"
  /\ phase' = "done" /\ frames' = <<>>
  /\ report' = IF r = "leak" THEN entry_function ELSE report
  /\ UNCHANGED <<snapshots, modes, bug_hit, counts, world, code,
                 entry_function, victim_runs>>

\* A call within one DApp, or under a different-DApp call, returns.
ReturnPlain(r) ==
  /\ Ends(r) /\ Top.kind = "plain"
  /\ frames' = Resume(r)
  /\ RestoreCaller
  /\ UNCHANGED <<phase, snapshots, modes, bug_hit, call_count,
                 address_to_balance, evmstate, code, entry_function, report,
                 victim_runs>>

\* Init code ends: whatever its result, its output becomes the code of the
\* new address; the creator only sees an address or zero.
ReturnCreate(r) ==
  /\ Ends(r) /\ Top.kind = "create"
  /\ frames' = Below
  /\ code' = code \union {Top.address}
  /\ UNCHANGED <<phase, snapshots, modes, bug_hit, counts, world,
                 entry_function, report, victim_runs>>

\* A different-DApp call returns and there is nothing to test: it failed, the
\* caller does not control it, or it is a plain transfer of 2300 gas.
NeedsTest(r) == r = "ok" /\ ~no_need_for_test /\ ~Top.invoke.stipend

ReturnCross(r) ==
  /\ Ends(r) /\ Top.kind = "cross" /\ ~NeedsTest(r)
  /\ frames' = Resume(r)
  /\ CloseTest
  /\ RestoreCaller
  /\ UNCHANGED <<phase, snapshots, is_execute_victim_function, bug_hit,
                 call_count, address_to_balance, evmstate, code,
                 entry_function, report, victim_runs>>

\* The ledger once the victim's value has moved: it moves before the ledger
\* is saved, and with is_execute_victim_function already set.
VictimTransfer ==
  IF VictimPaid
    THEN Transfer(address_to_balance, VictimSender, Victim, victim_runs + 1)
    ELSE address_to_balance

\* The victim starts from the chain ...
EmptyStateOnly ==                                       \* mutant
  address_to_balance' = address_to_balance /\ evmstate' = {}

EmptyLedgerOnly ==                                      \* mutant
  address_to_balance' = NoBalance /\ evmstate' = evmstate

EmptyWorld == address_to_balance' = NoBalance /\ evmstate' = {}

\* ... and what the target had done is put back when it ends.
RecoverLedgerOnly(old) ==                               \* mutant
  address_to_balance' = old.address_to_balance /\ evmstate' = {}

RecoverWorld(old) ==
  /\ address_to_balance' = old.address_to_balance
  /\ evmstate' = old.evmstate

\* It returned and must be tested: the victim transaction starts on the spot,
\* on an empty ledger and state and at its own block.
StartVictim ==
  /\ Ends("ok") /\ Top.kind = "cross" /\ NeedsTest("ok") /\ TRUE \in VictimHasInput
  /\ is_execute_victim_function' = TRUE
  /\ victim_runs' = victim_runs + 1
  /\ snapshots' = Append(snapshots,
       [env |-> env, records |-> records, evmstate |-> evmstate,
        address_to_balance |-> VictimTransfer, call_depth |-> call_depth])
  /\ frames' = Append(Below,
       [kind |-> "victim", address |-> Victim, caller |-> VictimSender,
        code_address |-> Victim, input |-> VictimInput, paid |-> VictimPaid,
        status |-> "run", invoke |-> Top.invoke, saved |-> Top.saved,
        depth |-> 0])
  /\ EmptyWorld
  /\ call_depth' = 0 /\ records' = {}
  /\ env' = [caller |-> VictimSender, to |-> Victim, block |-> "victim"]
  /\ UNCHANGED <<phase, is_diff_dapp, no_need_for_test, bug_hit, call_count,
                 code, entry_function, report>>

\* The victim transaction is a bare transfer: nothing runs, the context is
\* recovered at once.
SkipVictim ==
  /\ Ends("ok") /\ Top.kind = "cross" /\ NeedsTest("ok") /\ FALSE \in VictimHasInput
  /\ victim_runs' = victim_runs + 1
  /\ address_to_balance' = VictimTransfer
  /\ frames' = Below
  /\ CloseTest
  /\ RestoreCaller
  /\ UNCHANGED <<phase, snapshots, is_execute_victim_function, bug_hit,
                 call_count, evmstate, code, entry_function, report>>

\* The victim transaction ends: the context is recovered, and the call that
\* was interrupted returns what it had returned.
EndVictim(r) ==
  LET old == snapshots[Len(snapshots)]
  IN
  /\ Ends(r) /\ Top.kind = "victim"
  /\ snapshots' = SubSeq(snapshots, 1, Len(snapshots) - 1)
  /\ frames' = Resume(IF r = "leak" THEN "leak" ELSE "ok")
  /\ RecoverWorld(old)
  /\ call_depth' = old.call_depth - 1
  /\ env' = Top.saved.env /\ records' = Top.saved.records
  /\ is_execute_victim_function' = FALSE
  /\ CloseTest
  /\ UNCHANGED <<phase, bug_hit, call_count, code, entry_function, report,
                 victim_runs>>

Opcode ==
  \/ \E a \in TxInput : Observe(a)
  \/ \E a \in ReadBalance : Balance(a)
  \/ SStore
  \/ \E f \in Fresh : Create(f)
  \/ \E scheme \in Scheme, to \in Address, selector \in Selector,
        input \in CallInput, paid \in CallPaid, stipend \in CallStipend :
       Call(scheme, to, selector, input, paid, stipend)

Return(r) ==
  \/ EndTransaction(r) \/ ReturnPlain(r) \/ ReturnCreate(r)
  \/ ReturnCross(r) \/ EndVictim(r)

Next ==
  \/ execute_from_pc
  \/ Opcode
  \/ \E r \in Result : Return(r)
  \/ StartVictim \/ SkipVictim

\* The thread runs on: an interpreter that has stopped does return.  Nothing
\* is assumed of a running one, since gas is not measured.
Unwind == \E r \in {"leak", "hit"} : Return(r)

Spec == Init /\ [][Next]_vars /\ WF_vars(Unwind)

-----------------------------------------------------------------------------
(* Properties                                                               *)

\* Frame i entered a different DApp, or is the victim run that tests it.
IsTested(i) == frames[i].kind \in {"cross", "victim"}
Tested == {i \in 1..Depth : IsTested(i)}

\* Every variable of the host has its type.
TypeOK ==
  /\ phase \in {"ready", "running", "done"}
  /\ frames \in Seq(Frame) /\ snapshots \in Seq(Snapshot)
  /\ is_diff_dapp \in BOOLEAN /\ is_execute_victim_function \in BOOLEAN
  /\ no_need_for_test \in BOOLEAN /\ bug_hit \in BOOLEAN
  /\ call_depth \in Nat /\ call_count \in 0..MaxCalls
  /\ env \in Env /\ records \in SUBSET Address
  /\ address_to_balance \in Ledger /\ evmstate \in SUBSET (Address \X Nat)
  /\ code \in SUBSET Address
  /\ entry_function \in Selector \union {NoSelector}
  /\ report \in Selector \union {NoSelector}
  /\ victim_runs \in Nat

\* The two mode flags of the host say exactly what is on the Rust stack, at
\* most one call is under test, a victim run never starts inside another, and
\* the flags are clear again when the transaction has ended.
ModesMatchStack ==
  /\ is_diff_dapp <=> Tested # {}
  /\ is_execute_victim_function <=> \E i \in 1..Depth : frames[i].kind = "victim"
  /\ \A i, j \in Tested : i = j
  /\ Len(snapshots) = IF is_execute_victim_function THEN 1 ELSE 0

\* call_depth, which switches the call_from_args test on, counts the calls
\* open in the run that is executing, and only those.
DepthMatchesRun ==
  call_depth = Cardinality({i \in 1..Depth :
    /\ frames[i].kind \in {"plain", "cross"}
    /\ \A j \in i..Depth : frames[j].kind # "victim"})

\* The opcodes that read the environment see the sender and the block of the
\* run that is executing, and the callee of its innermost call.
EnvMatchesRun ==
  phase = "running" =>
    /\ env.caller = IF is_execute_victim_function THEN VictimSender ELSE TargetSender
    /\ env.block  = IF is_execute_victim_function THEN "victim" ELSE "target"
    /\ \E i \in 1..Depth : /\ env.to = frames[i].address
                           /\ frames[i].kind # "create"
                           /\ \A j \in (i + 1)..Depth : frames[j].kind = "create"

\* Storage written by one run is never visible to another: the victim reads
\* the chain, and the target does not read what a victim wrote.
StateIsolated == \A w \in evmstate : w[2] = Run

\* The same for the balances ("recover context" in the source).
LedgerIsolated == \A a \in Address : address_to_balance[a] \subseteq {Run}

\* A leak is raised only by a write outside every tested call and after a
\* victim run hit; a hit only inside a victim run; so a victim run itself
\* never ends with a leak.
LeakOutsideTest ==
  /\ \A i \in 1..Depth :
       /\ frames[i].status = "leak" => bug_hit /\ Tested = {}
       /\ frames[i].status = "hit"  => \E j \in Tested : j <= i /\ frames[j].kind = "victim"
  /\ bug_hit \/ report # NoSelector => victim_runs > 0
  /\ report # NoSelector => bug_hit /\ phase = "done"

\* no_need_for_test is down exactly while a call the caller controls is open,
\* so only such a call, not a 2300-gas transfer, is ever interrupted by a
\* victim run.
VictimNeedsControl ==
  /\ ~no_need_for_test <=> \E i \in Tested : frames[i].invoke.from_args
  /\ \A i \in Tested : frames[i].kind = "victim" =>
       frames[i].invoke.from_args /\ ~frames[i].invoke.stipend

\* The entry function a report names is that of the call under test ...
EntryIsTested == \A i \in Tested : frames[i].invoke.selector = entry_function

\* ... and once the test has hit, no later call replaces it.
EntryFixedByHit == [][bug_hit => entry_function' = entry_function]_entry_function

\* What the target transaction wrote outlives every victim run.
TargetWrites ==
  {w \in evmstate \union UNION {snapshots[i].evmstate : i \in 1..Len(snapshots)} :
     w[2] = 0}
TargetWritesKept == [][TargetWrites \subseteq TargetWrites']_<<evmstate, snapshots>>

\* A leak raised outside init code ends the transaction with a report, and a
\* hit outside init code ends the victim run.  (CREATE swallows both.)
NoInitCode == \A i \in 1..Depth : frames[i].kind # "create"
StopUnwinds ==
  /\ (phase = "running" /\ NoInitCode /\ Top.status = "leak") ~> (report # NoSelector)
  /\ (phase = "running" /\ NoInitCode /\ Top.status = "hit")
       ~> ~is_execute_victim_function

-----------------------------------------------------------------------------
(* What a report promises: Detector, with the host's flags for its stages   *)

Marked(fs, status) == \E i \in DOMAIN fs : fs[i].status = status

Promise == INSTANCE Detector WITH
  stage      <- CASE is_execute_victim_function -> "victim"
                  [] is_diff_dapp /\ ~is_execute_victim_function -> "open"
                  [] OTHER -> "idle",
  controlled <- ~no_need_for_test,
  entry      <- entry_function,
  hit        <- IF bug_hit THEN entry_function ELSE NoSelector,
  leak       <- Marked(frames, "leak"),
  report     <- report

\* Across any interleaving of calls, tests and init code, a report names the
\* entry function of a controlled call to a different DApp whose victim run
\* read the related function, and a write of the target after it raised it.
ReportIsPromised == Promise!Spec

-----------------------------------------------------------------------------
(* The inductive invariant: what the properties need of the stack           *)

\* Interpreter i of stack fs belongs to a victim run.
InVictim(fs, i) == \E j \in 1..i : fs[j].kind = "victim"

\* Interpreter k is the innermost call at or below i, init code left aside.
InnermostCall(fs, i, k) ==
  /\ k \in 1..i /\ fs[k].kind # "create"
  /\ \A j \in (k + 1)..i : fs[j].kind = "create"

\* e is the environment that interpreter i of stack fs executes in.
EnvAt(fs, i, e) ==
  /\ e.caller = IF InVictim(fs, i) THEN VictimSender ELSE TargetSender
  /\ e.block  = IF InVictim(fs, i) THEN "victim" ELSE "target"
  /\ \E k \in 1..i : InnermostCall(fs, i, k) /\ e.to = fs[k].address

StackShape ==
  /\ phase = "running" <=> Depth > 0
  /\ \A i \in 1..Depth : frames[i].kind = "tx" <=> i = 1
  /\ phase = "ready" => evmstate = {} /\ snapshots = <<>> /\ call_depth = 0
                        /\ report = NoSelector /\ ~bug_hit /\ victim_runs = 0
                        /\ address_to_balance = NoBalance

\* An interpreter starts one call deeper than its caller, a victim run at 0,
\* and the depth the snapshot keeps is that of the call under test.
DepthChain ==
  /\ phase = "running" => call_depth = Top.depth
  /\ \A i \in 1..Depth :
       /\ frames[i].kind \in {"plain", "cross"} =>
            frames[i].depth = frames[i - 1].depth + 1
       /\ frames[i].kind = "create" => frames[i].depth = frames[i - 1].depth
       /\ frames[i].kind = "victim" =>
            snapshots[1].call_depth = frames[i - 1].depth + 1

EnvChain ==
  /\ phase = "running" => EnvAt(frames, Depth, env)
  /\ \A i \in 2..Depth : frames[i].kind # "create" =>
       EnvAt(frames, i - 1, frames[i].saved.env)

RunTags ==
  /\ is_execute_victim_function =>
       /\ victim_runs > 0
       /\ \A w \in snapshots[1].evmstate : w[2] = 0
       /\ ~VictimPaid => \A a \in Address :
            snapshots[1].address_to_balance[a] \subseteq {0}
  /\ StateIsolated
  /\ ~VictimPaid => LedgerIsolated

IInv ==
  /\ TypeOK /\ StackShape /\ ModesMatchStack /\ DepthChain /\ EnvChain
  /\ RunTags /\ LeakOutsideTest /\ VictimNeedsControl /\ EntryIsTested
=============================================================================
