---------------------------- MODULE EndpointCache ----------------------------
(***************************************************************************)
(* The questions one process after another asks about the chain: storage   *)
(* slots, balances, code and creators (src/evm/onchain/endpoints.rs) over  *)
(* the file cache (src/cache.rs).  An answer is looked up in the process's *)
(* memory, then in a file, then at the local proxy (proxy/main.py), which  *)
(* asks an RPC node or Etherscan and keeps what it got.  The Python driver *)
(* kills a process after 300 seconds and starts the next one on the files  *)
(* left behind.                                                            *)
(***************************************************************************)
EXTENDS Naturals

CONSTANTS
  Asked,     \* the questions: <<kind, address or slot>>
  Block,     \* numbers of blocks with transactions
  Word,      \* answers
  NoCode,    \* the code of an account without: "0x"
  Chain,     \* the answer to each question at each block
  MaxTries,  \* attempts get makes
  Launch,    \* the processes started: the block of each transaction, the mode
  MaxRuns    \* bound on their number

\* Slots and balances are asked for at the block of the transaction; code, and
\* what Etherscan knows of a contract's creation, at the latest one.
AtBlock   == {"slot", "balance"}
Etherscan == {"tx", "creator"}
Kind      == AtBlock \union Etherscan \union {"code", "contract"}

\* The file of a question: is_contract reads the file of get_contract_code.
file_name(q, b) == <<IF q[1] = "contract" THEN "code" ELSE q[1], q[2],
                     IF q[1] \in AtBlock THEN b ELSE 0>>

Key     == {file_name(q, b - 1) : q \in Asked, b \in Block}
NoWord  == {"none", "empty", "error"}
Failed  == {"limited", "refused", "None"}
Content == Word \union NoWord \union {"refused"}

ASSUME ConstAssumption ==
  /\ \A q \in Asked : q = <<q[1], q[2]>> /\ q[1] \in Kind
  /\ Block \subseteq Nat \ {0}
  /\ Word \intersect (NoWord \union Failed \union {"absent"}) = {} /\ NoCode \in Word
  /\ Launch \subseteq [target : Block, victim : Block, mode : {"onebyone", "all", "dump"}]
  /\ Chain \in [Key -> Word] /\ MaxTries \in Nat \ {0} /\ MaxRuns \in Nat

VARIABLES
  file,        \* the cache files
  lru,         \* the replies of Etherscan the proxy keeps, "none" if not asked
  memory,      \* the process's own caches, "none" where they have no answer
  running,     \* a process is alive
  launch,      \* its transactions' blocks and how it fetches storage
  at,          \* which of the two is executing
  request,     \* <<>>, or the question get is working on
  current_try, \* index of the attempt get is at
  writing,     \* "none", or the reply save is about to write
  served,      \* history: <<>>, or the last question asked and its answer
  runs         \* processes started

process == <<memory, launch, at, request, current_try, writing, served>>
vars == <<file, lru, process, running, runs>>

-----------------------------------------------------------------------------
(* Processes                                                                *)

Forgotten == [q \in Asked |-> "none"]

Init ==
  /\ file = [k \in Key |-> "none"] /\ lru = [k \in Key |-> "none"]
  /\ memory = Forgotten /\ at = "target" /\ launch \in Launch
  /\ request = <<>> /\ current_try = 0 /\ writing = "none" /\ served = <<>>
  /\ running = FALSE /\ runs = 0

\* The driver starts a process for some pair of transactions, by default to
\* fetch storage slot by slot; the proxy may have been restarted before.
Start(chosen) ==
  /\ ~running /\ runs < MaxRuns
  /\ running' = TRUE /\ runs' = runs + 1 /\ launch' = chosen
  /\ lru' \in {lru, [k \in Key |-> "none"]}
  /\ UNCHANGED <<file, memory, at, request, current_try, writing, served>>

\* subprocess.run's timeout, a panic, or the end: only the files survive.
Die ==
  /\ running' = FALSE
  /\ memory' = Forgotten /\ at' = "target"
  /\ request' = <<>> /\ current_try' = 0 /\ writing' = "none" /\ served' = <<>>
  /\ UNCHANGED <<launch, runs>>

Kill == running /\ Die /\ UNCHANGED <<file, lru>>

\* A victim execution starts or ends.
SwitchRun ==
  /\ running /\ request = <<>>
  /\ at' = IF at = "target" THEN "victim" ELSE "target"
  /\ served' = <<>>
  /\ UNCHANGED <<file, lru, memory, running, launch, request,
                 current_try, writing, runs>>

-----------------------------------------------------------------------------
(* The answer a reply stands for                                            *)

UsableIfThere(content) == content # "none"                      \* mutant
UsableNever(content) == FALSE                                   \* mutant

\* get reads an empty or an error file as if there were none.
Usable(content) == content \notin NoWord

\* evm_main asks for the state before the block of a transaction.
blockNumber(run) == launch[run] - 1

key(q) == file_name(q, blockNumber(at))

\* The unwraps: of get, of hex::decode, and of an internal transaction's JSON.
Panics(kind, reply) ==
  \/ reply = "None"  /\ kind \notin Etherscan
  \/ reply = "error" /\ kind \notin {"contract", "tx"}

\* Anything but "0x" counts as a contract, even an error page.  What Etherscan
\* refused counts as a contract nobody created.
Parsed(kind, reply) ==
  IF kind = "contract" THEN (IF reply = NoCode THEN "no" ELSE "yes")
  ELSE IF reply \in Word THEN reply ELSE "absent"

\* Every answer but a balance is kept; get_contract_code also keeps whether the
\* account is a contract.
Remembered(q, answer) ==
  [r \in Asked |->
     IF r = q /\ q[1] # "balance" THEN answer
     ELSE IF q[1] = "code" /\ r = <<"contract", q[2]>>
       THEN Parsed("contract", answer)
     ELSE memory[r]]

Answer(q, reply) ==
  /\ memory' = Remembered(q, Parsed(q[1], reply))
  /\ served' = <<q, Parsed(q[1], reply)>>
  /\ request' = <<>> /\ current_try' = 0 /\ writing' = "none"
  /\ UNCHANGED <<running, launch, at, runs>>

Conclude(q, reply) == IF Panics(q[1], reply) THEN Die ELSE Answer(q, reply)

-----------------------------------------------------------------------------
(* Memory, then file, then proxy                                            *)

Asks(q) == running /\ request = <<>> /\ (q[1] = "slot" => launch.mode = "onebyone")

Cached(q) ==
  /\ Asks(q) /\ memory[q] # "none"
  /\ served' = <<q, memory[q]>>
  /\ UNCHANGED <<file, lru, memory, running, launch, at, request,
                 current_try, writing, runs>>

Loaded(q) ==
  /\ Asks(q) /\ memory[q] = "none" /\ Usable(file[key(q)])
  /\ Answer(q, file[key(q)]) /\ UNCHANGED <<file, lru>>

Ask(q) ==
  /\ Asks(q) /\ memory[q] = "none" /\ ~Usable(file[key(q)])
  /\ request' = q /\ current_try' = 1 /\ served' = <<>>
  /\ UNCHANGED <<file, lru, memory, running, launch, at, writing, runs>>

\* eth_getStorageAll is asserted to be asked at "latest", never the block of a
\* transaction.
fetch_storage_all(q) ==
  /\ running /\ request = <<>> /\ q[1] = "slot" /\ launch.mode = "all"
  /\ Die /\ UNCHANGED <<file, lru>>

\* The block is sent as "0x0x...": no node answers with its hash, and fetch_blk_hash
\* panics; the node's error is not saved.
fetch_storage_dump(q) ==
  /\ running /\ request = <<>> /\ q[1] = "slot" /\ launch.mode = "dump"
  /\ Die /\ UNCHANGED <<file, lru>>

-----------------------------------------------------------------------------
(* get                                                                      *)

NextTryAnew == 1 + (current_try % MaxTries)                     \* mutant

NextTry == current_try + 1

Attempt == running /\ request # <<>> /\ writing = "none" /\ current_try <= MaxTries

\* The proxy's reply for k.  A node's error, or one while parsing, becomes an
\* error page and is not kept; what Etherscan said is kept, whatever it says:
\* a rate limit, or [] for any status but 200.
Replies(k) ==
  IF k[1] \notin Etherscan THEN {Chain[k], "error"}
  ELSE IF lru[k] # "none" THEN {lru[k]}
  ELSE {Chain[k], "limited", "refused", "error"}

Kept(k, reply) ==
  IF k[1] \in Etherscan /\ reply # "error" THEN [lru EXCEPT ![k] = reply] ELSE lru

\* A broken response or no connection: one second, one more try.
Retry ==
  /\ Attempt
  /\ current_try' = NextTry
  /\ UNCHANGED <<file, lru, memory, running, launch, at, request, writing,
                 served, runs>>

\* So after a rate limit, which the proxy keeps.
Limited ==
  /\ Attempt /\ "limited" \in Replies(key(request))
  /\ lru' = Kept(key(request), "limited")
  /\ current_try' = NextTry
  /\ UNCHANGED <<file, memory, running, launch, at, request, writing,
                 served, runs>>

GiveUp ==
  /\ request # <<>> /\ current_try > MaxTries
  /\ Conclude(request, "None") /\ UNCHANGED <<file, lru>>

Saves(reply) == reply # "error"

\* save truncates the file and writes it in a second step; an error page is
\* returned unsaved.
Receive(reply) ==
  /\ Attempt
  /\ lru' = Kept(key(request), reply)
  /\ IF Saves(reply)
       THEN /\ file' = [file EXCEPT ![key(request)] = "empty"]
            /\ writing' = reply
            /\ UNCHANGED <<memory, running, launch, at, request,
                           current_try, served, runs>>
       ELSE Conclude(request, reply) /\ UNCHANGED file

Save ==
  /\ running /\ writing # "none"
  /\ file' = [file EXCEPT ![key(request)] = writing]
  /\ Conclude(request, writing) /\ UNCHANGED lru

Progress ==
  \/ Retry \/ Limited \/ GiveUp \/ Save
  \/ request # <<>> /\ \E reply \in Replies(key(request)) \ {"limited"} : Receive(reply)

Next ==
  \/ \E chosen \in Launch : Start(chosen)
  \/ Kill
  \/ SwitchRun
  \/ \E q \in Asked : Cached(q) \/ Loaded(q) \/ Ask(q)
                        \/ fetch_storage_all(q) \/ fetch_storage_dump(q)
  \/ Progress

\* A process that is not killed goes on with its request.
Spec == Init /\ [][Next]_vars /\ WF_vars(Progress)

-----------------------------------------------------------------------------
(* Properties                                                               *)

\* Every variable has its type; save only writes for an open request.
TypeOK ==
  /\ file \in [Key -> Content] /\ lru \in [Key -> Content \union {"limited"}]
  /\ memory \in [Asked -> Word \union {"none", "absent", "yes", "no"}]
  /\ running \in BOOLEAN /\ launch \in Launch
  /\ at \in {"target", "victim"} /\ request \in Asked \union {<<>>}
  /\ current_try \in 0..(MaxTries + 1)
  /\ writing \in Word \union {"none", "error", "refused"}
  /\ (writing # "none" => request # <<>>) /\ runs \in 0..MaxRuns

\* However processes were killed and whatever the proxy answered, a file holds
\* the chain's answer at its block or nothing yet (Cache::save is not atomic);
\* only for what Etherscan is asked may it hold a refusal.
FileHoldsAnswer == \A k \in Key :
  file[k] \in {"none", "empty", Chain[k]}
                \union (IF k[1] \in Etherscan THEN {"refused"} ELSE {})

\* No answer comes from what a killed process or an error page left in a file:
\* a slot is read as its word at one of the two blocks of this process, code
\* and a balance as the chain's, a contract never passes for an account without
\* code, and a creator is the contract's, or absent.
ServedIsAnswer == served # <<>> =>
  LET q == served[1]
      answers == {Chain[file_name(q, blockNumber(run))] : run \in {"target", "victim"}}
  IN  CASE q[1] = "contract" -> answers # {NoCode} => served[2] = "yes"
        [] q[1] \in Etherscan -> served[2] \in answers \union {"absent"}
        [] OTHER -> served[2] \in answers

\* is_contract and get_contract_code agree on an account once both answered,
\* in either order, although one of them may have read an error page.
CachesAgree == \A q \in Asked :
  q[1] = "code" /\ memory[q] # "none" /\ <<"contract", q[2]>> \in Asked =>
    memory[<<"contract", q[2]>>] = Parsed("contract", memory[q])

\* An answer that reached its file is not lost again when a later process that
\* asks the same is killed, between truncating and writing say.
AnswerKept == [][\A k \in Key : file[k] = Chain[k] => file'[k] = file[k]]_vars

\* Every request is answered or ends the process: get retries a bounded number
\* of times, even if the proxy repeats the rate limit it kept.
RequestEnds == request # <<>> ~> request = <<>>

\* A slot is read at the block of the transaction that reads it, which is what
\* on_step passes to get_contract_slot.
SlotAtBlock == served # <<>> /\ served[1][1] = "slot" => served[2] = Chain[key(served[1])]

\* The files, the caches and the answers served from them are the chain's.
CacheIsTrue == TypeOK /\ FileHoldsAnswer /\ ServedIsAnswer /\ CachesAgree
=============================================================================
