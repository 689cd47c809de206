------------------------- MODULE EndpointCacheProofs -------------------------
(***************************************************************************)
(* Proofs about EndpointCache for any questions, blocks, chain and number  *)
(* of processes and tries: the files, the memories and the answers are the *)
(* chain's, and no answer that reached its file is lost.                   *)
(***************************************************************************)
EXTENDS EndpointCache, TLAPS

AnswersTo(q) == {Chain[file_name(q, blockNumber(run))] : run \in {"target", "victim"}}

\* What ServedIsAnswer says of one answer
Right(q, answer) ==
  CASE q[1] = "contract" -> AnswersTo(q) # {NoCode} => answer = "yes"
    [] q[1] \in Etherscan -> answer \in AnswersTo(q) \union {"absent"}
    [] OTHER -> answer \in AnswersTo(q)

MemoryIsRight == \A q \in Asked : memory[q] # "none" => Right(q, memory[q])

\* What the proxy keeps, and what save is about to write
ReplyKept == \A k \in Key : lru[k] \in {"none", Chain[k], "limited", "refused"}

ReplyWritten ==
  writing # "none" =>
    writing = Chain[key(request)] \/ (writing = "refused" /\ request[1] \in Etherscan)

\* A request is opened for what is neither in memory nor in the file.
RequestIsNew ==
  request # <<>> => running /\ memory[request] = "none" /\ ~Usable(file[key(request)])

ForgottenWhenDead == ~running => memory = Forgotten /\ request = <<>> /\ served = <<>>

IInv ==
  /\ TypeOK /\ FileHoldsAnswer /\ ServedIsAnswer /\ CachesAgree
  /\ MemoryIsRight /\ ReplyKept /\ ReplyWritten /\ RequestIsNew /\ ForgottenWhenDead

-----------------------------------------------------------------------------
(* Keys and answers                                                         *)

LEMMA RunOfTwo ==
  ASSUME TypeOK
  PROVE  \A run \in {"target", "victim"} :
           launch[run] \in Block /\ \A q \in Asked : file_name(q, blockNumber(run)) \in Key
  <1>1. launch \in [target : Block, victim : Block, mode : {"onebyone", "all", "dump"}]
    BY ConstAssumption DEF TypeOK, ConstAssumption
  <1>2. launch["target"] \in Block /\ launch["victim"] \in Block
    BY <1>1
  <1>3. QED
    BY <1>2 DEF Key, blockNumber

LEMMA KeyOfQuestion ==
  ASSUME TypeOK, NEW q \in Asked
  PROVE  /\ key(q) \in Key /\ Chain[key(q)] \in Word /\ Chain[key(q)] \in AnswersTo(q)
         /\ key(q)[1] = IF q[1] = "contract" THEN "code" ELSE q[1]
  <1>1. at \in {"target", "victim"}
    BY DEF TypeOK
  <1>2. key(q) \in Key
    BY <1>1, RunOfTwo DEF key
  <1>3. Chain[key(q)] \in AnswersTo(q)
    BY <1>1 DEF key, AnswersTo
  <1>4. QED
    BY <1>2, <1>3, ConstAssumption DEF ConstAssumption, key, file_name

\* Code has one key, whatever the block, which is_contract shares.
LEMMA CodeHasOneKey ==
  ASSUME TypeOK, NEW q \in Asked, q[1] \in {"code", "contract"}
  PROVE  AnswersTo(q) = {Chain[<<"code", q[2], 0>>]} /\ key(q) = <<"code", q[2], 0>>
  <1>1. \A b : file_name(q, b) = <<"code", q[2], 0>>
    BY DEF file_name, AtBlock
  <1>2. QED
    BY <1>1 DEF AnswersTo, key

\* The answers are words, and none of the marks the code tells apart from words
LEMMA WordsAreNoMarks ==
  /\ \A w \in Word : w \notin NoWord \union Failed \union {"absent"}
  /\ NoCode \in Word
  BY ConstAssumption DEF ConstAssumption

\* A reply that is the chain's, a refusal or an error page, if it panics nobody,
\* stands for a right answer.
LEMMA ReplyIsRight ==
  ASSUME TypeOK, NEW q \in Asked, NEW reply, ~Panics(q[1], reply),
         reply \in {Chain[key(q)], "error", "None"}
           \/ (reply = "refused" /\ q[1] \in Etherscan)
  PROVE  /\ Right(q, Parsed(q[1], reply))
         /\ Parsed(q[1], reply) \in Word \union {"absent", "yes", "no"}
         /\ q[1] = "code" => Parsed(q[1], reply) = Chain[key(q)]
  <1>1. /\ Chain[key(q)] \in Word /\ Chain[key(q)] \in AnswersTo(q)
    BY KeyOfQuestion
  <1>2. CASE q[1] = "contract"
    <2>1. AnswersTo(q) = {Chain[key(q)]}
      BY <1>2, CodeHasOneKey
    <2>2. reply # NoCode => Parsed(q[1], reply) = "yes"
      BY <1>2 DEF Parsed
    <2>3. reply = NoCode => AnswersTo(q) = {NoCode}
      BY <1>2, <2>1, WordsAreNoMarks DEF Etherscan, NoWord, Failed
    <2>4. Right(q, Parsed(q[1], reply)) <=> (AnswersTo(q) # {NoCode} => Parsed(q[1], reply) = "yes")
      BY <1>2 DEF Right, Etherscan
    <2>5. Parsed(q[1], reply) \in {"yes", "no"}
      BY <1>2 DEF Parsed
    <2>6. QED
      BY <1>2, <2>2, <2>3, <2>4, <2>5
  <1>3. CASE q[1] \in Etherscan
    <2>1. Parsed(q[1], reply) = IF reply \in Word THEN reply ELSE "absent"
      BY <1>3 DEF Parsed, Etherscan
    <2>2. reply \in Word => reply = Chain[key(q)]
      BY WordsAreNoMarks DEF NoWord, Failed
    <2>3. QED
      BY <1>1, <1>3, <2>1, <2>2 DEF Right, Etherscan
  <1>4. CASE q[1] \notin Etherscan \union {"contract"}
    <2>1. reply = Chain[key(q)]
      BY <1>4 DEF Panics, Etherscan
    <2>2. QED
      BY <1>1, <1>4, <2>1 DEF Right, Parsed
  <1>5. QED
    BY <1>2, <1>3, <1>4 DEF Etherscan

-----------------------------------------------------------------------------
(* What the ends of a request leave                                         *)

\* The conjuncts of IInv about what outlives a process
FilesAndProxy ==
  /\ file \in [Key -> Content] /\ lru \in [Key -> Content \union {"limited"}]
  /\ FileHoldsAnswer /\ ReplyKept

LEMMA ServedIsRight ==
  /\ ServedIsAnswer <=> (served # <<>> => Right(served[1], served[2]))
  /\ ServedIsAnswer' <=> (served' # <<>> => Right(served[1], served[2])')
  BY DEF ServedIsAnswer, Right, AnswersTo

LEMMA RightIsFixed ==
  ASSUME UNCHANGED launch
  PROVE  \A q, answer : Right(q, answer)' <=> Right(q, answer)
  BY DEF Right, AnswersTo, blockNumber

LEMMA DieInv ==
  ASSUME IInv, FilesAndProxy', Die
  PROVE  IInv'
  <1>1. TypeOK'
    <2>1. running' \in BOOLEAN
      BY DEF Die
    <2>2. current_try' \in 0..(MaxTries + 1) /\ runs' \in 0..MaxRuns
      BY ConstAssumption DEF ConstAssumption, IInv, TypeOK, Die
    <2>3. QED
      BY <2>1, <2>2 DEF IInv, FilesAndProxy, Die, TypeOK, Forgotten
  <1>2. CachesAgree' /\ MemoryIsRight'
    BY DEF Die, CachesAgree, MemoryIsRight, Forgotten
  <1>3. ServedIsAnswer'
    BY ServedIsRight DEF Die
  <1>4. ReplyWritten' /\ RequestIsNew' /\ ForgottenWhenDead'
    BY DEF Die, ReplyWritten, RequestIsNew, ForgottenWhenDead, Forgotten
  <1>5. QED
    BY <1>1, <1>2, <1>3, <1>4 DEF IInv, FilesAndProxy

\* A reply the end of a request may bring
GoodReply(q, reply) ==
  \/ reply \in {Chain[key(q)], "error", "None"}
  \/ reply = "refused" /\ q[1] \in Etherscan

LEMMA AnswerInv ==
  ASSUME IInv, FilesAndProxy', running, NEW q \in Asked, NEW reply,
         memory[q] = "none", GoodReply(q, reply), ~Panics(q[1], reply),
         Answer(q, reply)
  PROVE  IInv'
  <1> DEFINE answer == Parsed(q[1], reply)
  <1>1. /\ Right(q, answer) /\ answer \in Word \union {"absent", "yes", "no"}
        /\ q[1] = "code" => answer = Chain[key(q)]
    BY ReplyIsRight DEF IInv, GoodReply
  <1>2. answer # "none"
    BY <1>1, WordsAreNoMarks DEF NoWord
  <1>3. memory' = Remembered(q, answer) /\ UNCHANGED <<running, launch, at, runs>>
    BY DEF Answer
  <1>4. \A c : Parsed("contract", c) \in {"yes", "no"}
    BY DEF Parsed
  <1>5. ASSUME NEW r \in Asked
        PROVE  /\ r = q /\ q[1] # "balance" => memory'[r] = answer
               /\ r # q /\ q[1] = "code" /\ r = <<"contract", q[2]>> =>
                    memory'[r] = Parsed("contract", answer)
               /\ \/ memory'[r] = memory[r]
                  \/ r = q
                  \/ q[1] = "code" /\ r = <<"contract", q[2]>>
    BY <1>3 DEF Remembered
  <1>6. TypeOK'
    <2>1. memory' \in [Asked -> Word \union {"none", "absent", "yes", "no"}]
      BY <1>1, <1>3, <1>4 DEF IInv, TypeOK, Remembered
    <2>2. running' \in BOOLEAN
      BY <1>3 DEF IInv, TypeOK
    <2>3. current_try' \in 0..(MaxTries + 1) /\ runs' \in 0..MaxRuns
      BY <1>3, ConstAssumption DEF ConstAssumption, IInv, TypeOK, Answer
    <2>4. QED
      BY <1>3, <2>1, <2>2, <2>3 DEF IInv, FilesAndProxy, Answer, TypeOK
  <1>7. MemoryIsRight'
    <2> SUFFICES ASSUME NEW r \in Asked, memory'[r] # "none"
                 PROVE  Right(r, memory'[r])
      BY <1>3, RightIsFixed DEF MemoryIsRight
    <2>1. CASE memory'[r] = memory[r]
      BY <2>1 DEF IInv, MemoryIsRight
    <2>2. CASE r = q /\ memory'[r] # memory[r]
      <3>1. memory'[r] = answer
        BY <1>3, <2>2 DEF Remembered
      <3>2. QED
        BY <1>1, <2>2, <3>1
    <2>3. CASE r # q /\ q[1] = "code" /\ r = <<"contract", q[2]>>
      <3>1. key(r) = key(q)
        BY <2>3, CodeHasOneKey DEF IInv
      <3>2. memory'[r] = Parsed(r[1], Chain[key(r)])
        BY <1>1, <1>5, <2>3, <3>1
      <3>3. Right(r, Parsed(r[1], Chain[key(r)]))
        <4>1. Chain[key(r)] \in Word
          BY KeyOfQuestion DEF IInv
        <4>2. ~Panics(r[1], Chain[key(r)])
          BY <4>1, WordsAreNoMarks DEF Panics, NoWord, Failed
        <4>3. QED
          BY <4>2, ReplyIsRight DEF IInv
      <3>4. QED
        BY <3>2, <3>3
    <2>4. QED
      BY <1>5, <2>1, <2>2, <2>3
  <1>8. CachesAgree'
    <2> SUFFICES ASSUME NEW c \in Asked, c[1] = "code", memory'[c] # "none",
                        <<"contract", c[2]>> \in Asked
                 PROVE  memory'[<<"contract", c[2]>>] = Parsed("contract", memory'[c])
      BY DEF CachesAgree, Parsed
    <2> DEFINE k == <<"contract", c[2]>>
    <2>1. CASE c = q
      BY <1>5, <2>1
    <2>2. CASE c # q
      <3>1. memory'[c] = memory[c]
        BY <1>5, <2>2
      <3>2. memory[k] = Parsed("contract", memory[c])
        BY <3>1 DEF IInv, CachesAgree
      <3>3. k # q
        BY <1>4, <3>2
      <3>4. ~(q[1] = "code" /\ k = <<"contract", q[2]>>)
        BY <2>2, ConstAssumption DEF ConstAssumption
      <3>5. QED
        BY <1>5, <3>1, <3>2, <3>3, <3>4
    <2>3. QED
      BY <2>1, <2>2
  <1>9. ServedIsAnswer'
    <2>1. served' = <<q, answer>>
      BY DEF Answer
    <2>2. Right(served[1], served[2])' <=> Right(served'[1], served'[2])
      BY <1>3, RightIsFixed DEF Right, AnswersTo, blockNumber
    <2>3. QED
      BY <1>1, <2>1, <2>2, ServedIsRight
  <1>10. ReplyWritten' /\ RequestIsNew' /\ ForgottenWhenDead'
    BY DEF Answer, ReplyWritten, RequestIsNew, ForgottenWhenDead
  <1>11. QED
    BY <1>6, <1>7, <1>8, <1>9, <1>10 DEF IInv, FilesAndProxy

LEMMA ConcludeInv ==
  ASSUME IInv, FilesAndProxy', running, NEW q \in Asked, NEW reply,
         memory[q] = "none", GoodReply(q, reply), Conclude(q, reply)
  PROVE  IInv'
  <1>1. CASE Panics(q[1], reply)
    BY <1>1, DieInv DEF Conclude
  <1>2. CASE ~Panics(q[1], reply)
    BY <1>2, AnswerInv DEF Conclude
  <1>3. QED
    BY <1>1, <1>2
-----------------------------------------------------------------------------
(* The invariant                                                            *)

LEMMA InitInv == Init => IInv
  <1> SUFFICES ASSUME Init PROVE IInv
    OBVIOUS
  <1>1. TypeOK
    <2>1. running \in BOOLEAN
      BY DEF Init
    <2>2. current_try \in 0..(MaxTries + 1) /\ runs \in 0..MaxRuns
      BY ConstAssumption DEF ConstAssumption, Init
    <2>3. QED
      BY <2>1, <2>2 DEF Init, process, TypeOK, Forgotten, Content, NoWord
  <1>2. FileHoldsAnswer /\ CachesAgree /\ MemoryIsRight /\ ReplyKept
    BY DEF Init, FileHoldsAnswer, CachesAgree, MemoryIsRight, ReplyKept, Forgotten
  <1>3. ServedIsAnswer
    BY ServedIsRight DEF Init
  <1>4. ReplyWritten /\ RequestIsNew /\ ForgottenWhenDead
    BY DEF Init, ReplyWritten, RequestIsNew, ForgottenWhenDead
  <1>5. QED
    BY <1>1, <1>2, <1>3, <1>4 DEF IInv

\* Steps that change neither the files nor what a process remembers
LEMMA FilesUnchanged ==
  ASSUME IInv, UNCHANGED <<file, lru>>
  PROVE  FilesAndProxy'
  BY DEF IInv, TypeOK, FilesAndProxy, FileHoldsAnswer, ReplyKept

LEMMA ProxyUnchanged ==
  ASSUME TypeOK, ReplyKept, UNCHANGED lru
  PROVE  lru' \in [Key -> Content \union {"limited"}] /\ ReplyKept'
  BY DEF TypeOK, ReplyKept

LEMMA StartInv ==
  ASSUME IInv, NEW chosen \in Launch, Start(chosen)
  PROVE  IInv'
  <1>1. memory' = Forgotten /\ request' = <<>> /\ served' = <<>> /\ writing' = "none"
    BY DEF IInv, TypeOK, ForgottenWhenDead, Start
  <1>2. TypeOK'
    <2>1. running' \in BOOLEAN
      BY DEF Start
    <2>2. current_try' \in 0..(MaxTries + 1)
      BY DEF IInv, TypeOK, Start
    <2>3. runs' \in 0..MaxRuns
      BY ConstAssumption DEF ConstAssumption, IInv, TypeOK, Start
    <2>4. lru' \in [Key -> Content \union {"limited"}]
      BY DEF IInv, TypeOK, Start, Content, NoWord
    <2>5. QED
      BY <1>1, <2>1, <2>2, <2>3, <2>4 DEF IInv, TypeOK, Start, Forgotten
  <1>3. FileHoldsAnswer' /\ CachesAgree' /\ MemoryIsRight' /\ ReplyKept'
    BY <1>1 DEF IInv, Start, FileHoldsAnswer, CachesAgree, MemoryIsRight, ReplyKept,
                Forgotten
  <1>4. ServedIsAnswer'
    BY <1>1, ServedIsRight
  <1>5. ReplyWritten' /\ RequestIsNew' /\ ForgottenWhenDead'
    BY <1>1 DEF ReplyWritten, RequestIsNew, ForgottenWhenDead
  <1>6. QED
    BY <1>2, <1>3, <1>4, <1>5 DEF IInv

\* A step of a request that is not its end keeps what memory says.
LEMMA MemoryUnchanged ==
  ASSUME IInv, FilesAndProxy', running', UNCHANGED <<memory, launch, runs>>,
         at' \in {"target", "victim"}, request' \in Asked \union {<<>>},
         current_try' \in 0..(MaxTries + 1),
         writing' \in Word \union {"none", "error", "refused"},
         writing' # "none" => request' # <<>>,
         ReplyWritten', RequestIsNew', ServedIsAnswer'
  PROVE  IInv'
  <1>1. TypeOK'
    <2>1. running' \in BOOLEAN
      OBVIOUS
    <2>2. runs' \in 0..MaxRuns
      BY DEF IInv, TypeOK
    <2>3. QED
      BY <2>1, <2>2 DEF IInv, TypeOK, FilesAndProxy
  <1>2. CachesAgree'
    BY DEF IInv, CachesAgree, Parsed
  <1>3. MemoryIsRight'
    BY RightIsFixed DEF IInv, MemoryIsRight
  <1>4. ForgottenWhenDead'
    BY DEF ForgottenWhenDead
  <1>5. QED
    BY <1>1, <1>2, <1>3, <1>4 DEF IInv, FilesAndProxy

LEMMA SwitchRunInv ==
  ASSUME IInv, SwitchRun
  PROVE  IInv'
  <1>1. /\ FilesAndProxy' /\ running' /\ UNCHANGED <<memory, launch, runs>>
        /\ request' = <<>> /\ writing' = "none" /\ at' \in {"target", "victim"}
        /\ current_try' \in 0..(MaxTries + 1)
    BY FilesUnchanged DEF SwitchRun, IInv, TypeOK
  <1>2. ServedIsAnswer'
    BY ServedIsRight DEF SwitchRun
  <1>3. ReplyWritten' /\ RequestIsNew'
    BY <1>1 DEF ReplyWritten, RequestIsNew
  <1>4. QED
    BY <1>1, <1>2, <1>3, MemoryUnchanged

LEMMA AskInv ==
  ASSUME IInv, NEW q \in Asked, Ask(q)
  PROVE  IInv'
  <1>1. /\ FilesAndProxy' /\ running' /\ UNCHANGED <<memory, launch, runs, at, file>>
        /\ request' = q /\ writing' = "none" /\ at' \in {"target", "victim"}
    BY FilesUnchanged DEF Ask, Asks, IInv, TypeOK
  <1>2. current_try' \in 0..(MaxTries + 1)
    BY ConstAssumption DEF ConstAssumption, Ask
  <1>3. ServedIsAnswer'
    BY ServedIsRight DEF Ask
  <1>4. ReplyWritten' /\ RequestIsNew'
    BY <1>1 DEF ReplyWritten, RequestIsNew, Ask, Usable, key, blockNumber
  <1>5. QED
    BY <1>1, <1>2, <1>3, <1>4, MemoryUnchanged

LEMMA CachedInv ==
  ASSUME IInv, NEW q \in Asked, Cached(q)
  PROVE  IInv'
  <1>1. /\ FilesAndProxy' /\ running' /\ UNCHANGED <<memory, launch, runs>>
        /\ request' = <<>> /\ writing' = "none" /\ at' \in {"target", "victim"}
        /\ current_try' \in 0..(MaxTries + 1)
    BY FilesUnchanged DEF Cached, Asks, IInv, TypeOK
  <1>2. ServedIsAnswer'
    <2>1. Right(q, memory[q])
      BY DEF IInv, MemoryIsRight, Cached
    <2>2. served' = <<q, memory[q]>> /\ launch' = launch
      BY DEF Cached
    <2>3. Right(served[1], served[2])' <=> Right(served'[1], served'[2])
      BY <2>2, RightIsFixed DEF Right, AnswersTo, blockNumber
    <2>4. QED
      BY <2>1, <2>2, <2>3, ServedIsRight
  <1>3. ReplyWritten' /\ RequestIsNew'
    BY <1>1 DEF ReplyWritten, RequestIsNew
  <1>4. QED
    BY <1>1, <1>2, <1>3, MemoryUnchanged

LEMMA LoadedInv ==
  ASSUME IInv, NEW q \in Asked, Loaded(q)
  PROVE  IInv'
  <1>1. FilesAndProxy'
    BY FilesUnchanged DEF Loaded
  <1>2. /\ key(q) \in Key /\ Chain[key(q)] \in Word
        /\ key(q)[1] \in Etherscan => q[1] \in Etherscan
    BY KeyOfQuestion DEF IInv, Etherscan
  <1>3. GoodReply(q, file[key(q)])
    BY <1>2 DEF IInv, FileHoldsAnswer, Loaded, Usable, NoWord, GoodReply
  <1>4. ~Panics(q[1], file[key(q)])
    BY <1>2, WordsAreNoMarks DEF IInv, FileHoldsAnswer, Loaded, Usable, NoWord, Failed, Panics
  <1>5. QED
    BY <1>1, <1>3, <1>4, AnswerInv DEF Loaded, Asks

-----------------------------------------------------------------------------
(* The steps of get                                                         *)

LEMMA TryAgainInv ==
  ASSUME IInv, FilesAndProxy', Attempt, current_try' = NextTry,
         UNCHANGED <<file, memory, running, launch, at, request, writing, served, runs>>
  PROVE  IInv'
  <1>1. /\ running' /\ request' \in Asked \union {<<>>} /\ writing' = "none"
        /\ at' \in {"target", "victim"}
    BY DEF IInv, TypeOK, Attempt
  <1>2. current_try' \in 0..(MaxTries + 1)
    BY ConstAssumption DEF ConstAssumption, IInv, TypeOK, Attempt, NextTry
  <1>3. ServedIsAnswer'
    BY DEF IInv, ServedIsAnswer, blockNumber
  <1>4. ReplyWritten' /\ RequestIsNew'
    BY <1>1 DEF IInv, ReplyWritten, RequestIsNew, key, blockNumber
  <1>5. QED
    BY <1>1, <1>2, <1>3, <1>4, MemoryUnchanged

\* The replies are the chain's, an error page, and for Etherscan two refusals.
LEMMA RepliesAreGood ==
  ASSUME IInv, NEW q \in Asked, NEW reply \in Replies(key(q))
  PROVE  /\ \/ reply \in {Chain[key(q)], "error"}
            \/ reply \in {"limited", "refused"} /\ q[1] \in Etherscan
         /\ reply # "error" =>
              Kept(key(q), reply) \in [Key -> Content \union {"limited"}]
         /\ \A k \in Key : Kept(key(q), reply)[k] \in {"none", Chain[k], "limited", "refused"}
  <1>1. /\ key(q) \in Key /\ Chain[key(q)] \in Word
        /\ key(q)[1] \in Etherscan <=> q[1] \in Etherscan
    BY KeyOfQuestion DEF IInv, Etherscan
  <1>2. \/ reply \in {Chain[key(q)], "error"}
        \/ reply \in {"limited", "refused"} /\ q[1] \in Etherscan
    BY <1>1 DEF Replies, IInv, ReplyKept
  <1>3. lru \in [Key -> Content \union {"limited"}]
    BY DEF IInv, TypeOK
  <1>4. reply # "error" => reply \in Content \union {"limited"}
    BY <1>1, <1>2 DEF Content
  <1>5. \A k \in Key : lru[k] \in {"none", Chain[k], "limited", "refused"}
    BY DEF IInv, ReplyKept
  <1>6. CASE Kept(key(q), reply) = lru
    BY <1>2, <1>3, <1>5, <1>6
  <1>7. CASE /\ reply # "error" /\ q[1] \in Etherscan
             /\ Kept(key(q), reply) = [lru EXCEPT ![key(q)] = reply]
    <2>1. [lru EXCEPT ![key(q)] = reply] \in [Key -> Content \union {"limited"}]
      BY <1>1, <1>3, <1>4, <1>7
    <2>2. \A k \in Key : [lru EXCEPT ![key(q)] = reply][k] = IF k = key(q) THEN reply ELSE lru[k]
      BY <1>3
    <2>3. QED
      BY <1>2, <1>5, <1>7, <2>1, <2>2
  <1>8. QED
    BY <1>1, <1>6, <1>7 DEF Kept

LEMMA LimitedInv ==
  ASSUME IInv, Limited
  PROVE  IInv'
  <1>1. request \in Asked /\ "limited" \in Replies(key(request))
    BY DEF IInv, TypeOK, Limited, Attempt
  <1>2. FilesAndProxy'
    BY <1>1, RepliesAreGood DEF Limited, FilesAndProxy, ReplyKept, FileHoldsAnswer, IInv, TypeOK
  <1>3. QED
    BY <1>2, TryAgainInv DEF Limited

LEMMA GiveUpInv ==
  ASSUME IInv, GiveUp
  PROVE  IInv'
  <1>1. request \in Asked /\ running /\ memory[request] = "none"
    BY DEF IInv, TypeOK, GiveUp, RequestIsNew
  <1>2. FilesAndProxy'
    BY FilesUnchanged DEF GiveUp
  <1>3. QED
    BY <1>1, <1>2, ConcludeInv DEF GiveUp, GoodReply

LEMMA ReceiveInv ==
  ASSUME IInv, request # <<>>, NEW reply \in Replies(key(request)) \ {"limited"},
         Receive(reply)
  PROVE  IInv'
  <1>1. request \in Asked /\ running /\ memory[request] = "none" /\ key(request) \in Key
    BY KeyOfQuestion DEF IInv, TypeOK, RequestIsNew
  <1>2. GoodReply(request, reply)
    BY <1>1, RepliesAreGood DEF GoodReply
  <1>3. CASE reply = "error"
    <2>1. UNCHANGED <<file, lru>>
      BY <1>3 DEF Receive, Saves, Kept
    <2>2. QED
      BY <1>1, <1>2, <1>3, <2>1, FilesUnchanged, ConcludeInv DEF Receive, Saves
  <1>4. CASE reply # "error"
    <2>1. /\ lru' = Kept(key(request), reply)
          /\ file' = [file EXCEPT ![key(request)] = "empty"] /\ writing' = reply
          /\ UNCHANGED <<memory, running, launch, at, request, current_try, served, runs>>
      BY <1>4 DEF Receive, Saves
    <2>2. FilesAndProxy'
      <3>1. lru' \in [Key -> Content \union {"limited"}] /\ ReplyKept'
        BY <1>1, <1>4, <2>1, RepliesAreGood DEF ReplyKept
      <3>2. file' \in [Key -> Content] /\ FileHoldsAnswer'
        BY <1>1, <2>1 DEF IInv, TypeOK, Content, NoWord, FileHoldsAnswer
      <3>3. QED
        BY <3>1, <3>2 DEF FilesAndProxy
    <2>3. ReplyWritten'
      <3>1. key(request)' = key(request)
        BY <2>1 DEF key, blockNumber
      <3>2. writing' = Chain[key(request)] \/ (writing' = "refused" /\ request[1] \in Etherscan)
        BY <1>1, <1>4, <2>1, RepliesAreGood
      <3>3. QED
        BY <2>1, <3>1, <3>2 DEF ReplyWritten
    <2>4. writing' \in Word \union {"none", "error", "refused"}
      BY <1>1, <1>4, <2>1, RepliesAreGood, KeyOfQuestion DEF IInv
    <2>5. RequestIsNew'
      BY <1>1, <2>1 DEF IInv, TypeOK, RequestIsNew, Usable, NoWord, key, blockNumber
    <2>6. ServedIsAnswer'
      BY <2>1 DEF IInv, ServedIsAnswer, blockNumber
    <2>7. /\ running' /\ at' \in {"target", "victim"} /\ request' \in Asked
          /\ current_try' \in 0..(MaxTries + 1)
      BY <1>1, <2>1 DEF IInv, TypeOK
    <2>8. QED
      BY <1>1, <2>1, <2>2, <2>3, <2>4, <2>5, <2>6, <2>7, MemoryUnchanged
  <1>5. QED
    BY <1>3, <1>4

LEMMA SaveInv ==
  ASSUME IInv, Save
  PROVE  IInv'
  <1>1. request \in Asked /\ running /\ memory[request] = "none"
    BY DEF IInv, TypeOK, RequestIsNew, Save
  <1>2. /\ key(request) \in Key /\ Chain[key(request)] \in Word
        /\ key(request)[1] \in Etherscan <=> request[1] \in Etherscan
    BY <1>1, KeyOfQuestion DEF IInv, Etherscan
  <1>3. writing = Chain[key(request)] \/ (writing = "refused" /\ request[1] \in Etherscan)
    BY DEF IInv, ReplyWritten, Save
  <1>4. GoodReply(request, writing)
    BY <1>3 DEF GoodReply
  <1>5. FilesAndProxy'
    <2>1. lru' \in [Key -> Content \union {"limited"}] /\ ReplyKept'
      BY ProxyUnchanged DEF IInv, Save
    <2>2. file' \in [Key -> Content] /\ FileHoldsAnswer'
      BY <1>2, <1>3 DEF Save, IInv, TypeOK, Content, FileHoldsAnswer
    <2>3. QED
      BY <2>1, <2>2 DEF FilesAndProxy
  <1>6. QED
    BY <1>1, <1>4, <1>5, ConcludeInv DEF Save
-----------------------------------------------------------------------------
(* Theorems                                                                 *)

LEMMA NextInv == IInv /\ [Next]_vars => IInv'
  <1> SUFFICES ASSUME IInv, [Next]_vars PROVE IInv'
    OBVIOUS
  <1>1. CASE \E chosen \in Launch : Start(chosen)
    BY <1>1, StartInv
  <1>2. CASE Kill
    BY <1>2, DieInv, FilesUnchanged DEF Kill
  <1>3. CASE SwitchRun
    BY <1>3, SwitchRunInv
  <1>4. ASSUME NEW q \in Asked,
               \/ Cached(q) \/ Loaded(q) \/ Ask(q)
               \/ fetch_storage_all(q) \/ fetch_storage_dump(q)
        PROVE  IInv'
    <2>1. CASE fetch_storage_all(q) \/ fetch_storage_dump(q)
      BY <2>1, DieInv, FilesUnchanged DEF fetch_storage_all, fetch_storage_dump
    <2>2. QED
      BY <1>4, <2>1, CachedInv, LoadedInv, AskInv
  <1>5. CASE Progress
    <2>1. CASE Retry
      BY <2>1, FilesUnchanged, TryAgainInv DEF Retry
    <2>2. CASE request # <<>> /\ \E reply \in Replies(key(request)) \ {"limited"} : Receive(reply)
      BY <2>2, ReceiveInv
    <2>3. QED
      BY <1>5, <2>1, <2>2, LimitedInv, GiveUpInv, SaveInv DEF Progress
  <1>6. CASE UNCHANGED vars
    <2>1. UNCHANGED <<file, lru, memory, launch, at, request, current_try, writing,
                      served, running, runs>>
      BY <1>6 DEF vars, process
    <2>2. FilesAndProxy'
      BY <2>1, FilesUnchanged
    <2>3. ReplyWritten' /\ RequestIsNew' /\ ForgottenWhenDead'
      BY <2>1 DEF IInv, ReplyWritten, RequestIsNew, ForgottenWhenDead, key, blockNumber
    <2>4. ServedIsAnswer' /\ CachesAgree' /\ MemoryIsRight'
      BY <2>1, RightIsFixed DEF IInv, ServedIsAnswer, CachesAgree, MemoryIsRight, Parsed, blockNumber
    <2>5. TypeOK'
      BY <2>1 DEF IInv, TypeOK
    <2>6. QED
      BY <2>2, <2>3, <2>4, <2>5 DEF IInv, FilesAndProxy
  <1>7. QED
    BY <1>1, <1>2, <1>3, <1>4, <1>5, <1>6 DEF Next

\* Whatever processes are killed and whatever the node and Etherscan reply, the
\* files, the proxy and the memory of the process hold only what the chain says,
\* a refusal, or nothing (src/cache.rs, onchain/endpoints.rs).
THEOREM EndpointInductive == Spec => []IInv
  <1>1. Init => IInv
    BY InitInv
  <1>2. IInv /\ [Next]_vars => IInv'
    BY NextInv
  <1>3. QED
    BY <1>1, <1>2, PTL DEF Spec

\* No answer a process is served comes from what a killed process or an error
\* page left behind (get and the get_* functions of endpoints.rs).
THEOREM AnswersTrue == Spec => []CacheIsTrue
  <1>1. IInv => CacheIsTrue
    BY DEF IInv, CacheIsTrue
  <1>2. QED
    BY <1>1, EndpointInductive, PTL

\* An answer that reached its file stays: a request is opened only for a file
\* that holds none, so save never truncates one (endpoints.rs get, cache.rs save).
THEOREM AnswersKept == Spec => AnswerKept
  <1>1. IInv /\ [Next]_vars => [\A k \in Key : file[k] = Chain[k] => file'[k] = file[k]]_vars
    <2> SUFFICES ASSUME IInv, Next, NEW k \in Key, file[k] = Chain[k]
                 PROVE  file'[k] = file[k]
      BY DEF vars
    <2>1. CASE UNCHANGED file
      BY <2>1
    <2>2. CASE \/ Save
               \/ request # <<>> /\ \E reply \in Replies(key(request)) \ {"limited"} :
                                     Receive(reply)
      <3>1. request \in Asked /\ ~Usable(file[key(request)])
        BY <2>2 DEF IInv, TypeOK, RequestIsNew, Save
      <3>2. Chain[key(request)] \in Word
        BY <3>1, KeyOfQuestion DEF IInv
      <3>3. k # key(request)
        BY <3>1, <3>2, WordsAreNoMarks DEF Usable
      <3>4. QED
        BY <2>2, <3>3 DEF IInv, TypeOK, Save, Receive
    <2>3. QED
      BY <2>1, <2>2 DEF Next, Progress, Start, Kill, SwitchRun, Cached, Loaded, Ask,
           fetch_storage_all, fetch_storage_dump, Retry, Limited, GiveUp
  <1>2. QED
    BY <1>1, EndpointInductive, PTL DEF Spec, AnswerKept
=============================================================================
