------------------------- MODULE OnChainLoaderProofs -------------------------
(***************************************************************************)
(* Proofs about OnChainLoader: in whatever order bytecode names addresses, *)
(* a called contract has its code and its creator; and whatever the lookup *)
(* of creators gives up on, contracts of different DApps are only merged   *)
(* when neither's creator was found.                                       *)
(***************************************************************************)
EXTENDS OnChainLoader, FiniteSetTheorems, SequenceTheorems, WellFoundedInduction, TLAPS

\* While the process lives, loaded_abi holds of the chain's contracts only
\* those whose code and creator are there ...
LoadedIsKnown ==
  panic = <<>> => \A a \in loaded_abi \intersect Contract :
                    code[a] = "code" /\ address_to_dapp[a] # "absent"

\* ... and no path but CREATE gives a contract other code than the chain's.
CodeIsChains ==
  /\ \A a \in Contract : code[a] # "empty"
  /\ loaded_code \intersect Contract = {}

IInv == TypeOK /\ CalledIsKnown /\ ContractsAreSafe /\ LoadedIsKnown /\ CodeIsChains

-----------------------------------------------------------------------------
(* Lookups and the start                                                    *)

\* The creator a load finds is an address.
LEMMA CreatorFound ==
  ASSUME NEW a \in Address, NEW creator \in Creators(a)
  PROVE  creator \in Creator /\ creator # "absent"
  BY ConstAssumption DEF Creators

\* Either command line starts with its receivers known.
LEMMA LoaderInit == Init => IInv
  <1> SUFFICES ASSUME Init PROVE IInv
    OBVIOUS
  <1>1. PICK given \in SUBSET Launched : evm_fuzzer(given)
    BY DEF Init, evm_main, replay_main
  <1>2. /\ code = initialize_contract(given) /\ called = given
        /\ address_to_dapp \in from_address(given)
        /\ loaded_code = {} /\ loaded_abi = {} /\ creating = <<>> /\ panic = <<>>
    BY <1>1 DEF evm_fuzzer
  <1>3. given \subseteq Contract /\ Contract \subseteq Address
    BY <1>1, ConstAssumption DEF Address
  <1>4. /\ address_to_dapp \in [Address -> Creator \union {"absent"}]
        /\ \A a \in given : address_to_dapp[a] # "absent"
    BY <1>2, <1>3, CreatorFound DEF from_address
  <1>5. \A a \in Address : code[a] = IF a \in given THEN "code" ELSE "absent"
    BY <1>2 DEF initialize_contract
  <1>6. TypeOK
    <2>1. code \in [Address -> {"absent", "empty", "code"}]
      BY <1>2 DEF initialize_contract
    <2>2. creating \in Seq(Fresh) /\ Len(panic) \in {0, 2}
      BY <1>2
    <2>3. QED
      BY <1>2, <1>3, <1>4, <2>1, <2>2 DEF TypeOK
  <1>7. CalledIsKnown
    BY <1>2, <1>3, <1>4, <1>5 DEF CalledIsKnown
  <1>8. ContractsAreSafe
    BY <1>2 DEF ContractsAreSafe
  <1>9. LoadedIsKnown /\ CodeIsChains
    BY <1>2, <1>3, <1>5 DEF LoadedIsKnown, CodeIsChains
  <1>10. QED
    BY <1>6, <1>7, <1>8, <1>9 DEF IInv

-----------------------------------------------------------------------------
(* Loading                                                                  *)

\* A load keeps what is known, and whatever it is asked for is known after it.
LEMMA LoadStep ==
  ASSUME IInv, panic = <<>>, NEW a \in Address, NEW creator \in Creators(a),
         Load(a, creator)
  PROVE  /\ code' \in [Address -> {"absent", "empty", "code"}]
         /\ address_to_dapp' \in [Address -> Creator \union {"absent"}]
         /\ loaded_code' \in SUBSET Address /\ loaded_abi' \in SUBSET Address
         /\ loaded_code' \intersect Contract = {}
         /\ a \in loaded_abi'
         /\ \A b \in loaded_abi' : b = a \/ b \in loaded_abi
         /\ \A b \in Contract : code'[b] # "empty"
         /\ \A b \in Contract : code[b] = "code" => code'[b] = "code"
         /\ \A b \in Contract : address_to_dapp[b] # "absent" => address_to_dapp'[b] # "absent"
         /\ a \in Contract => code'[a] = "code" /\ address_to_dapp'[a] # "absent"
  <1>1. /\ code \in [Address -> {"absent", "empty", "code"}]
        /\ address_to_dapp \in [Address -> Creator \union {"absent"}]
        /\ loaded_code \in SUBSET Address /\ loaded_abi \in SUBSET Address
        /\ loaded_code \intersect Contract = {}
        /\ \A b \in Contract : code[b] # "empty"
        /\ a \in loaded_abi \intersect Contract =>
             code[a] = "code" /\ address_to_dapp[a] # "absent"
    BY DEF IInv, TypeOK, CodeIsChains, LoadedIsKnown
  <1>2. creator \in Creator /\ creator # "absent" /\ Contract \subseteq Address
    BY CreatorFound DEF Address
  <1>3. CASE a \in loaded_abi
    BY <1>1, <1>3 DEF Load, loads
  <1>4. CASE a \notin loaded_abi /\ a \notin Contract
    BY <1>1, <1>4 DEF Load
  <1>5. CASE a \notin loaded_abi /\ a \in Contract
    <2>1. /\ code' = IF code[a] = "absent" THEN [code EXCEPT ![a] = "code"] ELSE code
          /\ loaded_abi' = loaded_abi \union {a} /\ loaded_code' = loaded_code
          /\ address_to_dapp' = IF address_to_dapp[a] = "absent"
                                  THEN [address_to_dapp EXCEPT ![a] = creator]
                                  ELSE address_to_dapp
      BY <1>1, <1>5 DEF Load, FetchesCode
    <2>2. /\ code' \in [Address -> {"absent", "empty", "code"}]
          /\ \A b \in Address : code'[b] = IF b = a /\ code[a] = "absent" THEN "code"
                                                                        ELSE code[b]
      BY <1>1, <2>1
    <2>3. /\ address_to_dapp' \in [Address -> Creator \union {"absent"}]
          /\ \A b \in Address :
               address_to_dapp'[b] = IF b = a /\ address_to_dapp[a] = "absent"
                                       THEN creator ELSE address_to_dapp[b]
      BY <1>1, <1>2, <2>1
    <2>4. code[a] \in {"absent", "code"}
      BY <1>1, <1>5
    <2>5. QED
      BY <1>1, <1>2, <1>5, <2>1, <2>2, <2>3, <2>4
  <1>6. QED
    BY <1>3, <1>4, <1>5

\* A step on a contract that is loaded first.
LEMMA LookStep ==
  ASSUME IInv, NEW a \in Address, NEW creator \in Creators(a),
         ExtCodeSize(a, creator) \/ Call(a, creator)
  PROVE  IInv'
  <1>1. /\ panic = <<>> /\ panic' = panic /\ Load(a, creator)
        /\ creating' = creating
        /\ called' = called \/ called' = called \union {a}
    BY DEF ExtCodeSize, Call
  <1>2. /\ code' \in [Address -> {"absent", "empty", "code"}]
        /\ address_to_dapp' \in [Address -> Creator \union {"absent"}]
        /\ loaded_code' \in SUBSET Address /\ loaded_abi' \in SUBSET Address
        /\ loaded_code' \intersect Contract = {}
        /\ \A b \in loaded_abi' : b = a \/ b \in loaded_abi
        /\ \A b \in Contract : code'[b] # "empty"
        /\ \A b \in Contract : code[b] = "code" => code'[b] = "code"
        /\ \A b \in Contract : address_to_dapp[b] # "absent" => address_to_dapp'[b] # "absent"
        /\ a \in Contract => code'[a] = "code" /\ address_to_dapp'[a] # "absent"
    BY <1>1, LoadStep
  <1>3. TypeOK'
    BY <1>1, <1>2 DEF IInv, TypeOK
  <1>4. CalledIsKnown'
    BY <1>1, <1>2 DEF IInv, CalledIsKnown
  <1>5. ContractsAreSafe'
    BY <1>1 DEF IInv, ContractsAreSafe
  <1>6. LoadedIsKnown'
    BY <1>1, <1>2 DEF IInv, LoadedIsKnown
  <1>7. CodeIsChains'
    BY <1>2 DEF CodeIsChains
  <1>8. QED
    BY <1>3, <1>4, <1>5, <1>6, <1>7 DEF IInv

\* A lookup that gives up ends the process.
LEMMA TooDeepStep ==
  ASSUME IInv, NEW a \in Address, CreatorTooDeep(a)
  PROVE  IInv'
  <1>1. /\ a \in Contract /\ loaded_abi' = loaded_abi \union {a}
        /\ panic' = <<"creator", a>>
        /\ UNCHANGED <<code, loaded_code, address_to_dapp, creating, called>>
    BY DEF CreatorTooDeep
  <1>2. Len(panic') = 2 /\ panic' # <<>>
    BY <1>1
  <1>3. TypeOK'
    BY <1>1, <1>2 DEF IInv, TypeOK, Address
  <1>4. CalledIsKnown' /\ CodeIsChains'
    BY <1>1 DEF IInv, CalledIsKnown, CodeIsChains
  <1>5. ContractsAreSafe'
    BY <1>1 DEF ContractsAreSafe
  <1>6. LoadedIsKnown'
    BY <1>2 DEF LoadedIsKnown
  <1>7. QED
    BY <1>3, <1>4, <1>5, <1>6 DEF IInv

-----------------------------------------------------------------------------
(* EXTCODEHASH and CREATE                                                   *)

\* EXTCODEHASH only ever adds the chain's code; of a contract it finds some.
LEMMA HashStep ==
  ASSUME IInv, NEW a \in Address, ExtCodeHash(a)
  PROVE  IInv'
  <1> DEFINE fetched == IF FetchesCode(a) THEN [code EXCEPT ![a] = ChainCode(a)] ELSE code
  <1>1. /\ panic = <<>> /\ code' = fetched
        /\ panic' = IF fetched[a] = "absent" THEN <<"code_hash", a>> ELSE panic
        /\ UNCHANGED <<loaded_code, loaded_abi, address_to_dapp, creating, called>>
    BY DEF ExtCodeHash, loads
  <1>2. /\ code \in [Address -> {"absent", "empty", "code"}]
        /\ \A b \in Contract : code[b] # "empty" /\ b \in Address /\ b \notin loaded_code
    BY DEF IInv, TypeOK, CodeIsChains, Address
  <1>3. fetched \in [Address -> {"absent", "empty", "code"}]
    BY <1>2 DEF ChainCode
  <1>4. \A b \in Contract : /\ fetched[b] # "empty"
                            /\ code[b] = "code" => fetched[b] = "code"
                            /\ b = a => fetched[b] = "code"
    BY <1>2 DEF ChainCode, FetchesCode
  <1> HIDE DEF fetched
  <1>5. Len(panic') \in {0, 2}
    <2>1. Len(<<"code_hash", a>>) = 2
      OBVIOUS
    <2>2. QED
      BY <1>1, <2>1 DEF IInv, TypeOK
  <1>6. TypeOK'
    BY <1>1, <1>3, <1>5 DEF IInv, TypeOK
  <1>7. CalledIsKnown' /\ CodeIsChains'
    BY <1>1, <1>4 DEF IInv, CalledIsKnown, CodeIsChains
  <1>8. ContractsAreSafe'
    <2>1. a \in Contract => panic' = <<>>
      BY <1>1, <1>4
    <2>2. CASE panic' = <<>>
      BY <2>2 DEF ContractsAreSafe
    <2>3. CASE panic' = <<"code_hash", a>> /\ a \notin Contract
      BY <2>3 DEF ContractsAreSafe
    <2>4. QED
      BY <1>1, <2>1, <2>2, <2>3
  <1>9. LoadedIsKnown'
    BY <1>1, <1>4 DEF IInv, LoadedIsKnown
  <1>10. QED
    BY <1>6, <1>7, <1>8, <1>9 DEF IInv

\* CREATE draws a fresh address and looks nothing up.
LEMMA CreateStep ==
  ASSUME IInv, NEW f \in Fresh, Create(f)
  PROVE  IInv'
  <1>1. /\ creating' = Append(creating, f)
        /\ UNCHANGED <<code, loaded_code, loaded_abi, address_to_dapp, called, panic>>
    BY DEF Create, loads
  <1>2. creating' \in Seq(Fresh)
    BY <1>1, AppendProperties DEF IInv, TypeOK
  <1>3. TypeOK'
    BY <1>1, <1>2 DEF IInv, TypeOK
  <1>4. CalledIsKnown' /\ ContractsAreSafe' /\ LoadedIsKnown' /\ CodeIsChains'
    BY <1>1 DEF IInv, CalledIsKnown, ContractsAreSafe, LoadedIsKnown, CodeIsChains
  <1>5. QED
    BY <1>3, <1>4 DEF IInv

\* set_code changes the code of an address that CREATE drew, and of no other.
LEMMA EndCreateStep ==
  ASSUME IInv, NEW runtime \in {"empty", "code"}, EndCreate(runtime)
  PROVE  IInv'
  <1> DEFINE f == creating[Len(creating)]
  <1>1. /\ creating # <<>> /\ panic = <<>>
        /\ creating' = SubSeq(creating, 1, Len(creating) - 1)
        /\ code' = [code EXCEPT ![f] = runtime]
        /\ panic' = IF code[f] # "absent" THEN <<"set_code", f>> ELSE panic
        /\ UNCHANGED <<loaded_code, loaded_abi, address_to_dapp, called>>
    BY DEF EndCreate, loads
  <1>2. creating \in Seq(Fresh) /\ Len(creating) \in Nat /\ Len(creating) > 0
    BY <1>1, EmptySeq DEF IInv, TypeOK
  <1>3. f \in Fresh /\ creating' \in Seq(Fresh)
    <2>1. Len(creating) \in 1..Len(creating)
      BY <1>2
    <2>2. f \in Fresh
      BY <1>2, <2>1, ElementOfSeq
    <2>3. \A i \in 1..(Len(creating) - 1) : creating[i] \in Fresh
      BY <1>2, ElementOfSeq
    <2>4. QED
      BY <1>1, <1>2, <2>2, <2>3, SubSeqProperties
  <1> HIDE DEF f
  <1>4. f \notin Contract /\ f \notin EOA /\ f \in Address
    BY <1>3, ConstAssumption DEF Address
  <1>5. /\ code' \in [Address -> {"absent", "empty", "code"}]
        /\ \A b \in Contract : code'[b] = code[b]
    BY <1>1, <1>4 DEF IInv, TypeOK, Address
  <1>6. Len(panic') \in {0, 2}
    <2>1. Len(<<"set_code", f>>) = 2
      OBVIOUS
    <2>2. QED
      BY <1>1, <2>1 DEF IInv, TypeOK
  <1>7. TypeOK'
    BY <1>1, <1>3, <1>5, <1>6 DEF IInv, TypeOK
  <1>8. CalledIsKnown' /\ LoadedIsKnown' /\ CodeIsChains'
    BY <1>1, <1>5 DEF IInv, CalledIsKnown, LoadedIsKnown, CodeIsChains
  <1>9. ContractsAreSafe'
    <2>1. CASE panic' = <<>>
      BY <2>1 DEF ContractsAreSafe
    <2>2. CASE panic' = <<"set_code", f>>
      BY <1>4, <2>2 DEF ContractsAreSafe
    <2>3. QED
      BY <1>1, <2>1, <2>2
  <1>10. QED
    BY <1>7, <1>8, <1>9 DEF IInv

\* Every step keeps the invariant.
LEMMA LoaderNext == IInv /\ [Next]_vars => IInv'
  <1> SUFFICES ASSUME IInv, [Next]_vars PROVE IInv'
    OBVIOUS
  <1>1. Named \subseteq Address
    BY DEF Named, Address
  <1>2. CASE UNCHANGED vars
    <2>1. UNCHANGED <<code, loaded_code, loaded_abi, address_to_dapp, creating, called, panic>>
      BY <1>2 DEF vars, loads
    <2>2. TypeOK' /\ CalledIsKnown'
      BY <2>1 DEF IInv, TypeOK, CalledIsKnown
    <2>3. ContractsAreSafe' /\ LoadedIsKnown' /\ CodeIsChains'
      BY <2>1 DEF IInv, ContractsAreSafe, LoadedIsKnown, CodeIsChains
    <2>4. QED
      BY <2>2, <2>3 DEF IInv
  <1>3. QED
    BY <1>1, <1>2, LookStep, TooDeepStep, HashStep, CreateStep, EndCreateStep DEF Next

-----------------------------------------------------------------------------
(* Who created a contract                                                   *)

\* A set of naturals with 0 and every successor of a member is all of Nat.
LEMMA Induction ==
  ASSUME NEW S, 0 \in S, \A n \in Nat : n \in S => n + 1 \in S
  PROVE  Nat \subseteq S
  <1> DEFINE Bad == {0..m : m \in Nat \ S}
             R   == StrictSubsetOrdering(Nat)
  <1>1. SUFFICES ASSUME Bad # {} PROVE FALSE
    OBVIOUS
  <1>2. Bad \subseteq FiniteSubsetsOf(Nat)
    <2>1. \A m \in Nat : IsFiniteSet(0..m) /\ 0..m \subseteq Nat
      BY FS_Interval
    <2>2. QED
      BY <2>1 DEF FiniteSubsetsOf
  <1>3. IsWellFoundedOn(R, FiniteSubsetsOf(Nat))
    BY FS_StrictSubsetOrderingWellFounded
  <1>4. PICK T \in Bad : \A U \in Bad : ~ (<<U, T>> \in R)
    <2> HIDE DEF Bad, R
    <2>1. QED BY <1>1, <1>2, <1>3, WFMin
  <1>5. PICK m \in Nat \ S : T = 0..m
    OBVIOUS
  <1>6. m # 0 /\ m - 1 \in Nat \ S
    OBVIOUS
  <1>7. 0..(m - 1) \in Bad
    BY <1>6
  <1>8. 0..(m - 1) \subseteq 0..m /\ 0..(m - 1) # 0..m
    <2>1. m \in 0..m /\ m \notin 0..(m - 1)
      BY <1>5
    <2>2. QED BY <2>1, <1>5
  <1>9. 0..(m - 1) \subseteq Nat /\ 0..m \subseteq Nat
    BY <1>5, <1>6
  <1>10. <<0..(m - 1), 0..m>> \in R
    BY <1>8, <1>9 DEF StrictSubsetOrdering
  <1>11. QED
    BY <1>4, <1>5, <1>7, <1>10

\* One creation further than f: the account or contract above a, or what f has.
Further(f, a) == IF CreatedBy[a] \in Created THEN f[CreatedBy[a]] ELSE CreatedBy[a]

\* Every contract has an account at the top of its creations: creators are older.
LEMMA CreatorIs ==
  \A a \in Created : CreatorOf[a] = Further(CreatorOf, a)
  <1> DEFINE Old(n) == {a \in Created : Born[a] <= n}
             S == {n \in Nat : \E f : f = [a \in Old(n) |-> Further(f, a)]}
  <1>0. /\ Creations \in Nat
        /\ \A a \in Created : Born[a] \in Nat /\ 1 <= Born[a] /\ Born[a] <= Creations
        /\ \A a \in Created : CreatedBy[a] \in Created => Born[CreatedBy[a]] < Born[a]
    <2>1. \A a \in Created : Born[a] \in 1..Creations
      BY ConstAssumption
    <2>2. Creations \in Nat
      BY ConstAssumption
    <2>3. \A i \in 1..Creations : i \in Nat /\ 1 <= i /\ i <= Creations
      BY <2>2
    <2>4. QED BY <2>1, <2>2, <2>3, ConstAssumption
  <1>1. 0 \in S
    <2>1. Old(0) = {}
      BY <1>0
    <2> DEFINE g == [a \in Old(0) |-> a]
    <2>2. g = [a \in Old(0) |-> Further(g, a)]
      BY <2>1
    <2>3. QED BY <2>2
  <1>2. ASSUME NEW n \in Nat, n \in S PROVE n + 1 \in S
    <2>1. PICK f : f = [a \in Old(n) |-> Further(f, a)]
      BY <1>2
    <2> DEFINE g == [a \in Old(n + 1) |-> Further(f, a)]
    <2>2. \A a \in Old(n) : a \in Old(n + 1)
      BY <1>0, <1>2
    <2>3. \A a \in Old(n) : g[a] = f[a]
      <3>1. \A a \in Old(n) : f[a] = Further(f, a)
        BY <2>1
      <3>2. \A a \in Old(n + 1) : g[a] = Further(f, a)
        OBVIOUS
      <3> HIDE DEF g, Old
      <3>3. QED BY <2>2, <3>1, <3>2
    <2>4. \A a \in Old(n + 1) : CreatedBy[a] \in Created => CreatedBy[a] \in Old(n)
      <3> SUFFICES ASSUME NEW a \in Old(n + 1), CreatedBy[a] \in Created
                   PROVE  CreatedBy[a] \in Old(n)
        OBVIOUS
      <3>1. Born[a] \in Int /\ Born[CreatedBy[a]] \in Int /\ Born[CreatedBy[a]] < Born[a]
            /\ Born[a] <= n + 1
        BY <1>0
      <3>2. Born[CreatedBy[a]] <= n
        BY <3>1
      <3>3. QED BY <3>2
    <2>5. \A a \in Old(n + 1) : Further(g, a) = Further(f, a)
      <3> HIDE DEF g, Old
      <3>1. QED BY <2>3, <2>4 DEF Further
    <2>6. g = [a \in Old(n + 1) |-> Further(g, a)]
      <3>1. g = [a \in Old(n + 1) |-> g[a]] /\ \A a \in Old(n + 1) : g[a] = Further(f, a)
        OBVIOUS
      <3> HIDE DEF g, Old
      <3>2. QED BY <2>5, <3>1
    <2> HIDE DEF g, Old
    <2>7. QED BY <2>6
  <1>3. Creations \in S
    <2>1. Creations \in Nat
      BY ConstAssumption
    <2> HIDE DEF S
    <2>2. QED BY <1>1, <1>2, <2>1, Induction
  <1>4. Old(Creations) = Created
    BY <1>0
  <1>5. \E f : f = [a \in Created |-> Further(f, a)]
    <2> HIDE DEF Old
    <2>1. QED BY <1>3, <1>4
  <1>6. CreatorOf = CHOOSE f : f = [a \in Created |-> Further(f, a)]
    BY DEF CreatorOf, Further
  <1>7. CreatorOf = [a \in Created |-> Further(CreatorOf, a)]
    BY <1>5, <1>6
  <1>8. QED
    BY <1>7

\* x is the account at the top of a's creations, or a contract on the way there.
Kin(x, a) == IF x \in Created THEN CreatorOf[x] = CreatorOf[a] ELSE x = CreatorOf[a]

\* What one call of the lookup may return, given those of a call with a step less.
LookUp(f, n, a) ==
  IF n = 0 THEN {"not Dapp"}
  ELSE {CreatedBy[a]}
         \union IF CreatedBy[a] \notin Created THEN {}
                ELSE f[n - 1][CreatedBy[a]] \union (IF n = 1 THEN {} ELSE {Zero})

\* The recursive function of the lookup exists, for every number of steps.
LEMMA AboveIs ==
  \A n \in 0..MaxSteps, a \in Created : Above[n][a] = LookUp(Above, n, a)
  <1> DEFINE E(f, n) == [a \in Created |-> LookUp(f, n, a)]
             S == {m \in Nat : \E f : f = [n \in 0..m |-> E(f, n)]}
  <1>1. 0 \in S
    <2> DEFINE f == [n \in 0..0 |-> [a \in Created |-> {"not Dapp"}]]
    <2>1. f = [n \in 0..0 |-> E(f, n)]
      BY DEF LookUp
    <2>2. QED BY <2>1
  <1>2. ASSUME NEW m \in Nat, m \in S PROVE m + 1 \in S
    <2>1. PICK f : f = [n \in 0..m |-> E(f, n)]
      BY <1>2
    <2> DEFINE g == [n \in 0..(m + 1) |-> IF n = m + 1 THEN E(f, m + 1) ELSE f[n]]
    <2>2. \A n \in 1..(m + 1) : g[n - 1] = f[n - 1]
      OBVIOUS
    <2>3. \A n \in 0..(m + 1) : E(g, n) = E(f, n)
      <3> HIDE DEF g
      <3>1. ASSUME NEW n \in 0..(m + 1), NEW a \in Created
            PROVE  LookUp(g, n, a) = LookUp(f, n, a)
        <4>1. n = 0 \/ g[n - 1] = f[n - 1]
          BY <1>2, <2>2
        <4>2. QED BY <4>1 DEF LookUp
      <3> HIDE DEF E
      <3>2. QED BY <3>1 DEF E
    <2>4. \A n \in 0..(m + 1) : g[n] = E(f, n)
      <3> SUFFICES ASSUME NEW n \in 0..(m + 1) PROVE g[n] = E(f, n)
        OBVIOUS
      <3>1. CASE n = m + 1
        BY <3>1
      <3>2. CASE n # m + 1
        <4>1. n \in 0..m /\ g[n] = f[n]
          BY <3>2
        <4> HIDE DEF g, E
        <4>2. QED BY <4>1, <2>1
      <3>3. QED BY <3>1, <3>2
    <2>5. g = [n \in 0..(m + 1) |-> E(g, n)]
      <3>1. g = [n \in 0..(m + 1) |-> g[n]]
        OBVIOUS
      <3> HIDE DEF g, E
      <3>2. QED BY <3>1, <2>3, <2>4
    <2> HIDE DEF g, E
    <2>6. QED BY <2>5
  <1>3. MaxSteps \in S
    <2>1. MaxSteps \in Nat
      BY ConstAssumption
    <2> HIDE DEF S
    <2>2. QED BY <1>1, <1>2, <2>1, Induction
  <1>4. Above = CHOOSE f : f = [n \in 0..MaxSteps |-> E(f, n)]
    BY DEF Above, LookUp
  <1>5. Above = [n \in 0..MaxSteps |-> E(Above, n)]
    <2> HIDE DEF E
    <2>1. QED BY <1>3, <1>4
  <1>6. \A n \in 0..MaxSteps : Above[n] = E(Above, n)
    <2> HIDE DEF E
    <2>1. QED BY <1>5
  <1>7. QED
    BY <1>6

\* Whatever step the lookup ends at, it found the creator or stopped on the way.
LEMMA AboveIsKin ==
  \A n \in 0..MaxSteps, a \in Created :
    \A x \in Above[n][a] : x = "not Dapp" \/ x = Zero \/ Kin(x, a)
  <1> DEFINE Fine(n) == \A a \in Created : \A x \in Above[n][a] :
                         x = "not Dapp" \/ x = Zero \/ Kin(x, a)
             S == {n \in Nat : n <= MaxSteps => Fine(n)}
  <1>0. MaxSteps \in Nat
    BY ConstAssumption
  <1>1. 0 \in S
    <2>1. \A a \in Created : Above[0][a] = {"not Dapp"}
      <3>1. 0 \in 0..MaxSteps
        BY <1>0
      <3>2. QED BY <3>1, AboveIs DEF LookUp
    <2>2. Fine(0)
      <3>1. ASSUME NEW a \in Created, NEW x \in Above[0][a] PROVE x = "not Dapp"
        <4>1. Above[0][a] = {"not Dapp"}
          BY <2>1
        <4> DEFINE none == Above[0][a]
        <4>2. none = {"not Dapp"} /\ x \in none
          BY <4>1
        <4> HIDE DEF none
        <4>3. QED BY <4>2
      <3>2. QED BY <3>1
    <2> HIDE DEF Fine
    <2>3. QED BY <2>2
  <1>2. ASSUME NEW n \in Nat, n \in S PROVE n + 1 \in S
    <2>1. SUFFICES ASSUME n + 1 <= MaxSteps PROVE Fine(n + 1)
      <3> HIDE DEF Fine
      <3>1. QED OBVIOUS
    <2>2. n \in 0..MaxSteps /\ n + 1 \in 0..MaxSteps /\ (n + 1) - 1 = n /\ n + 1 # 0
      BY <1>0, <2>1
    <2>3. Fine(n)
      <3> HIDE DEF Fine
      <3>1. n <= MaxSteps
        BY <2>2
      <3>2. QED BY <1>2, <3>1
    <2>4. ASSUME NEW a \in Created, NEW x \in Above[n + 1][a]
          PROVE  x = "not Dapp" \/ x = Zero \/ Kin(x, a)
      <3>1. Above[n + 1][a] = LookUp(Above, n + 1, a)
        BY <2>2, AboveIs
      <3>2. \/ x = CreatedBy[a]
            \/ x = Zero
            \/ CreatedBy[a] \in Created /\ x \in Above[n][CreatedBy[a]]
        BY <2>2, <2>4, <3>1 DEF LookUp
      <3>3. CreatorOf[a] = Further(CreatorOf, a)
        BY CreatorIs
      <3>4. CASE x = CreatedBy[a]
        BY <3>3, <3>4 DEF Kin, Further
      <3>5. CASE CreatedBy[a] \in Created /\ x \in Above[n][CreatedBy[a]]
        BY <2>3, <3>3, <3>5 DEF Kin, Further
      <3>6. QED BY <3>2, <3>4, <3>5
    <2>5. QED BY <2>4
  <1>3. Nat \subseteq S
    <2> HIDE DEF S
    <2>1. QED BY <1>1, <1>2, Induction
  <1>4. \A n \in 0..MaxSteps : Fine(n)
    <2> HIDE DEF Fine
    <2>1. QED BY <1>0, <1>3
  <1>5. QED BY <1>4

\* A creator that is found is the one of the contract, or a contract on the way.
LEMMA FoundIsKin ==
  ASSUME NEW a \in Contract, NEW x \in Creators(a)
  PROVE  x = Zero \/ Kin(x, a)
  <1>1. a \in Created /\ MaxSteps \in 0..MaxSteps
    <2>1. MaxSteps \in Nat
      BY ConstAssumption
    <2>2. QED BY <2>1 DEF Created
  <1>2. x \in Creator /\ (x = Zero \/ x \in Above[MaxSteps][a])
    BY DEF Creators, get_contract_creator
  <1>3. QED
    BY <1>1, <1>2, AboveIsKin, ConstAssumption

\* add_from_file, as far as it reads.
LEMMA ReadIs ==
  ASSUME NEW read \in 0..Len(Rows)
  PROVE  /\ DOMAIN add_from_file(read) \subseteq DOMAIN add_from_file(Len(Rows))
         /\ \A c \in DOMAIN add_from_file(read) :
              /\ c \in Builder
              /\ add_from_file(read)[c] = add_from_file(Len(Rows))[c]
  <1>1. /\ Rows \in Seq(Builder \X STRING) /\ Len(Rows) \in Nat /\ DOMAIN Rows = 1..Len(Rows)
        /\ \A i, j \in 1..Len(Rows) : Rows[i][1] = Rows[j][1] => i = j
        /\ \A i \in 1..Len(Rows) : Rows[i] \in Builder \X STRING
    <2>1. /\ Rows \in Seq(Builder \X STRING)
          /\ \A i, j \in DOMAIN Rows : Rows[i][1] = Rows[j][1] => i = j
      BY ConstAssumption
    <2>2. QED BY <2>1
  <1>2. 1..read \subseteq 1..Len(Rows)
    BY <1>1
  <1> DEFINE row(m, c) == CHOOSE i \in 1..m : Rows[i][1] = c
  <1>3. ASSUME NEW i \in 1..read
        PROVE  /\ row(read, Rows[i][1]) = i /\ row(Len(Rows), Rows[i][1]) = i
               /\ Rows[i][1] \in Builder /\ i \in 1..Len(Rows)
    BY <1>1, <1>2
  <1>4. /\ add_from_file(read) = [c \in {Rows[i][1] : i \in 1..read} |-> Rows[row(read, c)][2]]
        /\ add_from_file(Len(Rows)) =
             [c \in {Rows[i][1] : i \in 1..Len(Rows)} |-> Rows[row(Len(Rows), c)][2]]
    BY DEF add_from_file
  <1> HIDE DEF row
  <1>5. QED
    BY <1>3, <1>4

-----------------------------------------------------------------------------
(* Where the creators and DApps of the middleware come from                 *)

\* The creators are found by the lookup, the DApps read from the file.
FoundOrRead ==
  /\ \A a \in Contract : address_to_dapp[a] = "absent" \/ address_to_dapp[a] \in Creators(a)
  /\ \E read \in 0..Len(Rows) : address_to_name = add_from_file(read)

\* From the start ...
LEMMA FoundInit == Init => FoundOrRead
  <1> SUFFICES ASSUME Init PROVE FoundOrRead
    OBVIOUS
  <1>1. PICK given \in SUBSET Launched : evm_fuzzer(given)
    BY DEF Init, evm_main, replay_main
  <1>2. address_to_dapp \in from_address(given) /\ Contract \subseteq Address
    BY <1>1 DEF evm_fuzzer, Address
  <1>3. QED
    BY <1>2 DEF FoundOrRead, from_address, Init

\* ... and in every step.
LEMMA FoundNext == IInv /\ FoundOrRead /\ [Next]_vars => FoundOrRead'
  <1> SUFFICES ASSUME IInv, FoundOrRead, [Next]_vars PROVE FoundOrRead'
    OBVIOUS
  <1>1. address_to_name' = address_to_name
    BY DEF Next, vars, ExtCodeSize, Call, CreatorTooDeep, ExtCodeHash, Create, EndCreate
  <1>2. \/ address_to_dapp' = address_to_dapp
        \/ \E a \in Named : \E creator \in Creators(a) :
             address_to_dapp' = [address_to_dapp EXCEPT ![a] = creator]
    BY DEF Next, vars, ExtCodeSize, Call, Load, CreatorTooDeep, ExtCodeHash, Create, EndCreate
  <1>3. address_to_dapp \in [Address -> Creator \union {"absent"}] /\ Contract \subseteq Address
    BY DEF IInv, TypeOK, Address
  <1>4. QED
    BY <1>1, <1>2, <1>3 DEF FoundOrRead

\* A contract's DApp is known only under the account that created it.
LEMMA NamedCreator ==
  ASSUME IInv, FoundOrRead, NEW a \in Contract, DatasetDapp(CreatorAt(a)) # "unknown"
  PROVE  /\ CreatorAt(a) = CreatorOf[a]
         /\ search_by_address(add_from_file(Len(Rows)), CreatorOf[a]) = DatasetDapp(CreatorAt(a))
  <1>1. PICK read \in 0..Len(Rows) : address_to_name = add_from_file(read)
    BY DEF FoundOrRead
  <1>2. CreatorAt(a) \in DOMAIN address_to_name
    BY DEF DatasetDapp, search_by_address
  <1>3. CreatorAt(a) \in Builder
    BY <1>1, <1>2, ReadIs
  <1>4. CreatorAt(a) # Zero /\ CreatorAt(a) \notin Created
    BY <1>3, ConstAssumption
  <1>5. CreatorAt(a) \in Creators(a)
    BY <1>4 DEF CreatorAt, FoundOrRead
  <1>6. CreatorAt(a) = CreatorOf[a]
    BY <1>4, <1>5, FoundIsKin DEF Kin
  <1>7. QED
    BY <1>1, <1>2, <1>6, ReadIs DEF DatasetDapp, search_by_address

\* What the middleware found and read is enough.
LEMMA MergedIs == IInv /\ FoundOrRead => MergedOnlyByFailure
  <1> SUFFICES ASSUME IInv, FoundOrRead, NEW a \in called \intersect Contract,
                      NEW b \in called \intersect Contract, is_from_same_dapp(a, b)
               PROVE  Truly(a, b) \/ {CreatorAt(a), CreatorAt(b)} = {Zero}
    BY DEF MergedOnlyByFailure
  <1>1. CASE "unknown" \in {DatasetDapp(CreatorAt(a)), DatasetDapp(CreatorAt(b))}
    <2>1. CreatorAt(a) = CreatorAt(b)
      BY <1>1 DEF is_from_same_dapp
    <2>2. CASE CreatorAt(a) = Zero
      BY <2>1, <2>2
    <2>3. CASE CreatorAt(a) # Zero
      <3>1. CreatorAt(a) \in Creators(a) /\ CreatorAt(b) \in Creators(b)
        BY <2>1, <2>3 DEF CreatorAt, FoundOrRead
      <3>2. Kin(CreatorAt(a), a) /\ Kin(CreatorAt(b), b)
        BY <2>1, <2>3, <3>1, FoundIsKin
      <3>3. CreatorOf[a] = CreatorOf[b]
        BY <2>1, <3>2 DEF Kin
      <3>4. QED BY <3>3 DEF Truly
    <2>4. QED BY <2>2, <2>3
  <1>2. CASE "unknown" \notin {DatasetDapp(CreatorAt(a)), DatasetDapp(CreatorAt(b))}
    <2>1. DatasetDapp(CreatorAt(a)) = DatasetDapp(CreatorAt(b))
      BY <1>2 DEF is_from_same_dapp
    <2>2. /\ search_by_address(add_from_file(Len(Rows)), CreatorOf[a]) = DatasetDapp(CreatorAt(a))
          /\ search_by_address(add_from_file(Len(Rows)), CreatorOf[b]) = DatasetDapp(CreatorAt(b))
      BY <1>2, NamedCreator
    <2>3. QED BY <1>2, <2>1, <2>2 DEF Truly
  <1>3. QED BY <1>1, <1>2

-----------------------------------------------------------------------------
(* Theorems                                                                 *)

\* The inductive invariant of the middleware, for any contracts and order.
THEOREM LoaderInductive == Spec => []IInv
  BY LoaderInit, LoaderNext, PTL DEF Spec

\* However EXTCODEHASH, EXTCODESIZE, calls and CREATE name a contract first, a
\* call to it runs the chain's code with its creator looked up, and neither the
\* unwrap of code_hash nor set_code's assertion is ever about a contract.
THEOREM ContractsLoaded == Spec => []LoadedInTime
  <1>1. IInv => LoadedInTime
    BY DEF IInv, LoadedInTime
  <1>2. QED
    BY <1>1, LoaderInductive, PTL

\* MergedOnlyByFailure: however many lookups fail and wherever data.csv breaks
\* off, is_from_same_dapp takes contracts of different builders and DApps for
\* one DApp only if neither's creator was found, for any creations and rows.
THEOREM NeverMerged == Spec => []MergedOnlyByFailure
  <1>1. Init => IInv /\ FoundOrRead
    BY LoaderInit, FoundInit
  <1>2. IInv /\ FoundOrRead /\ [Next]_vars => (IInv /\ FoundOrRead)'
    BY LoaderNext, FoundNext
  <1>3. QED
    BY <1>1, <1>2, MergedIs, PTL DEF Spec
=============================================================================
