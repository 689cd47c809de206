---------------------------- MODULE DriverProofs ----------------------------
(***************************************************************************)
(* Proofs about what the static driver is made of: Driver, for any history *)
(* of the contract, any answers of the explorer and any options of the     *)
(* command line (the pages hold every transaction at most once and in      *)
(* order, an exception is stored unless it ends the driver, and no         *)
(* half-filled cache entry is met); and about algorithms among Tasks:      *)
(* StaticAnalysis, for any contract; DappMerge, for any lists of contracts *)
(* and any creations; and TraceLexer, for any traces.                      *)
(***************************************************************************)
EXTENDS Driver, StaticAnalysis, DappMerge, TraceLexer,
        FiniteSetTheorems, SequenceTheorems, WellFoundedInduction, TLAPS

InPage   == pc \notin {"fetch", "finished", "dead"}
LastSeen == seen[Len(seen)]

\* A page is a stretch of the history.
PageIsStretch == \A k \in DOMAIN tx_list : tx_list[k] = tx_list[1] + k - 1

\* In a page, the transaction given to main last is the current one.
LastIsCurrent == InPage => seen # <<>> /\ LastSeen = CurrentTx

\* The next page starts below the last transaction.
NextPageBelow ==
  pc = "fetch" =>
    IF seen = <<>> THEN end_block = Latest ELSE end_block = Block[LastSeen] - 1

\* How many transactions the pages read so far may have held
SeenPerPage ==
  /\ pc = "fetch" => tx_round <= max_round /\ Len(seen) <= tx_round * tx_length
  /\ InPage => /\ tx_round < max_round /\ Len(tx_list) <= tx_length
               /\ Len(seen) <= tx_round * tx_length + count

\* main's locals: storage_address is unbound until the search begins, and a
\* candidate under test has implicit functions left.
LocalsFollowPc ==
  /\ pc = "main" => ~storage_bound
  /\ pc = "check" => implicit # 0

PagingOK ==
  /\ SeenOnce /\ MissedShareBlock /\ AtMostMaxTest
  /\ PageIsStretch /\ LastIsCurrent /\ NextPageBelow /\ SeenPerPage

IInv == TypeOK /\ PagingOK /\ AbiCacheComplete /\ RaisedIsStored /\ LocalsFollowPc

PagingTypes ==
  /\ pc \in {"fetch", "main", "replayed", "search", "check", "finished", "dead"}
  /\ end_block \in Nat /\ tx_list \in Seq(Tx) /\ tx_round \in Nat /\ count \in Nat
  /\ (InPage => count \in DOMAIN tx_list)
  /\ seen \in Seq(Tx)

-----------------------------------------------------------------------------
(* A page                                                                   *)

Newer(end) == Len(Block) - Cardinality({i \in Tx : Block[i] <= end})

LEMMA HistoryFacts ==
  /\ Len(Block) \in Nat /\ Tx = 1..Len(Block)
  /\ \A i \in Tx : Block[i] \in Nat \ {0}
  /\ \A i, j \in Tx : i <= j => Block[i] >= Block[j]
  /\ Latest \in Nat /\ tx_length \in Nat \ {0} /\ max_round \in Nat \ {0}
  <1>1. Block \in Seq(Nat \ {0})
    BY DriverAssumption DEF DriverAssumption
  <1>2. Len(Block) \in Nat /\ Tx = 1..Len(Block)
    BY <1>1 DEF Tx
  <1>3. \A i \in Tx : Block[i] \in Nat \ {0}
    BY <1>1, <1>2
  <1>4. \A i, j \in Tx : i < j => Block[i] >= Block[j]
    BY DriverAssumption DEF DriverAssumption
  <1>5. \A i, j \in Tx : i <= j => Block[i] >= Block[j]
    BY <1>2, <1>3, <1>4
  <1>6. Latest \in Nat /\ tx_length \in Nat \ {0} /\ max_round \in Nat \ {0}
    BY DriverAssumption DEF DriverAssumption
  <1>7. QED
    BY <1>2, <1>3, <1>5, <1>6

\* The history is sorted, so the blocks up to end are its older part, and
\* counting them finds where it begins.
LEMMA NewerIsSplit ==
  ASSUME NEW end \in Nat
  PROVE  /\ Newer(end) \in 0..Len(Block)
         /\ \A i \in Tx : i <= Newer(end) <=> Block[i] > end
  <1> DEFINE n == Len(Block)
             upto == {i \in Tx : Block[i] <= end}
             c == Cardinality(upto)
  <1>1. /\ n \in Nat /\ Tx = 1..n
        /\ \A i \in Tx : Block[i] \in Nat
        /\ \A i, j \in Tx : i <= j => Block[i] >= Block[j]
    BY HistoryFacts
  <1>2. IsFiniteSet(1..n) /\ Cardinality(1..n) = n
    <2> HIDE DEF n
    <2>1. /\ IsFiniteSet(1..n)
          /\ Cardinality(1..n) = IF 1 > n THEN 0 ELSE n - 1 + 1
      BY <1>1, FS_Interval
    <2>2. QED
      BY <1>1, <2>1
  <1>3. IsFiniteSet(upto) /\ c <= n
    BY <1>1, <1>2, FS_Subset
  <1>4. c \in Nat
    BY <1>3, FS_CardinalityType
  <1>5. ASSUME NEW i \in Tx, Block[i] <= end
        PROVE  i > n - c
    <2>1. i..n \subseteq upto
      BY <1>1, <1>5
    <2>2. Cardinality(i..n) = n - i + 1
      BY <1>1, FS_Interval
    <2>3. Cardinality(i..n) <= c
      BY <1>3, <2>1, FS_Subset
    <2>4. QED
      BY <1>1, <1>4, <2>2, <2>3
  <1>6. ASSUME NEW i \in Tx, Block[i] > end
        PROVE  i <= n - c
    <2>1. upto \subseteq (i + 1)..n
      BY <1>1, <1>6
    <2>2. IsFiniteSet((i + 1)..n) /\ Cardinality((i + 1)..n) = n - i
      BY <1>1, FS_Interval
    <2>3. c <= Cardinality((i + 1)..n)
      BY <2>1, <2>2, FS_Subset
    <2>4. QED
      BY <1>1, <1>4, <2>2, <2>3
  <1>7. Newer(end) = n - c
    BY DEF Newer
  <1>8. Newer(end) \in 0..n
    BY <1>1, <1>3, <1>4, <1>7
  <1>9. \A i \in Tx : i <= Newer(end) <=> Block[i] > end
    BY <1>1, <1>4, <1>5, <1>6, <1>7
  <1>10. QED
    BY <1>8, <1>9

\* get_tx_list yields the next transactions below end, at most tx_length.
LEMMA TxListIsStretch ==
  ASSUME NEW end \in Nat
  PROVE  /\ TxList(end) \in Seq(Tx) /\ Len(TxList(end)) <= tx_length
         /\ \A k \in DOMAIN TxList(end) : TxList(end)[k] = Newer(end) + k
  <1> DEFINE n == Len(Block)
             m == Newer(end)
             upper == IF m + tx_length < n THEN m + tx_length ELSE n
             all == [i \in Tx |-> i]
  <1>1. n \in Nat /\ Tx = 1..n /\ tx_length \in Nat
    BY HistoryFacts
  <1>2. m \in 0..n
    BY NewerIsSplit
  <1> HIDE DEF n, m
  <1>3. upper \in Nat /\ upper <= n /\ upper <= m + tx_length
    BY <1>1, <1>2
  <1>4. \A i \in (m + 1)..upper : i \in Tx /\ all[i] = i
    BY <1>1, <1>2, <1>3
  <1>5. TxList(end) = SubSeq(all, m + 1, upper)
    BY DEF TxList, Newer, n, m
  <1>6. /\ SubSeq(all, m + 1, upper) \in Seq(Tx)
        /\ Len(SubSeq(all, m + 1, upper)) = IF m + 1 <= upper THEN upper - (m + 1) + 1 ELSE 0
        /\ \A k \in 1..(upper - (m + 1) + 1) :
             SubSeq(all, m + 1, upper)[k] = all[m + 1 + k - 1]
    <2> HIDE DEF upper, all
    <2>1. m + 1 \in Int /\ upper \in Int /\ \A i \in (m + 1)..upper : all[i] \in Tx
      BY <1>2, <1>3, <1>4
    <2>2. QED
      BY <2>1, SubSeqProperties
  <1> HIDE DEF upper, all
  <1>7. Len(TxList(end)) <= tx_length
    BY <1>1, <1>2, <1>3, <1>5, <1>6
  <1>8. ASSUME NEW k \in DOMAIN TxList(end)
        PROVE  TxList(end)[k] = m + k
    <2>1. k \in 1..(upper - (m + 1) + 1)
      BY <1>2, <1>3, <1>5, <1>6, <1>8
    <2>2. m + 1 + k - 1 \in (m + 1)..upper /\ m + 1 + k - 1 = m + k
      BY <1>2, <1>3, <2>1
    <2>3. QED
      BY <1>4, <1>5, <1>6, <2>1, <2>2
  <1>9. QED
    BY <1>5, <1>6, <1>7, <1>8 DEF m
-----------------------------------------------------------------------------
(* The steps, as far as the pages are concerned                             *)

\* A step that gives main no new transaction: it goes on in the page, or ends.
GoesOn ==
  /\ UNCHANGED <<end_block, tx_list, count, tx_round, seen>>
  /\ \/ InPage /\ pc' \in {"replayed", "search", "check"}
     \/ pc' = "dead"

\* What NextTx does to the pages
NextOfPage ==
  /\ count < Len(tx_list)
  /\ pc' = "main" /\ count' = count + 1 /\ seen' = Append(seen, tx_list[count + 1])
  /\ UNCHANGED <<end_block, tx_list, tx_round>>

PageEnds ==
  /\ count >= Len(tx_list)
  /\ pc' = "fetch" /\ tx_round' = tx_round + 1
  /\ end_block' = EndBlock(Block[tx_list[count]])
  /\ UNCHANGED <<tx_list, count, seen>>

\* A page is found, or the driver is done.
FirstOfPage ==
  /\ pc = "fetch" /\ tx_list' = TxList(end_block) /\ tx_list' # <<>>
  /\ tx_round < max_round
  /\ pc' = "main" /\ count' = 1 /\ seen' = Append(seen, tx_list'[1])
  /\ UNCHANGED <<end_block, tx_round>>

NoMorePages ==
  /\ pc = "fetch" /\ tx_list' = TxList(end_block) /\ pc' = "finished"
  /\ UNCHANGED <<end_block, tx_round, count, seen>>

LEMMA NextTxPages ==
  ASSUME TypeOK, NextTx
  PROVE  NextOfPage \/ PageEnds
  <1>1. Len(tx_list) \in Nat /\ count \in Nat
    BY DEF TypeOK
  <1>2. QED
    BY <1>1 DEF NextTx, Enter, NextOfPage, PageEnds

LEMMA HandlePages ==
  ASSUME TypeOK, Handle
  PROVE  NextOfPage \/ PageEnds \/ GoesOn
  <1>1. CASE storage_bound
    BY <1>1, NextTxPages DEF Handle
  <1>2. CASE ~storage_bound
    BY <1>2 DEF Handle, paging, GoesOn
  <1>3. QED
    BY <1>1, <1>2

LEMMA StepPages ==
  ASSUME TypeOK, Next
  PROVE  \/ FirstOfPage \/ NoMorePages
         \/ InPage /\ (NextOfPage \/ PageEnds)
         \/ GoesOn
  <1>1. CASE FetchList
    BY <1>1 DEF FetchList, Enter, FirstOfPage, NoMorePages, RoundsLeft
  <1>2. CASE FetchFails
    BY <1>2 DEF FetchFails, GoesOn, paging
  <1>3. CASE Skip \/ ReplayFails \/ FinishTx
    BY <1>3, NextTxPages DEF Skip, ReplayFails, FinishTx, InPage
  <1>4. CASE \E l, t \in SUBSET Contract : Replay(l, t)
    BY <1>4 DEF Replay, GoesOn, InPage, paging
  <1>5. CASE TargetUnknown
    BY <1>5 DEF TargetUnknown, GoesOn, InPage, paging
  <1>6. CASE TargetKnown
    <2>1. CASE NextTx
      BY <1>6, <2>1, NextTxPages DEF TargetKnown, InPage
    <2>2. CASE pc' = "search" /\ UNCHANGED <<paging, seen>>
      BY <1>6, <2>2 DEF TargetKnown, GoesOn, InPage, paging
    <2>3. QED
      BY <1>6, <2>1, <2>2 DEF TargetKnown, testing
  <1>7. CASE TargetRaises \/ CheckRaises
    BY <1>7, HandlePages DEF TargetRaises, CheckRaises, Raise, InPage
  <1>8. ASSUME NEW c \in Contract, RecordRaises(c)
        PROVE  (InPage /\ (NextOfPage \/ PageEnds)) \/ GoesOn
    BY <1>8, HandlePages DEF RecordRaises, Raise, InPage
  <1>9. ASSUME NEW c \in Contract, NoSource(c) \/ NotAnalysed(c)
        PROVE  GoesOn
    BY <1>9 DEF NoSource, NotAnalysed, GoesOn, InPage, paging
  <1>10. ASSUME NEW c \in Contract, SearchRaises(c)
         PROVE  InPage /\ (NextOfPage \/ PageEnds)
    BY <1>10, NextTxPages DEF SearchRaises, InPage
  <1>11. ASSUME NEW c \in Contract, NEW n \in 0..MaxImplicit, Visit(c, n)
         PROVE  GoesOn
    BY <1>11 DEF Visit, GoesOn, InPage, paging
  <1>12. CASE CheckRound \/ CheckEnds
    BY <1>12 DEF CheckRound, CheckEnds, GoesOn, InPage, paging
  <1>13. QED
    BY <1>1, <1>2, <1>3, <1>4, <1>5, <1>6, <1>7, <1>8, <1>9, <1>10, <1>11, <1>12
       DEF Next
-----------------------------------------------------------------------------
(* Pages in order                                                           *)

LEMMA PagesInit == Init => PagingTypes /\ PagingOK
  <1> SUFFICES ASSUME Init PROVE PagingTypes /\ PagingOK
    OBVIOUS
  <1>1. /\ pc = "fetch" /\ seen = <<>> /\ tx_list = <<>> /\ tx_round = 0 /\ count = 0
        /\ end_block = Latest /\ Len(seen) = 0
    BY DEF Init
  <1>2. PagingTypes
    BY <1>1, HistoryFacts DEF PagingTypes, InPage
  <1>3. PageIsStretch /\ LastIsCurrent /\ NextPageBelow
    BY <1>1 DEF PageIsStretch, LastIsCurrent, NextPageBelow, InPage
  <1>4. SeenPerPage /\ AtMostMaxTest
    BY <1>1, HistoryFacts DEF SeenPerPage, AtMostMaxTest, InPage
  <1>5. SeenOnce /\ MissedShareBlock
    BY <1>1 DEF SeenOnce, MissedShareBlock
  <1>6. QED
    BY <1>2, <1>3, <1>4, <1>5 DEF PagingOK

\* main is given a transaction later in the history than the last; those in
\* between are newer than asked for, or share the last one's block.
LEMMA SeenGrows ==
  ASSUME PagingTypes, SeenOnce, MissedShareBlock, NEW i \in Tx,
         seen' = Append(seen, i),
         seen # <<>> => LastSeen < i,
         \A j \in 1..(i - 1) :
           \/ Block[j] > Latest
           \/ seen # <<>> /\ (j <= LastSeen \/ Block[j] = Block[LastSeen])
  PROVE  SeenOnce' /\ MissedShareBlock' /\ Len(seen') = Len(seen) + 1
         /\ seen' # <<>> /\ seen' \in Seq(Tx) /\ LastSeen' = i
  <1> DEFINE n == Len(seen)
  <1>1. n \in Nat /\ seen \in Seq(Tx) /\ DOMAIN seen = 1..n
    BY DEF PagingTypes
  <1>2. /\ seen' \in Seq(Tx) /\ seen' # <<>> /\ Len(seen') = n + 1
        /\ \A k \in 1..n : seen'[k] = seen[k]
        /\ seen'[n + 1] = i
    BY <1>1, AppendProperties
  <1>3. DOMAIN seen' = 1..(n + 1)
    BY <1>2
  <1>4. LastSeen' = i
    BY <1>2 DEF LastSeen
  <1>5. Tx \subseteq Nat /\ Tx = 1..Len(Block) /\ Len(Block) \in Nat
    BY HistoryFacts
  <1>6. \A k \in 1..n : seen[k] \in Tx /\ seen[k] <= LastSeen
    <2>1. \A k \in 1..n : seen[k] \in Tx
      BY <1>1
    <2>2. ASSUME NEW k \in 1..n PROVE seen[k] <= seen[n]
      <3> HIDE DEF n
      <3>1. n \in 1..n /\ seen[k] \in Nat /\ seen[n] \in Nat
        BY <1>1, <1>5, <2>1
      <3>2. k < n => seen[k] < seen[n]
        BY <1>1, <3>1 DEF SeenOnce
      <3>3. QED
        BY <1>1, <3>1, <3>2
    <2>3. QED
      BY <2>1, <2>2 DEF LastSeen
  <1> HIDE DEF n
  <1>7. seen # <<>> <=> n # 0
    BY <1>1, EmptySeq DEF n
  <1>8. SeenOnce'
    <2> SUFFICES ASSUME NEW k \in 1..(n + 1), NEW l \in 1..(n + 1), k < l
                 PROVE  seen'[k] < seen'[l]
      BY <1>3 DEF SeenOnce
    <2>1. CASE l \in 1..n
      <3>1. k \in 1..n
        BY <1>1, <2>1
      <3>2. QED
        BY <1>1, <1>2, <2>1, <3>1 DEF SeenOnce
    <2>2. CASE l = n + 1
      <3>1. k \in 1..n /\ n # 0
        BY <1>1, <2>2
      <3>2. seen'[k] = seen[k] /\ seen'[l] = i /\ seen[k] <= LastSeen /\ LastSeen < i
        BY <1>2, <1>6, <1>7, <2>2, <3>1
      <3>3. seen[k] \in Nat /\ LastSeen \in Nat /\ i \in Nat
        BY <1>1, <1>5, <1>6, <3>1 DEF LastSeen, n
      <3>4. QED
        BY <3>2, <3>3
    <2>3. QED
      BY <1>1, <2>1, <2>2
  <1>9. MissedShareBlock'
    <2> SUFFICES ASSUME NEW k \in 1..(n + 1), NEW j \in 1..seen'[k], ~(Block[j] > Latest)
                 PROVE  \E l \in 1..(n + 1) : seen'[l] <= j /\ Block[seen'[l]] = Block[j]
      BY <1>3 DEF MissedShareBlock
    <2>1. ASSUME NEW m \in 1..n, j \in 1..seen[m]
          PROVE  \E l \in 1..(n + 1) : seen'[l] <= j /\ Block[seen'[l]] = Block[j]
      <3>1. PICK l \in 1..n : seen[l] <= j /\ Block[seen[l]] = Block[j]
        BY <1>1, <2>1 DEF MissedShareBlock
      <3>2. l \in 1..(n + 1) /\ seen'[l] = seen[l]
        BY <1>1, <1>2
      <3>3. QED
        BY <3>1, <3>2
    <2>2. CASE k \in 1..n
      BY <1>2, <2>1, <2>2
    <2>3. CASE k = n + 1 /\ j = i
      <3>1. n + 1 \in 1..(n + 1) /\ seen'[n + 1] = j
        BY <1>1, <1>2, <2>3
      <3>2. j <= j
        BY <1>5, <2>3
      <3>3. QED
        BY <3>1, <3>2
    <2>4. CASE k = n + 1 /\ j # i
      <3>1. j \in 1..(i - 1)
        BY <1>2, <1>5, <2>4
      <3>2. seen # <<>> /\ (j <= LastSeen \/ Block[j] = Block[LastSeen])
        BY <3>1
      <3>3. n \in 1..n /\ LastSeen = seen[n] /\ LastSeen \in Nat
        BY <1>1, <1>5, <1>6, <1>7, <3>2 DEF LastSeen, n
      <3>4. CASE j <= LastSeen
        <4>1. j \in 1..seen[n]
          BY <1>5, <3>1, <3>3, <3>4
        <4>2. QED
          BY <2>1, <3>3, <4>1
      <3>5. CASE j > LastSeen /\ Block[j] = Block[LastSeen]
        <4>1. n \in 1..(n + 1) /\ seen'[n] = LastSeen /\ LastSeen <= j
          BY <1>1, <1>2, <3>1, <3>3, <3>5
        <4>2. QED
          BY <3>5, <4>1
      <3>6. j <= LastSeen \/ (j > LastSeen /\ Block[j] = Block[LastSeen])
        <4>1. j \in Nat
          BY <1>5, <3>1
        <4>2. j <= LastSeen \/ j > LastSeen
          BY <3>3, <4>1
        <4>3. QED
          BY <3>2, <4>2
      <3>7. QED
        BY <3>4, <3>5, <3>6
    <2>5. QED
      BY <1>1, <2>2, <2>3, <2>4
  <1>10. QED
    BY <1>2, <1>4, <1>8, <1>9 DEF n

\* The sum that bounds the pages
LEMMA OneMorePage ==
  ASSUME NEW a \in Nat, NEW b \in Nat, NEW c \in Nat, a < b
  PROVE  (a + 1) * c = a * c + c /\ a * c + c <= b * c
  <1>1. (a + 1) * c = a * c + c
    OBVIOUS
  <1>2. PICK d \in Nat : b = (a + 1) + d
    <2>1. b - (a + 1) \in Nat
      OBVIOUS
    <2>2. QED
      BY <2>1
  <1>3. b * c = (a + 1) * c + d * c /\ d * c \in Nat /\ (a + 1) * c \in Nat
    BY <1>2
  <1>4. QED
    BY <1>1, <1>3

LEMMA FirstOfPageInv ==
  ASSUME PagingTypes, PagingOK, FirstOfPage
  PROVE  PagingTypes' /\ PagingOK'
  <1> DEFINE m == Newer(end_block)
             i == tx_list'[1]
  <1>1. pc = "fetch" /\ end_block \in Nat /\ tx_round \in Nat /\ tx_round < max_round
    BY DEF PagingTypes, FirstOfPage
  <1>2. /\ tx_list' \in Seq(Tx) /\ Len(tx_list') <= tx_length /\ tx_list' # <<>>
        /\ \A k \in DOMAIN tx_list' : tx_list'[k] = m + k
    BY <1>1, TxListIsStretch DEF FirstOfPage
  <1>3. Len(tx_list') \in Nat \ {0} /\ DOMAIN tx_list' = 1..Len(tx_list')
    BY <1>2, EmptySeq
  <1>4. m \in Nat /\ \A j \in Tx : j <= m <=> Block[j] > end_block
    BY <1>1, NewerIsSplit
  <1>5. i = m + 1 /\ i \in Tx /\ Block[i] <= end_block
    <2>1. 1 \in DOMAIN tx_list'
      BY <1>3
    <2>2. i = m + 1 /\ i \in Tx
      BY <1>2, <2>1
    <2>3. ~(i <= m)
      BY <1>4, <2>2
    <2>4. QED
      BY <1>1, <1>4, <2>2, <2>3, HistoryFacts
  <1> HIDE DEF m, i
  <1>6. /\ UNCHANGED <<end_block, tx_round>> /\ pc' = "main" /\ count' = 1
        /\ seen' = Append(seen, i)
    BY DEF FirstOfPage, i
  <1>7. /\ Tx = 1..Len(Block) /\ Len(Block) \in Nat /\ Latest \in Nat
        /\ \A j \in Tx : Block[j] \in Nat \ {0}
        /\ \A j, k \in Tx : j <= k => Block[j] >= Block[k]
        /\ max_round \in Nat /\ tx_length \in Nat \ {0}
    BY HistoryFacts
  <1>8. seen # <<>> => LastSeen \in Tx
    <2>1. seen # <<>> => Len(seen) \in 1..Len(seen)
      BY EmptySeq DEF PagingTypes
    <2>2. QED
      BY <2>1 DEF PagingTypes, LastSeen
  <1>9. seen # <<>> => LastSeen < i
    <2> SUFFICES ASSUME seen # <<>> PROVE LastSeen < i
      OBVIOUS
    <2>1. end_block = Block[LastSeen] - 1
      BY <1>1 DEF PagingOK, NextPageBelow
    <2>2. Block[i] < Block[LastSeen]
      BY <1>5, <1>7, <1>8, <2>1
    <2>3. QED
      BY <1>5, <1>7, <1>8, <2>2
  <1>10. ASSUME NEW j \in 1..(i - 1)
         PROVE  \/ Block[j] > Latest
                \/ seen # <<>> /\ (j <= LastSeen \/ Block[j] = Block[LastSeen])
    <2>1. j \in Tx /\ j <= m
      BY <1>4, <1>5, <1>7
    <2>2. Block[j] > end_block /\ Block[j] \in Nat
      BY <1>4, <1>7, <2>1
    <2>3. CASE seen = <<>>
      BY <1>1, <2>2, <2>3 DEF PagingOK, NextPageBelow
    <2>4. CASE seen # <<>>
      <3>1. end_block = Block[LastSeen] - 1
        BY <1>1, <2>4 DEF PagingOK, NextPageBelow
      <3>2. Block[j] >= Block[LastSeen]
        BY <1>7, <1>8, <2>2, <2>4, <3>1
      <3>3. j <= LastSeen \/ Block[j] <= Block[LastSeen]
        BY <1>7, <1>8, <2>1, <2>4
      <3>4. QED
        BY <1>7, <1>8, <2>1, <2>4, <3>2, <3>3
    <2>5. QED
      BY <2>3, <2>4
  <1>11. SeenOnce' /\ MissedShareBlock' /\ Len(seen') = Len(seen) + 1
         /\ seen' # <<>> /\ seen' \in Seq(Tx) /\ LastSeen' = i
    BY <1>5, <1>6, <1>9, <1>10, SeenGrows DEF PagingOK
  <1>12. PagingTypes'
    BY <1>1, <1>2, <1>3, <1>6, <1>11 DEF PagingTypes, InPage
  <1>13. PageIsStretch' /\ LastIsCurrent' /\ NextPageBelow'
    <2>1. PageIsStretch'
      BY <1>2, <1>3, <1>4, <1>5 DEF PageIsStretch, i
    <2>2. LastIsCurrent' /\ NextPageBelow'
      BY <1>6, <1>11 DEF LastIsCurrent, NextPageBelow, CurrentTx, i
    <2>3. QED
      BY <2>1, <2>2
  <1>14. SeenPerPage' /\ AtMostMaxTest'
    <2>1. Len(seen) <= tx_round * tx_length /\ Len(seen) \in Nat
      BY <1>1 DEF PagingTypes, PagingOK, SeenPerPage
    <2>2. tx_round * tx_length + tx_length <= max_round * tx_length
      BY <1>1, <1>7, OneMorePage
    <2>3. tx_round * tx_length \in Nat /\ max_round * tx_length \in Nat
      BY <1>1, <1>7
    <2>4. Len(seen') <= tx_round * tx_length + 1
      BY <1>11, <2>1, <2>3
    <2>5. Len(seen') <= max_round * tx_length
      BY <1>7, <1>11, <2>1, <2>2, <2>3
    <2>6. QED
      BY <1>1, <1>2, <1>6, <2>4, <2>5 DEF SeenPerPage, AtMostMaxTest, InPage
  <1>15. QED
    BY <1>11, <1>12, <1>13, <1>14 DEF PagingOK

LEMMA NextOfPageInv ==
  ASSUME PagingTypes, PagingOK, InPage, NextOfPage
  PROVE  PagingTypes' /\ PagingOK'
  <1> DEFINE i == tx_list[count + 1]
  <1>1. /\ tx_list \in Seq(Tx) /\ count \in DOMAIN tx_list /\ count \in Nat
        /\ tx_round \in Nat /\ end_block \in Nat
        /\ Len(tx_list) \in Nat /\ DOMAIN tx_list = 1..Len(tx_list)
    BY DEF PagingTypes
  <1>2. count + 1 \in DOMAIN tx_list /\ 1 \in DOMAIN tx_list
    BY <1>1 DEF NextOfPage
  <1>3. /\ Tx = 1..Len(Block) /\ Len(Block) \in Nat
        /\ max_round \in Nat /\ tx_length \in Nat \ {0}
    BY HistoryFacts
  <1>4. seen # <<>> /\ LastSeen = tx_list[count]
    BY DEF PagingOK, LastIsCurrent, CurrentTx
  <1>5. i \in Tx /\ i = LastSeen + 1 /\ LastSeen \in Tx
    <2>1. tx_list[1] \in Tx /\ tx_list[count] \in Tx /\ i \in Tx
      BY <1>1, <1>2
    <2>2. tx_list[count] = tx_list[1] + count - 1 /\ i = tx_list[1] + (count + 1) - 1
      BY <1>1, <1>2 DEF PagingOK, PageIsStretch
    <2>3. QED
      BY <1>1, <1>3, <1>4, <2>1, <2>2
  <1>6. /\ UNCHANGED <<end_block, tx_list, tx_round>> /\ pc' = "main" /\ count' = count + 1
        /\ seen' = Append(seen, i)
    BY DEF NextOfPage
  <1> HIDE DEF i
  <1>7. SeenOnce' /\ MissedShareBlock' /\ Len(seen') = Len(seen) + 1
         /\ seen' # <<>> /\ seen' \in Seq(Tx) /\ LastSeen' = i
    <2>1. LastSeen < i
      BY <1>3, <1>5
    <2>2. \A j \in 1..(i - 1) : j <= LastSeen
      BY <1>3, <1>5
    <2>3. QED
      BY <1>4, <1>5, <1>6, <2>1, <2>2, SeenGrows DEF PagingOK
  <1>8. PagingTypes'
    BY <1>1, <1>2, <1>6, <1>7 DEF PagingTypes, InPage
  <1>9. PageIsStretch' /\ LastIsCurrent' /\ NextPageBelow'
    BY <1>6, <1>7 DEF PagingOK, PageIsStretch, LastIsCurrent, NextPageBelow, CurrentTx, i
  <1>10. SeenPerPage' /\ AtMostMaxTest'
    <2>1. /\ tx_round < max_round /\ Len(tx_list) <= tx_length /\ Len(seen) \in Nat
          /\ Len(seen) <= tx_round * tx_length + count
      BY DEF PagingTypes, PagingOK, SeenPerPage
    <2>2. tx_round * tx_length + tx_length <= max_round * tx_length
      BY <1>1, <1>3, <2>1, OneMorePage
    <2>3. tx_round * tx_length \in Nat /\ max_round * tx_length \in Nat
      BY <1>1, <1>3
    <2>4. Len(seen') <= tx_round * tx_length + (count + 1)
      BY <1>1, <1>7, <2>1, <2>3
    <2>5. count + 1 <= tx_length
      BY <1>1, <1>2, <1>3, <2>1
    <2>6. Len(seen') <= max_round * tx_length
      <3> DEFINE a == tx_round * tx_length
                 b == max_round * tx_length
      <3>1. /\ a \in Nat /\ b \in Nat /\ tx_length \in Nat /\ count \in Nat
            /\ Len(seen') \in Nat /\ a + tx_length <= b
            /\ Len(seen') <= a + (count + 1) /\ count + 1 <= tx_length
        BY <1>1, <1>3, <1>7, <2>2, <2>3, <2>4, <2>5
      <3> HIDE DEF a, b
      <3>2. Len(seen') <= b
        BY <3>1
      <3>3. QED
        BY <3>2 DEF b
    <2>7. QED
      BY <1>1, <1>6, <2>1, <2>4, <2>6 DEF SeenPerPage, AtMostMaxTest, InPage
  <1>11. QED
    BY <1>7, <1>8, <1>9, <1>10 DEF PagingOK

\* Steps that give main nothing leave the history of its transactions.
LEMMA SeenUnchanged ==
  ASSUME SeenOnce, MissedShareBlock, AtMostMaxTest, UNCHANGED seen
  PROVE  SeenOnce' /\ MissedShareBlock' /\ AtMostMaxTest'
  BY DEF SeenOnce, MissedShareBlock, AtMostMaxTest

LEMMA PageEndsInv ==
  ASSUME PagingTypes, PagingOK, InPage, PageEnds
  PROVE  PagingTypes' /\ PagingOK'
  <1>1. /\ tx_list \in Seq(Tx) /\ count \in DOMAIN tx_list /\ count \in Nat
        /\ tx_round \in Nat /\ Len(tx_list) \in Nat /\ DOMAIN tx_list = 1..Len(tx_list)
    BY DEF PagingTypes
  <1>2. tx_list[count] \in Tx
    BY <1>1
  <1>3. /\ max_round \in Nat /\ tx_length \in Nat \ {0}
        /\ Block[tx_list[count]] \in Nat \ {0}
    BY <1>2, HistoryFacts
  <1>4. /\ pc' = "fetch" /\ tx_round' = tx_round + 1 /\ UNCHANGED <<tx_list, count, seen>>
        /\ end_block' = Block[tx_list[count]] - 1
    BY DEF PageEnds, EndBlock
  <1>5. SeenOnce' /\ MissedShareBlock' /\ AtMostMaxTest'
    BY <1>4, SeenUnchanged DEF PagingOK
  <1>6. PagingTypes'
    BY <1>1, <1>3, <1>4 DEF PagingTypes, InPage
  <1>7. PageIsStretch' /\ LastIsCurrent' /\ NextPageBelow'
    BY <1>4 DEF PagingOK, PageIsStretch, LastIsCurrent, NextPageBelow, LastSeen,
                CurrentTx, InPage
  <1>8. SeenPerPage'
    <2>1. /\ tx_round < max_round /\ Len(tx_list) <= tx_length /\ Len(seen) \in Nat
          /\ Len(seen) <= tx_round * tx_length + count
      BY DEF PagingTypes, PagingOK, SeenPerPage
    <2>2. (tx_round + 1) * tx_length = tx_round * tx_length + tx_length
      BY <1>1, <1>3, <2>1, OneMorePage
    <2>3. tx_round * tx_length \in Nat
      BY <1>1, <1>3
    <2>4. Len(seen) <= (tx_round + 1) * tx_length
      BY <1>1, <1>3, <2>1, <2>2, <2>3
    <2>5. tx_round + 1 <= max_round
      BY <1>1, <1>3, <2>1
    <2>6. QED
      BY <1>4, <2>4, <2>5 DEF SeenPerPage, InPage
  <1>9. QED
    BY <1>5, <1>6, <1>7, <1>8 DEF PagingOK

LEMMA PagesInv ==
  ASSUME TypeOK, PagingTypes, PagingOK, [Next]_vars
  PROVE  PagingTypes' /\ PagingOK'
  <1>1. CASE FirstOfPage
    BY <1>1, FirstOfPageInv
  <1>2. CASE NoMorePages
    <2>1. tx_list' \in Seq(Tx) /\ \A k \in DOMAIN tx_list' :
            tx_list'[k] = Newer(end_block) + k
      BY <1>2, TxListIsStretch DEF NoMorePages, PagingTypes
    <2>2. \A k \in DOMAIN tx_list' : 1 \in DOMAIN tx_list' /\ k \in Nat
      BY <2>1
    <2>3. Newer(end_block) \in Nat
      <3>1. Newer(end_block) \in 0..Len(Block)
        BY NewerIsSplit DEF PagingTypes
      <3>2. QED
        BY <3>1, HistoryFacts
    <2>4. PageIsStretch'
      BY <2>1, <2>2, <2>3 DEF PageIsStretch
    <2>5. PagingTypes'
      BY <1>2, <2>1 DEF NoMorePages, PagingTypes, InPage
    <2>6. QED
      BY <1>2, <2>4, <2>5, SeenUnchanged DEF NoMorePages, PagingOK, LastIsCurrent, NextPageBelow,
         SeenPerPage, InPage
  <1>3. CASE InPage /\ NextOfPage
    BY <1>3, NextOfPageInv
  <1>4. CASE InPage /\ PageEnds
    BY <1>4, PageEndsInv
  <1>5. CASE GoesOn \/ UNCHANGED vars
    <2>1. UNCHANGED <<end_block, tx_list, count, tx_round, seen>>
      BY <1>5 DEF GoesOn, vars, paging
    <2>2. pc' = pc \/ (InPage /\ pc' \in {"replayed", "search", "check"}) \/ pc' = "dead"
      BY <1>5 DEF GoesOn, vars
    <2>3. PagingTypes'
      BY <2>1, <2>2 DEF PagingTypes, InPage
    <2>4. PageIsStretch' /\ LastIsCurrent' /\ NextPageBelow' /\ SeenPerPage'
      BY <2>1, <2>2 DEF PagingOK, PageIsStretch, LastIsCurrent, NextPageBelow,
         SeenPerPage, LastSeen, CurrentTx, InPage
    <2>5. QED
      BY <2>1, <2>3, <2>4, SeenUnchanged DEF PagingOK
  <1>6. QED
    BY <1>1, <1>2, <1>3, <1>4, <1>5, StepPages
-----------------------------------------------------------------------------
(* Failures                                                                 *)

RestTypes ==
  /\ todo \subseteq Contract /\ storage_bound \in BOOLEAN
  /\ function_count \in [MethodId -> Nat]
  /\ implicit \in Nat /\ check_count \in Nat /\ check_count_round \in Nat
  /\ related \in 0..Page /\ listed \in BOOLEAN
  /\ contract_abi_cache \in [Contract -> {"none", "empty", "full"}]
  /\ raised \subseteq Tx /\ err_info \subseteq Tx

Failures == RestTypes /\ AbiCacheComplete /\ RaisedIsStored /\ LocalsFollowPc

LEMMA TypesInTwo == TypeOK <=> PagingTypes /\ RestTypes
  BY DEF TypeOK, PagingTypes, RestTypes, InPage

LEMMA CurrentIsTx ==
  ASSUME PagingTypes, InPage
  PROVE  CurrentTx \in Tx /\ Method[CurrentTx] \in MethodId
  BY DEF PagingTypes, CurrentTx, MethodId

LEMMA FailuresInit == Init => Failures
  <1> SUFFICES ASSUME Init PROVE Failures
    OBVIOUS
  <1>1. 0 \in 0..Page /\ Target \in Contract
    BY DriverAssumption DEF DriverAssumption
  <1>2. storage_bound \in BOOLEAN /\ listed \in BOOLEAN
    BY DEF Init
  <1>3. RestTypes
    BY <1>1, <1>2 DEF Init, RestTypes
  <1>4. AbiCacheComplete /\ RaisedIsStored /\ LocalsFollowPc
    BY DEF Init, AbiCacheComplete, RaisedIsStored, LocalsFollowPc
  <1>5. QED
    BY <1>3, <1>4 DEF Failures

\* The locals of main and of its loops, after NextTx
LEMMA NextTxLocals ==
  ASSUME RestTypes, NextTx
  PROVE  /\ todo' \subseteq Contract /\ storage_bound' \in BOOLEAN
         /\ function_count' \in [MethodId -> Nat]
         /\ implicit' \in Nat /\ check_count' \in Nat /\ check_count_round' \in Nat
         /\ related' \in 0..Page /\ listed' \in BOOLEAN
         /\ pc' \in {"main", "fetch"} /\ (pc' = "main" => ~storage_bound')
  <1>1. 0 \in 0..Page
    BY DriverAssumption DEF DriverAssumption
  <1>2. /\ todo' = {} /\ implicit' = 0 /\ check_count' = 0 /\ check_count_round' = 0
        /\ related' = 0 /\ listed' = FALSE
    BY DEF NextTx
  <1>3. listed' \in BOOLEAN
    BY <1>2
  <1>4. CASE count < Len(tx_list)
    <2>1. /\ pc' = "main" /\ storage_bound' = FALSE
          /\ function_count' = [m \in MethodId |-> 0]
      BY <1>4 DEF NextTx, Enter
    <2>2. storage_bound' \in BOOLEAN
      BY <2>1
    <2>3. QED
      BY <1>1, <1>2, <1>3, <2>1, <2>2
  <1>5. CASE ~(count < Len(tx_list))
    <2>1. pc' = "fetch" /\ UNCHANGED <<storage_bound, function_count>>
      BY <1>5 DEF NextTx, local
    <2>2. storage_bound' \in BOOLEAN
      BY <2>1 DEF RestTypes
    <2>3. QED
      BY <1>1, <1>2, <1>3, <2>1, <2>2 DEF RestTypes
  <1>6. QED
    BY <1>4, <1>5

\* main returns, and what was raised is stored.
LEMMA NextTxFailures ==
  ASSUME RestTypes, NextTx, raised' \subseteq err_info', err_info' \subseteq Tx,
         contract_abi_cache' \in [Contract -> {"none", "full"}]
  PROVE  Failures'
  <1>1. RestTypes'
    BY NextTxLocals DEF RestTypes
  <1>2. AbiCacheComplete' /\ RaisedIsStored'
    BY DEF AbiCacheComplete, RaisedIsStored
  <1>3. LocalsFollowPc'
    BY NextTxLocals DEF LocalsFollowPc
  <1>4. QED
    BY <1>1, <1>2, <1>3 DEF Failures

\* While the driver lives, no entry is half filled.
LEMMA CacheHalves ==
  ASSUME Failures, pc # "dead"
  PROVE  contract_abi_cache \in [Contract -> {"none", "full"}] /\ raised \subseteq err_info
  BY DEF Failures, RestTypes, AbiCacheComplete, RaisedIsStored

LEMMA RaiseFailures ==
  ASSUME PagingTypes, Failures, InPage, Raise,
         contract_abi_cache' \in [Contract -> {"none", "empty", "full"}],
         storage_bound => contract_abi_cache' = contract_abi_cache
  PROVE  Failures'
  <1>1. pc # "dead" /\ CurrentTx \in Tx
    BY CurrentIsTx DEF InPage
  <1>2. raised' = raised \union {CurrentTx}
    BY DEF Raise
  <1>3. CASE storage_bound
    <2>1. err_info' = err_info \union {CurrentTx} /\ NextTx
      BY <1>3 DEF Raise, Handle
    <2>2. raised' \subseteq err_info' /\ err_info' \subseteq Tx
      BY <1>1, <1>2, <2>1, CacheHalves DEF Failures, RestTypes
    <2>3. contract_abi_cache' \in [Contract -> {"none", "full"}]
      BY <1>1, <1>3, CacheHalves
    <2>4. QED
      BY <2>1, <2>2, <2>3, NextTxFailures DEF Failures
  <1>4. CASE ~storage_bound
    <2>1. pc' = "dead" /\ UNCHANGED <<paging, todo, local, testing, seen, err_info>>
      BY <1>4 DEF Raise, Handle
    <2>2. storage_bound' \in BOOLEAN /\ listed' \in BOOLEAN
      BY <2>1 DEF local, testing, Failures, RestTypes
    <2>3. RestTypes'
      BY <1>1, <1>2, <2>1, <2>2 DEF local, testing, Failures, RestTypes
    <2>4. QED
      BY <2>1, <2>3 DEF Failures, AbiCacheComplete, RaisedIsStored, LocalsFollowPc
  <1>5. QED
    BY <1>3, <1>4

-----------------------------------------------------------------------------
(* The steps that fill the cache and search                                 *)

\* A step within the search that stores no exception
LEMMA QuietFailures ==
  ASSUME Failures, pc # "dead", pc' \notin {"main", "dead"}, UNCHANGED raised,
         err_info \subseteq err_info', err_info' \subseteq Tx,
         contract_abi_cache' \in [Contract -> {"none", "full"}],
         todo' \subseteq Contract, storage_bound' \in BOOLEAN,
         function_count' \in [MethodId -> Nat],
         implicit' \in Nat, check_count' \in Nat, check_count_round' \in Nat,
         related' \in 0..Page, listed' \in BOOLEAN, pc' = "check" => implicit' # 0
  PROVE  Failures'
  <1>1. raised' \subseteq err_info'
    BY CacheHalves
  <1>2. RestTypes'
    BY <1>1 DEF RestTypes
  <1>3. QED
    BY <1>1, <1>2 DEF Failures, AbiCacheComplete, RaisedIsStored, LocalsFollowPc

LEMMA FillsEntry ==
  ASSUME Failures, pc # "dead", NEW c \in Contract
  PROVE  Cached(c, "full") \in [Contract -> {"none", "full"}]
  BY CacheHalves DEF Cached

LEMMA GetTxListTypes ==
  ASSUME GetTxList
  PROVE  related' \in 0..Page /\ listed' \in BOOLEAN
  <1>1. 0 \in 0..Page
    BY DriverAssumption DEF DriverAssumption
  <1>2. related' \in 0..Page
    BY <1>1 DEF GetTxList
  <1>3. listed' \in BOOLEAN
    BY DEF GetTxList
  <1>4. QED
    BY <1>2, <1>3

LEMMA FetchListFailures ==
  ASSUME PagingTypes, Failures, FetchList
  PROVE  Failures'
  <1>1. /\ pc # "dead" /\ pc' \in {"main", "finished"}
        /\ UNCHANGED <<todo, testing, contract_abi_cache, raised, err_info>>
    BY DEF FetchList, Enter, errors
  <1>2. /\ storage_bound' \in BOOLEAN /\ (pc' = "main" => ~storage_bound')
        /\ function_count' \in [MethodId -> Nat]
    <2>1. CASE pc' = "main"
      <3>1. storage_bound' = FALSE /\ function_count' = [m \in MethodId |-> 0]
        BY <2>1 DEF FetchList, Enter
      <3>2. storage_bound' \in BOOLEAN
        BY <3>1
      <3>3. QED
        BY <3>1, <3>2
    <2>2. CASE pc' # "main"
      <3>1. UNCHANGED <<storage_bound, function_count>>
        BY <2>2 DEF FetchList, Enter, local
      <3>2. storage_bound' \in BOOLEAN
        BY <3>1 DEF Failures, RestTypes
      <3>3. QED
        BY <2>2, <3>1, <3>2 DEF Failures, RestTypes
    <2>3. QED
      BY <2>1, <2>2
  <1>3. listed' \in BOOLEAN
    BY <1>1 DEF testing, Failures, RestTypes
  <1>4. RestTypes'
    BY <1>1, <1>2, <1>3 DEF testing, Failures, RestTypes
  <1>5. QED
    BY <1>1, <1>2, <1>4 DEF Failures, AbiCacheComplete, RaisedIsStored, LocalsFollowPc

LEMMA TargetKnownFailures ==
  ASSUME PagingTypes, Failures, TargetKnown
  PROVE  Failures'
  <1> DEFINE m == Method[CurrentTx]
             tests == function_count[m] + 1
  <1>1. pc = "replayed" /\ pc # "dead" /\ InPage /\ UNCHANGED <<raised, err_info>>
    BY DEF TargetKnown, InPage, errors
  <1>2. contract_abi_cache' \in [Contract -> {"none", "full"}]
    BY <1>1, FillsEntry, DriverAssumption DEF TargetKnown, DriverAssumption
  <1>3. CASE NextTx
    BY <1>1, <1>2, <1>3, NextTxFailures, CacheHalves DEF Failures, RestTypes
  <1>4. CASE /\ pc' = "search"
             /\ function_count' = [function_count EXCEPT ![m] = tests]
             /\ UNCHANGED <<paging, todo, storage_bound, testing, seen>>
    <2>1. m \in MethodId
      BY <1>1, CurrentIsTx
    <2>2. function_count' \in [MethodId -> Nat]
      BY <1>4, <2>1 DEF Failures, RestTypes
    <2>3. storage_bound' \in BOOLEAN /\ listed' \in BOOLEAN
      BY <1>4 DEF Failures, RestTypes, testing
    <2>4. QED
      BY <1>1, <1>2, <1>4, <2>2, <2>3, QuietFailures DEF Failures, RestTypes, testing
  <1>5. QED
    BY <1>3, <1>4 DEF TargetKnown

LEMMA VisitFailures ==
  ASSUME Failures, NEW c \in Contract, NEW n \in 0..MaxImplicit, Visit(c, n)
  PROVE  Failures'
  <1>1. /\ pc = "search" /\ todo' = todo \ {c} /\ storage_bound' = TRUE
        /\ implicit' = n /\ check_count' = 0 /\ check_count_round' = 0
        /\ UNCHANGED <<function_count, raised, err_info>>
        /\ n \in Nat /\ (n = 0 => pc' = pc) /\ (n # 0 => pc' = "check")
    BY DriverAssumption DEF DriverAssumption, Visit, errors
  <1>2. contract_abi_cache' \in [Contract -> {"none", "full"}]
    BY <1>1, FillsEntry DEF Visit
  <1>3. related' \in 0..Page /\ listed' \in BOOLEAN
    <2>1. CASE n = 0
      <3>1. UNCHANGED <<related, listed>>
        BY <2>1 DEF Visit
      <3>2. related' \in 0..Page
        BY <3>1 DEF Failures, RestTypes
      <3>3. listed' \in BOOLEAN
        BY <3>1 DEF Failures, RestTypes
      <3>4. QED
        BY <3>2, <3>3
    <2>2. CASE n # 0
      BY <2>2, GetTxListTypes DEF Visit
    <2>3. QED
      BY <2>1, <2>2
  <1>4. storage_bound' \in BOOLEAN
    BY <1>1
  <1>5. QED
    BY <1>1, <1>2, <1>3, <1>4, QuietFailures DEF Failures, RestTypes

LEMMA CheckFailures ==
  ASSUME Failures, CheckRound \/ CheckEnds
  PROVE  Failures'
  <1>1. /\ pc = "check" /\ implicit \in Nat \ {0}
        /\ UNCHANGED <<todo, storage_bound, function_count, contract_abi_cache,
                       raised, err_info>>
    BY DEF CheckRound, CheckEnds, errors, local, Failures, RestTypes, LocalsFollowPc
  <1>2. contract_abi_cache' \in [Contract -> {"none", "full"}] /\ err_info' \subseteq Tx
    BY <1>1, CacheHalves DEF Failures, RestTypes
  <1>3. storage_bound' \in BOOLEAN
    BY <1>1 DEF Failures, RestTypes
  <1>4. 0 \in 0..Page /\ Generated \in Nat
    BY DriverAssumption DEF DriverAssumption
  <1>5. related' \in 0..Page /\ listed' \in BOOLEAN
    <2>1. CASE GetTxList
      BY <2>1, GetTxListTypes
    <2>2. CASE related' = 0 /\ listed' = FALSE
      <3>1. listed' \in BOOLEAN
        BY <2>2
      <3>2. QED
        BY <1>4, <2>2, <3>1
    <2>3. CASE UNCHANGED <<related, listed>>
      <3>1. listed' \in BOOLEAN
        BY <2>3 DEF Failures, RestTypes
      <3>2. QED
        BY <2>3, <3>1 DEF Failures, RestTypes
    <2>4. QED
      BY <2>1, <2>2, <2>3 DEF CheckRound, CheckEnds
  <1>6. /\ implicit' \in Nat /\ check_count' \in Nat /\ check_count_round' \in Nat
        /\ pc' \in {"check", "search"} /\ (pc' = "check" => implicit' # 0)
    <2>1. CASE CheckRound
      <3>1. related \in Nat
        BY DriverAssumption DEF DriverAssumption, Failures, RestTypes
      <3>2. QED
        BY <1>1, <1>4, <2>1, <3>1 DEF CheckRound, Failures, RestTypes
    <2>2. CASE CheckEnds
      BY <1>1, <2>2 DEF CheckEnds
    <2>3. QED
      BY <2>1, <2>2
  <1>7. QED
    BY <1>1, <1>2, <1>3, <1>5, <1>6, QuietFailures DEF Failures, RestTypes

LEMMA FailuresInv ==
  ASSUME PagingTypes, Failures, [Next]_vars
  PROVE  Failures'
  <1>1. CASE FetchList
    BY <1>1, FetchListFailures
  <1>2. CASE FetchFails
    <2>1. UNCHANGED <<todo, local, testing, contract_abi_cache, errors>> /\ pc' = "dead"
      BY <1>2 DEF FetchFails
    <2>2. storage_bound' \in BOOLEAN /\ listed' \in BOOLEAN
      BY <2>1 DEF local, testing, Failures, RestTypes
    <2>3. RestTypes'
      BY <2>1, <2>2 DEF local, testing, errors, Failures, RestTypes
    <2>4. QED
      BY <2>1, <2>3 DEF Failures, AbiCacheComplete, RaisedIsStored, LocalsFollowPc
  <1>3. CASE Skip \/ FinishTx \/ ReplayFails
    <2>1. InPage /\ pc # "dead" /\ NextTx /\ UNCHANGED <<contract_abi_cache, raised>>
      BY <1>3 DEF Skip, FinishTx, ReplayFails, InPage, errors
    <2>2. err_info' \in {err_info, err_info \union {CurrentTx}}
      BY <1>3 DEF Skip, FinishTx, ReplayFails, errors
    <2>3. raised' \subseteq err_info' /\ err_info' \subseteq Tx
      BY <2>1, <2>2, CacheHalves, CurrentIsTx DEF Failures, RestTypes
    <2>4. contract_abi_cache' \in [Contract -> {"none", "full"}]
      BY <2>1, CacheHalves
    <2>5. QED
      BY <2>1, <2>3, <2>4, NextTxFailures DEF Failures
  <1>4. ASSUME NEW l \in SUBSET Contract, NEW t \in SUBSET Contract, Replay(l, t)
        PROVE  Failures'
    <2>1. /\ pc = "main" /\ pc' = "replayed" /\ todo' = t
          /\ UNCHANGED <<local, testing, raised, err_info>>
      BY <1>4 DEF Replay, errors
    <2>2. contract_abi_cache' \in [Contract -> {"none", "full"}]
      BY <1>4, <2>1, CacheHalves DEF Replay
    <2>3. storage_bound' \in BOOLEAN /\ listed' \in BOOLEAN
      BY <2>1 DEF local, testing, Failures, RestTypes
    <2>4. QED
      BY <2>1, <2>2, <2>3, QuietFailures DEF local, testing, Failures, RestTypes
  <1>5. CASE TargetUnknown
    <2>1. /\ pc = "replayed" /\ pc' = "search"
          /\ UNCHANGED <<todo, local, testing, contract_abi_cache, raised, err_info>>
      BY <1>5 DEF TargetUnknown, errors
    <2>2. storage_bound' \in BOOLEAN /\ listed' \in BOOLEAN
      BY <2>1 DEF local, testing, Failures, RestTypes
    <2>3. contract_abi_cache' \in [Contract -> {"none", "full"}]
      BY <2>1, CacheHalves
    <2>4. QED
      BY <2>1, <2>2, <2>3, QuietFailures DEF local, testing, Failures, RestTypes
  <1>6. CASE TargetKnown
    BY <1>6, TargetKnownFailures
  <1>7. CASE TargetRaises \/ CheckRaises
    <2>1. InPage /\ Raise /\ contract_abi_cache' = contract_abi_cache
      BY <1>7 DEF TargetRaises, CheckRaises, InPage
    <2>2. QED
      BY <2>1, RaiseFailures DEF Failures, RestTypes
  <1>8. ASSUME NEW c \in Contract, RecordRaises(c)
        PROVE  Failures'
    <2>1. InPage /\ Raise /\ ~storage_bound
      BY <1>8 DEF RecordRaises, InPage, Failures, LocalsFollowPc
    <2>2. contract_abi_cache' \in [Contract -> {"none", "empty", "full"}]
      BY <1>8 DEF RecordRaises, Cached, Failures, RestTypes
    <2>3. QED
      BY <2>1, <2>2, RaiseFailures
  <1>9. ASSUME NEW c \in Contract, NoSource(c) \/ NotAnalysed(c)
        PROVE  Failures'
    <2>1. /\ pc = "search" /\ pc' = pc /\ InPage
          /\ todo' = todo \ {c} /\ storage_bound' = TRUE
          /\ UNCHANGED <<function_count, testing, raised>>
      BY <1>9 DEF NoSource, NotAnalysed, InPage, errors
    <2>2. err_info' \in {err_info, err_info \union {CurrentTx}}
      BY <1>9 DEF NoSource, NotAnalysed, errors
    <2>3. contract_abi_cache' \in {contract_abi_cache, Cached(c, "full")}
      BY <1>9 DEF NoSource, NotAnalysed
    <2>4. contract_abi_cache' \in [Contract -> {"none", "full"}]
      BY <2>1, <2>3, CacheHalves, FillsEntry
    <2>5. err_info \subseteq err_info' /\ err_info' \subseteq Tx
      BY <2>1, <2>2, CurrentIsTx DEF Failures, RestTypes
    <2>6. storage_bound' \in BOOLEAN /\ listed' \in BOOLEAN
      BY <2>1 DEF testing, Failures, RestTypes
    <2>7. QED
      BY <2>1, <2>4, <2>5, <2>6, QuietFailures DEF testing, Failures, RestTypes
  <1>10. ASSUME NEW c \in Contract, SearchRaises(c)
         PROVE  Failures'
    <2>1. /\ InPage /\ pc # "dead" /\ NextTx
          /\ raised' = raised \union {CurrentTx} /\ err_info' = err_info \union {CurrentTx}
          /\ contract_abi_cache' \in {contract_abi_cache, Cached(c, "full")}
      BY <1>10 DEF SearchRaises, InPage
    <2>2. contract_abi_cache' \in [Contract -> {"none", "full"}]
      BY <2>1, CacheHalves, FillsEntry
    <2>3. raised' \subseteq err_info' /\ err_info' \subseteq Tx
      BY <2>1, CacheHalves, CurrentIsTx DEF Failures, RestTypes
    <2>4. QED
      BY <2>1, <2>2, <2>3, NextTxFailures DEF Failures
  <1>11. ASSUME NEW c \in Contract, NEW n \in 0..MaxImplicit, Visit(c, n)
         PROVE  Failures'
    BY <1>11, VisitFailures
  <1>12. CASE CheckRound \/ CheckEnds
    BY <1>12, CheckFailures
  <1>13. CASE UNCHANGED vars
    <2>1. UNCHANGED <<pc, todo, storage_bound, function_count, implicit, check_count,
             check_count_round, related, listed, contract_abi_cache, raised, err_info>>
      BY <1>13 DEF vars, local, testing, errors
    <2>2. storage_bound' \in BOOLEAN /\ listed' \in BOOLEAN
      BY <2>1 DEF Failures, RestTypes
    <2>3. RestTypes'
      BY <2>1, <2>2 DEF Failures, RestTypes
    <2>4. QED
      BY <2>1, <2>3 DEF Failures, AbiCacheComplete, RaisedIsStored, LocalsFollowPc
  <1>14. QED
    BY <1>1, <1>2, <1>3, <1>4, <1>5, <1>6, <1>7, <1>8, <1>9, <1>10, <1>11, <1>12, <1>13
       DEF Next

-----------------------------------------------------------------------------
(* Theorems                                                                 *)

LEMMA IInvInTwo == IInv <=> PagingTypes /\ PagingOK /\ Failures
  BY TypesInTwo DEF IInv, Failures

\* The pages of the history, main's locals and the cache of ABIs agree with
\* where the driver is (smartReco.py, execute_with_transaction.py).
THEOREM DriverInductive == Spec => []IInv
  <1>1. Init => IInv
    BY PagesInit, FailuresInit, IInvInTwo
  <1>2. IInv /\ [Next]_vars => IInv'
    <2> SUFFICES ASSUME IInv, [Next]_vars PROVE IInv'
      OBVIOUS
    <2>1. TypeOK /\ PagingTypes /\ PagingOK /\ Failures
      BY IInvInTwo DEF IInv
    <2>2. PagingTypes' /\ PagingOK'
      BY <2>1, PagesInv
    <2>3. Failures'
      BY <2>1, FailuresInv
    <2>4. RestTypes' /\ AbiCacheComplete' /\ RaisedIsStored' /\ LocalsFollowPc'
      BY <2>3 DEF Failures
    <2>5. TypeOK'
      BY <2>2, <2>4 DEF TypeOK, PagingTypes, RestTypes, InPage
    <2>6. QED
      BY <2>2, <2>4, <2>5 DEF IInv
  <1>3. QED
    BY <1>1, <1>2, PTL DEF Spec

\* However its history falls into blocks, and whatever fails, the transactions
\* of a contract go to main once, newest first, at most max_round * tx_length of
\* them, and one is passed over only for a newer one of its block
\* (smartReco.py:130, 165-166).
THEOREM PagesCorrect == Spec => []PagesInOrder
  <1>1. IInv => PagesInOrder
    BY DEF IInv, PagingOK, PagesInOrder
  <1>2. QED
    BY <1>1, DriverInductive, PTL

\* No transaction meets the entry that an exception between the lines of
\* filter_ignore_contract_with_callgraph left (execute_with_transaction.py:197).
THEOREM AbiCacheUsable == Spec => []AbiCacheComplete
  <1>1. IInv => AbiCacheComplete
    BY DEF IInv
  <1>2. QED
    BY <1>1, DriverInductive, PTL

\* An exception in main is stored under err_info, or ends the driver
\* (smartReco.py:119-123).
THEOREM ExceptionsStored == Spec => []RaisedIsStored
  <1>1. IInv => RaisedIsStored
    BY DEF IInv
  <1>2. QED
    BY <1>1, DriverInductive, PTL

-----------------------------------------------------------------------------
(* The algorithms: tasks, and induction                                     *)

\* A set of naturals with 0 and every successor of a member is all of Nat.
LEMMA Induction ==
  ASSUME NEW S, 0 \in S, \A n \in Nat : n \in S => n + 1 \in S
  PROVE  Nat \subseteq S
  <1> DEFINE Bad == {0..m : m \in Nat \ S}
             R   == StrictSubsetOrdering(Nat)
  <1>1. SUFFICES ASSUME Bad # {} PROVE FALSE
    OBVIOUS
  <1>2. Bad \subseteq FiniteSubsetsOf(Nat)
    <2>1. \A m \in Nat : IsFiniteSet(0..m) /\ 0..m \subseteq Nat
      BY FS_Interval
    <2>2. QED
      BY <2>1 DEF FiniteSubsetsOf
  <1>3. IsWellFoundedOn(R, FiniteSubsetsOf(Nat))
    BY FS_StrictSubsetOrderingWellFounded
  <1>4. PICK T \in Bad : \A U \in Bad : ~ (<<U, T>> \in R)
    <2> HIDE DEF Bad, R
    <2>1. QED BY <1>1, <1>2, <1>3, WFMin
  <1>5. PICK m \in Nat \ S : T = 0..m
    OBVIOUS
  <1>6. m # 0 /\ m - 1 \in Nat \ S
    OBVIOUS
  <1>7. 0..(m - 1) \in Bad
    BY <1>6
  <1>8. 0..(m - 1) \subseteq 0..m /\ 0..(m - 1) # 0..m
    <2>1. m \in 0..m /\ m \notin 0..(m - 1)
      BY <1>5
    <2>2. QED BY <2>1, <1>5
  <1>9. 0..(m - 1) \subseteq Nat /\ 0..m \subseteq Nat
    BY <1>5, <1>6
  <1>10. <<0..(m - 1), 0..m>> \in R
    BY <1>8, <1>9 DEF StrictSubsetOrdering
  <1>11. QED
    BY <1>4, <1>5, <1>7, <1>10

\* Sets closed under calls are met everywhere here.

\* A task has an input of its kind.
TaskOK ==
  /\ task.kind = "ask" => task.of \in DOMAIN Inputs
  /\ task.kind \notin {"idle", "ask"} => task.input \in Inputs[task.kind]

\* Asking, taking and forgetting keep tasks and inputs apart.
THEOREM TasksHaveInputs == TaskSpec => []TaskOK
  <1>1. TaskInit => TaskOK
    BY DEF TaskInit, TaskOK, Idle
  <1>2. TaskOK /\ [TaskNext]_task => TaskOK'
    <2> SUFFICES ASSUME TaskOK, [TaskNext]_task PROVE TaskOK'
      OBVIOUS
    <2>1. CASE Ask
      BY <2>1 DEF Ask, TaskOK
    <2>2. CASE Take
      BY <2>2, TasksAssumption DEF Take, TaskOK, TasksAssumption
    <2>3. CASE Forget
      BY <2>3 DEF Forget, TaskOK, Idle
    <2>4. CASE UNCHANGED task
      BY <2>4 DEF TaskOK
    <2>5. QED BY <2>1, <2>2, <2>3, <2>4 DEF TaskNext
  <1>3. QED BY <1>1, <1>2, PTL DEF TaskSpec

-----------------------------------------------------------------------------
(* The static analysis                                                      *)

USE DEF Closed

\* What a function runs is what is closed under calls: itself, and what the
\* functions it calls run.
LEMMA RunsIs ==
  ASSUME NEW c, IsContract(c), NEW f \in DOMAIN c.fn
  PROVE  /\ f \in Runs(c, f) /\ Runs(c, f) \subseteq DOMAIN c.fn
         /\ Closed(c, Runs(c, f))
         /\ \A S \in SUBSET DOMAIN c.fn : f \in S /\ Closed(c, S) => Runs(c, f) \subseteq S
         /\ \A g \in Runs(c, f) : Runs(c, g) \subseteq Runs(c, f)
         /\ Runs(c, f) = {f} \union UNION {Runs(c, g) : g \in c.fn[f].internal_calls}
  <1> DEFINE F == DOMAIN c.fn
             C(g) == c.fn[g].internal_calls
             R(g) == Runs(c, g)
             Good(S) == \A g \in S : C(g) \subseteq S
  <1>1. \A g \in F : C(g) \subseteq F
    BY DEF IsContract
  <1>2. \A g, h : h \in R(g) <=> h \in F /\ \A S \in SUBSET F : g \in S /\ Good(S) => h \in S
    BY DEF Runs
  <1> HIDE DEF F, C, R
  <1>3. ASSUME NEW g \in F
        PROVE  g \in R(g) /\ R(g) \subseteq F /\ Good(R(g))
               /\ \A S \in SUBSET F : g \in S /\ Good(S) => R(g) \subseteq S
    <2>1. g \in R(g) /\ R(g) \subseteq F
      BY <1>2
    <2>2. ASSUME NEW h \in R(g), NEW k \in C(h) PROVE k \in R(g)
      <3>1. k \in F
        BY <1>1, <2>1
      <3>2. ASSUME NEW S \in SUBSET F, g \in S, Good(S) PROVE k \in S
        <4>1. h \in S
          BY <1>2, <3>2
        <4>2. QED BY <3>2, <4>1
      <3>3. QED BY <1>2, <3>1, <3>2
    <2>3. ASSUME NEW S \in SUBSET F, g \in S, Good(S) PROVE R(g) \subseteq S
      BY <1>2, <2>3
    <2>4. QED BY <2>1, <2>2, <2>3
  <1>4. ASSUME NEW g \in F, NEW h \in R(g) PROVE R(h) \subseteq R(g)
    <2>1. R(g) \in SUBSET F /\ Good(R(g)) /\ h \in F
      BY <1>3
    <2>2. QED BY <1>3, <2>1
  <1>5. R(f) = {f} \union UNION {R(g) : g \in C(f)}
    <2> DEFINE U == {f} \union UNION {R(g) : g \in C(f)}
    <2>0. f \in F
      BY DEF F
    <2>1. U \subseteq R(f)
      <3>1. f \in R(f) /\ \A g \in C(f) : g \in R(f)
        BY <1>3, <2>0
      <3>2. \A g \in C(f) : R(g) \subseteq R(f)
        BY <1>4, <2>0, <3>1
      <3>3. QED BY <3>1, <3>2
    <2>2. R(f) \subseteq U
      <3>1. U \in SUBSET F
        BY <1>3, <2>0, <2>1
      <3>2. ASSUME NEW g \in U, NEW k \in C(g) PROVE k \in U
        <4>1. CASE g = f
          <5>1. k \in C(f) /\ k \in F
            BY <1>1, <2>0, <4>1
          <5>2. QED BY <1>3, <5>1
        <4>2. ASSUME NEW h \in C(f), g \in R(h) PROVE k \in U
          <5>1. h \in F
            BY <1>1, <2>0
          <5>2. k \in R(h)
            BY <1>3, <4>2, <5>1
          <5>3. QED BY <5>2
        <4>3. QED BY <4>1, <4>2
      <3>3. Good(U) /\ f \in U
        BY <3>2
      <3> HIDE DEF U
      <3>4. QED BY <1>3, <2>0, <3>1, <3>3
    <2>3. QED BY <2>1, <2>2
  <1>6. f \in F
    BY DEF F
  <1>7. QED BY <1>3, <1>4, <1>5, <1>6 DEF F, C, R

Reaching(c, it) ==
  it = [g \in DOMAIN c.fn |-> {g} \union UNION {it[h] : h \in c.fn[g].internal_calls}]

\* Python's recursion has a result,
LEMMA ReachingExists ==
  ASSUME NEW c, IsContract(c)
  PROVE  \E it : Reaching(c, it)
  <1> DEFINE it == [g \in DOMAIN c.fn |-> Runs(c, g)]
  <1>1. ASSUME NEW g \in DOMAIN c.fn
        PROVE  it[g] = {g} \union UNION {it[h] : h \in c.fn[g].internal_calls}
    <2>1. c.fn[g].internal_calls \subseteq DOMAIN c.fn
      BY DEF IsContract
    <2>2. \A h \in c.fn[g].internal_calls : it[h] = Runs(c, h)
      BY <2>1
    <2>3. it[g] = Runs(c, g)
      OBVIOUS
    <2> HIDE DEF it
    <2>4. UNION {it[h] : h \in c.fn[g].internal_calls} = UNION {Runs(c, h) : h \in c.fn[g].internal_calls}
      BY <2>2
    <2>5. QED BY <2>3, <2>4, RunsIs
  <1>2. it = [g \in DOMAIN c.fn |-> it[g]]
    OBVIOUS
  <1> HIDE DEF it
  <1>3. it = [g \in DOMAIN c.fn |-> {g} \union UNION {it[h] : h \in c.fn[g].internal_calls}]
    BY <1>1, <1>2
  <1>4. QED BY <1>3 DEF Reaching

\* which is what the function runs, unless it recurses.
LEMMA ReachedIs ==
  ASSUME NEW c, IsContract(c), NEW f \in DOMAIN c.fn, ~Recurses(c, f)
  PROVE  Reached(c, f) = Runs(c, f)
  <1> DEFINE it == CHOOSE it : Reaching(c, it)
             F == DOMAIN c.fn
             Fine(g) == ~Recurses(c, g) => it[g] = Runs(c, g)
             N == {n \in Nat : \A g \in F : Cardinality(Runs(c, g)) <= n => Fine(g)}
  <1>1. Reaching(c, it)
    BY ReachingExists
  <1>2. Reached(c, f) = it[f]
    BY DEF Reached, Reaching
  <1> HIDE DEF it
  <1>3. \A g \in F : it[g] = {g} \union UNION {it[h] : h \in c.fn[g].internal_calls}
    BY <1>1 DEF Reaching
  <1>4. \A g \in F : IsFiniteSet(Runs(c, g)) /\ Cardinality(Runs(c, g)) \in Nat \ {0}
    <2> SUFFICES ASSUME NEW g \in F PROVE IsFiniteSet(Runs(c, g)) /\ Cardinality(Runs(c, g)) \in Nat \ {0}
      OBVIOUS
    <2>1. g \in Runs(c, g) /\ Runs(c, g) \subseteq F /\ IsFiniteSet(F)
      BY RunsIs DEF IsContract
    <2>2. IsFiniteSet(Runs(c, g))
      BY <2>1, FS_Subset
    <2>3. QED BY <2>1, <2>2, FS_CardinalityType, FS_EmptySet
  <1>5. ASSUME NEW g \in F, ~Recurses(c, g), NEW h \in c.fn[g].internal_calls
        PROVE  h \in F /\ ~Recurses(c, h) /\ Cardinality(Runs(c, h)) < Cardinality(Runs(c, g))
    <2>1. h \in F
      BY DEF IsContract
    <2>2. g \in Runs(c, g) /\ h \in Runs(c, g)
      BY RunsIs
    <2>3. Runs(c, h) \subseteq Runs(c, g)
      BY <2>2, RunsIs
    <2>4. g \notin Runs(c, h)
      BY <1>5, <2>2 DEF Recurses
    <2>5. ~Recurses(c, h)
      BY <1>5, <2>3 DEF Recurses
    <2>6. Cardinality(Runs(c, h)) < Cardinality(Runs(c, g))
      <3>1. Runs(c, h) # Runs(c, g)
        BY <2>2, <2>4
      <3>2. Cardinality(Runs(c, h)) <= Cardinality(Runs(c, g))
            /\ (Cardinality(Runs(c, h)) = Cardinality(Runs(c, g)) => Runs(c, h) = Runs(c, g))
        BY <1>4, <2>3, FS_Subset
      <3>3. Cardinality(Runs(c, h)) \in Nat /\ Cardinality(Runs(c, g)) \in Nat
        BY <1>4, <2>1
      <3>4. QED BY <3>1, <3>2, <3>3
    <2>7. QED BY <2>1, <2>5, <2>6
  <1>6. 0 \in N
    BY <1>4
  <1>7. ASSUME NEW n \in Nat, n \in N PROVE n + 1 \in N
    <2>1. ASSUME NEW g \in F, Cardinality(Runs(c, g)) <= n + 1, ~Recurses(c, g)
          PROVE  it[g] = Runs(c, g)
      <3>1. \A h \in c.fn[g].internal_calls : it[h] = Runs(c, h)
        <4>1. TAKE h \in c.fn[g].internal_calls
        <4>2. h \in F /\ ~Recurses(c, h) /\ Cardinality(Runs(c, h)) < Cardinality(Runs(c, g))
          BY <1>5, <2>1
        <4>3. Cardinality(Runs(c, h)) \in Nat /\ Cardinality(Runs(c, g)) \in Nat
          BY <1>4, <4>2
        <4>4. Cardinality(Runs(c, h)) <= n
          BY <2>1, <4>2, <4>3
        <4>5. QED BY <1>7, <4>2, <4>4
      <3>2. UNION {it[h] : h \in c.fn[g].internal_calls} = UNION {Runs(c, h) : h \in c.fn[g].internal_calls}
        BY <3>1
      <3>3. it[g] = {g} \union UNION {Runs(c, h) : h \in c.fn[g].internal_calls}
        BY <1>3, <3>2
      <3>4. QED BY <3>3, RunsIs
    <2>2. QED BY <2>1
  <1>8. Nat \subseteq N
    <2> HIDE DEF N
    <2>1. QED BY <1>6, <1>7, Induction
  <1>9. Fine(f)
    <2>1. Cardinality(Runs(c, f)) \in N
      BY <1>4, <1>8
    <2> HIDE DEF Fine
    <2>2. QED BY <1>4, <2>1
  <1>10. QED BY <1>2, <1>9

\* A set of numbers below a bound has a greatest one.
LEMMA Greatest ==
  ASSUME NEW S \in SUBSET Nat, S # {}, NEW n \in Nat, \A i \in S : i <= n
  PROVE  \E i \in S : \A j \in S : j <= i
  <1> DEFINE N == {m \in Nat : (\A i \in S : i <= m) => \E i \in S : \A j \in S : j <= i}
  <1>1. 0 \in N
    <2>1. ASSUME \A i \in S : i <= 0 PROVE \E i \in S : \A j \in S : j <= i
      <3>1. PICK i \in S : TRUE
        OBVIOUS
      <3>2. \A j \in S : j = 0
        BY <2>1
      <3>3. QED BY <3>1, <3>2
    <2>2. QED BY <2>1
  <1>2. ASSUME NEW m \in Nat, m \in N PROVE m + 1 \in N
    <2>1. ASSUME \A i \in S : i <= m + 1 PROVE \E i \in S : \A j \in S : j <= i
      <3>1. CASE m + 1 \in S
        BY <2>1, <3>1
      <3>2. CASE m + 1 \notin S
        <4>1. \A i \in S : i <= m
          BY <2>1, <3>2
        <4>2. QED BY <1>2, <4>1
      <3>3. QED BY <3>1, <3>2
    <2>2. QED BY <2>1
  <1>3. Nat \subseteq N
    <2> HIDE DEF N
    <2>1. QED BY <1>1, <1>2, Induction
  <1>4. QED BY <1>3

\* The functions that are recorded are functions of the contract.
LEMMA RecordedFacts ==
  ASSUME NEW c, IsContract(c)
  PROVE  /\ Recorded(c) \subseteq 1..Len(c.functions) /\ Len(c.functions) \in Nat
         /\ Recorded(c) \subseteq DOMAIN c.functions
         /\ RecordedFunctions(c) \subseteq DOMAIN c.fn
  <1>1. c.functions \in Seq(DOMAIN c.fn)
    BY DEF IsContract
  <1>2. Len(c.functions) \in Nat /\ DOMAIN c.functions = 1..Len(c.functions)
        /\ \A i \in DOMAIN c.functions : c.functions[i] \in DOMAIN c.fn
    BY <1>1, LenProperties, ElementOfSeq
  <1>3. QED BY <1>2 DEF Recorded, RecordedFunctions

\* With distinct signatures a signature is the key of its function.
LEMMA KeyedIs ==
  ASSUME NEW c, IsContract(c), DistinctSignatures(c), NEW f \in RecordedFunctions(c)
  PROVE  Keyed(c, c.fn[f].signature) = f
  <1> DEFINE same == {i \in Recorded(c) : c.fn[c.functions[i]].signature = c.fn[f].signature}
             last == CHOOSE i \in same : \A j \in same : j <= i
  <1>1. same \subseteq Recorded(c) /\ \A i \in same : c.functions[i] = f
    BY DEF DistinctSignatures, RecordedFunctions
  <1>2. same # {}
    BY DEF RecordedFunctions
  <1>3. Keyed(c, c.fn[f].signature) = c.functions[last]
    BY DEF Keyed
  <1>4. Recorded(c) \subseteq 1..Len(c.functions) /\ Len(c.functions) \in Nat
    BY RecordedFacts
  <1> HIDE DEF same
  <1>5. same \in SUBSET Nat /\ \A i \in same : i <= Len(c.functions)
    BY <1>1, <1>4
  <1>6. \E i \in same : \A j \in same : j <= i
    BY <1>2, <1>4, <1>5, Greatest
  <1>7. last \in same
    BY <1>6
  <1>8. QED BY <1>1, <1>3, <1>7

\* A body that compares at most once and reads at most one state variable
\* gives the flags that its parts call for.
LEMMA FlagsAre ==
  ASSUME NEW m,
         m.variables_read \in Seq({"msg.sender", "address", "mapping", "other"}),
         m.nodes \in Seq({"sender-state", "sender-local", "other"}),
         m.external_calls \in BOOLEAN,
         \A i, j \in StateVariables(m) : i = j,
         Len(m.nodes) <= 1
  PROVE  /\ BodyFlags(m).caller <=> /\ Contains(m.variables_read, "msg.sender")
                                    /\ \E k \in ToSet(m.nodes) : k # "other"
         /\ BodyFlags(m).state <=> \/ m.external_calls
                                   \/ ToSet(m.variables_read) \intersect {"address", "mapping"} # {}
         /\ BodyFlags(m).local <=> /\ Contains(m.variables_read, "msg.sender")
                                   /\ "sender-local" \in ToSet(m.nodes)
  <1> DEFINE flags == LastFlags(<<FALSE, FALSE>>, m.nodes)
             reads == Contains(m.variables_read, "msg.sender")
             looks  == \E i \in StateVariables(m) :
                        /\ \A j \in StateVariables(m) : j <= i
                        /\ analysis_modifier_variable(m.variables_read[i])
  <1>1. /\ BodyFlags(m).caller = (reads /\ flags[1])
        /\ BodyFlags(m).state = (looks \/ m.external_calls)
        /\ BodyFlags(m).local = (reads /\ flags[2])
    BY DEF BodyFlags
  <1>2. Len(m.nodes) \in Nat /\ ToSet(m.nodes) = {m.nodes[i] : i \in 1..Len(m.nodes)}
        /\ \A i \in 1..Len(m.nodes) : m.nodes[i] \in {"sender-state", "sender-local", "other"}
    BY LenProperties, ElementOfSeq DEF ToSet
  <1>3. /\ flags[1] <=> \E k \in ToSet(m.nodes) : k # "other"
        /\ flags[2] <=> "sender-local" \in ToSet(m.nodes)
    <2>1. CASE m.nodes = <<>>
      <3>1. flags = <<FALSE, FALSE>>
        BY <2>1 DEF LastFlags
      <3>2. ToSet(m.nodes) = {}
        BY <2>1 DEF ToSet
      <3> HIDE DEF flags
      <3>3. QED BY <3>1, <3>2
    <2>2. CASE m.nodes # <<>>
      <3>1. Len(m.nodes) = 1
        <4>0. \A S : \A nodes \in Seq(S) : Len(nodes) = 0 => nodes = <<>>
          BY EmptySeq
        <4>1. Len(m.nodes) # 0
          BY <2>2, <4>0, Zenon
        <4> DEFINE n == Len(m.nodes)
        <4>2. n \in Nat /\ n <= 1 /\ n # 0
          BY <1>2, <4>1
        <4> HIDE DEF n, flags, reads, looks
        <4>3. n = 1
          BY <4>2
        <4>4. QED BY <4>3 DEF n
      <3>2. ToSet(m.nodes) = {m.nodes[1]}
        BY <1>2, <3>1
      <3>3. flags = <<m.nodes[1] # "other", m.nodes[1] = "sender-local">>
        BY <2>2, <3>1 DEF LastFlags, use_msgSender_compare_with_state, Last
      <3> HIDE DEF flags
      <3>4. QED BY <3>2, <3>3
    <2>3. QED BY <2>1, <2>2
  <1>4. looks <=> ToSet(m.variables_read) \intersect {"address", "mapping"} # {}
    <2>1. /\ DOMAIN m.variables_read = 1..Len(m.variables_read) /\ Len(m.variables_read) \in Nat
          /\ StateVariables(m) \subseteq DOMAIN m.variables_read
      BY LenProperties DEF StateVariables
    <2>2. ToSet(m.variables_read) = {m.variables_read[i] : i \in DOMAIN m.variables_read}
      BY DEF ToSet
    <2>3. ASSUME NEW i \in DOMAIN m.variables_read, m.variables_read[i] \in {"address", "mapping"}
          PROVE  looks
      <3>1. i \in StateVariables(m)
        BY <2>3 DEF StateVariables
      <3>2. \A j \in StateVariables(m) : j <= i
        BY <2>1, <3>1
      <3>3. QED BY <2>3, <3>1, <3>2 DEF analysis_modifier_variable
    <2>4. ASSUME looks PROVE \E i \in DOMAIN m.variables_read : m.variables_read[i] \in {"address", "mapping"}
      BY <2>1, <2>4 DEF analysis_modifier_variable
    <2> HIDE DEF looks
    <2>5. QED BY <2>2, <2>3, <2>4
  <1> HIDE DEF flags, reads, looks
  <1>5. QED BY <1>1, <1>3, <1>4 DEF reads

\* The modifiers that are found are the ones that only the owner passes.
LEMMA OwnerIs ==
  ASSUME NEW c, IsContract(c), Unambiguous(c), NEW m \in DOMAIN c.modifier
  PROVE  is_only_owner_modifier(c, m) <=> OwnerOnly(c, m)
  <1> DEFINE names == {m} \union c.modifier[m].internal_calls
             Reads(n) == Contains(c.modifier[n].variables_read, "msg.sender")
             Nodes(n) == ToSet(c.modifier[n].nodes)
             Looks(n) == \/ c.modifier[n].external_calls
                         \/ ToSet(c.modifier[n].variables_read) \intersect {"address", "mapping"} # {}
  <1>1. names \subseteq DOMAIN c.modifier
    BY DEF IsContract
  <1>2. \A n \in names : /\ BodyFlags(c.modifier[n]).caller <=> Reads(n) /\ \E k \in Nodes(n) : k # "other"
                         /\ BodyFlags(c.modifier[n]).state <=> Looks(n)
                         /\ BodyFlags(c.modifier[n]).local <=> Reads(n) /\ "sender-local" \in Nodes(n)
    <2>1. TAKE n \in names
    <2>2. n \in DOMAIN c.modifier
      BY <1>1
    <2>3. /\ c.modifier[n].variables_read \in Seq({"msg.sender", "address", "mapping", "other"})
          /\ c.modifier[n].nodes \in Seq({"sender-state", "sender-local", "other"})
          /\ c.modifier[n].external_calls \in BOOLEAN
      BY <2>2 DEF IsContract
    <2>4. Len(c.modifier[n].nodes) <= 1
          /\ \A i, j \in StateVariables(c.modifier[n]) : i = j
      BY <2>2 DEF Unambiguous
    <2>5. QED BY <2>3, <2>4, FlagsAre
  <1>3. is_only_owner_modifier(c, m) <=>
          /\ \E n \in names : BodyFlags(c.modifier[n]).caller
          /\ \E n \in names : BodyFlags(c.modifier[n]).state
          /\ \A n \in names : ~BodyFlags(c.modifier[n]).local
    BY DEF is_only_owner_modifier
  <1>4. OwnerOnly(c, m) <=>
          /\ \E n \in names : Reads(n) /\ \E k \in Nodes(n) : k # "other"
          /\ \A n \in names : Reads(n) => "sender-local" \notin Nodes(n)
          /\ \E n \in names : Looks(n)
    <2> DEFINE bodies == {c.modifier[n] : n \in names}
               comparing == {b \in bodies : Contains(b.variables_read, "msg.sender")}
    <2>1. OwnerOnly(c, m) <=>
            /\ \E b \in comparing : \E k \in ToSet(b.nodes) : k # "other"
            /\ \A b \in comparing : "sender-local" \notin ToSet(b.nodes)
            /\ \E b \in bodies : \/ b.external_calls
                                 \/ ToSet(b.variables_read) \intersect {"address", "mapping"} # {}
      BY Zenon DEF OwnerOnly
    <2>2. (\E b \in comparing : \E k \in ToSet(b.nodes) : k # "other")
            <=> \E n \in names : Reads(n) /\ \E k \in Nodes(n) : k # "other"
      <3>1. ASSUME NEW n \in names, Reads(n), NEW k \in Nodes(n), k # "other"
            PROVE  \E b \in comparing : \E l \in ToSet(b.nodes) : l # "other"
        <4>1. c.modifier[n] \in comparing /\ k \in ToSet(c.modifier[n].nodes)
          BY <3>1
        <4> HIDE DEF comparing
        <4>2. QED BY <3>1, <4>1
      <3>2. ASSUME NEW b \in comparing, NEW k \in ToSet(b.nodes), k # "other"
            PROVE  \E n \in names : Reads(n) /\ \E l \in Nodes(n) : l # "other"
        <4>1. PICK n \in names : b = c.modifier[n] /\ Reads(n)
          OBVIOUS
        <4>2. k \in Nodes(n)
          BY <4>1
        <4> HIDE DEF Reads, Nodes
        <4>3. QED BY <3>2, <4>1, <4>2
      <3> HIDE DEF comparing, Reads, Nodes
      <3>3. QED BY <3>1, <3>2
    <2>3. (\A b \in comparing : "sender-local" \notin ToSet(b.nodes))
            <=> \A n \in names : Reads(n) => "sender-local" \notin Nodes(n)
      OBVIOUS
    <2>4. (\E b \in bodies : \/ b.external_calls
                             \/ ToSet(b.variables_read) \intersect {"address", "mapping"} # {})
            <=> \E n \in names : Looks(n)
      OBVIOUS
    <2>5. QED BY <2>1, <2>2, <2>3, <2>4
  <1> HIDE DEF names, Reads, Nodes, Looks
  <1>5. QED BY <1>2, <1>3, <1>4

\* What a function is found to read and to write is what the functions it
\* runs read and write of the contract's state; likewise its modifiers and
\* whether a guard stops it.
LEMMA FoundOfRuns ==
  ASSUME NEW c, IsContract(c), NEW f \in DOMAIN c.fn, ~Recurses(c, f)
  PROVE  /\ \A v : v \in function_read(c, f) <=>
                     v \in c.state /\ \E g \in Runs(c, f) : v \in c.fn[g].reads
         /\ \A v : v \in function_write(c, f) <=>
                     v \in c.state /\ \E g \in Runs(c, f) : v \in c.fn[g].writes
         /\ is_nonReentrant(c, f) <=> ~\A g \in Runs(c, f) : c.fn[g].is_reentrant
         /\ \A m : m \in contain_only_owner_modifier(c, f) <=>
                     /\ \E g \in Runs(c, f) : m \in c.fn[g].modifiers
                     /\ m \in c.modifiers /\ is_only_owner_modifier(c, m)
  <1>1. \A v : v \in function_read(c, f) <=>
                 v \in c.state /\ \E g \in Reached(c, f) : v \in c.fn[g].reads
    BY DEF function_read
  <1>2. \A v : v \in function_write(c, f) <=>
                 v \in c.state /\ \E g \in Reached(c, f) : v \in c.fn[g].writes
    BY DEF function_write
  <1>3. is_nonReentrant(c, f) <=> ~\A g \in Reached(c, f) : c.fn[g].is_reentrant
    BY DEF is_nonReentrant
  <1>4. \A m : m \in contain_only_owner_modifier(c, f) <=>
                 /\ \E g \in Reached(c, f) : m \in c.fn[g].modifiers
                 /\ m \in c.modifiers /\ is_only_owner_modifier(c, m)
    BY DEF contain_only_owner_modifier, only_owner_modifiers
  <1>5. Reached(c, f) = Runs(c, f)
    BY ReachedIs
  <1>6. QED BY <1>1, <1>2, <1>3, <1>4, <1>5, Zenon

\* A function has a modifier that is found exactly if it runs one that only
\* the owner passes.
LEMMA OwnedIs ==
  ASSUME NEW c, IsContract(c), Unambiguous(c), NEW f \in DOMAIN c.fn, ~Recurses(c, f)
  PROVE  contain_only_owner_modifier(c, f) # {} <=>
           \E g \in Runs(c, f) : \E m \in c.fn[g].modifiers : m \in c.modifiers /\ OwnerOnly(c, m)
  <1>1. c.modifiers \subseteq DOMAIN c.modifier
    BY DEF IsContract
  <1>2. \A m \in c.modifiers : is_only_owner_modifier(c, m) <=> OwnerOnly(c, m)
    BY <1>1, OwnerIs
  <1>3. \A m : m \in contain_only_owner_modifier(c, f) <=>
                 /\ \E g \in Runs(c, f) : m \in c.fn[g].modifiers
                 /\ m \in c.modifiers /\ is_only_owner_modifier(c, m)
    BY FoundOfRuns
  <1>4. QED BY <1>2, <1>3

\* The writers that are kept write the variable, and one that is the first of
\* its name is kept.
LEMMA WritersAre ==
  ASSUME NEW c, IsContract(c), NEW v \in c.state,
         \A f \in RecordedFunctions(c) : ~Recurses(c, f)
  PROVE  /\ \A w \in storage_write_unique(c, v) :
              w \in RecordedFunctions(c) /\ v \in function_write(c, w)
         /\ \A w \in RecordedFunctions(c) :
              v \in function_write(c, w) /\ FirstOfName(c, w, v) => w \in storage_write_unique(c, v)
  <1> DEFINE writers == {i \in Recorded(c) : v \in function_write(c, c.functions[i])}
             first == {j \in writers : \A k \in writers :
                         k < j => c.fn[c.functions[k]].name # c.fn[c.functions[j]].name}
  <1>1. storage_write_unique(c, v) = {c.functions[i] : i \in first}
    BY DEF storage_write_unique, unique_storage_record
  <1>2. ASSUME NEW w \in storage_write_unique(c, v)
        PROVE  w \in RecordedFunctions(c) /\ v \in function_write(c, w)
    BY <1>1 DEF RecordedFunctions
  <1>3. ASSUME NEW w \in RecordedFunctions(c), v \in function_write(c, w), FirstOfName(c, w, v)
        PROVE  w \in storage_write_unique(c, v)
    <2>1. PICK i \in Recorded(c) : w = c.functions[i]
      BY DEF RecordedFunctions
    <2>2. i \in writers
      BY <1>3, <2>1
    <2>3. ASSUME NEW k \in writers, k < i
          PROVE  c.fn[c.functions[k]].name # c.fn[c.functions[i]].name
      <3>1. k \in Recorded(c) /\ v \in function_write(c, c.functions[k])
        OBVIOUS
      <3>2. k \in DOMAIN c.functions /\ i \in DOMAIN c.functions
        BY <3>1, RecordedFacts
      <3>3. c.functions[k] \in RecordedFunctions(c) /\ is_function_need_record(c, c.functions[k])
        BY <3>1 DEF Recorded, RecordedFunctions
      <3>4. c.functions[k] \in DOMAIN c.fn /\ ~Recurses(c, c.functions[k])
        BY <3>3, RecordedFacts
      <3>5. \E g \in Runs(c, c.functions[k]) : v \in c.fn[g].writes
        BY <3>1, <3>4, FoundOfRuns
      <3> HIDE DEF writers
      <3>6. QED BY <1>3, <2>1, <2>3, <3>2, <3>3, <3>5 DEF FirstOfName
    <2>4. i \in first
      BY <2>2, <2>3
    <2>5. QED BY <1>1, <2>1, <2>4
  <1>4. QED BY <1>2, <1>3

\* What the driver is told of one function.
LEMMA FoundIs ==
  ASSUME NEW c, IsContract(c), DistinctSignatures(c), ~analyze_contracts(c).failed,
         NEW f \in RecordedFunctions(c), NEW w \in RecordedFunctions(c)
  PROVE  c.fn[w].signature \in find_implicit_dependency(analyze_contracts(c), c.fn[f].signature) <=>
           /\ \E v \in function_read(c, f) : w \in storage_write_unique(c, v)
           /\ contain_only_owner_modifier(c, w) = {}
           /\ ~(is_nonReentrant(c, w) /\ is_nonReentrant(c, f))
           /\ f # w
  <1> DEFINE result == analyze_contracts(c)
             sig(g) == c.fn[g].signature
             found  == find_implicit_dependency(result, sig(f))
  <1>1. \A g \in RecordedFunctions(c) : ~Recurses(c, g)
    <2>1. (\E g \in RecordedFunctions(c) : Recurses(c, g)) => result = [failed |-> TRUE]
      BY DEF analyze_contracts
    <2> HIDE DEF result
    <2>2. result = [failed |-> TRUE] => result.failed
      OBVIOUS
    <2>3. ~result.failed
      BY DEF result
    <2>4. QED BY <2>1, <2>2, <2>3
  <1>2. /\ result.function_read = [s \in Signatures(c) |-> function_read(c, Keyed(c, s))]
        /\ result.storage_write = [v \in c.state |-> {sig(g) : g \in storage_write_unique(c, v)}]
        /\ result.only_owner = [s \in Signatures(c) |-> contain_only_owner_modifier(c, Keyed(c, s)) # {}]
        /\ result.non_Reentrant = [s \in Signatures(c) |-> is_nonReentrant(c, Keyed(c, s))]
    BY <1>1 DEF analyze_contracts
  <1>3. \A g \in RecordedFunctions(c) : sig(g) \in Signatures(c) /\ Keyed(c, sig(g)) = g
    BY KeyedIs DEF Signatures
  <1> HIDE DEF result
  <1>4. \A g \in RecordedFunctions(c) :
          /\ result.function_read[sig(g)] = function_read(c, g)
          /\ result.only_owner[sig(g)] = (contain_only_owner_modifier(c, g) # {})
          /\ result.non_Reentrant[sig(g)] = is_nonReentrant(c, g)
    <2>1. TAKE g \in RecordedFunctions(c)
    <2>2. sig(g) \in Signatures(c) /\ Keyed(c, sig(g)) = g
      BY <1>3
    <2> HIDE DEF sig
    <2>3. QED BY <1>2, <2>2
  <1>5. function_read(c, f) \subseteq c.state
    <2>1. f \in DOMAIN c.fn
      BY RecordedFacts
    <2>2. QED BY <1>1, <2>1, FoundOfRuns
  <1>6. DOMAIN result.function_read = Signatures(c)
    BY <1>2
  <1>7. found = {s \in UNION {result.storage_write[v] : v \in function_read(c, f)} :
                   ~result.only_owner[s] /\ ~Excluded(result, s, sig(f))}
    BY <1>3, <1>4, <1>6 DEF find_implicit_dependency
  <1>8. sig(w) \in UNION {result.storage_write[v] : v \in function_read(c, f)} <=>
          \E v \in function_read(c, f) : w \in storage_write_unique(c, v)
    <2>1. ASSUME NEW v \in function_read(c, f)
          PROVE  sig(w) \in result.storage_write[v] <=> w \in storage_write_unique(c, v)
      <3>1. v \in c.state
        BY <1>5
      <3>2. result.storage_write[v] = {sig(g) : g \in storage_write_unique(c, v)}
        BY <1>2, <3>1
      <3>3. storage_write_unique(c, v) \subseteq RecordedFunctions(c)
        BY <1>1, <3>1, WritersAre
      <3>4. \A g \in RecordedFunctions(c) : sig(g) = sig(w) => g = w
        BY DEF DistinctSignatures
      <3> HIDE DEF sig
      <3>5. QED BY <3>2, <3>3, <3>4
    <2> HIDE DEF sig
    <2>2. QED BY <2>1
  <1>9. sig(w) = sig(f) <=> w = f
    BY DEF DistinctSignatures
  <1>10. ~result.only_owner[sig(w)] /\ ~Excluded(result, sig(w), sig(f)) <=>
           /\ contain_only_owner_modifier(c, w) = {}
           /\ ~(is_nonReentrant(c, w) /\ is_nonReentrant(c, f))
           /\ f # w
    BY <1>4, <1>9 DEF Excluded
  <1> HIDE DEF sig, found
  <1>11. sig(w) \in found <=>
           /\ \E v \in function_read(c, f) : w \in storage_write_unique(c, v)
           /\ contain_only_owner_modifier(c, w) = {}
           /\ ~(is_nonReentrant(c, w) /\ is_nonReentrant(c, f))
           /\ f # w
    BY <1>7, <1>8, <1>10
  <1>12. QED BY <1>11 DEF sig, found, result

\* Of every contract the analysis tells what depends on what, as the reference
\* says it.
LEMMA DependencyExact ==
  ASSUME NEW c, IsContract(c)
  PROVE  DependencyIsExact(c)
  <1> SUFFICES ASSUME Unambiguous(c), DistinctSignatures(c), ~analyze_contracts(c).failed,
                      NEW f \in RecordedFunctions(c), NEW w \in RecordedFunctions(c)
               PROVE  LET told == c.fn[w].signature \in
                                    find_implicit_dependency(analyze_contracts(c), c.fn[f].signature)
                      IN  /\ told => DependsOn(c, f, w)
                          /\ DependsOn(c, f, w) /\ (\A v \in c.state : FirstOfName(c, w, v)) => told
    BY DEF DependencyIsExact
  <1> DEFINE told == c.fn[w].signature \in
                       find_implicit_dependency(analyze_contracts(c), c.fn[f].signature)
             Read(v)  == \E g \in Runs(c, f) : v \in c.fn[g].reads
             Write(v) == \E g \in Runs(c, w) : v \in c.fn[g].writes
             Owned == \E g \in Runs(c, w) : \E m \in c.fn[g].modifiers :
                        m \in c.modifiers /\ OwnerOnly(c, m)
             Open(g) == \A h \in Runs(c, g) : c.fn[h].is_reentrant
  <1>1. \A g \in RecordedFunctions(c) : ~Recurses(c, g) /\ g \in DOMAIN c.fn
    <2>1. (\E g \in RecordedFunctions(c) : Recurses(c, g)) => analyze_contracts(c) = [failed |-> TRUE]
      BY DEF analyze_contracts
    <2>2. analyze_contracts(c) = [failed |-> TRUE] => analyze_contracts(c).failed
      OBVIOUS
    <2>3. QED BY <2>1, <2>2, RecordedFacts
  <1>2. told <=> /\ \E v \in function_read(c, f) : w \in storage_write_unique(c, v)
                 /\ contain_only_owner_modifier(c, w) = {}
                 /\ ~(is_nonReentrant(c, w) /\ is_nonReentrant(c, f))
                 /\ f # w
    BY FoundIs
  <1>3. /\ \A v : v \in function_read(c, f) <=> v \in c.state /\ Read(v)
        /\ \A v : v \in function_write(c, w) <=> v \in c.state /\ Write(v)
        /\ is_nonReentrant(c, w) <=> ~Open(w)
        /\ is_nonReentrant(c, f) <=> ~Open(f)
    <2>1. f \in DOMAIN c.fn /\ ~Recurses(c, f) /\ w \in DOMAIN c.fn /\ ~Recurses(c, w)
      BY <1>1
    <2>2. QED BY <2>1, FoundOfRuns
  <1>4. contain_only_owner_modifier(c, w) = {} <=> ~Owned
    <2>1. w \in DOMAIN c.fn /\ ~Recurses(c, w)
      BY <1>1
    <2>2. QED BY <2>1, OwnedIs
  <1>5. \A v \in c.state :
          /\ w \in storage_write_unique(c, v) => Write(v)
          /\ Write(v) /\ FirstOfName(c, w, v) => w \in storage_write_unique(c, v)
    <2>1. TAKE v \in c.state
    <2>2. /\ w \in storage_write_unique(c, v) => v \in function_write(c, w)
          /\ v \in function_write(c, w) /\ FirstOfName(c, w, v) => w \in storage_write_unique(c, v)
      BY <1>1, WritersAre
    <2> HIDE DEF Write
    <2>3. QED BY <1>3, <2>2
  <1>6. DependsOn(c, f, w) <=> /\ f # w
                               /\ \E v \in c.state : Read(v) /\ Write(v)
                               /\ ~Owned
                               /\ (Open(f) \/ Open(w))
    BY DEF DependsOn
  <1> HIDE DEF told, Read, Write, Owned, Open
  <1>7. told => DependsOn(c, f, w)
    BY <1>2, <1>3, <1>4, <1>5, <1>6
  <1>8. DependsOn(c, f, w) /\ (\A v \in c.state : FirstOfName(c, w, v)) => told
    BY <1>2, <1>3, <1>4, <1>5, <1>6
  <1>9. QED BY <1>7, <1>8 DEF told

\* The driver is told exactly the functions that change the state a function
\* reads, for every contract (analysis_slither.py, analyze_contracts, and the
\* queries of the driver).
THEOREM AnalysisExact == TaskSpec => []AnalysisIsExact
  <1>1. TaskOK => AnalysisIsExact
    <2> SUFFICES ASSUME TaskOK, task.kind = "analyse" PROVE DependencyIsExact(task.input)
      BY DEF AnalysisIsExact, Given
    <2>1. task.input \in Inputs["analyse"]
      BY DEF TaskOK
    <2>2. IsContract(task.input)
      BY <2>1, AnalysisAssumption DEF AnalysisAssumption
    <2>3. QED BY <2>2, DependencyExact
  <1>2. QED BY <1>1, TasksHaveInputs, PTL

-----------------------------------------------------------------------------
(* The DApp data set                                                        *)

Of(pairs, i) == creator_to_dapp(pairs, pairs[i][1])

\* The sets of DApps that creators have in common
LEMMA SetsFacts ==
  ASSUME NEW pairs, ArePairs(pairs)
  PROVE  /\ Dapps(pairs) \subseteq Nat /\ IsFiniteSet(Dapps(pairs))
         /\ \A i \in DOMAIN pairs : /\ pairs[i][1] \in Creators(pairs) /\ Of(pairs, i) \in Sets(pairs)
                                    /\ pairs[i][2] \in Of(pairs, i)
         /\ \A s \in Sets(pairs) : s \subseteq Dapps(pairs) /\ s # {}
  <1>1. IsFiniteSet(Dapps(pairs))
    <2>1. IsFiniteSet(DOMAIN pairs)
      BY FS_Interval DEF ArePairs
    <2> DEFINE f == [i \in DOMAIN pairs |-> pairs[i][2]]
    <2>2. f \in Surjection(DOMAIN pairs, Dapps(pairs))
      BY DEF Surjection, Dapps
    <2>3. QED BY <2>1, <2>2, FS_Surjection
  <1>2. ASSUME NEW i \in DOMAIN pairs
        PROVE  /\ pairs[i][1] \in Creators(pairs) /\ Of(pairs, i) \in Sets(pairs)
               /\ pairs[i][2] \in Of(pairs, i)
    BY DEF Creators, Sets, Of, creator_to_dapp
  <1>3. ASSUME NEW s \in Sets(pairs) PROVE s \subseteq Dapps(pairs) /\ s # {}
    <2>1. PICK i \in DOMAIN pairs : s = creator_to_dapp(pairs, pairs[i][1])
      BY DEF Sets, Creators
    <2>2. QED BY <2>1 DEF creator_to_dapp, Dapps
  <1>4. QED BY <1>1, <1>2, <1>3 DEF ArePairs

\* DApps that are linked form classes: one is linked to itself and to the others
\* of its creators, and what is linked to it is linked to the same.
LEMMA LinkedFacts ==
  ASSUME NEW pairs, ArePairs(pairs), NEW d \in Dapps(pairs)
  PROVE  /\ d \in Linked(pairs, d) /\ Linked(pairs, d) \subseteq Dapps(pairs)
         /\ Together(pairs, Linked(pairs, d))
         /\ \A S \in SUBSET Dapps(pairs) :
              d \in S /\ Together(pairs, S) => Linked(pairs, d) \subseteq S
         /\ \A e \in Linked(pairs, d) : Linked(pairs, e) = Linked(pairs, d)
  <1> DEFINE A == Dapps(pairs)
             L(e) == Linked(pairs, e)
             T(S) == \A s \in Sets(pairs) : s \intersect S # {} => s \subseteq S
  <1>1. \A e, x : x \in L(e) <=> x \in A /\ \A S \in SUBSET A : e \in S /\ T(S) => x \in S
    BY DEF Linked, Together
  <1>2. \A s \in Sets(pairs) : s \subseteq A
    BY SetsFacts
  <1>3. d \in A
    OBVIOUS
  <1> HIDE DEF A, L
  <1>4. ASSUME NEW e \in A
        PROVE  e \in L(e) /\ L(e) \subseteq A /\ T(L(e))
               /\ \A S \in SUBSET A : e \in S /\ T(S) => L(e) \subseteq S
    <2>1. e \in L(e) /\ L(e) \subseteq A
      BY <1>1
    <2>2. ASSUME NEW s \in Sets(pairs), NEW x \in s, x \in L(e), NEW y \in s PROVE y \in L(e)
      <3>1. ASSUME NEW S \in SUBSET A, e \in S, T(S) PROVE y \in S
        <4>1. x \in S
          BY <1>1, <2>2, <3>1
        <4>2. QED BY <3>1, <4>1
      <3>2. y \in A
        BY <1>2
      <3>3. QED BY <1>1, <3>1, <3>2
    <2>3. T(L(e))
      BY <2>2
    <2>4. ASSUME NEW S \in SUBSET A, e \in S, T(S) PROVE L(e) \subseteq S
      BY <1>1, <2>4
    <2>5. QED BY <2>1, <2>3, <2>4
  <1>5. ASSUME NEW e \in L(d) PROVE L(e) = L(d)
    <2>1. e \in A /\ L(d) \in SUBSET A /\ T(L(d)) /\ d \in L(d)
      BY <1>3, <1>4
    <2>2. L(e) \subseteq L(d)
      BY <1>4, <2>1
    <2>3. d \in L(e)
      <3> SUFFICES ASSUME d \notin L(e) PROVE FALSE
        OBVIOUS
      <3> DEFINE S == L(d) \ L(e)
      <3>1. S \in SUBSET A /\ d \in S /\ e \notin S
        BY <1>4, <2>1
      <3>2. T(S)
        <4>1. TAKE s \in Sets(pairs)
        <4>2. HAVE s \intersect S # {}
        <4>3. s \subseteq L(d)
          BY <2>1, <4>2
        <4>4. s \intersect L(e) = {}
          <5>1. s \intersect L(e) # {} => s \subseteq L(e)
            BY <1>4, <2>1
          <5>2. QED BY <4>2, <5>1
        <4>5. QED BY <4>3, <4>4
      <3> HIDE DEF S
      <3>3. L(d) \subseteq S
        BY <1>3, <1>4, <3>1, <3>2
      <3>4. QED BY <3>1, <3>3
    <2>4. L(d) \subseteq L(e)
      BY <1>3, <1>4, <2>1, <2>3
    <2>5. QED BY <2>2, <2>4
  <1>6. /\ d \in L(d) /\ L(d) \subseteq A /\ T(L(d))
        /\ \A S \in SUBSET A : d \in S /\ T(S) => L(d) \subseteq S
    BY <1>3, <1>4
  <1>7. QED BY <1>5, <1>6 DEF L, A, Together

\* The DApps of a creator are linked.
LEMMA SetsAreLinked ==
  ASSUME NEW pairs, ArePairs(pairs), NEW s \in Sets(pairs), NEW d \in s
  PROVE  d \in Dapps(pairs) /\ s \subseteq Linked(pairs, d)
         /\ \A e \in s : Linked(pairs, e) = Linked(pairs, d)
  <1>1. d \in Dapps(pairs)
    BY SetsFacts
  <1>2. d \in Linked(pairs, d) /\ Together(pairs, Linked(pairs, d))
    BY <1>1, LinkedFacts
  <1>3. s \subseteq Linked(pairs, d)
    BY <1>2 DEF Together
  <1>4. QED BY <1>1, <1>3, LinkedFacts

\* A finite set of numbers that is not empty has a least one.
LEMMA Least ==
  ASSUME NEW S \in SUBSET Nat, S # {}
  PROVE  Min(S) \in S /\ \A x \in S : Min(S) <= x
  <1> DEFINE N == {n \in Nat : \A m \in 0..n : m \in S => \E x \in S : \A y \in S : x <= y}
  <1>1. 0 \in N
    OBVIOUS
  <1>2. ASSUME NEW n \in Nat, n \in N PROVE n + 1 \in N
    <2>1. ASSUME n + 1 \in S PROVE \E x \in S : \A y \in S : x <= y
      <3>1. CASE \E m \in 0..n : m \in S
        BY <1>2, <3>1
      <3>2. CASE ~\E m \in 0..n : m \in S
        <4>1. \A y \in S : n + 1 <= y
          BY <3>2
        <4>2. QED BY <2>1, <4>1
      <3>3. QED BY <3>1, <3>2
    <2>2. \A m \in 0..(n + 1) : m \in 0..n \/ m = n + 1
      OBVIOUS
    <2>3. QED BY <1>2, <2>1, <2>2
  <1>3. Nat \subseteq N
    <2> HIDE DEF N
    <2>1. QED BY <1>1, <1>2, Induction
  <1>4. \E x \in S : \A y \in S : x <= y
    <2>1. PICK m \in S : TRUE
      OBVIOUS
    <2>2. m \in N /\ m \in 0..m
      BY <1>3
    <2>3. QED BY <2>1, <2>2
  <1>5. QED BY <1>4 DEF Min

-----------------------------------------------------------------------------
(* A merge                                                                  *)

\* The names in the tables, and the DApps that were renamed
Names(t)   == DOMAIN t.creators
Renamed(t) == DOMAIN t.new_name

\* The name of a DApp that was not renamed is its own; all others join DApps
\* that were.
Shape(pairs, t) ==
  /\ "error" \in DOMAIN t /\ t.error = FALSE
  /\ Renamed(t) \subseteq Dapps(pairs)
  /\ \A d \in Renamed(t) : d \in t.new_name[d]
  /\ \A name \in Names(t) :
       /\ name # {} /\ t.creators[name] # {}
       /\ \/ name \subseteq Renamed(t) /\ \A d : name # {d}
          \/ \E d \in Dapps(pairs) \ Renamed(t) : name = {d}
  /\ \A d \in Dapps(pairs) \ Renamed(t) : {d} \in Names(t)

\* The old name that a creator's DApps bring in, the new one, and the DApps
\* that get it
Old(t, D)   == IF D \intersect Renamed(t) = {} THEN {} ELSE t.new_name[Min(D \intersect Renamed(t))]
All(t, D)   == D \union Old(t, D)
Fresh(t, D) == All(t, D) \ Renamed(t)
Fails(t, D) == D \intersect Renamed(t) # {} /\ Old(t, D) \notin Names(t)
Gone(t, D)  == {Old(t, D)} \union {{d} : d \in Fresh(t, D)}

\* Where the old name comes from
LEMMA OldFacts ==
  ASSUME NEW pairs, ArePairs(pairs), NEW t, Shape(pairs, t),
         NEW D \in SUBSET Dapps(pairs), D # {}, ~Fails(t, D)
  PROVE  /\ D \intersect Renamed(t) = {} => Old(t, D) = {} /\ All(t, D) = D /\ Fresh(t, D) = D
         /\ D \intersect Renamed(t) # {} =>
              \E m \in D \intersect Renamed(t) :
                 /\ \A x \in D \intersect Renamed(t) : m <= x
                 /\ m \in Old(t, D) /\ Old(t, D) = t.new_name[m] /\ Old(t, D) \in Names(t)
                 /\ Old(t, D) \subseteq Renamed(t) /\ \A d : Old(t, D) # {d}
         /\ All(t, D) \subseteq Dapps(pairs) /\ All(t, D) # {}
         /\ Fresh(t, D) \subseteq Dapps(pairs) \ Renamed(t) /\ Fresh(t, D) \subseteq D
         /\ {} \notin Names(t)
  <1> DEFINE R == Renamed(t)
             m == Min(D \intersect R)
             old == Old(t, D)
  <1>1. R \subseteq Dapps(pairs) /\ Dapps(pairs) \subseteq Nat
    BY DEF Shape, ArePairs
  <1>2. {} \notin Names(t)
    BY DEF Shape
  <1>3. D \intersect R = {} => old = {} /\ All(t, D) = D /\ Fresh(t, D) = D
    BY DEF Old, All, Fresh
  <1>4. ASSUME D \intersect R # {}
        PROVE  /\ m \in D \intersect R /\ \A x \in D \intersect R : m <= x
               /\ m \in old /\ old = t.new_name[m] /\ old \in Names(t)
               /\ old \subseteq R /\ \A d : old # {d}
    <2>1. m \in D \intersect R /\ \A x \in D \intersect R : m <= x
      <3>1. D \intersect R \in SUBSET Nat
        BY <1>1
      <3> HIDE DEF R
      <3>2. QED BY <1>4, <3>1, Least
    <2>2. old = t.new_name[m]
      BY <1>4 DEF Old
    <2>3. m \in old
      BY <2>1, <2>2 DEF Shape
    <2>4. old \in Names(t)
      BY <1>4 DEF Fails
    <2>5. ~\E d \in Dapps(pairs) \ R : old = {d}
      BY <2>1, <2>3
    <2>6. old \subseteq R /\ \A d : old # {d}
      <3> HIDE DEF old, m
      <3>1. QED BY <2>4, <2>5 DEF Shape
    <2>7. QED BY <2>1, <2>2, <2>3, <2>4, <2>6
  <1>5. All(t, D) \subseteq Dapps(pairs) /\ All(t, D) # {}
    <2>1. old \subseteq Dapps(pairs)
      BY <1>1, <1>3, <1>4
    <2> HIDE DEF old
    <2>2. QED BY <2>1 DEF All, old
  <1>6. Fresh(t, D) \subseteq Dapps(pairs) \ R /\ Fresh(t, D) \subseteq D
    <2>1. old \subseteq R
      BY <1>3, <1>4
    <2> HIDE DEF old
    <2>2. QED BY <1>5, <2>1 DEF Fresh, All, old
  <1> HIDE DEF m
  <1>7. QED BY <1>2, <1>3, <1>4, <1>5, <1>6

\* What a merge makes of the tables
LEMMA MergedIs ==
  ASSUME NEW pairs, ArePairs(pairs), NEW t, Shape(pairs, t),
         NEW D \in SUBSET Dapps(pairs), D # {}
  PROVE  LET u == Merged(t, D)
             all == All(t, D)
         IN  /\ u.error <=> Fails(t, D)
             /\ ~Fails(t, D) =>
                  /\ Renamed(u) = Renamed(t) \union
                                    IF \E d : all = {d} THEN {} ELSE Fresh(t, D)
                  /\ \A d \in Renamed(t) : u.new_name[d] = t.new_name[d]
                  /\ \A d \in Renamed(u) \ Renamed(t) : u.new_name[d] = all
                  /\ Names(u) = (Names(t) \ Gone(t, D)) \union {all}
                  /\ u.creators[all] = UNION {t.creators[name] : name \in Names(t) \intersect Gone(t, D)}
                  /\ \A name \in Names(u) \ {all} : u.creators[name] = t.creators[name]
                  /\ "error" \in DOMAIN u /\ u.error = FALSE
  <1> DEFINE renamed == D \intersect DOMAIN t.new_name
             old     == IF renamed = {} THEN {} ELSE t.new_name[Min(renamed)]
             all     == D \union old
             rest    == Without(t.creators, {old})
             single  == {name \in {{d} : d \in all} : name \in DOMAIN rest}
             found   == (IF renamed = {} THEN {} ELSE t.creators[old])
                          \union UNION {rest[name] : name \in single}
             renames == IF Cardinality(all) > 1 THEN UNION single ELSE {}
             left    == Without(rest, single)
             u       == Merged(t, D)
             N       == Names(t)
             U       == Fresh(t, D)
             G       == Gone(t, D)
  <1>1. old = Old(t, D) /\ all = All(t, D) /\ (renamed # {} /\ old \notin N <=> Fails(t, D))
    BY DEF Old, All, Fails, Renamed, Names
  <1>0. t.error = FALSE
    BY DEF Shape
  <1>2. Fails(t, D) => u = [t EXCEPT !.error = TRUE]
    BY <1>0, <1>1 DEF Merged, Names
  <1>3. ~Fails(t, D) =>
          u = [error    |-> FALSE,
               new_name |-> [d \in DOMAIN t.new_name \union renames |->
                               IF d \in renames THEN all ELSE t.new_name[d]],
               creators |-> IF found = {} THEN left
                            ELSE [name \in DOMAIN left \union {all} |->
                                    IF name = all THEN found ELSE left[name]]]
    BY <1>0, <1>1 DEF Merged, Names
  <1>4. ASSUME ~Fails(t, D)
        PROVE  /\ DOMAIN left = N \ G /\ \A name \in N \ G : left[name] = t.creators[name]
               /\ renames = IF \E d : all = {d} THEN {} ELSE U
               /\ found = UNION {t.creators[name] : name \in N \intersect G}
               /\ found # {}
    <2>1. /\ renamed = {} => old = {}
          /\ renamed # {} => old \in N /\ \A d : old # {d}
          /\ {} \notin N /\ all # {} /\ all \subseteq Dapps(pairs)
          /\ U \subseteq Dapps(pairs) \ Renamed(t) /\ U \subseteq all
          /\ renamed = {} => U = D
      <3>1. /\ D \intersect Renamed(t) = {} => Old(t, D) = {} /\ Fresh(t, D) = D
            /\ D \intersect Renamed(t) # {} => Old(t, D) \in Names(t) /\ \A d : Old(t, D) # {d}
            /\ {} \notin Names(t) /\ All(t, D) # {} /\ All(t, D) \subseteq Dapps(pairs)
            /\ Fresh(t, D) \subseteq Dapps(pairs) \ Renamed(t)
        BY <1>4, OldFacts
      <3>2. Fresh(t, D) \subseteq All(t, D)
        BY DEF Fresh
      <3> HIDE DEF old, all
      <3>3. QED BY <1>1, <3>1, <3>2 DEF Renamed
    <2>2. G = {old} \union {{d} : d \in U}
      BY <1>1 DEF Gone
    <2>3. DOMAIN rest = N \ {old} /\ \A name \in N \ {old} : rest[name] = t.creators[name]
      BY DEF Without, Names
    <2>4. single = {{d} : d \in U}
      <3>1. ASSUME NEW d \in all, {d} \in DOMAIN rest PROVE d \in U
        <4>1. {d} \in N
          BY <2>3, <3>1
        <4>2. \E e \in Dapps(pairs) \ Renamed(t) : {d} = {e}
          BY <4>1 DEF Shape
        <4>3. d \notin Renamed(t)
          BY <4>2
        <4> HIDE DEF all
        <4>4. QED BY <1>1, <4>3 DEF Fresh
      <3>2. ASSUME NEW d \in U PROVE d \in all /\ {d} \in DOMAIN rest
        <4>1. {d} \in N
          BY <2>1 DEF Shape
        <4>2. {d} # old
          BY <2>1
        <4> HIDE DEF rest, old, U
        <4>3. QED BY <2>1, <2>3, <4>1, <4>2
      <3> HIDE DEF all, rest, U
      <3>3. QED BY <3>1, <3>2
    <2>5. single \subseteq DOMAIN rest
      OBVIOUS
    <2>6. DOMAIN left = N \ G /\ \A name \in N \ G : left[name] = t.creators[name]
      <3>1. DOMAIN left = DOMAIN rest \ single /\ \A name \in DOMAIN rest \ single : left[name] = rest[name]
        BY DEF Without
      <3>2. N \ G = (N \ {old}) \ single
        <4> HIDE DEF single, old, U
        <4>1. QED BY <2>2, <2>4
      <3> HIDE DEF left, rest, single, N, G
      <3>3. QED BY <2>3, <3>1, <3>2
    <2>7. UNION single = U
      <3> HIDE DEF single, U
      <3>1. QED BY <2>4
    <2>8. Cardinality(all) > 1 <=> ~\E d : all = {d}
      <3>1. IsFiniteSet(all)
        <4> HIDE DEF all
        <4>1. QED BY <2>1, SetsFacts, FS_Subset
      <3> DEFINE n == Cardinality(all)
      <3>2. n \in Nat /\ n # 0
        <4> HIDE DEF all
        <4>1. QED BY <2>1, <3>1, FS_CardinalityType, FS_EmptySet
      <3>3. n = 1 <=> \E d : all = {d}
        <4> HIDE DEF all
        <4>1. QED BY <3>1, FS_Singleton
      <3> HIDE DEF n, all
      <3>4. n > 1 <=> n # 1
        BY <3>2
      <3>5. QED BY <3>3, <3>4 DEF n
    <2>9. renames = IF \E d : all = {d} THEN {} ELSE U
      <3> HIDE DEF all, single, U
      <3>1. QED BY <2>7, <2>8
    <2>10. found = UNION {t.creators[name] : name \in N \intersect G}
      <3>1. \A name \in single : name \in N /\ name # old /\ rest[name] = t.creators[name]
        <4> HIDE DEF single, rest, old
        <4>1. QED BY <2>3, <2>5
      <3>2. N \intersect G = single \union IF renamed = {} THEN {} ELSE {old}
        <4>1. single \subseteq N
          BY <3>1
        <4>2. G = {old} \union single
          <5> HIDE DEF single, U, old
          <5>1. QED BY <2>2, <2>4
        <4> HIDE DEF single, old, N, G
        <4>3. QED BY <2>1, <4>1, <4>2
      <3> DEFINE brought == IF renamed = {} THEN {} ELSE t.creators[old]
      <3>3. found = brought \union UNION {rest[name] : name \in single}
        OBVIOUS
      <3> HIDE DEF found, single, rest, old, N, G, renamed
      <3>4. ASSUME NEW c PROVE c \in found <=> \E name \in N \intersect G : c \in t.creators[name]
        <4>1. c \in found <=> c \in brought \/ \E name \in single : c \in rest[name]
          <5> HIDE DEF brought
          <5>1. QED BY <3>3
        <4>2. c \in brought <=> renamed # {} /\ c \in t.creators[old]
          OBVIOUS
        <4>3. (\E name \in single : c \in rest[name]) <=> \E name \in single : c \in t.creators[name]
          BY <3>1
        <4> HIDE DEF brought
        <4>4. QED BY <3>2, <4>1, <4>2, <4>3
      <3>5. QED BY <3>4
    <2>11. found # {}
      <3>1. N \intersect G # {}
        <4>1. CASE renamed = {}
          <5>1. PICK d \in D : TRUE
            OBVIOUS
          <5>2. d \in U
            BY <2>1, <4>1
          <5>3. {d} \in N
            BY <2>1, <5>2 DEF Shape
          <5> HIDE DEF U, N, old, G
          <5>4. QED BY <2>2, <5>2, <5>3
        <4>2. CASE renamed # {}
          <5>1. old \in N
            BY <2>1, <4>2
          <5> HIDE DEF U, N, old, G
          <5>2. QED BY <2>2, <5>1
        <4>3. QED BY <4>1, <4>2
      <3>2. \A name \in N : t.creators[name] # {}
        BY DEF Shape
      <3> HIDE DEF found, N, G
      <3>3. QED BY <2>10, <3>1, <3>2
    <2>12. QED BY <2>6, <2>9, <2>10, <2>11
  <1> DEFINE new_name == [d \in DOMAIN t.new_name \union renames |->
                            IF d \in renames THEN all ELSE t.new_name[d]]
             creators == IF found = {} THEN left
                         ELSE [name \in DOMAIN left \union {all} |->
                                 IF name = all THEN found ELSE left[name]]
  <1>5. u.error <=> Fails(t, D)
    <2>1. Fails(t, D) => u.error
      <3>1. "error" \in DOMAIN t
        BY DEF Shape
      <3>2. [t EXCEPT !.error = TRUE].error = TRUE
        BY <3>1
      <3>3. QED BY <1>2, <3>2
    <2>2. ~Fails(t, D) => ~u.error
      <3> HIDE DEF u
      <3>1. QED BY <1>3
    <2>3. QED BY <2>1, <2>2
  <1>6. ASSUME ~Fails(t, D)
        PROVE  /\ Renamed(u) = Renamed(t) \union IF \E d : all = {d} THEN {} ELSE U
               /\ \A d \in Renamed(t) : u.new_name[d] = t.new_name[d]
               /\ \A d \in Renamed(u) \ Renamed(t) : u.new_name[d] = all
               /\ Names(u) = (N \ G) \union {all}
               /\ u.creators[all] = UNION {t.creators[name] : name \in N \intersect G}
               /\ \A name \in Names(u) \ {all} : u.creators[name] = t.creators[name]
               /\ "error" \in DOMAIN u /\ u.error = FALSE
    <2>1. u = [error |-> FALSE, new_name |-> new_name, creators |-> creators]
      BY <1>3, <1>6
    <2>2. U \intersect Renamed(t) = {}
      BY DEF Fresh
    <2>3. renames = IF \E d : all = {d} THEN {} ELSE U
      BY <1>4, <1>6
    <2>4. creators = [name \in (N \ G) \union {all} |-> IF name = all THEN found ELSE t.creators[name]]
      <3>1. DOMAIN left = N \ G /\ (\A name \in N \ G : left[name] = t.creators[name]) /\ found # {}
        BY <1>4, <1>6
      <3> HIDE DEF found, left, N, G, all
      <3>2. QED BY <3>1
    <2>5. found = UNION {t.creators[name] : name \in N \intersect G}
      BY <1>4, <1>6
    <2> HIDE DEF found, left, all, u, N, G, U, creators, renames
    <2>6. u.new_name = new_name /\ u.creators = creators /\ u.error = FALSE
      BY <2>1
    <2>7. /\ Renamed(u) = Renamed(t) \union renames
          /\ \A d \in Renamed(t) : d \notin renames => u.new_name[d] = t.new_name[d]
          /\ \A d \in renames : u.new_name[d] = all
      BY <2>6 DEF Renamed
    <2>8. /\ Names(u) = (N \ G) \union {all}
          /\ u.creators[all] = found
          /\ \A name \in Names(u) \ {all} : u.creators[name] = t.creators[name]
      BY <2>4, <2>6 DEF Names
    <2>9. QED BY <2>1, <2>2, <2>3, <2>5, <2>6, <2>7, <2>8
  <1> HIDE DEF found, left, renames, all, u, N, G, U, new_name, creators, old
  <1>7. QED BY <1>1, <1>5, <1>6 DEF all, u, N, G, U, old

\* A merge that renames nothing new: all is the DApp's own name.
LEMMA AllIsOne ==
  ASSUME NEW pairs, ArePairs(pairs), NEW t, Shape(pairs, t),
         NEW D \in SUBSET Dapps(pairs), D # {}, ~Fails(t, D),
         NEW e, All(t, D) = {e}
  PROVE  e \in Dapps(pairs) \ Renamed(t) /\ {e} \in Names(t)
         /\ Names(t) \intersect Gone(t, D) = {{e}}
         /\ (Names(t) \ Gone(t, D)) \union {All(t, D)} = Names(t)
  <1> DEFINE N == Names(t)
             old == Old(t, D)
             U == Fresh(t, D)
  <1>1. D \intersect Renamed(t) = {}
    <2> SUFFICES ASSUME D \intersect Renamed(t) # {} PROVE FALSE
      OBVIOUS
    <2>1. PICK m \in D : m \in old /\ old # {e}
      BY OldFacts
    <2>2. old \subseteq {e}
      BY DEF All
    <2> HIDE DEF old
    <2>3. QED BY <2>1, <2>2
  <1>2. old = {} /\ U = {e} /\ e \in Dapps(pairs) \ Renamed(t) /\ {} \notin N
    <2>1. old = {} /\ All(t, D) = D /\ U = D /\ U \subseteq Dapps(pairs) \ Renamed(t) /\ {} \notin N
      BY <1>1, OldFacts
    <2> HIDE DEF old, U, N
    <2>2. QED BY <2>1
  <1>3. {e} \in N
    BY <1>2 DEF Shape
  <1>4. Gone(t, D) = {old} \union {{d} : d \in U}
    BY DEF Gone
  <1> HIDE DEF N, old, U
  <1>5. Gone(t, D) = {{}, {e}}
    BY <1>2, <1>4
  <1>6. N \intersect Gone(t, D) = {{e}} /\ (N \ Gone(t, D)) \union {{e}} = N
    <2> DEFINE one == {e}
               none == {}
               gone == Gone(t, D)
    <2>1. gone = {none, one} /\ one \in N /\ none \notin N
      BY <1>2, <1>3, <1>5
    <2> HIDE DEF one, none, gone
    <2>2. N \intersect gone = {one} /\ (N \ gone) \union {one} = N
      BY <2>1
    <2>3. QED BY <2>2 DEF one, gone
  <1>7. QED BY <1>2, <1>3, <1>6 DEF N

\* The names keep their shape.
LEMMA ShapeKept ==
  ASSUME NEW pairs, ArePairs(pairs), NEW t, Shape(pairs, t),
         NEW D \in SUBSET Dapps(pairs), D # {}, ~Fails(t, D)
  PROVE  Shape(pairs, Merged(t, D))
  <1> DEFINE u == Merged(t, D)
             all == All(t, D)
             U == Fresh(t, D)
             N == Names(t)
             G == Gone(t, D)
             R == Renamed(t)
             A == Dapps(pairs)
             One == \E d : all = {d}
  <1>1. /\ Renamed(u) = R \union IF One THEN {} ELSE U
        /\ \A d \in R : u.new_name[d] = t.new_name[d]
        /\ \A d \in Renamed(u) \ R : u.new_name[d] = all
        /\ Names(u) = (N \ G) \union {all}
        /\ u.creators[all] = UNION {t.creators[name] : name \in N \intersect G}
        /\ \A name \in Names(u) \ {all} : u.creators[name] = t.creators[name]
        /\ "error" \in DOMAIN u /\ u.error = FALSE
    BY MergedIs, Zenon
  <1>2. /\ all \subseteq A /\ all # {} /\ U \subseteq A \ R
        /\ U = all \ R
    BY OldFacts DEF Fresh
  <1>3. /\ R \subseteq A
        /\ \A d \in R : d \in t.new_name[d]
        /\ \A name \in N :
             /\ name # {} /\ t.creators[name] # {}
             /\ \/ name \subseteq R /\ \A d : name # {d}
                \/ \E d \in A \ R : name = {d}
        /\ \A d \in A \ R : {d} \in N
    BY DEF Shape
  <1>4. N \intersect G # {}
    <2>1. CASE D \intersect R = {}
      <3>1. U = D
        BY <2>1, OldFacts
      <3>2. PICK d \in D : TRUE
        OBVIOUS
      <3>3. d \in U /\ d \in A \ R
        BY <1>2, <3>1
      <3>4. {d} \in N
        BY <1>3, <3>3
      <3>5. {d} \in G
        BY <3>3 DEF Gone
      <3>6. QED BY <3>4, <3>5
    <2>2. CASE D \intersect R # {}
      <3>1. Old(t, D) \in N
        BY <2>2, OldFacts
      <3>2. QED BY <3>1 DEF Gone
    <2>3. QED BY <2>1, <2>2
  <1>5. One => Names(u) = N
    <2> SUFFICES ASSUME NEW e, all = {e} PROVE Names(u) = N
      OBVIOUS
    <2>1. (N \ G) \union {all} = N
      BY AllIsOne
    <2> HIDE DEF u, all, N, G
    <2>2. QED BY <1>1, <2>1
  <1>6. \A d \in U : {d} \in G
    BY DEF Gone
  <1>7. \A d \in A \ R : d \notin U => {d} \notin G
    <2> SUFFICES ASSUME NEW d \in A \ R, d \notin U, {d} \in G PROVE FALSE
      OBVIOUS
    <2>1. {d} = Old(t, D)
      BY DEF Gone
    <2>2. Old(t, D) = {} \/ \A e : Old(t, D) # {e}
      BY OldFacts
    <2>3. QED BY <2>1, <2>2
  <1> HIDE DEF u, all, U, N, G, R, A
  <1>8. Renamed(u) \subseteq A
    BY <1>1, <1>2, <1>3
  <1>9. ASSUME NEW d \in Renamed(u) PROVE d \in u.new_name[d]
    <2>1. CASE d \in R
      BY <1>1, <1>3, <2>1
    <2>2. CASE d \notin R
      <3>1. d \in U /\ u.new_name[d] = all
        BY <1>1, <2>2
      <3>2. QED BY <1>2, <3>1
    <2>3. QED BY <2>1, <2>2
  <1>10. ASSUME NEW name \in Names(u)
         PROVE  name # {} /\ u.creators[name] # {}
    <2>1. CASE name = all
      BY <1>1, <1>2, <1>3, <1>4, <2>1
    <2>2. CASE name # all
      <3>1. name \in N
        BY <1>1, <2>2
      <3>2. QED BY <1>1, <1>3, <2>2, <3>1
    <2>3. QED BY <2>1, <2>2
  <1>11. ASSUME NEW name \in Names(u)
         PROVE  \/ name \subseteq Renamed(u) /\ \A d : name # {d}
                \/ \E d \in A \ Renamed(u) : name = {d}
    <2>1. CASE One
      <3>1. name \in N /\ Renamed(u) = R
        BY <1>1, <1>5, <2>1
      <3>2. QED BY <1>3, <3>1
    <2>2. CASE ~One /\ name = all
      <3>1. name \subseteq Renamed(u)
        BY <1>1, <1>2, <2>2
      <3>2. QED BY <2>2, <3>1
    <2>3. CASE ~One /\ name # all
      <3>1. name \in N /\ name \notin G
        BY <1>1, <2>3
      <3>2. Renamed(u) = R \union U
        BY <1>1, <2>3
      <3>3. CASE name \subseteq R /\ \A d : name # {d}
        BY <3>2, <3>3
      <3>4. ASSUME NEW d \in A \ R, name = {d} PROVE d \in A \ Renamed(u)
        BY <1>6, <3>1, <3>2, <3>4
      <3>5. QED BY <1>3, <3>1, <3>3, <3>4
    <2>4. QED BY <2>1, <2>2, <2>3
  <1>12. ASSUME NEW d \in A \ Renamed(u) PROVE {d} \in Names(u)
    <2>1. d \in A \ R /\ {d} \in N
      BY <1>1, <1>3
    <2>2. CASE One
      BY <1>5, <2>1, <2>2
    <2>3. CASE ~One
      <3>1. d \notin U
        BY <1>1, <2>3
      <3>2. QED BY <1>1, <1>7, <2>1, <3>1
    <2>4. QED BY <2>2, <2>3
  <1>13. QED BY <1>1, <1>8, <1>9, <1>10, <1>11, <1>12 DEF Shape, u, A

\* New names and the names of creators stay among linked DApps; two names do not
\* have the same least DApp; and every creator has a name.
Classes(pairs, t) ==
  /\ \A d \in Renamed(t) : t.new_name[d] \subseteq Linked(pairs, d)
  /\ \A a, b \in Names(t) : \A g \in a \intersect b : (\A x \in a \union b : g <= x) => a = b
  /\ \A c \in Creators(pairs) : \E name \in Names(t) : c \in t.creators[name]
  /\ \A i \in DOMAIN pairs : \A name \in Names(t) :
       pairs[i][1] \in t.creators[name] => name \subseteq Linked(pairs, pairs[i][2])

\* The name that a merge makes is not one that another set of creators has.
LEMMA NameIsNew ==
  ASSUME NEW pairs, ArePairs(pairs), NEW t, Shape(pairs, t), Classes(pairs, t),
         NEW D \in SUBSET Dapps(pairs), D # {}, ~Fails(t, D)
  PROVE  /\ \A a \in Names(t) \ Gone(t, D) : \A g \in a \intersect All(t, D) :
              ~\A x \in a \union All(t, D) : g <= x
         /\ All(t, D) \notin Names(t) \ Gone(t, D)
  <1> DEFINE N == Names(t)
             G == Gone(t, D)
             R == Renamed(t)
             all == All(t, D)
             old == Old(t, D)
  <1>1. ASSUME NEW a \in N, a \notin G, NEW g \in a, g \in all, \A x \in a \union all : g <= x
        PROVE  FALSE
    <2>1. CASE \E d \in Dapps(pairs) \ R : a = {d}
      <3>1. a = {g} /\ g \notin R
        BY <1>1, <2>1
      <3>2. a \in G
        BY <1>1, <3>1 DEF Gone, Fresh
      <3>3. QED BY <1>1, <3>2
    <2>2. CASE a \subseteq R
      <3>1. g \in R
        BY <1>1, <2>2
      <3>2. CASE D \intersect R = {}
        <4>1. all = D
          BY <3>2, OldFacts
        <4>2. QED BY <1>1, <3>1, <3>2, <4>1
      <3>3. CASE D \intersect R # {}
        <4>1. PICK m \in D \intersect R : (\A x \in D \intersect R : m <= x) /\ m \in old /\ old \in N
          BY <3>3, OldFacts
        <4>2. old \subseteq all /\ D \subseteq all /\ all = D \union old /\ old \in G
          BY DEF All, Gone
        <4>3. all \subseteq Nat
          <5>1. all \subseteq Dapps(pairs)
            BY OldFacts
          <5>2. QED BY <5>1, SetsFacts
        <4>4. CASE g \in old
          <5>1. \A x \in a \union old : g <= x
            BY <1>1, <4>2
          <5> HIDE DEF old, N
          <5>2. a = old
            BY <1>1, <4>1, <4>4, <5>1 DEF Classes, N
          <5>3. QED BY <1>1, <4>2, <5>2
        <4>5. CASE g \notin old
          <5> HIDE DEF old, all, R, N, G
          <5>1. g \in D /\ m \in all
            BY <1>1, <4>1, <4>2, <4>5
          <5>2. m <= g /\ g <= m /\ m \in Nat /\ g \in Nat
            BY <1>1, <3>1, <4>1, <4>3, <5>1
          <5>3. m = g
            BY <5>2
          <5>4. QED BY <4>1, <4>5, <5>3
        <4>6. QED BY <4>4, <4>5
      <3>4. QED BY <3>2, <3>3
    <2>3. QED BY <2>1, <2>2 DEF Shape
  <1>2. all \notin N \ G
    <2>1. all \in SUBSET Nat /\ all # {}
      BY OldFacts, SetsFacts
    <2> DEFINE g == Min(all)
    <2>2. g \in all /\ \A x \in all : g <= x
      <3> HIDE DEF all
      <3>1. QED BY <2>1, Least
    <2> HIDE DEF g, all, N, G
    <2>3. QED BY <1>1, <2>2
  <1>3. QED BY <1>1, <1>2

\* As long as a merge does not fail, names stay among linked DApps.
LEMMA ClassesKept ==
  ASSUME NEW pairs, ArePairs(pairs), NEW t, Shape(pairs, t), Classes(pairs, t),
         NEW D \in Sets(pairs), ~Fails(t, D)
  PROVE  Classes(pairs, Merged(t, D))
  <1> DEFINE u == Merged(t, D)
             all == All(t, D)
             old == Old(t, D)
             N == Names(t)
             G == Gone(t, D)
             R == Renamed(t)
             L(d) == Linked(pairs, d)
             Has(name, c) == c \in t.creators[name]
  <1>0. D \in SUBSET Dapps(pairs) /\ D # {}
    BY SetsFacts
  <1>1. /\ \A d \in Renamed(u) \ R : d \in Fresh(t, D)
        /\ \A d \in R : u.new_name[d] = t.new_name[d]
        /\ \A d \in Renamed(u) \ R : u.new_name[d] = all
        /\ Names(u) = (N \ G) \union {all}
        /\ u.creators[all] = UNION {t.creators[name] : name \in N \intersect G}
        /\ \A name \in Names(u) \ {all} : u.creators[name] = t.creators[name]
    <2>1. /\ Renamed(u) = R \union IF \E d : all = {d} THEN {} ELSE Fresh(t, D)
          /\ \A d \in R : u.new_name[d] = t.new_name[d]
          /\ \A d \in Renamed(u) \ R : u.new_name[d] = all
          /\ Names(u) = (N \ G) \union {all}
          /\ u.creators[all] = UNION {t.creators[name] : name \in N \intersect G}
          /\ \A name \in Names(u) \ {all} : u.creators[name] = t.creators[name]
      BY <1>0, MergedIs, Zenon
    <2> HIDE DEF u, all, N, G, R
    <2>2. QED BY <2>1
  <1>2. all \notin N \ G /\ \A a \in N \ G : \A g \in a \intersect all : ~\A x \in a \union all : g <= x
    BY <1>0, NameIsNew
  <1>3. \A d \in D : d \in Dapps(pairs) /\ all \subseteq L(d)
    <2> SUFFICES ASSUME NEW d \in D PROVE d \in Dapps(pairs) /\ all \subseteq L(d)
      OBVIOUS
    <2>1. d \in Dapps(pairs) /\ D \subseteq L(d) /\ \A e \in D : L(e) = L(d)
      BY SetsAreLinked
    <2>2. old \subseteq L(d)
      <3>1. CASE D \intersect R = {}
        BY <1>0, <3>1, OldFacts
      <3>2. CASE D \intersect R # {}
        <4>1. PICK m \in D \intersect R : old = t.new_name[m]
          BY <1>0, <3>2, OldFacts
        <4>2. old \subseteq L(m)
          BY <4>1 DEF Classes
        <4>3. QED BY <2>1, <4>1, <4>2
      <3>3. QED BY <3>1, <3>2
    <2>3. QED BY <2>1, <2>2 DEF All
  <1>4. ASSUME NEW i \in DOMAIN pairs, NEW name \in N \intersect G, Has(name, pairs[i][1])
        PROVE  all \subseteq L(pairs[i][2])
    <2>1. name \subseteq L(pairs[i][2])
      BY <1>4 DEF Classes
    <2>2. \E d \in D : d \in name
      <3>1. CASE name = old
        <4>1. name # {}
          BY DEF Shape
        <4>2. D \intersect R # {}
          BY <1>0, <3>1, <4>1, OldFacts
        <4>3. PICK m \in D \intersect R : m \in old
          BY <1>0, <4>2, OldFacts
        <4>4. QED BY <3>1, <4>3
      <3>2. ASSUME NEW d \in Fresh(t, D), name = {d} PROVE \E e \in D : e \in name
        <4>1. d \in D
          BY <1>0, OldFacts
        <4>2. QED BY <3>2, <4>1
      <3>3. QED BY <3>1, <3>2 DEF Gone
    <2>3. PICK d \in D : d \in name
      BY <2>2
    <2>4. pairs[i][2] \in Dapps(pairs)
      BY DEF Dapps
    <2>5. L(d) = L(pairs[i][2])
      BY <2>1, <2>3, <2>4, LinkedFacts
    <2>6. QED BY <1>3, <2>5
  <1>5. /\ \A d \in R : t.new_name[d] \subseteq L(d)
        /\ \A a, b \in N : \A g \in a \intersect b : (\A x \in a \union b : g <= x) => a = b
        /\ \A c \in Creators(pairs) : \E name \in N : Has(name, c)
        /\ \A i \in DOMAIN pairs : \A name \in N : Has(name, pairs[i][1]) => name \subseteq L(pairs[i][2])
    BY DEF Classes
  <1>6. Fresh(t, D) \subseteq D
    BY <1>0, OldFacts
  <1>7. \A c : c \in u.creators[all] <=> \E name \in N \intersect G : Has(name, c)
    BY <1>1
  <1>8. \A name \in N \ G : name \in Names(u) /\ \A c : c \in u.creators[name] <=> Has(name, c)
    BY <1>1, <1>2
  <1> HIDE DEF u, all, old, N, G, R, L, Has
  <1>9. \A d \in Renamed(u) : u.new_name[d] \subseteq L(d)
    BY <1>1, <1>3, <1>5, <1>6
  <1>10. ASSUME NEW a \in Names(u), NEW b \in Names(u), NEW g \in a \intersect b,
                \A x \in a \union b : g <= x
         PROVE  a = b
    <2>1. CASE a \in N \ G /\ b \in N \ G
      BY <1>5, <1>10, <2>1
    <2>2. CASE a = all /\ b \in N \ G
      BY <1>2, <1>10, <2>2
    <2>3. CASE b = all /\ a \in N \ G
      BY <1>2, <1>10, <2>3
    <2>4. CASE a = all /\ b = all
      BY <2>4
    <2>5. QED BY <1>1, <2>1, <2>2, <2>3, <2>4
  <1>11. ASSUME NEW c \in Creators(pairs) PROVE \E name \in Names(u) : c \in u.creators[name]
    <2>1. PICK name \in N : Has(name, c)
      BY <1>5
    <2>2. CASE name \in G
      <3>1. c \in u.creators[all] /\ all \in Names(u)
        BY <1>1, <1>7, <2>1, <2>2
      <3>2. QED BY <3>1
    <2>3. CASE name \notin G
      BY <1>8, <2>1, <2>3
    <2>4. QED BY <2>2, <2>3
  <1>12. ASSUME NEW i \in DOMAIN pairs, NEW name \in Names(u), pairs[i][1] \in u.creators[name]
         PROVE  name \subseteq L(pairs[i][2])
    <2>1. CASE name = all
      <3>1. PICK n \in N \intersect G : Has(n, pairs[i][1])
        BY <1>7, <1>12, <2>1
      <3>2. QED BY <1>4, <2>1, <3>1
    <2>2. CASE name \in N \ G
      <3>1. Has(name, pairs[i][1])
        BY <1>8, <1>12, <2>2
      <3>2. QED BY <1>5, <2>2, <3>1
    <2>3. QED BY <1>1, <2>1, <2>2
  <1>13. QED BY <1>9, <1>10, <1>11, <1>12 DEF Classes, u, L

-----------------------------------------------------------------------------
(* The merges, one after another                                            *)

\* Before the first pair, and what the next one makes of the tables
Start(pairs) == [error |-> FALSE, new_name |-> <<>>, creators |-> dapp_to_creator(pairs)]

NextTables(pairs, i, t) ==
  IF FirstOfCreator(pairs, i) THEN Merged(t, Of(pairs, i)) ELSE t

\* The recursion over the pairs has a solution.
LEMMA TablesAre ==
  ASSUME NEW pairs, ArePairs(pairs)
  PROVE  /\ tables(pairs)[0] = Start(pairs)
         /\ \A i \in DOMAIN pairs : tables(pairs)[i] = NextTables(pairs, i, tables(pairs)[i - 1])
  <1> DEFINE n == Len(pairs)
             Step(f, i) == IF i = 0 THEN Start(pairs) ELSE NextTables(pairs, i, f[i - 1])
             Solves(f, k) == f = [i \in 0..k |-> Step(f, i)]
             K == {k \in Nat : \E f : Solves(f, k)}
  <1>1. n \in Nat /\ DOMAIN pairs = 1..n
    BY DEF ArePairs
  <1>2. tables(pairs) = CHOOSE f : Solves(f, n)
    BY DEF tables, Start, NextTables, Of
  <1> HIDE DEF n
  <1>3. 0 \in K
    <2> DEFINE f == [i \in 0..0 |-> Start(pairs)]
    <2>1. f = [i \in 0..0 |-> Step(f, i)]
      OBVIOUS
    <2> HIDE DEF f
    <2>2. QED BY <2>1
  <1>4. ASSUME NEW k \in Nat, k \in K PROVE k + 1 \in K
    <2>1. PICK f : Solves(f, k)
      BY <1>4
    <2> DEFINE g == [i \in 0..(k + 1) |-> IF i = k + 1 THEN NextTables(pairs, i, f[k]) ELSE f[i]]
    <2>2. \A i \in 0..k : g[i] = f[i] /\ f[i] = Step(f, i)
      <3>1. \A i \in 0..k : f[i] = Step(f, i)
        BY <2>1
      <3>2. \A i \in 0..k : g[i] = f[i]
        OBVIOUS
      <3>3. QED BY <3>1, <3>2
    <2>3. g[k + 1] = NextTables(pairs, k + 1, f[k])
      OBVIOUS
    <2>4. g = [i \in 0..(k + 1) |-> g[i]]
      OBVIOUS
    <2> HIDE DEF g
    <2>5. \A i \in 0..(k + 1) : g[i] = Step(g, i)
      <3>1. TAKE i \in 0..(k + 1)
      <3>2. CASE i = 0
        BY <2>2, <3>2
      <3>3. CASE i = k + 1
        <4>1. i - 1 = k /\ k \in 0..k /\ i # 0
          BY <3>3
        <4>2. g[i - 1] = f[k]
          BY <2>2, <4>1
        <4>3. QED BY <2>3, <3>3, <4>1, <4>2
      <3>4. CASE i # 0 /\ i # k + 1
        <4>1. i \in 0..k /\ i - 1 \in 0..k
          BY <3>4
        <4>2. g[i] = NextTables(pairs, i, f[i - 1]) /\ g[i - 1] = f[i - 1]
          BY <2>2, <3>4, <4>1
        <4>3. QED BY <3>4, <4>2
      <3>5. QED BY <3>2, <3>3, <3>4
    <2> HIDE DEF Step
    <2>6. g = [i \in 0..(k + 1) |-> Step(g, i)]
      BY <2>4, <2>5
    <2>7. QED BY <2>6
  <1>5. n \in K
    <2> HIDE DEF K
    <2>1. QED BY <1>1, <1>3, <1>4, Induction
  <1> DEFINE f == tables(pairs)
  <1>6. Solves(f, n)
    BY <1>2, <1>5
  <1> HIDE DEF f
  <1>7. \A i \in 0..n : f[i] = Step(f, i)
    <2> HIDE DEF Step
    <2>1. QED BY <1>6
  <1>8. f[0] = Start(pairs)
    BY <1>1, <1>7
  <1>9. \A i \in 1..n : f[i] = NextTables(pairs, i, f[i - 1])
    BY <1>1, <1>7
  <1>10. QED BY <1>1, <1>8, <1>9 DEF f

\* Once there is an error, it stays.
LEMMA ErrorStays ==
  ASSUME NEW t, "error" \in DOMAIN t, t.error, NEW D
  PROVE  "error" \in DOMAIN Merged(t, D) /\ Merged(t, D).error
  BY DEF Merged

\* What holds of the tables before the first pair and is kept by every merge
\* holds of them after each.
LEMMA StartFits ==
  ASSUME NEW pairs, ArePairs(pairs)
  PROVE  /\ Shape(pairs, Start(pairs)) /\ Classes(pairs, Start(pairs))
         /\ Renamed(Start(pairs)) = {}
         /\ Names(Start(pairs)) = {{d} : d \in Dapps(pairs)}
         /\ \A d \in Dapps(pairs) : \A c \in Creators(pairs) :
              c \in Start(pairs).creators[{d}] <=> d \in creator_to_dapp(pairs, c)
         /\ \A d \in Dapps(pairs) : Start(pairs).creators[{d}] \subseteq Creators(pairs)
  <1> DEFINE t == Start(pairs)
  <1>1. t.creators = dapp_to_creator(pairs) /\ t.error = FALSE /\ "error" \in DOMAIN t
        /\ Renamed(t) = {}
    BY DEF Start, Renamed
  <1>2. Names(t) = {{d} : d \in Dapps(pairs)}
    BY <1>1 DEF Names, dapp_to_creator
  <1>3. ASSUME NEW d \in Dapps(pairs), NEW c
        PROVE  c \in t.creators[{d}] <=> \E i \in DOMAIN pairs : pairs[i][1] = c /\ pairs[i][2] = d
    <2>1. {d} \in {{e} : e \in Dapps(pairs)}
      OBVIOUS
    <2>2. t.creators[{d}] = {pairs[i][1] : i \in {j \in DOMAIN pairs : {pairs[j][2]} = {d}}}
      BY <1>1, <2>1 DEF dapp_to_creator
    <2> HIDE DEF t
    <2>3. QED BY <2>2
  <1> HIDE DEF t
  <1>4. ASSUME NEW d \in Dapps(pairs), NEW c \in Creators(pairs)
        PROVE  c \in t.creators[{d}] <=> d \in creator_to_dapp(pairs, c)
    <2>1. d \in creator_to_dapp(pairs, c) <=> \E i \in DOMAIN pairs : pairs[i][1] = c /\ pairs[i][2] = d
      BY DEF creator_to_dapp
    <2>2. QED BY <1>3, <2>1
  <1>5. \A d \in Dapps(pairs) : t.creators[{d}] # {} /\ t.creators[{d}] \subseteq Creators(pairs)
    <2> SUFFICES ASSUME NEW d \in Dapps(pairs)
                 PROVE  t.creators[{d}] # {} /\ t.creators[{d}] \subseteq Creators(pairs)
      OBVIOUS
    <2> DEFINE own == t.creators[{d}]
    <2>1. \A c : c \in own <=> \E i \in DOMAIN pairs : pairs[i][1] = c /\ pairs[i][2] = d
      BY <1>3
    <2>2. PICK i \in DOMAIN pairs : pairs[i][2] = d
      BY DEF Dapps
    <2> HIDE DEF own
    <2>3. pairs[i][1] \in own
      BY <2>1, <2>2
    <2>4. own \subseteq Creators(pairs)
      BY <2>1 DEF Creators
    <2>5. QED BY <2>3, <2>4 DEF own
  <1>6. Shape(pairs, t)
    BY <1>1, <1>2, <1>5 DEF Shape
  <1>7. Classes(pairs, t)
    <2>1. \A a, b \in Names(t) : \A g \in a \intersect b : a = b
      BY <1>2
    <2>2. ASSUME NEW c \in Creators(pairs) PROVE \E name \in Names(t) : c \in t.creators[name]
      <3>1. PICK i \in DOMAIN pairs : c = pairs[i][1]
        BY DEF Creators
      <3>2. pairs[i][2] \in Dapps(pairs) /\ c \in t.creators[{pairs[i][2]}]
        BY <1>3, <3>1 DEF Dapps
      <3>3. QED BY <1>2, <3>2
    <2>3. ASSUME NEW i \in DOMAIN pairs, NEW name \in Names(t), pairs[i][1] \in t.creators[name]
          PROVE  name \subseteq Linked(pairs, pairs[i][2])
      <3>1. PICK d \in Dapps(pairs) : name = {d}
        BY <1>2
      <3>2. pairs[i][1] \in Creators(pairs)
        BY DEF Creators
      <3>3. d \in creator_to_dapp(pairs, pairs[i][1])
        BY <1>4, <2>3, <3>1, <3>2
      <3>4. Of(pairs, i) \in Sets(pairs) /\ pairs[i][2] \in Of(pairs, i)
        BY SetsFacts
      <3>5. Of(pairs, i) \subseteq Linked(pairs, pairs[i][2])
        BY <3>4, SetsAreLinked
      <3>6. QED BY <3>1, <3>3, <3>5 DEF Of
    <2>4. QED BY <1>1, <2>1, <2>2, <2>3 DEF Classes
  <1>8. QED BY <1>1, <1>2, <1>4, <1>5, <1>6, <1>7 DEF t

\* As long as there is no error, the names are in shape and in their classes.
LEMMA TablesFit ==
  ASSUME NEW pairs, ArePairs(pairs), NEW i \in 0..Len(pairs)
  PROVE  LET t == tables(pairs)[i]
         IN  "error" \in DOMAIN t /\ (~t.error => Shape(pairs, t) /\ Classes(pairs, t))
  <1> DEFINE n == Len(pairs)
             t(k) == tables(pairs)[k]
             Fits(u) == "error" \in DOMAIN u /\ (~u.error => Shape(pairs, u) /\ Classes(pairs, u))
             K == {k \in Nat : k <= n => Fits(t(k))}
  <1>1. n \in Nat /\ DOMAIN pairs = 1..n
    BY DEF ArePairs
  <1>2. 0 \in K
    <2>1. t(0) = Start(pairs)
      BY TablesAre
    <2>2. "error" \in DOMAIN Start(pairs)
      BY DEF Start
    <2>3. Fits(t(0))
      BY <2>1, <2>2, StartFits
    <2> HIDE DEF Fits, t, n
    <2>4. QED BY <2>3
  <1>3. ASSUME NEW k \in Nat, k \in K PROVE k + 1 \in K
    <2> SUFFICES ASSUME k + 1 <= n PROVE Fits(t(k + 1))
      OBVIOUS
    <2>1. k + 1 \in DOMAIN pairs /\ (k + 1) - 1 = k /\ k <= n
      BY <1>1
    <2>2. t(k + 1) = NextTables(pairs, k + 1, t(k))
      BY <2>1, TablesAre
    <2>3. Fits(t(k))
      BY <1>3, <2>1
    <2> DEFINE D == Of(pairs, k + 1)
               v == t(k)
    <2> HIDE DEF t, K, n
    <2>4. CASE ~FirstOfCreator(pairs, k + 1)
      BY <2>2, <2>3, <2>4 DEF NextTables
    <2>5. CASE FirstOfCreator(pairs, k + 1)
      <3>1. t(k + 1) = Merged(v, D)
        BY <2>2, <2>5 DEF NextTables
      <3>2. D \in Sets(pairs) /\ D \in SUBSET Dapps(pairs) /\ D # {}
        BY <2>1, SetsFacts
      <3> HIDE DEF D
      <3>3. CASE v.error
        <4>1. "error" \in DOMAIN v
          BY <2>3
        <4> HIDE DEF v
        <4>2. "error" \in DOMAIN Merged(v, D) /\ Merged(v, D).error
          BY <3>3, <4>1, ErrorStays
        <4>3. QED BY <3>1, <4>2
      <3>4. CASE ~v.error
        <4>1. Shape(pairs, v) /\ Classes(pairs, v) /\ "error" \in DOMAIN v
          BY <2>3, <3>4
        <4> HIDE DEF v
        <4>2. CASE Fails(v, D)
          <5>1. Merged(v, D).error
            BY <3>2, <4>1, <4>2, MergedIs
          <5>2. "error" \in DOMAIN Merged(v, D)
            <6>1. Merged(v, D) = [v EXCEPT !.error = TRUE]
              BY <4>2 DEF Merged, Fails, Old, Renamed, Names
            <6>2. QED BY <4>1, <6>1
          <5>3. QED BY <3>1, <5>1, <5>2
        <4>3. CASE ~Fails(v, D)
          <5>1. Shape(pairs, Merged(v, D)) /\ Classes(pairs, Merged(v, D))
            BY <3>2, <4>1, <4>3, ShapeKept, ClassesKept
          <5>2. "error" \in DOMAIN Merged(v, D)
            BY <5>1 DEF Shape
          <5>3. QED BY <3>1, <5>1, <5>2
        <4>4. QED BY <4>2, <4>3
      <3>5. QED BY <3>3, <3>4
    <2>6. QED BY <2>4, <2>5
  <1>4. Nat \subseteq K
    <2> HIDE DEF K
    <2>1. QED BY <1>2, <1>3, Induction
  <1>5. i \in K /\ i <= n
    BY <1>1, <1>4
  <1> HIDE DEF t, Fits, n
  <1>6. Fits(t(i))
    BY <1>5
  <1>7. QED BY <1>6 DEF Fits, t

\* The tables after the last pair
Final(pairs) == tables(pairs)[Len(pairs)]

\* The rows are what the tables say.
LEMMA RowsAre ==
  ASSUME NEW pairs, NEW c
  PROVE  /\ unique_dapp_information(pairs).error = Final(pairs).error
         /\ \A r : (r \in unique_dapp_information(pairs).rows /\ r[1] = c) <=>
                     \E name \in Names(Final(pairs)) :
                        c \in Final(pairs).creators[name] /\ r = <<c, name>>
  <1> DEFINE last == Final(pairs)
             rows == UNION {last.creators[name] \X {name} : name \in Names(last)}
  <1>1. unique_dapp_information(pairs) = [error |-> last.error, rows |-> rows]
    BY DEF unique_dapp_information, Names, Final
  <1> HIDE DEF last
  <1>2. ASSUME NEW r
        PROVE  (r \in rows /\ r[1] = c) <=>
                 \E name \in Names(last) : c \in last.creators[name] /\ r = <<c, name>>
    <2>1. r \in rows <=> \E name \in Names(last) : \E x \in last.creators[name] : r = <<x, name>>
      OBVIOUS
    <2> HIDE DEF rows
    <2>2. QED BY <2>1
  <1> HIDE DEF rows
  <1>3. QED BY <1>1, <1>2 DEF last

\* Whatever is linked, no creator is lost, and none gets a DApp it has no link to.
LEMMA NoneIsLost ==
  ASSUME NEW pairs, ArePairs(pairs), ~unique_dapp_information(pairs).error,
         NEW i \in DOMAIN pairs
  PROVE  LET rows == {r \in unique_dapp_information(pairs).rows : r[1] = pairs[i][1]}
         IN  rows # {} /\ \A r \in rows : r[2] \subseteq Linked(pairs, pairs[i][2])
  <1> DEFINE c == pairs[i][1]
             last == Final(pairs)
             all == unique_dapp_information(pairs).rows
  <1>1. ~last.error /\ \A r : (r \in all /\ r[1] = c) <=>
                         \E name \in Names(last) : c \in last.creators[name] /\ r = <<c, name>>
    <2>1. /\ unique_dapp_information(pairs).error = last.error
          /\ \A r : (r \in all /\ r[1] = c) <=>
                      \E name \in Names(last) : c \in last.creators[name] /\ r = <<c, name>>
      BY RowsAre
    <2> HIDE DEF last, all, c
    <2>2. QED BY <2>1
  <1>2. Classes(pairs, last)
    <2>1. Len(pairs) \in 0..Len(pairs)
      BY DEF ArePairs
    <2>2. QED BY <1>1, <2>1, TablesFit DEF Final
  <1> HIDE DEF last, all
  <1>3. \E name \in Names(last) : c \in last.creators[name]
    BY <1>2 DEF Classes, Creators
  <1>4. \A name \in Names(last) : c \in last.creators[name] => name \subseteq Linked(pairs, pairs[i][2])
    BY <1>2 DEF Classes
  <1> DEFINE rows == {r \in all : r[1] = c}
  <1> HIDE DEF c
  <1>5. rows # {}
    <2>1. PICK name \in Names(last) : c \in last.creators[name]
      BY <1>3
    <2>2. <<c, name>> \in all /\ <<c, name>>[1] = c
      BY <1>1, <2>1
    <2>3. QED BY <2>2
  <1>6. \A r \in rows : r[2] \subseteq Linked(pairs, pairs[i][2])
    <2> SUFFICES ASSUME NEW r \in rows PROVE r[2] \subseteq Linked(pairs, pairs[i][2])
      OBVIOUS
    <2>1. PICK name \in Names(last) : c \in last.creators[name] /\ r = <<c, name>>
      BY <1>1
    <2>2. r[2] = name
      BY <2>1
    <2>3. QED BY <1>4, <2>1, <2>2
  <1>7. QED BY <1>5, <1>6 DEF c, all

-----------------------------------------------------------------------------
(* Creators of several DApps that have all of them in common, or none       *)

\* The sets of several DApps that have a creator in common, and that no two of
\* them overlap
Several(pairs) == {s \in Sets(pairs) : Cardinality(s) > 1}

Apart(pairs) == \A s, t \in Several(pairs) : s = t \/ s \intersect t = {}

\* Those of them that the first i pairs have brought up
Done(pairs, i) == {s \in Several(pairs) : \E j \in 1..i : Of(pairs, j) = s}

\* The tables once the sets in done are merged
Form(pairs, t, done) ==
  /\ Renamed(t) = UNION done
  /\ \A s \in done : \A d \in s : t.new_name[d] = s
  /\ Names(t) = done \union {{d} : d \in Dapps(pairs) \ UNION done}
  /\ \A name \in Names(t) : \A c \in Creators(pairs) :
       c \in t.creators[name] <=> creator_to_dapp(pairs, c) \intersect name # {}

\* A creator of several DApps is one whose DApps are not a single one.
LEMMA SeveralAre ==
  ASSUME NEW pairs, ArePairs(pairs), NEW D \in Sets(pairs)
  PROVE  D \in Several(pairs) <=> ~\E e : D = {e}
  <1>1. IsFiniteSet(D) /\ D # {}
    BY SetsFacts, FS_Subset
  <1> DEFINE n == Cardinality(D)
  <1>2. n \in Nat /\ n # 0
    BY <1>1, FS_CardinalityType, FS_EmptySet
  <1>3. n = 1 <=> \E e : D = {e}
    BY <1>1, FS_Singleton
  <1>4. D \in Several(pairs) <=> n > 1
    BY DEF Several
  <1> HIDE DEF n
  <1>5. n > 1 <=> n # 1
    BY <1>2
  <1>6. QED BY <1>3, <1>4, <1>5

\* One more creator
LEMMA FormKept ==
  ASSUME NEW pairs, ArePairs(pairs), Apart(pairs), NEW done \in SUBSET Several(pairs),
         NEW t, Shape(pairs, t), Form(pairs, t, done), NEW D \in Sets(pairs)
  PROVE  /\ ~Fails(t, D)
         /\ Form(pairs, Merged(t, D), done \union ({D} \intersect Several(pairs)))
  <1> DEFINE u == Merged(t, D)
             all == All(t, D)
             old == Old(t, D)
             N == Names(t)
             G == Gone(t, D)
             R == Renamed(t)
             U == Fresh(t, D)
             A == Dapps(pairs)
             Of_(c) == creator_to_dapp(pairs, c)
             C == Creators(pairs)
             One == \E d : all = {d}
             new == done \union ({D} \intersect Several(pairs))
  <1>0. D \in SUBSET A /\ D # {} /\ (D \in Several(pairs) <=> ~\E e : D = {e})
    BY SetsFacts, SeveralAre
  <1>1. /\ R = UNION done
        /\ \A s \in done : \A d \in s : t.new_name[d] = s
        /\ N = done \union {{d} : d \in A \ R}
        /\ \A name \in N : \A c \in C : c \in t.creators[name] <=> Of_(c) \intersect name # {}
    BY DEF Form
  <1>2. ~Fails(t, D) =>
          /\ Renamed(u) = R \union IF One THEN {} ELSE U
          /\ \A d \in R : u.new_name[d] = t.new_name[d]
          /\ \A d \in Renamed(u) \ R : u.new_name[d] = all
          /\ Names(u) = (N \ G) \union {all}
          /\ u.creators[all] = UNION {t.creators[name] : name \in N \intersect G}
          /\ \A name \in Names(u) \ {all} : u.creators[name] = t.creators[name]
    BY <1>0, MergedIs, Zenon
  <1>3. \A s \in done : s \in Several(pairs) /\ s \in Sets(pairs) /\ s # {} /\ ~\E e : s = {e}
    <2> SUFFICES ASSUME NEW s \in done
                 PROVE  s \in Several(pairs) /\ s \in Sets(pairs) /\ s # {} /\ ~\E e : s = {e}
      OBVIOUS
    <2>1. s \in Several(pairs) /\ s \in Sets(pairs)
      BY DEF Several
    <2>2. QED BY <2>1, SetsFacts, SeveralAre
  <1>4. CASE D \intersect R # {}
    <2> DEFINE m == Min(D \intersect R)
    <2>1. m \in D /\ m \in R /\ old = t.new_name[m]
      <3>1. D \intersect R \in SUBSET Nat
        BY <1>0, SetsFacts
      <3>2. m \in D \intersect R
        <4> HIDE DEF R
        <4>1. QED BY <1>4, <3>1, Least
      <3>3. QED BY <1>4, <3>2 DEF Old
    <2> HIDE DEF m, old, R
    <2>2. PICK s \in done : m \in s
      BY <1>1, <2>1
    <2>3. old = s
      BY <1>1, <2>1, <2>2
    <2>4. s \in N /\ s \subseteq R
      BY <1>1
    <2>5. ~Fails(t, D)
      BY <2>3, <2>4 DEF Fails, old
    <2>6. D \subseteq s
      <3>1. CASE D \in Several(pairs)
        BY <1>3, <2>1, <2>2, <3>1 DEF Apart
      <3>2. CASE D \notin Several(pairs)
        BY <1>0, <2>1, <2>2, <3>2
      <3>3. QED BY <3>1, <3>2
    <2>7. all = s
      BY <2>3, <2>6 DEF All, old
    <2>8. U = {}
      <3> HIDE DEF all
      <3>1. QED BY <2>4, <2>7 DEF Fresh, all, R
    <2>9. G = {s}
      <3> HIDE DEF U
      <3>1. QED BY <2>3, <2>8 DEF Gone, old, U
    <2>10. new = done
      <3>1. D \in Several(pairs) => D = s
        BY <1>3, <2>1, <2>2 DEF Apart
      <3>2. QED BY <3>1
    <2> HIDE DEF u, all, N, G, U, Of_, C
    <2>11. Renamed(u) = R /\ Names(u) = N /\ \A d \in R : u.new_name[d] = t.new_name[d]
      <3>1. Renamed(u) = R
        BY SMTT(20), <1>2, <2>5, <2>8
      <3>2. Names(u) = N
        BY <1>2, <2>4, <2>5, <2>7, <2>9
      <3>3. QED BY <1>2, <2>5, <3>1, <3>2
    <2>12. \A name \in N : \A c : c \in u.creators[name] <=> c \in t.creators[name]
      <3>1. N \intersect G = {s}
        BY <2>4, <2>9
      <3>2. u.creators[s] = UNION {t.creators[name] : name \in {s}}
        BY <1>2, <2>5, <2>7, <3>1
      <3>3. \A c : c \in u.creators[s] <=> c \in t.creators[s]
        BY <3>2
      <3>4. \A name \in N : name # s => u.creators[name] = t.creators[name]
        BY <1>2, <2>5, <2>7, <2>11
      <3>5. QED BY <3>3, <3>4
    <2>13. /\ Renamed(u) = UNION done
           /\ \A x \in done : \A d \in x : u.new_name[d] = x
           /\ Names(u) = done \union {{d} : d \in A \ UNION done}
           /\ \A name \in Names(u) : \A c \in C :
                c \in u.creators[name] <=> Of_(c) \intersect name # {}
      <3>1. \A x \in done : \A d \in x : d \in R
        BY <1>1
      <3>2. Renamed(u) = UNION done /\ \A x \in done : \A d \in x : u.new_name[d] = x
        BY <1>1, <2>11, <3>1
      <3>3. Names(u) = done \union {{d} : d \in A \ UNION done}
        BY <1>1, <2>11
      <3>4. \A name \in Names(u) : \A c \in C : c \in u.creators[name] <=> Of_(c) \intersect name # {}
        BY <1>1, <2>11, <2>12
      <3>5. QED BY <3>2, <3>3, <3>4
    <2> HIDE DEF new
    <2>14. Form(pairs, u, new)
      BY <2>10, <2>13 DEF Form, A, C, Of_
    <2>15. QED BY <2>5, <2>14 DEF u, new
  <1>5. CASE D \intersect R = {}
    <2>1. ~Fails(t, D)
      BY <1>5 DEF Fails
    <2>2. old = {} /\ all = D /\ U = D
      BY <1>0, <1>5, <2>1, OldFacts
    <2>3. G = {{}} \union {{d} : d \in D}
      <3> HIDE DEF U, old
      <3>1. QED BY <2>2 DEF Gone, U, old
    <2>4. \A d \in D : d \in A \ R /\ {d} \in N
      <3>1. \A d \in D : d \in A \ R
        BY <1>0, <1>5
      <3> HIDE DEF R, A
      <3>2. QED BY <1>1, <3>1
    <2>5. {} \notin N
      <3> HIDE DEF N
      <3>1. QED BY DEF Shape, N
    <2>6. N \intersect G = {{d} : d \in D}
      <3> DEFINE none == {}
                 ones == {{d} : d \in D}
      <3>1. none \notin N /\ G = {none} \union ones /\ ones \subseteq N
        BY <2>3, <2>4, <2>5
      <3> HIDE DEF none, ones, N, G
      <3>2. N \intersect G = ones
        BY <3>1
      <3>3. QED BY <3>2 DEF ones
    <2>7. \A c \in C : c \in u.creators[D] <=> Of_(c) \intersect D # {}
      <3>1. u.creators[D] = UNION {t.creators[name] : name \in {{d} : d \in D}}
        <4> HIDE DEF u, all, N, G
        <4>1. QED BY <1>2, <2>1, <2>2, <2>6
      <3>2. ASSUME NEW c \in C PROVE c \in u.creators[D] <=> \E d \in D : c \in t.creators[{d}]
        <4> HIDE DEF u
        <4>1. QED BY <3>1
      <3>3. ASSUME NEW c \in C, NEW d \in D PROVE c \in t.creators[{d}] <=> d \in Of_(c)
        <4>1. c \in t.creators[{d}] <=> Of_(c) \intersect {d} # {}
          <5> HIDE DEF N, C, Of_
          <5>1. QED BY <1>1, <2>4
        <4> HIDE DEF Of_
        <4>2. QED BY <4>1
      <3> HIDE DEF u, Of_, C
      <3>4. QED BY <3>2, <3>3
    <2>8. CASE \E e : D = {e}
      <3>1. PICK e : D = {e}
        BY <2>8
      <3>2. new = done
        BY <1>0, <2>8
      <3>3. (N \ G) \union {all} = N /\ D \in N
        <4>1. All(t, D) = {e}
          BY <2>2, <3>1
        <4>2. {e} \in Names(t) /\ (Names(t) \ Gone(t, D)) \union {All(t, D)} = Names(t)
          BY <1>0, <2>1, <4>1, AllIsOne
        <4>3. QED BY <3>1, <4>2
      <3> HIDE DEF u, all, N, G, U, R, A, C, Of_
      <3>4. Renamed(u) = R /\ Names(u) = N /\ \A d \in R : u.new_name[d] = t.new_name[d]
        BY <1>2, <2>1, <2>2, <2>8, <3>3
      <3>5. \A name \in N : \A c \in C : c \in u.creators[name] <=> Of_(c) \intersect name # {}
        <4>1. \A name \in N : name # D => u.creators[name] = t.creators[name]
          BY <1>2, <2>1, <2>2, <3>4
        <4>2. QED BY <1>1, <2>7, <4>1
      <3>6. \A x \in done : \A d \in x : d \in R
        BY <1>1
      <3>7. \A x \in done : \A d \in x : u.new_name[d] = x
        BY <1>1, <3>4, <3>6
      <3> HIDE DEF new
      <3>8. Form(pairs, u, new)
        BY <1>1, <3>2, <3>4, <3>5, <3>7 DEF Form, A, C, Of_
      <3>9. QED BY <2>1, <3>8 DEF u, new
    <2>9. CASE ~\E e : D = {e}
      <3>1. new = done \union {D}
        BY <1>0, <2>9
      <3> HIDE DEF u, all, U, A, C, Of_
      <3>2. Renamed(u) = R \union D
        BY <1>2, <2>1, <2>2, <2>9
      <3>3. UNION new = R \union D
        <4> HIDE DEF new, R
        <4>1. QED BY <1>1, <3>1
      <3>4. \A s \in new : \A d \in s : u.new_name[d] = s
        <4>1. ASSUME NEW s \in done, NEW d \in s PROVE u.new_name[d] = s
          <5>1. d \in R
            BY <1>1
          <5> HIDE DEF R
          <5>2. QED BY <1>1, <1>2, <2>1, <5>1
        <4>2. ASSUME NEW d \in D PROVE u.new_name[d] = D
          <5>1. d \in Renamed(u) \ R
            BY <1>5, <3>2
          <5> HIDE DEF R
          <5>2. QED BY <1>2, <2>1, <2>2, <5>1
        <4> HIDE DEF new
        <4>3. QED BY <3>1, <4>1, <4>2
      <3>5. Names(u) = (N \ G) \union {D}
        BY <1>2, <2>1, <2>2
      <3>6. N \ G = done \union {{d} : d \in A \ (R \union D)}
        <4>1. ASSUME NEW name \in done PROVE name \in N \ G
          <5>1. name \in N /\ name # {} /\ ~\E d : name = {d}
            BY <1>1, <1>3
          <5> HIDE DEF N, G
          <5>2. QED BY <2>3, <5>1
        <4>2. ASSUME NEW d \in A \ (R \union D) PROVE {d} \in N \ G
          <5>1. {d} \in N
            BY <1>1
          <5>2. {d} \notin G
            <6> HIDE DEF G
            <6>1. QED BY <2>3
          <5>3. QED BY <5>1, <5>2
        <4>3. ASSUME NEW name \in N \ G PROVE name \in done \/ \E d \in A \ (R \union D) : name = {d}
          <5>1. name \in done \/ \E d \in A \ R : name = {d}
            BY <1>1
          <5>2. \A d \in D : name # {d}
            <6> HIDE DEF G, N
            <6>1. QED BY <2>3
          <5> HIDE DEF R, N, G
          <5>3. QED BY <5>1, <5>2
        <4> DEFINE rest == {{d} : d \in A \ (R \union D)}
                   left == N \ G
        <4>4. \A name : name \in rest <=> \E d \in A \ (R \union D) : name = {d}
          OBVIOUS
        <4> HIDE DEF rest, left
        <4>5. left = done \union rest
          <5>1. \A d \in A \ (R \union D) : {d} \in left
            BY <4>2 DEF left
          <5>2. \A name \in done : name \in left
            BY <4>1 DEF left
          <5>3. \A name \in left : name \in done \/ \E d \in A \ (R \union D) : name = {d}
            BY <4>3 DEF left
          <5> HIDE DEF R
          <5>4. QED BY <4>4, <5>1, <5>2, <5>3
        <4>6. QED BY <4>5 DEF rest, left
      <3>7. Names(u) = new \union {{d} : d \in A \ UNION new}
        <4> DEFINE rest == {{d} : d \in A \ (R \union D)}
        <4>1. rest = {{d} : d \in A \ UNION new}
          BY <3>3
        <4>2. N \ G = done \union rest
          BY <3>6
        <4> HIDE DEF rest, new, N, G
        <4>3. Names(u) = new \union rest
          BY <3>1, <3>5, <4>2
        <4>4. QED BY <4>1, <4>3
      <3>8. ASSUME NEW name \in Names(u), NEW c \in C
            PROVE  c \in u.creators[name] <=> Of_(c) \intersect name # {}
        <4>1. CASE name = D
          BY <2>7, <4>1
        <4>2. CASE name # D
          <5>1. name \in N
            BY <3>5, <4>2
          <5>2. u.creators[name] = t.creators[name]
            <6> HIDE DEF N, G
            <6>1. QED BY <1>2, <2>1, <2>2, <4>2
          <5> HIDE DEF N
          <5>3. QED BY <1>1, <5>1, <5>2
        <4>3. QED BY <4>1, <4>2
      <3>9. Renamed(u) = UNION new
        BY <3>2, <3>3
      <3> HIDE DEF new
      <3>10. Form(pairs, u, new)
        BY <3>4, <3>7, <3>8, <3>9 DEF Form, A, C, Of_
      <3>11. QED BY <2>1, <3>10 DEF u, new
    <2>10. QED BY <2>8, <2>9
  <1>6. QED BY <1>4, <1>5

\* With such creators the tables are known after every pair.
LEMMA TablesKnown ==
  ASSUME NEW pairs, ArePairs(pairs), Apart(pairs), NEW i \in 0..Len(pairs)
  PROVE  Shape(pairs, tables(pairs)[i]) /\ Form(pairs, tables(pairs)[i], Done(pairs, i))
  <1> DEFINE n == Len(pairs)
             t(k) == tables(pairs)[k]
             Known(k) == Shape(pairs, t(k)) /\ Form(pairs, t(k), Done(pairs, k))
             K == {k \in Nat : k <= n => Known(k)}
  <1>1. n \in Nat /\ DOMAIN pairs = 1..n
    BY DEF ArePairs
  <1>2. 0 \in K
    <2>1. t(0) = Start(pairs)
      BY TablesAre
    <2>2. Done(pairs, 0) = {}
      BY DEF Done
    <2>3. Form(pairs, Start(pairs), {})
      <3> DEFINE v == Start(pairs)
      <3>1. Renamed(v) = {} /\ Names(v) = {{d} : d \in Dapps(pairs)}
        BY StartFits
      <3>2. ASSUME NEW d \in Dapps(pairs), NEW c \in Creators(pairs)
            PROVE  c \in v.creators[{d}] <=> creator_to_dapp(pairs, c) \intersect {d} # {}
        <4>1. c \in v.creators[{d}] <=> d \in creator_to_dapp(pairs, c)
          BY StartFits
        <4> HIDE DEF v
        <4>2. QED BY <4>1
      <3> HIDE DEF v
      <3>3. \A name \in Names(v) : \A c \in Creators(pairs) :
              c \in v.creators[name] <=> creator_to_dapp(pairs, c) \intersect name # {}
        BY <3>1, <3>2
      <3>4. UNION {} = {}
        OBVIOUS
      <3>5. Names(v) = {} \union {{d} : d \in Dapps(pairs) \ UNION {}}
        <4> DEFINE D1 == {{d} : d \in Dapps(pairs)}
                   D2 == {{d} : d \in Dapps(pairs) \ UNION {}}
        <4>1. D1 = D2
          BY <3>4
        <4>2. Names(v) = D1
          BY <3>1
        <4> HIDE DEF D1, D2
        <4>3. Names(v) = {} \union D2
          BY <4>1, <4>2
        <4>4. QED BY <4>3 DEF D2
      <3>6. QED BY <3>1, <3>3, <3>4, <3>5 DEF Form, v
    <2>4. Known(0)
      BY <2>1, <2>2, <2>3, StartFits
    <2> HIDE DEF Known, n
    <2>5. QED BY <2>4
  <1>3. ASSUME NEW k \in Nat, k \in K PROVE k + 1 \in K
    <2> SUFFICES ASSUME k + 1 <= n PROVE Known(k + 1)
      OBVIOUS
    <2>1. k + 1 \in DOMAIN pairs /\ (k + 1) - 1 = k /\ k <= n
      BY <1>1
    <2>2. t(k + 1) = NextTables(pairs, k + 1, t(k))
      BY <2>1, TablesAre
    <2>3. Shape(pairs, t(k)) /\ Form(pairs, t(k), Done(pairs, k))
      BY <1>3, <2>1
    <2> DEFINE D == Of(pairs, k + 1)
               v == t(k)
               done == Done(pairs, k)
    <2>4. Done(pairs, k + 1) = done \union ({D} \intersect Several(pairs))
      <3>1. ASSUME NEW s
            PROVE  s \in Done(pairs, k + 1) <=> s \in Several(pairs) /\ (s = D \/ \E j \in 1..k : Of(pairs, j) = s)
        <4>1. \A j : j \in 1..(k + 1) <=> j \in 1..k \/ j = k + 1
          OBVIOUS
        <4>2. s \in Done(pairs, k + 1) <=> s \in Several(pairs) /\ \E j \in 1..(k + 1) : Of(pairs, j) = s
          <5>1. s \in Several(pairs) => s \in Sets(pairs)
            BY DEF Several
          <5>2. QED BY <5>1 DEF Done
        <4>3. QED BY <4>1, <4>2
      <3>2. \A s : s \in done <=> s \in Several(pairs) /\ \E j \in 1..k : Of(pairs, j) = s
        BY DEF Done
      <3> HIDE DEF done, D
      <3>3. QED BY <3>1, <3>2
    <2>5. D \in Sets(pairs) /\ D \in SUBSET Dapps(pairs) /\ D # {}
      BY <2>1, SetsFacts
    <2>6. done \in SUBSET Several(pairs)
      BY DEF Done
    <2> HIDE DEF t, K, n
    <2>7. CASE ~FirstOfCreator(pairs, k + 1)
      <3>1. \E j \in 1..k : pairs[j][1] = pairs[k + 1][1]
        BY <2>1, <2>7 DEF FirstOfCreator
      <3>2. \E j \in 1..k : Of(pairs, j) = D
        BY <3>1 DEF Of
      <3>3. D \in Several(pairs) => D \in done
        BY <3>2 DEF Done, Several
      <3> HIDE DEF done, D
      <3>4. Done(pairs, k + 1) = done
        BY <2>4, <3>3
      <3>5. t(k + 1) = t(k)
        BY <2>2, <2>7 DEF NextTables
      <3>6. QED BY <2>3, <3>4, <3>5 DEF done
    <2>8. CASE FirstOfCreator(pairs, k + 1)
      <3>1. t(k + 1) = Merged(v, D)
        BY <2>2, <2>8 DEF NextTables
      <3> HIDE DEF done, D, v
      <3>2. Shape(pairs, v) /\ Form(pairs, v, done)
        BY <2>3 DEF v, done
      <3>3. ~Fails(v, D) /\ Form(pairs, Merged(v, D), done \union ({D} \intersect Several(pairs)))
        BY <2>5, <2>6, <3>2, FormKept
      <3>4. Shape(pairs, Merged(v, D))
        BY <2>5, <3>2, <3>3, ShapeKept
      <3>5. QED BY <2>4, <3>1, <3>3, <3>4
    <2>9. QED BY <2>7, <2>8
  <1>4. Nat \subseteq K
    <2> HIDE DEF K
    <2>1. QED BY <1>2, <1>3, Induction
  <1>5. i \in K /\ i <= n
    BY <1>1, <1>4
  <1> HIDE DEF Known, n
  <1>6. Known(i)
    BY <1>5
  <1>7. QED BY <1>6 DEF Known

\* Each creator has one name, of all DApps that are linked to its own.
LEMMA NamedAsLinked ==
  ASSUME NEW pairs, ArePairs(pairs), Apart(pairs)
  PROVE  /\ ~unique_dapp_information(pairs).error
         /\ \A i \in DOMAIN pairs :
              {r \in unique_dapp_information(pairs).rows : r[1] = pairs[i][1]}
                = {<<pairs[i][1], Linked(pairs, pairs[i][2])>>}
  <1> DEFINE last == Final(pairs)
             N == Names(last)
             S == Several(pairs)
             A == Dapps(pairs)
  <1>1. Shape(pairs, last) /\ Form(pairs, last, Done(pairs, Len(pairs)))
    <2>1. Len(pairs) \in 0..Len(pairs)
      BY DEF ArePairs
    <2>2. QED BY <2>1, TablesKnown DEF Final
  <1>2. Done(pairs, Len(pairs)) = S
    <2>1. \A s \in S : \E j \in 1..Len(pairs) : Of(pairs, j) = s
      BY DEF Several, Sets, Creators, Of, ArePairs
    <2>2. QED BY <2>1 DEF Done
  <1>3. N = S \union {{d} : d \in A \ UNION S}
        /\ \A name \in N : \A c \in Creators(pairs) :
             c \in last.creators[name] <=> creator_to_dapp(pairs, c) \intersect name # {}
    <2> HIDE DEF last
    <2>1. QED BY <1>1, <1>2 DEF Form
  <1>4. ~unique_dapp_information(pairs).error
    <2>1. last.error = FALSE
      <3> HIDE DEF last
      <3>1. QED BY <1>1 DEF Shape
    <2>2. unique_dapp_information(pairs).error = last.error
      BY RowsAre
    <2>3. QED BY <2>1, <2>2
  <1>5. ASSUME NEW i \in DOMAIN pairs
        PROVE  {r \in unique_dapp_information(pairs).rows : r[1] = pairs[i][1]}
                 = {<<pairs[i][1], Linked(pairs, pairs[i][2])>>}
    <2> DEFINE c == pairs[i][1]
               d == pairs[i][2]
               O == Of(pairs, i)
               L == Linked(pairs, d)
    <2>1. c \in Creators(pairs) /\ O \in Sets(pairs) /\ d \in O /\ d \in A /\ O \subseteq A
      BY SetsFacts
    <2>2. \A s \in Sets(pairs) : s \in S \/ \E e : s = {e}
      BY SeveralAre
    <2>3. \A s, u \in S : s = u \/ s \intersect u = {}
      BY DEF Apart
    <2>4. PICK own \in N : d \in own /\ (own \in S \/ (own = {d} /\ d \notin UNION S))
      <3> HIDE DEF N, d, S, A
      <3>1. CASE d \in UNION S
        <4>1. PICK s \in S : d \in s
          BY <3>1
        <4> DEFINE ones == {{x} : x \in A \ UNION S}
        <4>2. N = S \union ones
          BY <1>3
        <4> HIDE DEF ones
        <4>3. s \in N
          BY <4>2
        <4>4. QED BY <4>1, <4>3
      <3>2. CASE d \notin UNION S
        <4>1. {d} \in N
          BY <1>3, <2>1, <3>2
        <4>2. d \in {d}
          OBVIOUS
        <4>3. QED BY <3>2, <4>1, <4>2
      <3>3. QED BY <3>1, <3>2
    <2>5. ASSUME NEW s \in Sets(pairs), s \intersect own # {} PROVE s \subseteq own
      <3>1. CASE \E e : s = {e}
        BY <2>5, <3>1
      <3>2. CASE s \in S
        <4> HIDE DEF S, N, d, A
        <4>1. CASE own \in S
          BY <2>3, <2>5, <3>2, <4>1
        <4>2. CASE own = {d} /\ d \notin UNION S
          BY <2>5, <3>2, <4>2
        <4>3. QED BY <2>4, <4>1, <4>2
      <3>3. QED BY <2>2, <3>1, <3>2
    <2>6. own \subseteq A
      <3>1. \A s \in S : s \subseteq A
        BY SetsFacts DEF Several
      <3> HIDE DEF S, A, d
      <3>2. QED BY <2>1, <2>4, <3>1
    <2>7. own = L
      <3>1. L \subseteq own
        <4>1. Together(pairs, own)
          BY <2>5 DEF Together
        <4>2. QED BY <2>1, <2>4, <2>6, <4>1, LinkedFacts
      <3>2. own \subseteq L
        <4>1. CASE own \in S
          <5>1. own \in Sets(pairs)
            BY <4>1 DEF Several
          <5>2. QED BY <2>4, <5>1, SetsAreLinked
        <4>2. CASE own = {d}
          BY <2>1, <4>2, LinkedFacts
        <4>3. QED BY <2>4, <4>1, <4>2
      <3>3. QED BY <3>1, <3>2
    <2>8. \A name \in N : c \in last.creators[name] <=> O \intersect name # {}
      <3> HIDE DEF N, last
      <3>1. QED BY <1>3, <2>1 DEF Of
    <2>9. O \subseteq own
      BY <2>1, <2>4, <2>5
    <2>10. ASSUME NEW name \in N, NEW e \in name, e \in own PROVE name = own
      <3> HIDE DEF N, d, S, A
      <3>1. CASE name \in S
        <4>1. CASE own \in S
          BY <2>3, <2>10, <3>1, <4>1
        <4>2. CASE own = {d} /\ d \notin UNION S
          BY <2>10, <3>1, <4>2
        <4>3. QED BY <2>4, <4>1, <4>2
      <3>2. ASSUME NEW x \in A \ UNION S, name = {x} PROVE name = own
        BY <2>4, <2>10, <3>2
      <3>3. QED BY <1>3, <3>1, <3>2
    <2>11. \A name \in N : c \in last.creators[name] <=> name = own
      <3> HIDE DEF N, last, c, d, O
      <3>1. QED BY <2>1, <2>4, <2>8, <2>9, <2>10
    <2> DEFINE all == unique_dapp_information(pairs).rows
               rows == {r \in all : r[1] = c}
    <2>12. \A r : (r \in all /\ r[1] = c) <=>
                    \E name \in N : c \in last.creators[name] /\ r = <<c, name>>
      BY RowsAre
    <2>13. \A r : (r \in all /\ r[1] = c) <=> r = <<c, own>>
      <3> HIDE DEF N, last, c, all
      <3>1. QED BY <2>4, <2>11, <2>12
    <2> HIDE DEF all, c, L, d, N
    <2>14. rows = {<<c, own>>}
      BY <2>13
    <2>15. QED BY <2>7, <2>14 DEF rows, all, c, d, L
  <1>6. QED BY <1>4, <1>5

\* What is written for a creator, whatever lists and creations there are
LEMMA CreatorsNamed == ASSUME NEW pairs, ArePairs(pairs) PROVE CreatorsAreNamed(pairs)
  <1>1. (\A s, t \in {s \in Sets(pairs) : Cardinality(s) > 1} : s = t \/ s \intersect t = {})
          => Apart(pairs)
    BY DEF Apart, Several
  <1>2. Apart(pairs) => /\ ~unique_dapp_information(pairs).error
                        /\ \A i \in DOMAIN pairs :
                             {r \in unique_dapp_information(pairs).rows : r[1] = pairs[i][1]}
                               = {<<pairs[i][1], Linked(pairs, pairs[i][2])>>}
    BY NamedAsLinked
  <1>3. ~unique_dapp_information(pairs).error =>
          \A i \in DOMAIN pairs :
            /\ {r \in unique_dapp_information(pairs).rows : r[1] = pairs[i][1]} # {}
            /\ \A r \in {r \in unique_dapp_information(pairs).rows : r[1] = pairs[i][1]} :
                 r[2] \subseteq Linked(pairs, pairs[i][2])
    BY NoneIsLost
  <1>4. QED BY <1>1, <1>2, <1>3 DEF CreatorsAreNamed

\* The account found for a contract is the one at the top of its creations, or
\* the contract itself after a failed lookup.
LEMMA CreatorsFound ==
  ASSUME NEW lists, NEW created_by, NEW unknown, \A l \in lists : l = <<l[1], l[2]>>
  PROVE  CreatorsAreFound(lists, created_by, unknown)
  <1> SUFFICES ASSUME NEW r \in collected(lists, created_by, unknown)
               PROVE  r[1] \notin DOMAIN created_by \/ (unknown # {} /\ r \in lists)
    BY DEF CreatorsAreFound
  <1>1. PICK l \in lists : r \in Walk(created_by, unknown, l[1]) \X {l[2]}
    BY ZenonT(20) DEF collected
  <1>2. PICK a \in Walk(created_by, unknown, l[1]) : r = <<a, l[2]>>
    BY <1>1, SMTT(20)
  <1> DEFINE address == l[1]
             After(up) == [i \in 0..5 |->
               IF i = 0 THEN address
               ELSE IF up[i - 1] \in DOMAIN created_by THEN created_by[up[i - 1]] ELSE up[i - 1]]
             up == CHOOSE up : up = After(up)
             end == {i \in 0..4 : up[i] \in unknown \/ up[i + 1] \notin DOMAIN created_by}
  <1>3. Walk(created_by, unknown, address) =
          IF end = {} THEN {}
          ELSE IF up[Min(end)] \in unknown THEN {address} ELSE {up[Min(end) + 1]}
    BY DEF Walk
  <1> HIDE DEF up
  <1>4. end \in SUBSET Nat
    OBVIOUS
  <1>5. end # {}
    <2> HIDE DEF end
    <2>1. QED BY <1>2, <1>3
  <1>6. Min(end) \in end
    <2> HIDE DEF end
    <2>1. QED BY <1>4, <1>5, Least
  <1>7. CASE up[Min(end)] \in unknown
    <2>1. a = address
      <3> HIDE DEF end, address
      <3>1. QED BY <1>2, <1>3, <1>5, <1>7 DEF address
    <2>2. r = l
      BY <1>2, <2>1
    <2>3. QED BY <1>7, <2>2
  <1>8. CASE up[Min(end)] \notin unknown
    <2>1. a = up[Min(end) + 1]
      <3> HIDE DEF end, address
      <3>1. QED BY <1>2, <1>3, <1>5, <1>8 DEF address
    <2>2. up[Min(end) + 1] \notin DOMAIN created_by
      BY <1>6, <1>8
    <2>3. QED BY <1>2, <2>1, <2>2
  <1>9. QED BY <1>7, <1>8

\* In data.csv a creator is listed once, under the DApps it and those linked to it
\* belong to, for all lists and creations (collect_dapp_information.py,
\* unique_dapp_information): names have distinct least DApps, so that a merge
\* never takes the name of other creators.
THEOREM CreatorsUnique == TaskSpec => []CreatorsAreUnique
  <1>1. TaskOK => CreatorsAreUnique
    <2> SUFFICES ASSUME TaskOK PROVE CreatorsAreUnique
      OBVIOUS
    <2>1. ASSUME task.kind = "merge" PROVE CreatorsAreNamed(task.input)
      <3>1. task.input \in Inputs["merge"]
        BY <2>1 DEF TaskOK
      <3>2. ArePairs(task.input)
        BY <3>1, DappAssumption DEF DappAssumption
      <3>3. QED BY <3>2, CreatorsNamed
    <2>2. ASSUME task.kind = "collect"
          PROVE  CreatorsAreFound(task.input[1], task.input[2], task.input[3])
      <3>1. task.input \in Inputs["collect"]
        BY <2>2 DEF TaskOK
      <3>2. \A l \in task.input[1] : l = <<l[1], l[2]>>
        BY <3>1, DappAssumption DEF DappAssumption
      <3>3. QED BY <3>2, CreatorsFound
    <2>3. QED BY <2>1, <2>2 DEF CreatorsAreUnique, Given
  <1>2. QED BY <1>1, TasksHaveInputs, PTL

-----------------------------------------------------------------------------
(* Blocks: lines that open one, lines that close one                        *)

UpTo(S, n) == {i \in S : i <= n}

\* Up to no line more blocks are closed than opened.
Covers(O, C) == \A n \in Nat : Cardinality(UpTo(C, n)) <= Cardinality(UpTo(O, n))

\* The last m of a set of lines
After(S, i) == {j \in S : j > i}
Top(S, m)   == {i \in S : Cardinality(After(S, i)) < m}

\* Lines of a text are finitely many.
LEMMA LinesFinite ==
  ASSUME NEW n \in Nat, NEW S \in SUBSET (1..n)
  PROVE  /\ IsFiniteSet(S) /\ Cardinality(S) \in Nat
         /\ \A T \in SUBSET S : /\ IsFiniteSet(T) /\ Cardinality(T) \in Nat
                                /\ Cardinality(T) <= Cardinality(S)
                                /\ Cardinality(T) = Cardinality(S) => T = S
  <1>1. IsFiniteSet(1..n)
    BY FS_Interval
  <1>2. IsFiniteSet(S)
    BY <1>1, FS_Subset
  <1>3. \A T \in SUBSET S : /\ IsFiniteSet(T)
                            /\ Cardinality(T) <= Cardinality(S)
                            /\ Cardinality(T) = Cardinality(S) => T = S
    BY <1>2, FS_Subset
  <1>4. \A T : IsFiniteSet(T) => Cardinality(T) \in Nat
    BY FS_CardinalityType
  <1>5. QED BY <1>2, <1>3, <1>4

\* A set of lines that is not empty has a first and a last one.
LEMMA LinesEnds ==
  ASSUME NEW n \in Nat, NEW S \in SUBSET (1..n), S # {}
  PROVE  /\ \E x \in S : \A y \in S : y <= x
         /\ \E x \in S : \A y \in S : x <= y
  <1> DEFINE N == {m \in Nat : \A T \in SUBSET S : T # {} /\ (\A t \in T : t <= m) =>
                                 /\ \E x \in T : \A y \in T : y <= x
                                 /\ \E x \in T : \A y \in T : x <= y}
  <1>0. \A x \in S : x \in Nat /\ 1 <= x /\ x <= n
    OBVIOUS
  <1>1. 0 \in N
    <2> SUFFICES ASSUME NEW T \in SUBSET S, NEW t \in T, \A x \in T : x <= 0 PROVE FALSE
      OBVIOUS
    <2>1. QED BY <1>0
  <1>2. ASSUME NEW m \in Nat, m \in N PROVE m + 1 \in N
    <2> SUFFICES ASSUME NEW T \in SUBSET S, T # {}, \A t \in T : t <= m + 1
                 PROVE  /\ \E x \in T : \A y \in T : y <= x
                        /\ \E x \in T : \A y \in T : x <= y
      OBVIOUS
    <2>1. CASE m + 1 \notin T
      <3>1. \A t \in T : t <= m
        BY <2>1
      <3>2. QED BY <1>2, <3>1
    <2>2. CASE m + 1 \in T
      <3> DEFINE U == T \ {m + 1}
      <3>1. \A t \in U : t <= m
        OBVIOUS
      <3>2. CASE U = {}
        <4>1. T = {m + 1}
          BY <2>2, <3>2
        <4>2. QED BY <4>1
      <3>3. CASE U # {}
        <4>1. PICK x \in U : \A y \in U : x <= y
          BY <1>2, <3>1, <3>3
        <4>2. \A y \in T : x <= y
          BY <3>1, <4>1
        <4>3. \A y \in T : y <= m + 1
          OBVIOUS
        <4>4. QED BY <2>2, <4>1, <4>2, <4>3
      <3>4. QED BY <3>2, <3>3
    <2>3. QED BY <2>1, <2>2
  <1>3. n \in N
    <2> HIDE DEF N
    <2>1. QED BY <1>1, <1>2, Induction
  <1>4. QED BY <1>3

\* The last m lines are m lines, and behind all others.
LEMMA TopIs ==
  ASSUME NEW n \in Nat, NEW S \in SUBSET (1..n), NEW m \in Nat, m <= Cardinality(S)
  PROVE  /\ Cardinality(Top(S, m)) = m
         /\ \A i \in Top(S, m) : \A j \in S \ Top(S, m) : j < i
  <1> DEFINE N == {k \in Nat : k <= Cardinality(S) => Cardinality(Top(S, k)) = k}
  <1>0. \A i \in S : After(S, i) \in SUBSET S /\ Cardinality(After(S, i)) \in Nat
    <2>1. \A i \in S : After(S, i) \in SUBSET S
      BY DEF After
    <2>2. QED BY <2>1, LinesFinite
  <1>00. \A x \in S : x \in Nat
    OBVIOUS
  <1>1. ASSUME NEW k \in Nat, NEW i \in Top(S, k), NEW j \in S \ Top(S, k) PROVE j < i
    <2> SUFFICES ASSUME i <= j PROVE FALSE
      BY DEF Top
    <2>1. After(S, j) \in SUBSET After(S, i)
      <3>1. \A x \in S : x > j => x > i
        BY <1>00 DEF Top
      <3>2. QED BY <3>1 DEF After
    <2>2. Cardinality(After(S, j)) <= Cardinality(After(S, i))
      <3>1. After(S, i) \in SUBSET (1..n)
        BY DEF After
      <3>2. QED BY <2>1, <3>1, LinesFinite
    <2>3. Cardinality(After(S, i)) < k /\ ~(Cardinality(After(S, j)) < k) /\ i \in S
      BY DEF Top
    <2>4. QED BY <1>0, <2>2, <2>3
  <1>2. 0 \in N
    <2>1. Top(S, 0) = {}
      <3>1. ASSUME NEW i \in S, Cardinality(After(S, i)) < 0 PROVE FALSE
        BY <1>0, <3>1
      <3>2. QED BY <3>1 DEF Top
    <2>2. QED BY <2>1, FS_EmptySet
  <1>3. ASSUME NEW k \in Nat, k \in N, k + 1 <= Cardinality(S) PROVE Cardinality(Top(S, k + 1)) = k + 1
    <2> DEFINE T == Top(S, k)
    <2>1. T \in SUBSET S /\ IsFiniteSet(T) /\ Cardinality(T) = k /\ Cardinality(S) \in Nat
      BY <1>3, LinesFinite DEF Top
    <2>2. S \ T # {}
      <3> HIDE DEF T
      <3>1. SUFFICES ASSUME S = T PROVE FALSE
        BY <2>1
      <3>2. QED BY <1>3, <2>1, <3>1
    <2>3. PICK x \in S \ T : \A y \in S \ T : y <= x
      <3>1. S \ T \in SUBSET (1..n)
        OBVIOUS
      <3> HIDE DEF T
      <3>2. QED BY <2>2, <3>1, LinesEnds
    <2>4. After(S, x) = T
      <3>1. \A i \in T : i > x /\ i \in S
        BY <1>1, <2>1, <2>3
      <3>2. \A i \in S : i > x => i \in T
        BY <2>3
      <3> HIDE DEF T
      <3>3. QED BY <3>1, <3>2 DEF After
    <2>5. x \in Top(S, k + 1)
      BY <2>1, <2>3, <2>4 DEF Top
    <2>6. ASSUME NEW y \in S \ T, y # x PROVE y \notin Top(S, k + 1)
      <3>1. y < x
        BY <2>3, <2>6
      <3>2. T \union {x} \in SUBSET After(S, y)
        <4>1. \A i \in T : i > y
          BY <1>1, <2>6
        <4> HIDE DEF T
        <4>2. QED BY <2>1, <2>3, <3>1, <4>1 DEF After
      <3>3. Cardinality(T \union {x}) = k + 1
        BY <2>1, <2>3, FS_AddElement
      <3>4. Cardinality(T \union {x}) <= Cardinality(After(S, y))
        <4>1. After(S, y) \in SUBSET (1..n)
          BY DEF After
        <4> HIDE DEF T
        <4>2. QED BY <3>2, <4>1, LinesFinite
      <3>5. QED BY <1>0, <3>3, <3>4 DEF Top
    <2>7. T \in SUBSET Top(S, k + 1)
      <3>1. \A i \in S : Cardinality(After(S, i)) < k => Cardinality(After(S, i)) < k + 1
        BY <1>0
      <3>2. QED BY <3>1 DEF Top
    <2>8. Top(S, k + 1) = T \union {x}
      <3>1. Top(S, k + 1) \in SUBSET S
        BY DEF Top
      <3> HIDE DEF T
      <3>2. QED BY <2>3, <2>5, <2>6, <2>7, <3>1
    <2>9. QED
      <3> HIDE DEF T
      <3>1. QED BY <2>1, <2>3, <2>8, FS_AddElement
  <1>4. m \in N
    <2>1. \A k \in Nat : k \in N => k + 1 \in N
      <3>1. SUFFICES ASSUME NEW k \in Nat, k \in N PROVE k + 1 \in N
        OBVIOUS
      <3>2. QED BY <1>3, <3>1
    <2> HIDE DEF N
    <2>2. QED BY <1>2, <2>1, Induction
  <1>5. QED BY <1>1, <1>4

\* A line more that opens a block keeps the blocks covered ...
LEMMA CoversMore ==
  ASSUME NEW n \in Nat, NEW O \in SUBSET (1..n), NEW C \in SUBSET (1..n), Covers(O, C)
  PROVE  Covers(O \union {n + 1}, C)
  <1> SUFFICES ASSUME NEW k \in Nat
               PROVE  Cardinality(UpTo(C, k)) <= Cardinality(UpTo(O \union {n + 1}, k))
    BY DEF Covers
  <1>1. UpTo(O, k) \in SUBSET UpTo(O \union {n + 1}, k)
    BY DEF UpTo
  <1>2. UpTo(O \union {n + 1}, k) \in SUBSET (1..(n + 1)) /\ n + 1 \in Nat
    <2>1. O \union {n + 1} \in SUBSET (1..(n + 1))
      <3>1. 1..n \in SUBSET (1..(n + 1))
        OBVIOUS
      <3>2. QED BY <3>1
    <2>2. UpTo(O \union {n + 1}, k) \in SUBSET (O \union {n + 1})
      BY DEF UpTo
    <2>3. n + 1 \in Nat
      OBVIOUS
    <2>4. QED BY ZenonT(20), <2>1, <2>2, <2>3
  <1>3. UpTo(C, k) \in SUBSET C
    BY DEF UpTo
  <1>4. /\ Cardinality(UpTo(O, k)) <= Cardinality(UpTo(O \union {n + 1}, k))
        /\ Cardinality(UpTo(O, k)) \in Nat /\ Cardinality(UpTo(O \union {n + 1}, k)) \in Nat
    BY <1>1, <1>2, LinesFinite
  <1>5. Cardinality(UpTo(C, k)) \in Nat
    BY <1>3, LinesFinite
  <1>6. Cardinality(UpTo(C, k)) <= Cardinality(UpTo(O, k))
    BY DEF Covers
  <1>7. QED BY <1>4, <1>5, <1>6

\* ... and so does one that closes a block, while more are opened than closed, ...
LEMMA CoversClosed ==
  ASSUME NEW n \in Nat, NEW O \in SUBSET (1..n), NEW C \in SUBSET (1..n), Covers(O, C),
         Cardinality(C) < Cardinality(O)
  PROVE  Covers(O, C \union {n + 1})
  <1> SUFFICES ASSUME NEW k \in Nat
               PROVE  Cardinality(UpTo(C \union {n + 1}, k)) <= Cardinality(UpTo(O, k))
    BY DEF Covers
  <1>1. CASE k <= n
    <2>1. UpTo(C \union {n + 1}, k) = UpTo(C, k)
      BY <1>1 DEF UpTo
    <2>2. QED BY <2>1 DEF Covers
  <1>2. CASE k > n
    <2>1. UpTo(O, k) = O /\ UpTo(C \union {n + 1}, k) = C \union {n + 1}
      <3>1. \A x \in O \union (C \union {n + 1}) : x <= k
        BY <1>2
      <3>2. QED BY <3>1 DEF UpTo
    <2>2. IsFiniteSet(C) /\ n + 1 \notin C
      <3>1. n + 1 \notin 1..n
        OBVIOUS
      <3>2. QED BY <3>1, LinesFinite
    <2>3. Cardinality(C \union {n + 1}) = Cardinality(C) + 1
      BY <2>2, FS_AddElement
    <2>4. Cardinality(C) \in Nat /\ Cardinality(O) \in Nat
      BY LinesFinite
    <2> DEFINE c == Cardinality(C)
               o == Cardinality(O)
    <2>5. c \in Nat /\ o \in Nat /\ c < o
      BY <2>4
    <2> HIDE DEF c, o
    <2>6. c + 1 <= o /\ c <= o - 1
      BY <2>5
    <2>7. QED BY <2>1, <2>3, <2>6 DEF c, o
  <1>3. QED BY <1>1, <1>2

\* ... and the last line dropped, if it opens a block ...
LEMMA CoversDropped ==
  ASSUME NEW n \in Nat, NEW O \in SUBSET (1..n), NEW C \in SUBSET (1..n), Covers(O, C),
         Cardinality(C) < Cardinality(O), n \in O, n \notin C
  PROVE  Covers(O \ {n}, C)
  <1> SUFFICES ASSUME NEW k \in Nat
               PROVE  Cardinality(UpTo(C, k)) <= Cardinality(UpTo(O \ {n}, k))
    BY DEF Covers
  <1>1. CASE k < n
    <2>1. UpTo(O \ {n}, k) = UpTo(O, k)
      BY <1>1 DEF UpTo
    <2>2. QED BY <2>1 DEF Covers
  <1>2. CASE k >= n
    <2>1. UpTo(C, k) = C /\ UpTo(O \ {n}, k) = O \ {n}
      <3>1. \A x \in O \union C : x <= k
        BY <1>2
      <3>2. QED BY <3>1 DEF UpTo
    <2>2. IsFiniteSet(O)
      BY LinesFinite
    <2>3. Cardinality(O \ {n}) = Cardinality(O) - 1
      BY <2>2, FS_RemoveElement
    <2>4. Cardinality(C) \in Nat /\ Cardinality(O) \in Nat
      BY LinesFinite
    <2> DEFINE c == Cardinality(C)
               o == Cardinality(O)
    <2>5. c \in Nat /\ o \in Nat /\ c < o
      BY <2>4
    <2> HIDE DEF c, o
    <2>6. c + 1 <= o /\ c <= o - 1
      BY <2>5
    <2>7. QED BY <2>1, <2>3, <2>6 DEF c, o
  <1>3. QED BY <1>1, <1>2

\* ... and the last m that open a block no longer opening one, if m are not closed.
LEMMA CoversTurned ==
  ASSUME NEW n \in Nat
  PROVE  \A O, C \in SUBSET (1..n) : Covers(O, C) =>
           \A m \in Nat : Cardinality(O) = Cardinality(C) + m =>
             /\ Covers(O \ Top(O, m), C)
             /\ Cardinality(O \ Top(O, m)) = Cardinality(C)
             /\ Cardinality(Top(O, m)) = m
  <1> SUFFICES ASSUME NEW O \in SUBSET (1..n), NEW C \in SUBSET (1..n), Covers(O, C),
                      NEW m \in Nat, Cardinality(O) = Cardinality(C) + m
               PROVE  /\ Covers(O \ Top(O, m), C)
                      /\ Cardinality(O \ Top(O, m)) = Cardinality(C)
                      /\ Cardinality(Top(O, m)) = m
    OBVIOUS
  <1> DEFINE T == Top(O, m)
  <1>1. Cardinality(C) \in Nat /\ Cardinality(O) \in Nat /\ IsFiniteSet(O) /\ T \in SUBSET O
    BY LinesFinite DEF Top
  <1>2. Cardinality(T) = m /\ \A i \in T : \A j \in O \ T : j < i
    <2>1. m <= Cardinality(O)
      BY <1>1
    <2>2. QED BY <2>1, TopIs
  <1>0. \A x \in O : x \in Nat
    OBVIOUS
  <1> HIDE DEF T
  <1>3. Cardinality(O \ T) = Cardinality(C)
    <2>1. IsFiniteSet(T) /\ IsFiniteSet(O \ T) /\ Cardinality(O \ T) \in Nat
      BY <1>1, LinesFinite
    <2>2. (O \ T) \union T = O /\ (O \ T) \intersect T = {}
      BY <1>1
    <2>3. Cardinality(O) = Cardinality(O \ T) + Cardinality(T) - Cardinality({})
      BY <2>1, <2>2, FS_Union
    <2>4. QED BY <1>1, <1>2, <2>1, <2>3, FS_EmptySet
  <1>4. ASSUME NEW k \in Nat PROVE Cardinality(UpTo(C, k)) <= Cardinality(UpTo(O \ T, k))
    <2>1. CASE \A i \in T : i > k
      <3>1. UpTo(O \ T, k) = UpTo(O, k)
        <4>1. \A i \in O : i <= k => i \notin T
          BY <1>0, <2>1
        <4>2. QED BY <4>1 DEF UpTo
      <3>2. QED BY <3>1 DEF Covers
    <2>2. CASE \E i \in T : i <= k
      <3>1. UpTo(O \ T, k) = O \ T
        <4>1. \A j \in O \ T : j <= k
          BY <1>0, <1>1, <1>2, <2>2
        <4>2. QED BY <4>1 DEF UpTo
      <3>2. UpTo(C, k) \in SUBSET C
        BY DEF UpTo
      <3>3. Cardinality(UpTo(C, k)) <= Cardinality(C)
        BY <3>2, LinesFinite
      <3>4. QED BY <1>3, <3>1, <3>3
    <2>3. QED BY <1>0, <1>1, <2>1, <2>2
  <1>5. QED BY <1>2, <1>3, <1>4 DEF Covers, T

-----------------------------------------------------------------------------
(* Conditions on a stack                                                    *)

At(s, c)     == {k \in DOMAIN s : s[k] = c}
Occurs(s, c) == Cardinality(At(s, c))

\* A condition is finitely often on a stack.
LEMMA OccursIsNat ==
  ASSUME NEW T, NEW s \in Seq(T), NEW c
  PROVE  /\ IsFiniteSet(At(s, c)) /\ Occurs(s, c) \in Nat
         /\ Len(s) \in Nat /\ DOMAIN s = 1..Len(s) /\ At(s, c) \in SUBSET (1..Len(s))
         /\ Occurs(s, c) = 0 <=> At(s, c) = {}
  <1>1. Len(s) \in Nat /\ DOMAIN s = 1..Len(s)
    OBVIOUS
  <1>2. At(s, c) \in SUBSET (1..Len(s))
    BY <1>1 DEF At
  <1>3. IsFiniteSet(At(s, c)) /\ Cardinality(At(s, c)) \in Nat
    BY <1>1, <1>2, LinesFinite
  <1>4. Cardinality(At(s, c)) = 0 <=> At(s, c) = {}
    BY <1>3, FS_EmptySet
  <1>5. QED BY <1>1, <1>2, <1>3, <1>4 DEF Occurs

\* One more
LEMMA OccursAppend ==
  ASSUME NEW T, NEW s \in Seq(T), NEW e \in T, NEW c
  PROVE  Occurs(Append(s, e), c) = IF e = c THEN Occurs(s, c) + 1 ELSE Occurs(s, c)
  <1> DEFINE t == Append(s, e)
             n == Len(s)
  <1>1. /\ n \in Nat /\ Len(t) = n + 1 /\ DOMAIN t = 1..(n + 1) /\ DOMAIN s = 1..n
        /\ t[n + 1] = e /\ \A k \in 1..n : t[k] = s[k]
    OBVIOUS
  <1>2. 1..(n + 1) = 1..n \union {n + 1} /\ n + 1 \notin 1..n
    BY <1>1
  <1> HIDE DEF t, n
  <1>3. At(t, c) = IF e = c THEN At(s, c) \union {n + 1} ELSE At(s, c)
    BY <1>1, <1>2 DEF At
  <1>4. n + 1 \notin At(s, c)
    BY <1>1, <1>2 DEF At
  <1>5. Cardinality(At(s, c) \union {n + 1}) = Cardinality(At(s, c)) + 1
    BY <1>4, OccursIsNat, FS_AddElement
  <1>6. QED BY <1>3, <1>5 DEF Occurs, t

\* One less at the end
LEMMA OccursFront ==
  ASSUME NEW T, NEW s \in Seq(T), s # <<>>, NEW c
  PROVE  /\ Front(s) \in Seq(T) /\ Last(s) \in T /\ Len(Front(s)) = Len(s) - 1
         /\ Len(s) \in Nat \ {0} /\ \A k \in 1..(Len(s) - 1) : Front(s)[k] = s[k]
         /\ Occurs(Front(s), c) = IF Last(s) = c THEN Occurs(s, c) - 1 ELSE Occurs(s, c)
  <1> DEFINE n == Len(s)
             t == Front(s)
  <1>1. n \in Nat \ {0} /\ DOMAIN s = 1..n /\ \A k \in 1..n : s[k] \in T
    OBVIOUS
  <1>2. t \in Seq(T) /\ Len(t) = n - 1 /\ DOMAIN t = 1..(n - 1) /\ \A k \in 1..(n - 1) : t[k] = s[k]
    BY <1>1 DEF Front
  <1>3. Last(s) = s[n] /\ n \in 1..n
    BY <1>1 DEF Last
  <1>4. 1..n = 1..(n - 1) \union {n} /\ n \notin 1..(n - 1)
    BY <1>1
  <1> HIDE DEF n, t
  <1>5. At(t, c) = At(s, c) \ {n}
    BY <1>1, <1>2, <1>4 DEF At
  <1>6. n \in At(s, c) <=> Last(s) = c
    BY <1>1, <1>3 DEF At
  <1>7. Cardinality(At(s, c) \ {n}) =
          IF n \in At(s, c) THEN Cardinality(At(s, c)) - 1 ELSE Cardinality(At(s, c))
    BY OccursIsNat, FS_RemoveElement
  <1>8. Occurs(t, c) = IF Last(s) = c THEN Occurs(s, c) - 1 ELSE Occurs(s, c)
    BY <1>5, <1>6, <1>7 DEF Occurs
  <1>9. QED BY <1>1, <1>2, <1>3, <1>8 DEF n, t

\* One less in between
LEMMA OccursRemoved ==
  ASSUME NEW T, NEW s \in Seq(T), NEW i \in DOMAIN s, NEW c
  PROVE  /\ RemoveAt(s, i) \in Seq(T) /\ Len(RemoveAt(s, i)) = Len(s) - 1 /\ Len(s) \in Nat \ {0}
         /\ \A k \in DOMAIN RemoveAt(s, i) : \E j \in DOMAIN s : RemoveAt(s, i)[k] = s[j]
         /\ Occurs(RemoveAt(s, i), c) = IF s[i] = c THEN Occurs(s, c) - 1 ELSE Occurs(s, c)
  <1> DEFINE n == Len(s)
             t == RemoveAt(s, i)
  <1>1. n \in Nat \ {0} /\ DOMAIN s = 1..n /\ i \in 1..n /\ \A k \in 1..n : s[k] \in T
    OBVIOUS
  <1>2. /\ t \in Seq(T) /\ Len(t) = n - 1
        /\ \A k \in 1..(n - 1) : t[k] = IF k < i THEN s[k] ELSE s[k + 1]
    <2> DEFINE a == SubSeq(s, 1, i - 1)
               b == SubSeq(s, i + 1, n)
    <2>1. a \in Seq(T) /\ Len(a) = i - 1 /\ \A k \in 1..(i - 1) : a[k] = s[k]
      BY <1>1
    <2>2. b \in Seq(T) /\ Len(b) = n - i /\ \A k \in 1..(n - i) : b[k] = s[i + k]
      BY <1>1
    <2>3. t = a \o b
      BY DEF RemoveAt
    <2> HIDE DEF a, b, t
    <2>4. a \o b \in Seq(T) /\ Len(a \o b) = n - 1
      <3>1. a \o b \in Seq(T) /\ Len(a \o b) = Len(a) + Len(b)
        BY <2>1, <2>2, ConcatProperties
      <3>2. (i - 1) + (n - i) = n - 1
        BY <1>1
      <3>3. QED BY <2>1, <2>2, <3>1, <3>2
    <2>5. ASSUME NEW k \in 1..(n - 1) PROVE (a \o b)[k] = IF k < i THEN s[k] ELSE s[k + 1]
      <3>1. CASE k < i
        BY <1>1, <2>1, <2>2, <3>1
      <3>2. CASE k >= i
        <4>1. k - (i - 1) \in 1..(n - i)
          BY <1>1, <3>2
        <4>2. (a \o b)[k] = b[k - (i - 1)]
          BY <1>1, <2>1, <2>2, <3>2
        <4>3. i + (k - (i - 1)) = k + 1
          BY <1>1
        <4>4. ~(k < i)
          BY <1>1, <3>2
        <4>5. QED BY <2>2, <4>1, <4>2, <4>3, <4>4
      <3>3. k < i \/ k >= i
        BY <1>1
      <3>4. QED BY <3>1, <3>2, <3>3
    <2>6. QED BY <2>3, <2>4, <2>5
  <1>3. DOMAIN t = 1..(n - 1)
    BY <1>1, <1>2
  <1> HIDE DEF n, t
  <1>4. Occurs(t, c) = Cardinality(At(s, c) \ {i})
    <2> DEFINE A == At(s, c) \ {i}
               f == [k \in At(t, c) |-> IF k < i THEN k ELSE k + 1]
    <2>1. \A k \in At(t, c) : k \in 1..(n - 1) /\ t[k] = c
      BY <1>3 DEF At
    <2>2. \A k \in At(t, c) : f[k] \in A
      BY <1>1, <1>2, <2>1 DEF At
    <2>3. \A k, j \in At(t, c) : f[k] = f[j] => k = j
      BY <1>1, <2>1
    <2>4. ASSUME NEW j \in A PROVE \E k \in At(t, c) : f[k] = j
      <3>1. j \in 1..n /\ s[j] = c /\ j # i
        BY <1>1 DEF At
      <3>2. CASE j < i
        <4>1. j \in 1..(n - 1)
          BY <1>1, <3>1, <3>2
        <4>2. j \in At(t, c)
          BY <1>2, <1>3, <3>1, <3>2, <4>1 DEF At
        <4>3. QED BY <3>2, <4>2
      <3>3. CASE j > i
        <4>1. j - 1 \in 1..(n - 1) /\ ~(j - 1 < i) /\ (j - 1) + 1 = j
          BY <1>1, <3>1, <3>3
        <4>2. j - 1 \in At(t, c)
          BY <1>2, <1>3, <3>1, <4>1 DEF At
        <4>3. QED BY <4>1, <4>2
      <3>4. QED BY <1>1, <3>1, <3>2, <3>3
    <2> HIDE DEF A
    <2>5. f \in Bijection(At(t, c), A)
      <3>1. f \in [At(t, c) -> A]
        BY <2>2
      <3> HIDE DEF f
      <3>2. QED BY <2>3, <2>4, <3>1 DEF Bijection, Injection, Surjection, IsInjective
    <2>6. IsFiniteSet(At(t, c))
      BY <1>2, OccursIsNat
    <2> HIDE DEF f
    <2>7. QED BY <2>5, <2>6, FS_Bijection DEF ExistsBijection, Occurs, A
  <1>5. Cardinality(At(s, c) \ {i}) =
          IF i \in At(s, c) THEN Cardinality(At(s, c)) - 1 ELSE Cardinality(At(s, c))
    BY OccursIsNat, FS_RemoveElement
  <1>6. i \in At(s, c) <=> s[i] = c
    BY DEF At
  <1>7. Occurs(t, c) = IF s[i] = c THEN Occurs(s, c) - 1 ELSE Occurs(s, c)
    BY <1>4, <1>5, <1>6 DEF Occurs
  <1>8. ASSUME NEW k \in DOMAIN t PROVE \E j \in DOMAIN s : t[k] = s[j]
    <2>1. k \in 1..n /\ k + 1 \in 1..n
      BY <1>1, <1>3
    <2>2. QED BY <1>1, <1>2, <1>3, <2>1
  <1>9. QED BY <1>1, <1>2, <1>7, <1>8 DEF n, t

\* The last of a stack replaced
LEMMA OccursReplaced ==
  ASSUME NEW T, NEW s \in Seq(T), s # <<>>, NEW e \in T, NEW c, c # Last(s)
  PROVE  /\ [s EXCEPT ![Len(s)] = e] \in Seq(T) /\ Len([s EXCEPT ![Len(s)] = e]) = Len(s)
         /\ Last([s EXCEPT ![Len(s)] = e]) = e
         /\ Occurs([s EXCEPT ![Len(s)] = e], c) = IF e = c THEN Occurs(s, c) + 1 ELSE Occurs(s, c)
  <1> DEFINE n == Len(s)
             t == [s EXCEPT ![n] = e]
  <1>1. n \in Nat \ {0} /\ DOMAIN s = 1..n /\ n \in 1..n /\ \A k \in 1..n : s[k] \in T
    <2>1. Len(s) \in Nat /\ DOMAIN s = 1..Len(s) /\ \A k \in 1..Len(s) : s[k] \in T
      OBVIOUS
    <2>2. Len(s) # 0
      <3>1. s \in Seq(T) /\ s # <<>>
        OBVIOUS
      <3>2. QED BY ONLY <3>1, EmptySeq
    <2>3. QED BY ONLY <2>1, <2>2
  <1>2. DOMAIN t = 1..n /\ t[n] = e /\ \A k \in 1..n : k # n => t[k] = s[k]
    BY <1>1
  <1>3. t \in Seq(T) /\ Len(t) = n
    <2>1. t \in [1..n -> T]
      BY <1>1
    <2> HIDE DEF t, n
    <2>2. QED BY <1>1, <2>1
  <1>4. s[n] # c
    BY DEF Last
  <1> HIDE DEF n, t
  <1>5. At(t, c) = IF e = c THEN At(s, c) \union {n} ELSE At(s, c)
    BY <1>1, <1>2, <1>4 DEF At
  <1>6. n \notin At(s, c)
    BY <1>4 DEF At
  <1>7. Cardinality(At(s, c) \union {n}) = Cardinality(At(s, c)) + 1
    BY <1>6, OccursIsNat, FS_AddElement
  <1>8. Occurs(t, c) = IF e = c THEN Occurs(s, c) + 1 ELSE Occurs(s, c)
    BY <1>5, <1>7 DEF Occurs
  <1>9. Last(t) = e
    BY <1>2, <1>3 DEF Last
  <1>10. QED BY <1>3, <1>8, <1>9 DEF n, t
-----------------------------------------------------------------------------
(* The decompiled function: what one operation does                         *)

Closing(logic) == {i \in DOMAIN logic : logic[i].kind = "}"}

Plain    == {"statement", "mention", "require"}
Kinds    == Plain \union {"if", "else", "}"}
Lines(T) == [kind : Kinds, about : T]

\* An analysis has its parts.
IsAnalysis(a) ==
  /\ {"function", "conditional_map", "jumped", "panicked"} \subseteq DOMAIN a
  /\ {"pure", "view", "payable", "logic", "events", "errors", "returns", "arguments"}
       \subseteq DOMAIN a.function
  /\ a.function.pure \in BOOLEAN /\ a.function.view \in BOOLEAN /\ a.function.payable \in BOOLEAN

\* A step says as much of the modifiers as its operation does.
Marks(a, b, op) ==
  /\ b.function.pure = (a.function.pure /\ op.name \notin StateAccessing)
  /\ b.function.view = (a.function.view /\ op.name \notin StateSetting)

SameMarks(a, b) == b.function.pure = a.function.pure /\ b.function.view = a.function.view

\* The steps: nothing that blocks are about, one line that is no block, a block
\* that is opened, blocks that become requirements (in Solidity), an alternative.
SameStack(a, b) == b.conditional_map = a.conditional_map /\ b.jumped = a.jumped

Quiet(a, b) == b.function.logic = a.function.logic /\ SameStack(a, b)

Lined(a, b, op, T) ==
  /\ \E line \in [kind : Plain, about : T] :
       /\ b.function.logic = Append(a.function.logic, line)
       /\ line.kind = "mention" => Mentions(op)
  /\ SameStack(a, b)

Opened(a, b, c) ==
  /\ b.function.logic = Append(a.function.logic, Line("if", c))
  /\ b.conditional_map = Append(a.conditional_map, c)
  /\ b.jumped = [a.jumped EXCEPT ![Len(a.jumped)] = c]

Turned(a, b) ==
  LET logic  == a.function.logic
      map    == a.conditional_map
      turned == Top(Opening(logic), Len(map))
  IN  /\ b.function.logic =
           [i \in DOMAIN logic |->
              IF i \in turned THEN Line("require", map[Len(map) - Cardinality(After(Opening(logic), i))])
              ELSE logic[i]]
      /\ b.conditional_map = SubSeq(map, 1, Len(map) - Cardinality(turned))
      /\ b.jumped = a.jumped

Elsed(a, b) ==
  /\ Opening(a.function.logic) # {}
  /\ b.function.logic = [a.function.logic EXCEPT ![Max(Opening(a.function.logic))].kind = "else"]
  /\ SameStack(a, b)

Steps(a, b, op, T, yul) ==
  \/ Quiet(a, b)
  \/ Lined(a, b, op, T)
  \/ op.name = "JUMPI" /\ Opened(a, b, op.condition)
  \/ ~yul /\ Turned(a, b)
  \/ Elsed(a, b)

\* Marking the modifiers is quiet.
LEMMA MarkingIs ==
  ASSUME NEW a, IsAnalysis(a), NEW op
  PROVE  /\ IsAnalysis(MarkModifiers(a, op))
         /\ Marks(a, MarkModifiers(a, op), op)
         /\ Quiet(a, MarkModifiers(a, op))
  BY DEF IsAnalysis, Marks, Quiet, SameStack, MarkModifiers

\* A line pushed is the only thing that changes.
LEMMA PushIs ==
  ASSUME NEW a, IsAnalysis(a), NEW op, NEW T, NEW line \in [kind : Plain, about : T],
         line.kind = "mention" => Mentions(op)
  PROVE  IsAnalysis(Push(a, line)) /\ SameMarks(a, Push(a, line)) /\ Lined(a, Push(a, line), op, T)
  BY DEF IsAnalysis, SameMarks, Lined, SameStack, Push

\* A statement mentions the difficulty if its operation does.
LEMMA StatementIs ==
  ASSUME NEW op, op.name \in Stated, NEW T, op.name \in T
  PROVE  /\ Statement(op) \in [kind : Plain, about : T]
         /\ Statement(op).kind = "mention" => Mentions(op)
  BY DEF Statement, Line, Plain, Mentions

\* A log leaves a statement or nothing; a panic is nothing to blocks.
LEMMA LogIs ==
  ASSUME NEW a, IsAnalysis(a), NEW op, op.name = "LOG", NEW T, op.name \in T
  PROVE  /\ IsAnalysis(LogOf(a, op)) /\ SameMarks(a, LogOf(a, op))
         /\ (Quiet(a, LogOf(a, op)) \/ Lined(a, LogOf(a, op), op, T))
  <1>1. CASE op.event = Anonymous
    <2>1. LogOf(a, op) = [a EXCEPT !.panicked = TRUE]
      BY <1>1 DEF LogOf
    <2>2. QED BY <2>1 DEF IsAnalysis, SameMarks, Quiet, SameStack
  <1>2. CASE op.event # Anonymous /\ op.event \in a.function.events \union {Absent}
    <2>1. LogOf(a, op) = a
      BY <1>2 DEF LogOf
    <2>2. QED BY <2>1 DEF SameMarks, Quiet, SameStack
  <1>3. CASE op.event # Anonymous /\ op.event \notin a.function.events \union {Absent}
    <2> DEFINE noted == [a EXCEPT !.function.events = @ \union {op.event}]
               b == Push(noted, Statement(op))
    <2>1. IsAnalysis(noted) /\ SameMarks(a, noted) /\ Quiet(a, noted)
      BY DEF IsAnalysis, SameMarks, Quiet, SameStack
    <2>2. LogOf(a, op) = b
      BY <1>3 DEF LogOf
    <2> HIDE DEF noted
    <2>3. /\ Statement(op) \in [kind : Plain, about : T]
          /\ Statement(op).kind = "mention" => Mentions(op)
      BY StatementIs DEF Stated
    <2>4. IsAnalysis(b) /\ SameMarks(noted, b) /\ Lined(noted, b, op, T)
      BY <2>1, <2>3, PushIs
    <2> HIDE DEF b
    <2>5. QED BY <2>1, <2>2, <2>4 DEF SameMarks, Quiet, Lined, SameStack
  <1>4. QED BY <1>1, <1>2, <1>3

\* A block is opened in both languages alike.
LEMMA OpenIs ==
  ASSUME NEW a, IsAnalysis(a), NEW c
  PROVE  IsAnalysis(OpenBlock(a, c)) /\ SameMarks(a, OpenBlock(a, c)) /\ Opened(a, OpenBlock(a, c), c)
  BY DEF IsAnalysis, SameMarks, Opened, OpenBlock, Push, Line

\* A JUMPI of Solidity opens a block or does nothing to blocks.
LEMMA JumpiIs ==
  ASSUME NEW a, IsAnalysis(a), NEW op
  PROVE  /\ IsAnalysis(JumpiOf(a, op)) /\ SameMarks(a, JumpiOf(a, op))
         /\ (Quiet(a, JumpiOf(a, op)) \/ Opened(a, JumpiOf(a, op), op.condition))
  <1>1. CASE op.condition = "!msg.value"
    BY <1>1 DEF IsAnalysis, SameMarks, Quiet, SameStack, JumpiOf
  <1>2. CASE op.condition = "compiler"
    BY <1>2 DEF IsAnalysis, SameMarks, Quiet, SameStack, JumpiOf
  <1>3. CASE op.condition \notin {"!msg.value", "compiler"}
    <2>1. JumpiOf(a, op) = OpenBlock(a, op.condition)
      BY <1>3 DEF JumpiOf
    <2>2. QED BY <2>1, OpenIs
  <1>4. QED BY <1>1, <1>2, <1>3

\* Going backwards turns the blocks on top into requirements.
LEMMA TurnIs ==
  ASSUME NEW a, IsAnalysis(a)
  PROVE  IsAnalysis(RequireOpen(a)) /\ SameMarks(a, RequireOpen(a)) /\ Turned(a, RequireOpen(a))
  <1>1. \A i : Behind(a.function.logic, i) = Cardinality(After(Opening(a.function.logic), i))
    BY DEF Behind, After
  <1>2. {i \in Opening(a.function.logic) : Behind(a.function.logic, i) < Len(a.conditional_map)}
          = Top(Opening(a.function.logic), Len(a.conditional_map))
    BY <1>1 DEF Top
  <1>3. IsAnalysis(RequireOpen(a)) /\ SameMarks(a, RequireOpen(a))
    BY DEF IsAnalysis, SameMarks, RequireOpen
  <1>4. Turned(a, RequireOpen(a))
    BY <1>1, <1>2 DEF IsAnalysis, Turned, RequireOpen
  <1>5. QED BY <1>3, <1>4

\* A REVERT of Solidity is a requirement, or turns blocks into requirements.
LEMMA RevertIs ==
  ASSUME NEW a, IsAnalysis(a), NEW op, NEW T, Last(a.jumped) \in T
  PROVE  /\ IsAnalysis(RevertOf(a, op)) /\ SameMarks(a, RevertOf(a, op))
         /\ (Quiet(a, RevertOf(a, op)) \/ Lined(a, RevertOf(a, op), op, T) \/
             Turned(a, RevertOf(a, op)))
  <1> DEFINE noted == IF op.data = "custom" THEN [a EXCEPT !.function.errors = @ \union {op.error}]
                      ELSE a
  <1>1. IsAnalysis(noted) /\ SameMarks(a, noted) /\ Quiet(a, noted)
    BY DEF IsAnalysis, SameMarks, Quiet, SameStack
  <1>2. RevertOf(a, op) = IF op.data = "panic" THEN a
                          ELSE IF Last(a.jumped) # Absent THEN Push(noted, Line("require", Last(a.jumped)))
                          ELSE RequireOpen(noted)
    BY DEF RevertOf
  <1> HIDE DEF noted
  <1>3. CASE op.data = "panic"
    BY <1>2, <1>3 DEF SameMarks, Quiet, SameStack
  <1>4. CASE op.data # "panic" /\ Last(a.jumped) # Absent
    <2> DEFINE b == Push(noted, Line("require", Last(a.jumped)))
    <2>1. IsAnalysis(b) /\ SameMarks(noted, b) /\ Lined(noted, b, op, T)
      BY <1>1, PushIs DEF Line, Plain
    <2>2. RevertOf(a, op) = b
      BY <1>2, <1>4
    <2> HIDE DEF b
    <2>3. QED BY <1>1, <2>1, <2>2 DEF SameMarks, Quiet, Lined, SameStack
  <1>5. CASE op.data # "panic" /\ Last(a.jumped) = Absent
    <2> DEFINE b == RequireOpen(noted)
    <2>1. IsAnalysis(b) /\ SameMarks(noted, b) /\ Turned(noted, b)
      BY <1>1, TurnIs
    <2>2. RevertOf(a, op) = b
      BY <1>2, <1>5
    <2> HIDE DEF b
    <2>3. QED BY <1>1, <2>1, <2>2 DEF SameMarks, Quiet, Turned, SameStack
  <1>6. QED BY <1>3, <1>4, <1>5

\* A REVERT of Yul makes the last block an alternative.
LEMMA ElseIs ==
  ASSUME NEW a, IsAnalysis(a), NEW op
  PROVE  /\ IsAnalysis(RevertElse(a, op)) /\ SameMarks(a, RevertElse(a, op))
         /\ (Quiet(a, RevertElse(a, op)) \/ Elsed(a, RevertElse(a, op)))
  BY DEF IsAnalysis, SameMarks, Quiet, Elsed, SameStack, RevertElse

\* A RETURN of Solidity leaves a statement.
LEMMA ReturnIs ==
  ASSUME NEW a, IsAnalysis(a), NEW op, op.name = "RETURN", NEW T, op.name \in T
  PROVE  /\ IsAnalysis(ReturnOf(a, op)) /\ SameMarks(a, ReturnOf(a, op))
         /\ Lined(a, ReturnOf(a, op), op, T)
  <1> DEFINE typed == [a EXCEPT !.function.returns =
                          IF @ \in {Absent, "uint256"} THEN op.returns ELSE @]
             b == Push(typed, Statement(op))
  <1>1. IsAnalysis(typed) /\ SameMarks(a, typed) /\ Quiet(a, typed)
    BY DEF IsAnalysis, SameMarks, Quiet, SameStack
  <1> HIDE DEF typed
  <1>2. IsAnalysis(b) /\ SameMarks(typed, b) /\ Lined(typed, b, op, T)
    <2>1. /\ Statement(op) \in [kind : Plain, about : T]
          /\ Statement(op).kind = "mention" => Mentions(op)
      BY StatementIs DEF Stated
    <2>2. QED BY <1>1, <2>1, PushIs
  <1> HIDE DEF b
  <1>3. IsAnalysis(b) /\ SameMarks(a, b) /\ Lined(a, b, op, T)
    BY <1>1, <1>2 DEF SameMarks, Quiet, Lined, SameStack
  <1>4. ReturnOf(a, op) = b
    BY DEF ReturnOf, b, typed
  <1>5. QED BY <1>3, <1>4

\* What is found out of arguments is nothing that blocks are about.
LEMMA ArgumentsQuiet ==
  ASSUME NEW a, IsAnalysis(a), NEW op
  PROVE  \A b \in {LoadArgument(a, op), TypeArgument(a, op), UseArgument(a, op)} :
           IsAnalysis(b) /\ SameMarks(a, b) /\ Quiet(a, b)
  <1>1. IsAnalysis(LoadArgument(a, op)) /\ SameMarks(a, LoadArgument(a, op)) /\ Quiet(a, LoadArgument(a, op))
    BY DEF IsAnalysis, SameMarks, Quiet, SameStack, LoadArgument, SetArgument
  <1>2. IsAnalysis(TypeArgument(a, op)) /\ SameMarks(a, TypeArgument(a, op)) /\ Quiet(a, TypeArgument(a, op))
    BY DEF IsAnalysis, SameMarks, Quiet, SameStack, TypeArgument, SetArgument
  <1>3. IsAnalysis(UseArgument(a, op)) /\ SameMarks(a, UseArgument(a, op)) /\ Quiet(a, UseArgument(a, op))
    BY DEF IsAnalysis, SameMarks, Quiet, SameStack, UseArgument
  <1>4. QED BY <1>1, <1>2, <1>3

\* An operation takes one of the steps, in either language.
LEMMA OperationIs ==
  ASSUME NEW before, IsAnalysis(before), NEW op, NEW T, op.name \in T, Last(before.jumped) \in T,
         NEW yul \in BOOLEAN
  PROVE  /\ IsAnalysis(AnalyzeOperation(before, op, yul))
         /\ Marks(before, AnalyzeOperation(before, op, yul), op)
         /\ Steps(before, AnalyzeOperation(before, op, yul), op, T, yul)
  <1> DEFINE a == MarkModifiers(before, op)
             b == AnalyzeOperation(before, op, yul)
             Fine(x) == IsAnalysis(x) /\ SameMarks(a, x) /\ Steps(a, x, op, T, yul)
  <1>1. IsAnalysis(a) /\ Marks(before, a, op) /\ Quiet(before, a)
    BY MarkingIs
  <1>2. b = CASE Is(op, "LOG")                -> LogOf(a, op)
              [] Is(op, "JUMPI")              -> IF yul THEN OpenBlock(a, op.condition)
                                                 ELSE JumpiOf(a, op)
              [] Is(op, "REVERT")             -> IF yul THEN RevertElse(a, op) ELSE RevertOf(a, op)
              [] Is(op, "RETURN")             -> IF yul THEN Push(a, Statement(op))
                                                 ELSE ReturnOf(a, op)
              [] op.name \in Stating \union (IF yul THEN {"RETURNDATACOPY"} ELSE {}) ->
                   Push(a, Statement(op))
              [] Is(op, "CALLDATALOAD")       -> LoadArgument(a, op)
              [] op.name \in {"ISZERO", "AND", "OR"} -> TypeArgument(a, op)
              [] op.name \in Integer \union Bytes    -> UseArgument(a, op)
              [] OTHER -> a
    BY DEF AnalyzeOperation
  <1>3. Last(a.jumped) \in T
    BY <1>1 DEF Quiet, SameStack
  <1> HIDE DEF a, b
  <1>4. ASSUME op.name = "LOG" PROVE Fine(b)
    <2>1. b = LogOf(a, op)
      BY <1>2, <1>4 DEF Is, Stating, Integer, Bytes
    <2>2. QED BY <1>1, <1>4, <2>1, LogIs DEF Steps
  <1>5. ASSUME op.name = "JUMPI" PROVE Fine(b)
    <2>1. b = IF yul THEN OpenBlock(a, op.condition) ELSE JumpiOf(a, op)
      BY <1>2, <1>5 DEF Is, Stating, Integer, Bytes
    <2>2. QED BY <1>1, <1>5, <2>1, OpenIs, JumpiIs DEF Steps
  <1>6. ASSUME op.name = "REVERT" PROVE Fine(b)
    <2>1. b = IF yul THEN RevertElse(a, op) ELSE RevertOf(a, op)
      BY <1>2, <1>6 DEF Is, Stating, Integer, Bytes
    <2>2. QED BY <1>1, <1>3, <2>1, ElseIs, RevertIs DEF Steps
  <1>7. ASSUME op.name = "RETURN" PROVE Fine(b)
    <2>1. b = IF yul THEN Push(a, Statement(op)) ELSE ReturnOf(a, op)
      BY <1>2, <1>7 DEF Is, Stating, Integer, Bytes
    <2>2. /\ Statement(op) \in [kind : Plain, about : T]
          /\ Statement(op).kind = "mention" => Mentions(op)
      BY <1>7, StatementIs DEF Stated
    <2>3. QED BY <1>1, <1>7, <2>1, <2>2, PushIs, ReturnIs DEF Steps
  <1>8. ASSUME op.name \in Stating \union (IF yul THEN {"RETURNDATACOPY"} ELSE {}) PROVE Fine(b)
    <2>1. b = Push(a, Statement(op))
      BY <1>2, <1>8 DEF Is, Stating, Integer, Bytes
    <2>2. /\ Statement(op) \in [kind : Plain, about : T]
          /\ Statement(op).kind = "mention" => Mentions(op)
      BY <1>8, StatementIs DEF Stated
    <2>3. QED BY <1>1, <2>1, <2>2, PushIs DEF Steps
  <1>9. ASSUME op.name \notin {"LOG", "JUMPI", "REVERT", "RETURN"},
               op.name \notin Stating \union (IF yul THEN {"RETURNDATACOPY"} ELSE {})
        PROVE  Fine(b)
    <2>1. b \in {LoadArgument(a, op), TypeArgument(a, op), UseArgument(a, op), a}
      BY <1>2, <1>9 DEF Is
    <2>2. IsAnalysis(b) /\ SameMarks(a, b) /\ Quiet(a, b)
      <3>1. IsAnalysis(a) /\ SameMarks(a, a) /\ Quiet(a, a)
        BY <1>1 DEF SameMarks, Quiet, SameStack
      <3>2. QED BY <1>1, <2>1, <3>1, ArgumentsQuiet
    <2>3. QED BY <2>2 DEF Steps
  <1>10. IsAnalysis(b) /\ SameMarks(a, b) /\ Steps(a, b, op, T, yul)
    BY <1>4, <1>5, <1>6, <1>7, <1>8, <1>9
  <1>11. Marks(before, b, op)
    BY <1>1, <1>10 DEF Marks, SameMarks
  <1>12. Steps(before, b, op, T, yul)
    <2>1. /\ a.function.logic = before.function.logic
          /\ a.conditional_map = before.conditional_map /\ a.jumped = before.jumped
      BY <1>1 DEF Quiet, SameStack
    <2>2. Lined(a, b, op, T) => Lined(before, b, op, T)
      BY <2>1 DEF Lined, SameStack
    <2>3. Turned(a, b) => Turned(before, b)
      BY <2>1 DEF Turned
    <2>4. /\ Quiet(a, b) => Quiet(before, b)
          /\ Opened(a, b, op.condition) => Opened(before, b, op.condition)
          /\ Elsed(a, b) => Elsed(before, b)
      BY <2>1 DEF Quiet, Opened, Elsed, SameStack
    <2>5. QED BY <1>10, <2>2, <2>3, <2>4 DEF Steps
  <1>13. QED BY <1>10, <1>11, <1>12 DEF b

-----------------------------------------------------------------------------
(* Blocks and the stack of conditions                                       *)

\* The blocks of the lines are those of the n conditions, and if not exactly, some
\* are left open; exactness in Yul takes that nothing mentions the difficulty.
NoMention(logic) == \A i \in DOMAIN logic : logic[i].kind # "mention"

BlocksFit(logic, n, yul, exact) ==
  /\ IF exact THEN Cardinality(Opening(logic)) = Cardinality(Closing(logic)) + n
     ELSE Cardinality(Opening(logic)) >= Cardinality(Closing(logic)) + n
  /\ Covers(Opening(logic), Closing(logic))
  /\ yul /\ exact => NoMention(logic)

\* Every condition on the stack is that of a trace that is not left yet.
Tracked(a, T) ==
  /\ \A k \in DOMAIN a.conditional_map : a.conditional_map[k] # Absent
  /\ \A c \in T \ {Absent} : Occurs(a.conditional_map, c) <= Occurs(a.jumped, c)

WellFormed(a, T, yul, exact) ==
  /\ IsAnalysis(a)
  /\ a.function.logic \in Seq(Lines(T)) /\ a.conditional_map \in Seq(T) /\ a.jumped \in Seq(T)
  /\ BlocksFit(a.function.logic, Len(a.conditional_map), yul, exact)
  /\ Tracked(a, T)

\* The lines of a text that open and close blocks
LEMMA LogicIs ==
  ASSUME NEW T, NEW logic \in Seq(Lines(T))
  PROVE  /\ Len(logic) \in Nat /\ DOMAIN logic = 1..Len(logic)
         /\ Opening(logic) \in SUBSET (1..Len(logic)) /\ Closing(logic) \in SUBSET (1..Len(logic))
         /\ Opening(logic) \intersect Closing(logic) = {}
         /\ IsFiniteSet(Opening(logic)) /\ IsFiniteSet(Closing(logic))
         /\ Cardinality(Opening(logic)) \in Nat /\ Cardinality(Closing(logic)) \in Nat
         /\ \A i \in 1..Len(logic) : logic[i] \in Lines(T)
  <1>1. Len(logic) \in Nat /\ DOMAIN logic = 1..Len(logic)
        /\ \A i \in 1..Len(logic) : logic[i] \in Lines(T)
    OBVIOUS
  <1>2. Opening(logic) \in SUBSET (1..Len(logic)) /\ Closing(logic) \in SUBSET (1..Len(logic))
    BY <1>1 DEF Opening, Closing
  <1>3. Opening(logic) \intersect Closing(logic) = {}
    BY DEF Opening, Closing
  <1>4. QED BY <1>1, <1>2, <1>3, LinesFinite

\* A line more
LEMMA LineMore ==
  ASSUME NEW T, NEW logic \in Seq(Lines(T)), NEW line \in Lines(T)
  PROVE  /\ Append(logic, line) \in Seq(Lines(T))
         /\ Opening(Append(logic, line)) =
              IF line.kind \in {"if", "else"} THEN Opening(logic) \union {Len(logic) + 1}
              ELSE Opening(logic)
         /\ Closing(Append(logic, line)) =
              IF line.kind = "}" THEN Closing(logic) \union {Len(logic) + 1}
              ELSE Closing(logic)
         /\ NoMention(logic) /\ line.kind # "mention" => NoMention(Append(logic, line))
  <1> DEFINE n == Len(logic)
             t == Append(logic, line)
  <1>1. /\ n \in Nat /\ DOMAIN logic = 1..n /\ t \in Seq(Lines(T)) /\ DOMAIN t = 1..(n + 1)
        /\ t[n + 1] = line /\ \A i \in 1..n : t[i] = logic[i]
    OBVIOUS
  <1>2. 1..(n + 1) = 1..n \union {n + 1} /\ n + 1 \notin 1..n
    BY <1>1
  <1> HIDE DEF n, t
  <1>3. Opening(t) = IF line.kind \in {"if", "else"} THEN Opening(logic) \union {n + 1} ELSE Opening(logic)
    BY <1>1, <1>2 DEF Opening
  <1>4. Closing(t) = IF line.kind = "}" THEN Closing(logic) \union {n + 1} ELSE Closing(logic)
    BY <1>1, <1>2 DEF Closing
  <1>5. NoMention(logic) /\ line.kind # "mention" => NoMention(t)
    BY <1>1, <1>2 DEF NoMention
  <1>6. QED BY <1>1, <1>3, <1>4, <1>5 DEF n, t

\* A line that is no block
LEMMA PlainFits ==
  ASSUME NEW T, NEW logic \in Seq(Lines(T)), NEW n \in Nat, NEW yul, NEW exact,
         BlocksFit(logic, n, yul, exact),
         NEW line \in [kind : Plain, about : T], yul /\ exact => line.kind # "mention"
  PROVE  Append(logic, line) \in Seq(Lines(T)) /\ BlocksFit(Append(logic, line), n, yul, exact)
  <1>1. line \in Lines(T) /\ line.kind \notin {"if", "else", "}"}
    BY DEF Lines, Kinds, Plain
  <1>2. QED BY <1>1, LineMore DEF BlocksFit

\* A block that is opened
LEMMA OpenedFits ==
  ASSUME NEW T, NEW logic \in Seq(Lines(T)), NEW n \in Nat, NEW yul, NEW exact,
         BlocksFit(logic, n, yul, exact), NEW c \in T
  PROVE  /\ Append(logic, Line("if", c)) \in Seq(Lines(T))
         /\ BlocksFit(Append(logic, Line("if", c)), n + 1, yul, exact)
  <1> DEFINE line == Line("if", c)
             O == Opening(logic)
             C == Closing(logic)
             m == Len(logic)
  <1>1. line \in Lines(T) /\ line.kind = "if"
    BY DEF Line, Lines, Kinds
  <1>2. /\ Append(logic, line) \in Seq(Lines(T))
        /\ Opening(Append(logic, line)) = O \union {m + 1} /\ Closing(Append(logic, line)) = C
    BY <1>1, LineMore
  <1>3. /\ m \in Nat /\ O \in SUBSET (1..m) /\ C \in SUBSET (1..m) /\ IsFiniteSet(O)
        /\ Cardinality(O) \in Nat /\ Cardinality(C) \in Nat
    BY LogicIs
  <1>4. /\ IF exact THEN Cardinality(O) = Cardinality(C) + n ELSE Cardinality(O) >= Cardinality(C) + n
        /\ Covers(O, C)
    BY DEF BlocksFit
  <1> HIDE DEF line, O, C, m
  <1>5. Covers(O \union {m + 1}, C)
    BY <1>3, <1>4, CoversMore
  <1>6. Cardinality(O \union {m + 1}) = Cardinality(O) + 1
    <2>1. m + 1 \notin O
      <3>1. m + 1 \notin 1..m
        BY <1>3
      <3>2. QED BY <1>3, <3>1
    <2>2. QED BY <1>3, <2>1, FS_AddElement
  <1>7. BlocksFit(Append(logic, line), n + 1, yul, exact)
    <2>1. IF exact THEN Cardinality(O) + 1 = Cardinality(C) + (n + 1)
          ELSE Cardinality(O) + 1 >= Cardinality(C) + (n + 1)
      BY <1>3, <1>4
    <2>2. yul /\ exact => NoMention(Append(logic, line))
      BY <1>1, LineMore DEF BlocksFit
    <2>3. QED BY <1>2, <1>5, <1>6, <2>1, <2>2 DEF BlocksFit
  <1>8. QED BY <1>2, <1>7 DEF line

\* A block that is closed
LEMMA ClosedFits ==
  ASSUME NEW T, NEW logic \in Seq(Lines(T)), NEW n \in Nat \ {0}, NEW yul, NEW exact,
         BlocksFit(logic, n, yul, exact), NEW c \in T
  PROVE  /\ Append(logic, Line("}", c)) \in Seq(Lines(T))
         /\ BlocksFit(Append(logic, Line("}", c)), n - 1, yul, exact)
  <1> DEFINE line == Line("}", c)
             O == Opening(logic)
             C == Closing(logic)
             m == Len(logic)
  <1>1. line \in Lines(T) /\ line.kind = "}"
    BY DEF Line, Lines, Kinds
  <1>2. /\ Append(logic, line) \in Seq(Lines(T))
        /\ Opening(Append(logic, line)) = O /\ Closing(Append(logic, line)) = C \union {m + 1}
    BY <1>1, LineMore
  <1>3. /\ m \in Nat /\ O \in SUBSET (1..m) /\ C \in SUBSET (1..m) /\ IsFiniteSet(C)
        /\ Cardinality(O) \in Nat /\ Cardinality(C) \in Nat
    BY LogicIs
  <1>4. /\ IF exact THEN Cardinality(O) = Cardinality(C) + n ELSE Cardinality(O) >= Cardinality(C) + n
        /\ Covers(O, C)
    BY DEF BlocksFit
  <1> HIDE DEF line, O, C, m
  <1>5. Covers(O, C \union {m + 1})
    <2>1. Cardinality(C) < Cardinality(O)
      BY <1>3, <1>4
    <2>2. QED BY <1>3, <1>4, <2>1, CoversClosed
  <1>6. Cardinality(C \union {m + 1}) = Cardinality(C) + 1
    <2>1. m + 1 \notin C
      <3>1. m + 1 \notin 1..m
        BY <1>3
      <3>2. QED BY <1>3, <3>1
    <2>2. QED BY <1>3, <2>1, FS_AddElement
  <1>7. BlocksFit(Append(logic, line), n - 1, yul, exact)
    <2>1. IF exact THEN Cardinality(O) = (Cardinality(C) + 1) + (n - 1)
          ELSE Cardinality(O) >= (Cardinality(C) + 1) + (n - 1)
      BY <1>3, <1>4
    <2>2. yul /\ exact => NoMention(Append(logic, line))
      BY <1>1, LineMore DEF BlocksFit
    <2>3. QED BY <1>2, <1>5, <1>6, <2>1, <2>2 DEF BlocksFit
  <1>8. QED BY <1>2, <1>7 DEF line

\* As long as a condition is on the stack, there is a line.
LEMMA SomeLine ==
  ASSUME NEW T, NEW logic \in Seq(Lines(T)), NEW n \in Nat \ {0}, NEW yul, NEW exact,
         BlocksFit(logic, n, yul, exact)
  PROVE  Len(logic) # 0
  <1> DEFINE O == Opening(logic)
             C == Closing(logic)
  <1>1. /\ O \in SUBSET (1..Len(logic)) /\ Len(logic) \in Nat
        /\ Cardinality(O) \in Nat /\ Cardinality(C) \in Nat
    BY LogicIs
  <1>2. IF exact THEN Cardinality(O) = Cardinality(C) + n ELSE Cardinality(O) >= Cardinality(C) + n
    BY DEF BlocksFit
  <1> HIDE DEF O, C
  <1>3. SUFFICES ASSUME Len(logic) = 0 PROVE FALSE
    OBVIOUS
  <1>4. O = {}
    BY <1>1, <1>3
  <1>5. Cardinality(O) = 0
    BY <1>4, FS_EmptySet
  <1>6. QED BY <1>1, <1>2, <1>5

\* A statement dropped in place of a block: the block stays open.
LEMMA MentionFits ==
  ASSUME NEW T, NEW logic \in Seq(Lines(T)), NEW n \in Nat \ {0},
         BlocksFit(logic, n, TRUE, FALSE), Last(logic).kind = "mention"
  PROVE  Front(logic) \in Seq(Lines(T)) /\ BlocksFit(Front(logic), n - 1, TRUE, FALSE)
  <1> DEFINE O == Opening(logic)
             C == Closing(logic)
             m == Len(logic)
             t == Front(logic)
  <1>1. /\ m \in Nat /\ O \in SUBSET (1..m) /\ C \in SUBSET (1..m)
        /\ Cardinality(O) \in Nat /\ Cardinality(C) \in Nat /\ DOMAIN logic = 1..m
    BY LogicIs
  <1>2. Cardinality(O) >= Cardinality(C) + n /\ Covers(O, C)
    BY DEF BlocksFit
  <1>3. m # 0
    BY SomeLine
  <1>4. logic # <<>>
    BY <1>3
  <1>5. t \in Seq(Lines(T)) /\ Len(t) = m - 1 /\ \A k \in 1..(m - 1) : t[k] = logic[k]
    BY <1>4, OccursFront
  <1>6. DOMAIN t = 1..(m - 1)
    BY <1>5
  <1>7. m \notin O /\ m \notin C
    BY DEF Last, Opening, Closing
  <1>8. \A k : k \in 1..(m - 1) <=> k \in 1..m /\ k # m
    BY <1>1
  <1>9. Opening(t) = O
    BY <1>1, <1>5, <1>6, <1>7, <1>8 DEF Opening
  <1>10. Closing(t) = C
    BY <1>1, <1>5, <1>6, <1>7, <1>8 DEF Closing
  <1> HIDE DEF O, C, m, t
  <1>11. Cardinality(O) >= Cardinality(C) + (n - 1)
    BY <1>1, <1>2
  <1>12. BlocksFit(t, n - 1, TRUE, FALSE)
    BY <1>2, <1>9, <1>10, <1>11 DEF BlocksFit
  <1>13. QED BY <1>5, <1>12 DEF t

\* A block dropped that was opened last
LEMMA DroppedFits ==
  ASSUME NEW T, NEW logic \in Seq(Lines(T)), NEW n \in Nat \ {0}, NEW yul, NEW exact,
         BlocksFit(logic, n, yul, exact), Last(logic).kind \in {"if", "else"}
  PROVE  Front(logic) \in Seq(Lines(T)) /\ BlocksFit(Front(logic), n - 1, yul, exact)
  <1> DEFINE O == Opening(logic)
             C == Closing(logic)
             m == Len(logic)
             t == Front(logic)
  <1>1. /\ m \in Nat /\ O \in SUBSET (1..m) /\ C \in SUBSET (1..m) /\ IsFiniteSet(O)
        /\ Cardinality(O) \in Nat /\ Cardinality(C) \in Nat /\ O \intersect C = {}
        /\ DOMAIN logic = 1..m
    BY LogicIs
  <1>2. /\ IF exact THEN Cardinality(O) = Cardinality(C) + n ELSE Cardinality(O) >= Cardinality(C) + n
        /\ Covers(O, C)
    BY DEF BlocksFit
  <1>3. m # 0
    BY SomeLine
  <1>4. logic # <<>>
    BY <1>3
  <1>5. t \in Seq(Lines(T)) /\ Len(t) = m - 1 /\ \A k \in 1..(m - 1) : t[k] = logic[k]
    BY <1>4, OccursFront
  <1>6. DOMAIN t = 1..(m - 1)
    BY <1>5
  <1>7. m \in O
    BY <1>1, <1>3 DEF Last, Opening
  <1>8. m \notin C
    BY <1>1, <1>7
  <1>9. \A k : k \in 1..(m - 1) <=> k \in 1..m /\ k # m
    BY <1>1
  <1>10. Opening(t) = O \ {m}
    BY <1>1, <1>5, <1>6, <1>9 DEF Opening
  <1>11. Closing(t) = C
    BY <1>1, <1>5, <1>6, <1>8, <1>9 DEF Closing
  <1> HIDE DEF O, C, m, t
  <1>12. Covers(O \ {m}, C)
    <2>1. Cardinality(C) < Cardinality(O)
      BY <1>1, <1>2
    <2>2. QED BY <1>1, <1>2, <1>7, <1>8, <2>1, CoversDropped
  <1>13. Cardinality(O \ {m}) = Cardinality(O) - 1
    BY <1>1, <1>7, FS_RemoveElement
  <1>14. BlocksFit(t, n - 1, yul, exact)
    <2>1. IF exact THEN Cardinality(O) - 1 = Cardinality(C) + (n - 1)
          ELSE Cardinality(O) - 1 >= Cardinality(C) + (n - 1)
      BY <1>1, <1>2
    <2>2. yul /\ exact => NoMention(t)
      BY <1>1, <1>5, <1>6, <1>9 DEF BlocksFit, NoMention
    <2>3. QED BY <1>10, <1>11, <1>12, <1>13, <2>1, <2>2 DEF BlocksFit
  <1>15. QED BY <1>5, <1>14 DEF t

\* The last block that is opened becomes the alternative of the one before.
LEMMA ElsedFits ==
  ASSUME NEW T, NEW logic \in Seq(Lines(T)), NEW n \in Nat, NEW yul, NEW exact,
         BlocksFit(logic, n, yul, exact), Opening(logic) # {}
  PROVE  /\ [logic EXCEPT ![Max(Opening(logic))].kind = "else"] \in Seq(Lines(T))
         /\ BlocksFit([logic EXCEPT ![Max(Opening(logic))].kind = "else"], n, yul, exact)
  <1> DEFINE m == Max(Opening(logic))
             t == [logic EXCEPT ![m].kind = "else"]
  <1>1. /\ Len(logic) \in Nat /\ DOMAIN logic = 1..Len(logic)
        /\ Opening(logic) \in SUBSET (1..Len(logic)) /\ \A i \in 1..Len(logic) : logic[i] \in Lines(T)
    BY LogicIs
  <1>2. m \in Opening(logic)
    <2>1. \E x \in Opening(logic) : \A y \in Opening(logic) : y <= x
      BY <1>1, LinesEnds
    <2>2. \A x, y \in Opening(logic) : y <= x => x >= y
      BY <1>1
    <2>3. \E x \in Opening(logic) : \A y \in Opening(logic) : x >= y
      BY <2>1, <2>2
    <2>4. QED BY <2>3 DEF Max
  <1> HIDE DEF m
  <1>3. /\ DOMAIN t = 1..Len(logic) /\ t[m] = [logic[m] EXCEPT !.kind = "else"]
        /\ \A i \in 1..Len(logic) : i # m => t[i] = logic[i]
    BY <1>1, <1>2
  <1>4. logic[m] \in Lines(T) /\ m \in 1..Len(logic)
    BY <1>1, <1>2
  <1>5. t[m] \in Lines(T) /\ t[m].kind = "else"
    BY <1>3, <1>4 DEF Lines, Kinds
  <1> HIDE DEF t
  <1>6. t \in Seq(Lines(T))
    <2>1. t = [i \in 1..Len(logic) |-> t[i]]
      BY <1>3, <1>4 DEF t
    <2>2. \A i \in 1..Len(logic) : t[i] \in Lines(T)
      BY <1>1, <1>3, <1>5
    <2>3. t \in [1..Len(logic) -> Lines(T)]
      BY <2>1, <2>2
    <2>4. QED BY <1>1, <2>3
  <1>7. Opening(t) = Opening(logic)
    BY <1>1, <1>2, <1>3, <1>5 DEF Opening
  <1>8. Closing(t) = Closing(logic)
    BY <1>1, <1>2, <1>3, <1>5 DEF Opening, Closing
  <1>9. NoMention(logic) => NoMention(t)
    BY <1>1, <1>3, <1>4, <1>5 DEF NoMention
  <1>10. QED BY <1>6, <1>7, <1>8, <1>9 DEF BlocksFit, t, m

\* The blocks on top become requirements: as many as there are conditions.
LEMMA TurnedFits ==
  ASSUME NEW T, NEW a, NEW b, Turned(a, b),
         a.function.logic \in Seq(Lines(T)), a.conditional_map \in Seq(T),
         BlocksFit(a.function.logic, Len(a.conditional_map), FALSE, TRUE)
  PROVE  /\ b.function.logic \in Seq(Lines(T)) /\ b.conditional_map = <<>>
         /\ BlocksFit(b.function.logic, 0, FALSE, TRUE)
  <1> DEFINE logic == a.function.logic
             map == a.conditional_map
             n == Len(map)
             O == Opening(logic)
             C == Closing(logic)
             V == Top(O, n)
             t == b.function.logic
             m == Len(logic)
  <1>1. /\ m \in Nat /\ DOMAIN logic = 1..m /\ O \in SUBSET (1..m) /\ C \in SUBSET (1..m)
        /\ Cardinality(O) \in Nat /\ Cardinality(C) \in Nat /\ O \intersect C = {}
        /\ \A i \in 1..m : logic[i] \in Lines(T)
    BY LogicIs
  <1>2. n \in Nat /\ \A k \in 1..n : map[k] \in T
    OBVIOUS
  <1>3. Cardinality(O) = Cardinality(C) + n /\ Covers(O, C)
    BY DEF BlocksFit
  <1>4. /\ t = [i \in 1..m |-> IF i \in V THEN Line("require", map[n - Cardinality(After(O, i))])
                               ELSE logic[i]]
        /\ b.conditional_map = SubSeq(map, 1, n - Cardinality(V))
    BY <1>1 DEF Turned
  <1>0. V = Top(O, n)
    OBVIOUS
  <1> HIDE DEF logic, map, O, C, n, m, t, V
  <1>5. Covers(O \ V, C) /\ Cardinality(O \ V) = Cardinality(C) /\ Cardinality(V) = n
    <2>1. /\ Covers(O \ Top(O, n), C) /\ Cardinality(O \ Top(O, n)) = Cardinality(C)
          /\ Cardinality(Top(O, n)) = n
      <3>1. m \in Nat
        BY <1>1
      <3>2. \A P, Q \in SUBSET (1..m) : Covers(P, Q) =>
              \A x \in Nat : Cardinality(P) = Cardinality(Q) + x =>
                /\ Covers(P \ Top(P, x), Q)
                /\ Cardinality(P \ Top(P, x)) = Cardinality(Q)
                /\ Cardinality(Top(P, x)) = x
        BY ONLY <3>1, CoversTurned, Zenon
      <3>3. O \in SUBSET (1..m) /\ C \in SUBSET (1..m) /\ Covers(O, C)
        BY <1>1, <1>3
      <3>4. \A x \in Nat : Cardinality(O) = Cardinality(C) + x =>
                /\ Covers(O \ Top(O, x), C)
                /\ Cardinality(O \ Top(O, x)) = Cardinality(C)
                /\ Cardinality(Top(O, x)) = x
        BY ONLY <3>2, <3>3, Zenon
      <3>5. n \in Nat /\ Cardinality(O) = Cardinality(C) + n
        BY <1>2, <1>3
      <3>6. QED BY ONLY <3>4, <3>5, Zenon
    <2>2. QED BY <1>0, <2>1
  <1>6. \A i \in V : i \in O /\ Cardinality(After(O, i)) < n
    BY <1>0 DEF Top
  <1>7. ASSUME NEW i \in V PROVE t[i] \in Lines(T) /\ t[i].kind = "require"
    <2>1. Cardinality(After(O, i)) \in Nat
      <3>1. After(O, i) \in SUBSET O
        BY DEF After
      <3>2. QED BY <1>1, <3>1, LinesFinite
    <2>2. n - Cardinality(After(O, i)) \in 1..n
      BY <1>2, <1>6, <2>1
    <2>3. t[i] = Line("require", map[n - Cardinality(After(O, i))])
      BY <1>1, <1>4, <1>6
    <2>4. map[n - Cardinality(After(O, i))] \in T
      BY <1>2, <2>2
    <2>5. \A x \in T : Line("require", x) \in Lines(T) /\ Line("require", x).kind = "require"
      BY DEF Line, Lines, Kinds, Plain
    <2>6. QED BY ONLY <2>3, <2>4, <2>5
  <1>8. \A i \in 1..m : i \notin V => t[i] = logic[i]
    BY <1>4
  <1>9. t \in Seq(Lines(T)) /\ DOMAIN t = 1..m
    <2>1. \A i \in 1..m : t[i] \in Lines(T)
      BY <1>1, <1>7, <1>8
    <2>2. t = [i \in 1..m |-> t[i]]
      BY <1>4
    <2>3. t \in [1..m -> Lines(T)]
      BY <2>1, <2>2
    <2>4. QED BY <1>1, <2>2, <2>3
  <1>10. Opening(t) = O \ V
    BY <1>1, <1>6, <1>7, <1>8, <1>9 DEF Opening, O
  <1>11. Closing(t) = C
    BY <1>1, <1>6, <1>7, <1>8, <1>9 DEF Closing, C
  <1>12. BlocksFit(t, 0, FALSE, TRUE)
    BY <1>1, <1>5, <1>10, <1>11 DEF BlocksFit
  <1>13. b.conditional_map = <<>>
    <2>1. n - Cardinality(V) = 0
      BY <1>2, <1>5
    <2>2. QED BY <1>4, <2>1
  <1>14. QED BY <1>9, <1>12, <1>13 DEF t

\* A step of an operation keeps an analysis well-formed.
LEMMA StepFits ==
  ASSUME NEW T, Absent \in T, NEW yul \in BOOLEAN, NEW exact \in BOOLEAN, ~yul => exact,
         NEW a, WellFormed(a, T, yul, exact), NEW b, IsAnalysis(b),
         NEW op, Steps(a, b, op, T, yul), yul /\ exact => ~Mentions(op),
         op.name = "JUMPI" => /\ a.jumped # <<>> /\ Last(a.jumped) = Absent
                              /\ op.condition \in T \ {Absent}
  PROVE  /\ WellFormed(b, T, yul, exact) /\ Len(b.jumped) = Len(a.jumped)
         /\ op.name # "JUMPI" => b.jumped = a.jumped
  <1> DEFINE logic == a.function.logic
             map == a.conditional_map
  <1>1. /\ logic \in Seq(Lines(T)) /\ map \in Seq(T) /\ a.jumped \in Seq(T)
        /\ BlocksFit(logic, Len(map), yul, exact) /\ Tracked(a, T) /\ Len(map) \in Nat
    BY DEF WellFormed
  <1>2. CASE Quiet(a, b)
    BY <1>1, <1>2 DEF Quiet, SameStack, WellFormed, Tracked
  <1>3. CASE Lined(a, b, op, T)
    <2>1. PICK line \in [kind : Plain, about : T] :
            b.function.logic = Append(logic, line) /\ (line.kind = "mention" => Mentions(op))
      BY <1>3 DEF Lined
    <2> HIDE DEF logic, map
    <2>2. b.function.logic \in Seq(Lines(T)) /\ BlocksFit(b.function.logic, Len(map), yul, exact)
      <3>1. /\ Append(logic, line) \in Seq(Lines(T))
            /\ BlocksFit(Append(logic, line), Len(map), yul, exact)
        BY <1>1, <2>1, PlainFits
      <3>2. QED BY ONLY <2>1, <3>1
    <2>3. b.conditional_map = map /\ b.jumped = a.jumped
      BY <1>3 DEF Lined, SameStack, map
    <2>4. Tracked(b, T)
      BY <1>1, <2>3 DEF Tracked, map
    <2>5. QED BY <1>1, <2>2, <2>3, <2>4 DEF WellFormed
  <1>4. CASE op.name = "JUMPI" /\ Opened(a, b, op.condition)
    <2> DEFINE c == op.condition
    <2>1. /\ a.jumped # <<>> /\ Last(a.jumped) = Absent /\ c \in T /\ c # Absent
          /\ b.function.logic = Append(logic, Line("if", c))
          /\ b.conditional_map = Append(map, c)
          /\ b.jumped = [a.jumped EXCEPT ![Len(a.jumped)] = c]
      BY <1>4 DEF Opened
    <2> HIDE DEF logic, c
    <2>2. b.function.logic \in Seq(Lines(T)) /\ BlocksFit(b.function.logic, Len(map) + 1, yul, exact)
      BY <1>1, <2>1, OpenedFits
    <2>3. b.conditional_map \in Seq(T) /\ Len(b.conditional_map) = Len(map) + 1
          /\ \A k \in DOMAIN b.conditional_map : b.conditional_map[k] \in {c} \union {map[j] : j \in DOMAIN map}
      BY <1>1, <2>1
    <2>4. b.jumped \in Seq(T) /\ Len(b.jumped) = Len(a.jumped)
      BY <1>1, <2>1, OccursReplaced
    <2>5. ASSUME NEW d \in T \ {Absent} PROVE Occurs(b.conditional_map, d) <= Occurs(b.jumped, d)
      <3>1. Occurs(b.jumped, d) = IF c = d THEN Occurs(a.jumped, d) + 1 ELSE Occurs(a.jumped, d)
        <4>1. Occurs([a.jumped EXCEPT ![Len(a.jumped)] = c], d)
                = IF c = d THEN Occurs(a.jumped, d) + 1 ELSE Occurs(a.jumped, d)
          <5>1. a.jumped \in Seq(T) /\ a.jumped # <<>> /\ c \in T /\ d # Last(a.jumped)
            BY <1>1, <2>1, <2>5
          <5>2. QED BY ONLY <5>1, OccursReplaced
        <4>2. QED BY <2>1, <4>1
      <3>2. Occurs(b.conditional_map, d) = IF c = d THEN Occurs(map, d) + 1 ELSE Occurs(map, d)
        BY <1>1, <2>1, OccursAppend
      <3>3. Occurs(map, d) <= Occurs(a.jumped, d)
        BY <1>1, <2>5 DEF Tracked
      <3>4. Occurs(map, d) \in Nat /\ Occurs(a.jumped, d) \in Nat
        BY <1>1, OccursIsNat
      <3> HIDE DEF map
      <3>5. QED BY <3>1, <3>2, <3>3, <3>4
    <2>6. Tracked(b, T)
      <3>1. \A j \in DOMAIN map : map[j] # Absent
        BY <1>1 DEF Tracked
      <3>2. \A k \in DOMAIN b.conditional_map : b.conditional_map[k] # Absent
        BY <2>1, <2>3, <3>1
      <3>3. QED BY <2>5, <3>2 DEF Tracked
    <2>7. QED BY <1>4, <2>2, <2>3, <2>4, <2>6 DEF WellFormed
  <1>5. CASE ~yul /\ Turned(a, b)
    <2>0. yul = FALSE /\ exact = TRUE
      BY <1>5
    <2>1. /\ b.function.logic \in Seq(Lines(T)) /\ b.conditional_map = <<>>
          /\ BlocksFit(b.function.logic, 0, yul, exact)
      <3>1. BlocksFit(a.function.logic, Len(a.conditional_map), FALSE, TRUE)
        BY <1>1, <2>0
      <3>2. /\ b.function.logic \in Seq(Lines(T)) /\ b.conditional_map = <<>>
            /\ BlocksFit(b.function.logic, 0, FALSE, TRUE)
        BY <1>1, <1>5, <3>1, TurnedFits
      <3>3. QED BY <2>0, <3>2
    <2>2. b.jumped = a.jumped
      BY <1>5 DEF Turned
    <2>3. b.conditional_map \in Seq(T) /\ Len(b.conditional_map) = 0 /\ DOMAIN b.conditional_map = {}
      BY <2>1
    <2>4. \A c : Occurs(b.conditional_map, c) = 0
      <3>1. \A c : At(b.conditional_map, c) = {}
        BY <2>3 DEF At
      <3>2. QED BY <3>1, FS_EmptySet DEF Occurs
    <2>5. \A c : Occurs(a.jumped, c) \in Nat
      BY <1>1, OccursIsNat
    <2>6. Tracked(b, T)
      <3>1. \A c : 0 <= Occurs(a.jumped, c)
        BY <2>5
      <3>2. QED BY <2>2, <2>3, <2>4, <3>1 DEF Tracked
    <2>7. QED BY <1>1, <2>1, <2>2, <2>3, <2>6 DEF WellFormed
  <1>6. CASE Elsed(a, b)
    <2>1. /\ Opening(logic) # {} /\ b.function.logic = [logic EXCEPT ![Max(Opening(logic))].kind = "else"]
          /\ b.conditional_map = map /\ b.jumped = a.jumped
      BY <1>6 DEF Elsed, SameStack
    <2> HIDE DEF logic, map
    <2>2. b.function.logic \in Seq(Lines(T)) /\ BlocksFit(b.function.logic, Len(map), yul, exact)
      <3> DEFINE t == [logic EXCEPT ![Max(Opening(logic))].kind = "else"]
      <3>1. t \in Seq(Lines(T)) /\ BlocksFit(t, Len(map), yul, exact)
        BY <1>1, <2>1, ElsedFits
      <3>2. b.function.logic = t
        BY <2>1
      <3> HIDE DEF t
      <3>3. QED BY <3>1, <3>2
    <2>3. Tracked(b, T)
      BY <1>1, <2>1 DEF Tracked, map
    <2>4. QED BY <1>1, <2>1, <2>2, <2>3 DEF WellFormed
  <1>7. QED BY <1>2, <1>3, <1>4, <1>5, <1>6 DEF Steps

\* A trace that is entered has no condition yet.
LEMMA EnterFits ==
  ASSUME NEW T, Absent \in T, NEW yul, NEW exact, NEW a, WellFormed(a, T, yul, exact)
  PROVE  /\ WellFormed(EnterTrace(a), T, yul, exact) /\ EnterTrace(a).function = a.function
         /\ Len(EnterTrace(a).jumped) = Len(a.jumped) + 1
         /\ EnterTrace(a).jumped # <<>> /\ Last(EnterTrace(a).jumped) = Absent
  <1> DEFINE b == EnterTrace(a)
  <1>1. a.jumped \in Seq(T) /\ Tracked(a, T) /\ a.conditional_map \in Seq(T)
    BY DEF WellFormed
  <1>2. /\ b.function = a.function /\ b.conditional_map = a.conditional_map
        /\ b.jumped = Append(a.jumped, Absent) /\ DOMAIN b = DOMAIN a
    BY DEF EnterTrace, WellFormed, IsAnalysis
  <1> HIDE DEF b
  <1>3. /\ b.jumped \in Seq(T) /\ Len(b.jumped) = Len(a.jumped) + 1
        /\ b.jumped # <<>> /\ Last(b.jumped) = Absent
    <2>1. /\ Append(a.jumped, Absent) \in Seq(T) /\ Len(Append(a.jumped, Absent)) = Len(a.jumped) + 1
          /\ Append(a.jumped, Absent)[Len(a.jumped) + 1] = Absent /\ Len(a.jumped) \in Nat
      BY <1>1
    <2>2. QED BY <1>2, <2>1 DEF Last
  <1>4. Tracked(b, T)
    <2>1. \A c \in T \ {Absent} : Occurs(b.jumped, c) = Occurs(a.jumped, c)
      BY <1>1, <1>2, OccursAppend
    <2>2. QED BY <1>1, <1>2, <2>1 DEF Tracked
  <1>5. IsAnalysis(b)
    BY <1>2 DEF WellFormed, IsAnalysis
  <1>6. QED BY <1>2, <1>3, <1>4, <1>5 DEF WellFormed, b

\* The first and the last of a set of positions are in it.
LEMMA EndsAreIn ==
  ASSUME NEW n \in Nat, NEW S \in SUBSET (1..n), S # {}
  PROVE  Min(S) \in S /\ Max(S) \in S
  <1>1. /\ \E x \in S : \A y \in S : y <= x
        /\ \E x \in S : \A y \in S : x <= y
    BY LinesEnds
  <1>2. \A x, y \in S : y <= x => x >= y
    OBVIOUS
  <1>3. \E x \in S : \A y \in S : x >= y
    BY <1>1, <1>2
  <1>4. QED BY <1>1, <1>3 DEF Min, Max

\* What leaving a trace does to its block: nothing, or its condition is taken off
\* the stack and the block is closed or, in Yul, the last line dropped.
Ended(a, b, yul) ==
  /\ IsAnalysis(b) /\ SameMarks(a, b) /\ b.jumped = a.jumped
  /\ \/ /\ Last(a.jumped) = Absent \/ Held(a) = {}
        /\ b.conditional_map = a.conditional_map /\ b.function.logic = a.function.logic
     \/ /\ Last(a.jumped) # Absent
        /\ \E i \in Held(a) : b.conditional_map = RemoveAt(a.conditional_map, i)
        /\ \/ b.function.logic = Append(a.function.logic, Line("}", Last(a.jumped)))
           \/ /\ yul /\ ContainsIf(Last(a.function.logic))
              /\ b.function.logic = Front(a.function.logic)

\* Both lexers end a block in this way.
LEMMA EndsBlock ==
  ASSUME NEW T, NEW yul, NEW exact, NEW a, WellFormed(a, T, yul, exact)
  PROVE  Ended(a, CloseBlock(a), FALSE) /\ Ended(a, CloseOrDrop(a), TRUE)
  <1>1. /\ IsAnalysis(a) /\ Held(a) \in SUBSET (1..Len(a.conditional_map))
        /\ Len(a.conditional_map) \in Nat
    BY DEF WellFormed, Held
  <1>2. CASE Last(a.jumped) = Absent \/ Held(a) = {}
    <2>1. CloseBlock(a) = a /\ CloseOrDrop(a) = a
      BY <1>2 DEF CloseBlock, CloseOrDrop
    <2>2. QED BY <1>1, <1>2, <2>1 DEF Ended, SameMarks
  <1>3. CASE Last(a.jumped) # Absent /\ Held(a) # {}
    <2>1. Min(Held(a)) \in Held(a) /\ Max(Held(a)) \in Held(a)
      BY <1>1, <1>3, EndsAreIn
    <2>2. Ended(a, CloseBlock(a), FALSE)
      <3> DEFINE p == [a EXCEPT !.conditional_map = RemoveAt(@, Min(Held(a)))]
                 b == Push(p, Line("}", Last(a.jumped)))
      <3>1. CloseBlock(a) = b
        BY <1>3 DEF CloseBlock
      <3>2. /\ IsAnalysis(b) /\ SameMarks(a, b) /\ b.jumped = a.jumped
            /\ b.conditional_map = RemoveAt(a.conditional_map, Min(Held(a)))
            /\ b.function.logic = Append(a.function.logic, Line("}", Last(a.jumped)))
        BY <1>1 DEF IsAnalysis, SameMarks, Push
      <3> HIDE DEF b
      <3>3. Ended(a, b, FALSE)
        BY <1>3, <2>1, <3>2 DEF Ended
      <3>4. QED BY <3>1, <3>3
    <2>3. Ended(a, CloseOrDrop(a), TRUE)
      <3> DEFINE p == [a EXCEPT !.conditional_map = RemoveAt(@, Max(Held(a)))]
                 b == Push(p, Line("}", Last(a.jumped)))
                 d == [p EXCEPT !.function.logic = Front(@)]
      <3>1. CloseOrDrop(a) = IF ContainsIf(Last(a.function.logic)) THEN d ELSE b
        BY <1>3 DEF CloseOrDrop
      <3>2. /\ IsAnalysis(b) /\ SameMarks(a, b) /\ b.jumped = a.jumped
            /\ b.conditional_map = RemoveAt(a.conditional_map, Max(Held(a)))
            /\ b.function.logic = Append(a.function.logic, Line("}", Last(a.jumped)))
        BY <1>1 DEF IsAnalysis, SameMarks, Push
      <3>3. /\ IsAnalysis(d) /\ SameMarks(a, d) /\ d.jumped = a.jumped
            /\ d.conditional_map = RemoveAt(a.conditional_map, Max(Held(a)))
            /\ d.function.logic = Front(a.function.logic)
        BY <1>1 DEF IsAnalysis, SameMarks
      <3> HIDE DEF b, d
      <3>4. Ended(a, b, TRUE)
        BY <1>3, <2>1, <3>2 DEF Ended
      <3>5. ContainsIf(Last(a.function.logic)) => Ended(a, d, TRUE)
        BY <1>3, <2>1, <3>3 DEF Ended
      <3>6. QED BY <3>1, <3>4, <3>5
    <2>4. QED BY <2>2, <2>3
  <1>4. QED BY <1>2, <1>3

\* A trace that is left takes its condition along.
LEMMA LeaveFits ==
  ASSUME NEW T, NEW yul \in BOOLEAN, NEW exact \in BOOLEAN, NEW a, WellFormed(a, T, yul, exact),
         a.jumped # <<>>
  PROVE  /\ WellFormed(LeaveTrace(a, yul), T, yul, exact) /\ SameMarks(a, LeaveTrace(a, yul))
         /\ Len(LeaveTrace(a, yul).jumped) = Len(a.jumped) - 1
  <1> DEFINE e == IF yul THEN CloseOrDrop(a) ELSE CloseBlock(a)
             b == LeaveTrace(a, yul)
             c == Last(a.jumped)
             map == a.conditional_map
             logic == a.function.logic
  <1>1. Ended(a, e, yul)
    <2>1. Ended(a, CloseBlock(a), FALSE) /\ Ended(a, CloseOrDrop(a), TRUE)
      BY EndsBlock
    <2>2. CASE yul = TRUE
      BY <2>1, <2>2
    <2>3. CASE yul = FALSE
      BY <2>1, <2>3
    <2>4. QED BY <2>2, <2>3
  <1>2. b = [e EXCEPT !.jumped = Front(@)]
    BY DEF LeaveTrace
  <1> HIDE DEF e, b
  <1>3. /\ IsAnalysis(b) /\ b.function = e.function /\ b.conditional_map = e.conditional_map
        /\ b.jumped = Front(a.jumped)
    BY <1>1, <1>2 DEF Ended, IsAnalysis
  <1>4. /\ logic \in Seq(Lines(T)) /\ map \in Seq(T) /\ a.jumped \in Seq(T)
        /\ BlocksFit(logic, Len(map), yul, exact) /\ Tracked(a, T) /\ Len(map) \in Nat
    BY DEF WellFormed
  <1>5. /\ Front(a.jumped) \in Seq(T) /\ c \in T /\ Len(Front(a.jumped)) = Len(a.jumped) - 1
        /\ \A d : Occurs(Front(a.jumped), d) =
                    IF c = d THEN Occurs(a.jumped, d) - 1 ELSE Occurs(a.jumped, d)
    <2>1. a.jumped \in Seq(T) /\ a.jumped # <<>>
      BY <1>4
    <2>2. /\ Front(a.jumped) \in Seq(T) /\ Last(a.jumped) \in T
          /\ Len(Front(a.jumped)) = Len(a.jumped) - 1
          /\ \A d : Occurs(Front(a.jumped), d) =
                      IF Last(a.jumped) = d THEN Occurs(a.jumped, d) - 1 ELSE Occurs(a.jumped, d)
      BY ONLY <2>1, OccursFront
    <2>3. QED BY <2>2
  <1>6. \A d : Occurs(a.jumped, d) \in Nat /\ Occurs(map, d) \in Nat
    BY <1>4, OccursIsNat
  <1>7. SameMarks(a, b)
    BY <1>1, <1>3 DEF Ended, SameMarks
  <1>8. Held(a) = At(map, c)
    BY DEF Held, At
  <1>9. CASE /\ c = Absent \/ Held(a) = {}
             /\ e.conditional_map = map /\ e.function.logic = logic
    <2>1. ASSUME NEW d \in T \ {Absent} PROVE Occurs(map, d) <= Occurs(Front(a.jumped), d)
      <3>1. Occurs(map, d) <= Occurs(a.jumped, d)
        BY <1>4, <2>1 DEF Tracked
      <3>2. CASE c = d
        <4>1. Occurs(map, d) = 0
          BY <1>8, <1>9, <2>1, <3>2, FS_EmptySet DEF Occurs
        <4>2. Occurs(a.jumped, d) # 0
          <5>1. Len(a.jumped) \in At(a.jumped, d)
            <6>1. Len(a.jumped) \in DOMAIN a.jumped
              BY <1>4
            <6>2. QED BY <3>2, <6>1 DEF At, Last
          <5>2. QED BY <1>4, <5>1, OccursIsNat
        <4>3. Occurs(Front(a.jumped), d) = Occurs(a.jumped, d) - 1
          BY <1>5, <3>2
        <4> HIDE DEF c, map
        <4>4. QED BY <1>6, <4>1, <4>2, <4>3
      <3>3. CASE c # d
        BY <1>5, <3>1, <3>3
      <3>4. QED BY <3>2, <3>3
    <2>2. Tracked(b, T)
      BY <1>3, <1>4, <1>9, <2>1 DEF Tracked
    <2>3. QED BY <1>3, <1>4, <1>5, <1>7, <1>9, <2>2 DEF WellFormed, b
  <1>10. CASE /\ c # Absent
              /\ \E i \in Held(a) : e.conditional_map = RemoveAt(map, i)
              /\ \/ e.function.logic = Append(logic, Line("}", c))
                 \/ yul /\ ContainsIf(Last(logic)) /\ e.function.logic = Front(logic)
    <2>1. PICK i \in Held(a) : e.conditional_map = RemoveAt(map, i)
      BY <1>10
    <2>2. i \in DOMAIN map /\ map[i] = c
      BY <1>8 DEF At
    <2> HIDE DEF map, logic, c
    <2>3. /\ RemoveAt(map, i) \in Seq(T) /\ Len(RemoveAt(map, i)) = Len(map) - 1 /\ Len(map) \in Nat \ {0}
          /\ \A k \in DOMAIN RemoveAt(map, i) : \E j \in DOMAIN map : RemoveAt(map, i)[k] = map[j]
          /\ \A d : Occurs(RemoveAt(map, i), d) = IF map[i] = d THEN Occurs(map, d) - 1 ELSE Occurs(map, d)
      <3>1. map \in Seq(T) /\ i \in DOMAIN map
        BY <1>4, <2>2
      <3>2. QED BY ONLY <3>1, OccursRemoved
    <2>4. e.function.logic \in Seq(Lines(T)) /\ BlocksFit(e.function.logic, Len(map) - 1, yul, exact)
      <3>1. CASE e.function.logic = Append(logic, Line("}", c))
        <4> DEFINE n == Len(map)
        <4>1. n \in Nat \ {0} /\ BlocksFit(logic, n, yul, exact) /\ logic \in Seq(Lines(T)) /\ c \in T
          BY <1>4, <1>5, <2>3
        <4> HIDE DEF n
        <4>2. /\ Append(logic, Line("}", c)) \in Seq(Lines(T))
              /\ BlocksFit(Append(logic, Line("}", c)), n - 1, yul, exact)
          BY ONLY <4>1, ClosedFits
        <4>3. QED BY <3>1, <4>2 DEF n
      <3>2. CASE Last(logic).kind \in {"if", "else"} /\ e.function.logic = Front(logic)
        BY <1>4, <2>3, <3>2, DroppedFits
      <3>3. CASE yul /\ Last(logic).kind = "mention" /\ e.function.logic = Front(logic)
        <4>1. Len(logic) # 0
          BY <1>4, <2>3, SomeLine
        <4>2. yul = TRUE /\ exact = FALSE
          <5>1. Len(logic) \in DOMAIN logic /\ Last(logic) = logic[Len(logic)]
            BY <1>4, <4>1 DEF Last
          <5>2. ~NoMention(logic)
            BY <3>3, <5>1 DEF NoMention
          <5>3. QED BY <1>4, <3>3, <5>2 DEF BlocksFit
        <4>3. BlocksFit(logic, Len(map), TRUE, FALSE)
          BY <1>4, <4>2
        <4>4. /\ Front(logic) \in Seq(Lines(T))
              /\ BlocksFit(Front(logic), Len(map) - 1, TRUE, FALSE)
          BY <1>4, <2>3, <3>3, <4>3, MentionFits
        <4>5. QED BY <3>3, <4>2, <4>4
      <3>4. QED BY <1>10, <3>1, <3>2, <3>3 DEF ContainsIf
    <2>5. ASSUME NEW d \in T \ {Absent} PROVE Occurs(RemoveAt(map, i), d) <= Occurs(Front(a.jumped), d)
      <3>1. Occurs(map, d) <= Occurs(a.jumped, d)
        BY <1>4, <2>5 DEF Tracked, map
      <3>2. QED BY <1>5, <1>6, <2>2, <2>3, <3>1
    <2>6. \A k \in DOMAIN RemoveAt(map, i) : RemoveAt(map, i)[k] # Absent
      <3>1. \A j \in DOMAIN map : map[j] # Absent
        BY <1>4 DEF Tracked, map
      <3>2. QED BY <2>3, <3>1
    <2>7. Tracked(b, T)
      BY <1>3, <2>1, <2>5, <2>6 DEF Tracked
    <2>8. b.function.logic \in Seq(Lines(T)) /\ b.conditional_map \in Seq(T) /\ b.jumped \in Seq(T)
          /\ BlocksFit(b.function.logic, Len(b.conditional_map), yul, exact)
      BY <1>3, <1>5, <2>1, <2>3, <2>4
    <2>9. QED BY <1>3, <1>5, <1>7, <2>7, <2>8 DEF WellFormed, b
  <1>11. QED BY <1>1, <1>9, <1>10 DEF Ended

-----------------------------------------------------------------------------
(* The walk over the traces                                                 *)

Texts(events) ==
  {Absent} \union {events[i].name : i \in DOMAIN events}
           \union {events[i].condition : i \in DOMAIN events}

\* An event more
LEMMA OccurrencesMore ==
  ASSUME NEW events
  PROVE  /\ \A name : Occurrences(events, 0, name) = 0
         /\ \A i \in Nat : \A name :
              /\ Occurrences(events, i, name) \in Nat
              /\ Occurrences(events, i + 1, name) =
                   IF events[i + 1].name = name THEN Occurrences(events, i, name) + 1
                   ELSE Occurrences(events, i, name)
  <1> DEFINE On(i, name) == {j \in 1..i : events[j].name = name}
  <1>1. ASSUME NEW name PROVE Occurrences(events, 0, name) = 0
    <2>1. On(0, name) = {}
      OBVIOUS
    <2>2. QED BY <2>1, FS_EmptySet DEF Occurrences
  <1>2. ASSUME NEW i \in Nat, NEW name
        PROVE  /\ Occurrences(events, i, name) \in Nat
               /\ Occurrences(events, i + 1, name) =
                    IF events[i + 1].name = name THEN Occurrences(events, i, name) + 1
                    ELSE Occurrences(events, i, name)
    <2>1. 1..(i + 1) = 1..i \union {i + 1} /\ i + 1 \notin 1..i
      OBVIOUS
    <2>2. On(i + 1, name) = IF events[i + 1].name = name THEN On(i, name) \union {i + 1} ELSE On(i, name)
      BY <2>1
    <2>3. On(i, name) \in SUBSET (1..i) /\ i + 1 \notin On(i, name)
      BY <2>1
    <2>4. IsFiniteSet(On(i, name)) /\ Cardinality(On(i, name)) \in Nat
      BY <2>3, LinesFinite
    <2>5. Cardinality(On(i, name)) = Occurrences(events, i, name)
          /\ Cardinality(On(i + 1, name)) = Occurrences(events, i + 1, name)
      BY DEF Occurrences
    <2> HIDE DEF On
    <2>6. Cardinality(On(i, name) \union {i + 1}) = Cardinality(On(i, name)) + 1
      BY <2>3, <2>4, FS_AddElement
    <2>7. QED BY <2>2, <2>4, <2>5, <2>6
  <1>3. QED BY <1>1, <1>2

\* After i events, if no panic has ended the analysis: it is well-formed, as many
\* traces are entered and not left as have a condition of their own, that of a
\* trace just entered or in the middle of its operations is not there yet, and
\* the modifiers agree with every operation so far.
Goes(events, i, a, yul) ==
  /\ WellFormed(a, Texts(events), yul, Exact(events, yul))
  /\ Len(a.jumped) + Occurrences(events, i, "leave") = Occurrences(events, i, "enter")
  /\ i # 0 /\ events[i].name \notin {"JUMPI", "leave"} => a.jumped # <<>> /\ Last(a.jumped) = Absent
  /\ a.function.pure => \A j \in 1..i : events[j].name \notin StateAccessing
  /\ a.function.view => \A j \in 1..i : events[j].name \notin StateSetting

Walked(events, i, a, yul) == a.panicked \/ Goes(events, i, a, yul)

\* Nothing is walked at first.
LEMMA WalkStarts ==
  ASSUME NEW events, IsWalk(events), NEW yul \in BOOLEAN
  PROVE  Walked(events, 0, NewAnalysis, yul)
  <1> DEFINE a == NewAnalysis
             T == Texts(events)
             exact == Exact(events, yul)
  <1>1. a.function.logic = <<>> /\ a.conditional_map = <<>> /\ a.jumped = <<>> /\ IsAnalysis(a)
    BY DEF NewAnalysis, NewFunction, IsAnalysis
  <1> HIDE DEF a, T, exact
  <1>2. a.function.logic \in Seq(Lines(T)) /\ a.conditional_map \in Seq(T) /\ a.jumped \in Seq(T)
        /\ Len(a.conditional_map) = 0 /\ Len(a.jumped) = 0 /\ DOMAIN a.conditional_map = {}
    BY <1>1
  <1>3. BlocksFit(a.function.logic, 0, yul, exact)
    <2>1. Opening(a.function.logic) = {} /\ Closing(a.function.logic) = {}
      BY <1>1 DEF Opening, Closing
    <2>2. Covers({}, {})
      <3>1. \A n \in Nat : UpTo({}, n) = {}
        BY DEF UpTo
      <3>2. QED BY <3>1, FS_EmptySet DEF Covers
    <2>3. NoMention(a.function.logic)
      BY <1>1 DEF NoMention
    <2>4. QED BY <2>1, <2>2, <2>3, FS_EmptySet DEF BlocksFit
  <1>4. Tracked(a, T)
    <2>1. \A c : At(a.conditional_map, c) = At(a.jumped, c)
      BY <1>1 DEF At
    <2>2. \A c : Occurs(a.conditional_map, c) \in Nat
      BY <1>2, OccursIsNat
    <2>3. \A c : Occurs(a.conditional_map, c) <= Occurs(a.jumped, c)
      BY <2>1, <2>2 DEF Occurs
    <2>4. QED BY <1>2, <2>3 DEF Tracked
  <1>5. WellFormed(a, T, yul, exact)
    BY <1>1, <1>2, <1>3, <1>4 DEF WellFormed
  <1>6. Len(a.jumped) + Occurrences(events, 0, "leave") = Occurrences(events, 0, "enter")
    <2>1. Occurrences(events, 0, "leave") = 0 /\ Occurrences(events, 0, "enter") = 0
      BY OccurrencesMore, Zenon
    <2>2. QED BY <1>2, <2>1
  <1>7. a.function.pure \in BOOLEAN /\ 1..0 = {}
    BY <1>1 DEF IsAnalysis
  <1>8. QED BY <1>5, <1>6, <1>7 DEF Walked, Goes, a, T, exact

\* One event more, without a panic before it
LEMMA WalkSteps ==
  ASSUME NEW events, IsWalk(events), NEW i \in Nat, i < Len(events), NEW yul \in BOOLEAN,
         NEW a, ~a.panicked, Goes(events, i, a, yul)
  PROVE  Goes(events, i + 1, Analyze(a, events[i + 1], yul), yul)
  <1> DEFINE T == Texts(events)
             exact == Exact(events, yul)
             op == events[i + 1]
             b == Analyze(a, op, yul)
             E(k) == Occurrences(events, k, "enter")
             L(k) == Occurrences(events, k, "leave")
  <1>1. Len(events) \in Nat /\ DOMAIN events = 1..Len(events) /\ i + 1 \in DOMAIN events
    BY DEF IsWalk
  <1>0. exact \in BOOLEAN /\ (~yul => exact) /\ (yul /\ exact => ~Mentions(op))
    BY <1>1 DEF Exact
  <1>2. WellFormed(a, T, yul, exact) /\ IsAnalysis(a) /\ a.jumped \in Seq(T) /\ Len(a.jumped) \in Nat
    BY DEF Goes, WellFormed
  <1>3. Absent \in T /\ op.name \in T /\ op.condition \in T
    BY <1>1 DEF Texts
  <1>4. Len(a.jumped) + L(i) = E(i) /\ L(i) \in Nat /\ E(i) \in Nat
    BY OccurrencesMore DEF Goes
  <1>5. /\ E(i + 1) = IF op.name = "enter" THEN E(i) + 1 ELSE E(i)
        /\ L(i + 1) = IF op.name = "leave" THEN L(i) + 1 ELSE L(i)
    <2>1. \A name : Occurrences(events, i + 1, name) =
                      IF events[i + 1].name = name THEN Occurrences(events, i, name) + 1
                      ELSE Occurrences(events, i, name)
      BY ONLY i \in Nat, OccurrencesMore
    <2>2. QED BY ONLY <2>1
  <1>6. op.name # "enter" => a.jumped # <<>>
    <2>1. SUFFICES ASSUME op.name # "enter" PROVE a.jumped # <<>>
      OBVIOUS
    <2>2. Occurrences(events, (i + 1) - 1, "leave") < Occurrences(events, (i + 1) - 1, "enter")
      BY <1>1, <2>1 DEF IsWalk
    <2>3. L(i) < E(i)
      <3>1. (i + 1) - 1 = i
        OBVIOUS
      <3>2. QED BY <2>2, <3>1
    <2> HIDE DEF E, L
    <2>4. Len(a.jumped) # 0
      BY <1>2, <1>4, <2>3
    <2>5. QED BY <2>4
  <1>7. op.name \notin {"enter", "leave"} => Last(a.jumped) = Absent
    <2>1. SUFFICES ASSUME op.name \notin {"enter", "leave"} PROVE Last(a.jumped) = Absent
      OBVIOUS
    <2>2. i # 0
      <3>1. SUFFICES ASSUME i = 0 PROVE FALSE
        OBVIOUS
      <3>2. E(0) = 0 /\ L(0) = 0
        BY OccurrencesMore
      <3>3. Len(a.jumped) = 0
        BY <1>2, <1>4, <3>1, <3>2
      <3>4. QED BY <1>2, <1>6, <2>1, <3>3
    <2>3. events[i].name \notin {"JUMPI", "leave"}
      <3>1. i \in DOMAIN events
        BY <1>1, <2>2
      <3>2. QED BY <2>1, <3>1 DEF IsWalk
    <2>4. QED BY <2>2, <2>3 DEF Goes
  <1>8. /\ a.function.pure => \A j \in 1..i : events[j].name \notin StateAccessing
        /\ a.function.view => \A j \in 1..i : events[j].name \notin StateSetting
    BY DEF Goes
  <1>9. \A j \in 1..(i + 1) : j \in 1..i \/ j = i + 1
    OBVIOUS
  <1> HIDE DEF T, exact, op, E, L, b
  <1>10. CASE op.name = "enter"
    <2>1. b = EnterTrace(a)
      BY <1>10 DEF Analyze, b
    <2>2. /\ WellFormed(b, T, yul, exact) /\ b.function = a.function /\ Len(b.jumped) = Len(a.jumped) + 1
          /\ b.jumped # <<>> /\ Last(b.jumped) = Absent
      BY <1>2, <1>3, <2>1, EnterFits
    <2>3. Len(b.jumped) + L(i + 1) = E(i + 1)
      BY <1>2, <1>4, <1>5, <1>10, <2>2
    <2>4. op.name \notin StateAccessing /\ op.name \notin StateSetting
      BY <1>10 DEF StateAccessing, StateSetting
    <2>5. /\ b.function.pure => \A j \in 1..(i + 1) : events[j].name \notin StateAccessing
          /\ b.function.view => \A j \in 1..(i + 1) : events[j].name \notin StateSetting
      BY <1>8, <1>9, <2>2, <2>4 DEF op
    <2>6. QED BY <2>2, <2>3, <2>5 DEF Goes, b, op, T, exact, E, L
  <1>11. CASE op.name = "leave"
    <2>1. b = LeaveTrace(a, yul)
      BY <1>11 DEF Analyze, b
    <2>2. WellFormed(b, T, yul, exact) /\ SameMarks(a, b) /\ Len(b.jumped) = Len(a.jumped) - 1
      <3>1. a.jumped # <<>> /\ exact \in BOOLEAN /\ WellFormed(a, T, yul, exact)
        BY <1>0, <1>2, <1>6, <1>11
      <3>2. /\ WellFormed(LeaveTrace(a, yul), T, yul, exact) /\ SameMarks(a, LeaveTrace(a, yul))
            /\ Len(LeaveTrace(a, yul).jumped) = Len(a.jumped) - 1
        BY ONLY <3>1, yul \in BOOLEAN, LeaveFits
      <3>3. QED BY ONLY <2>1, <3>2
    <2>3. Len(b.jumped) + L(i + 1) = E(i + 1)
      BY <1>2, <1>4, <1>5, <1>11, <2>2
    <2>4. op.name \notin StateAccessing /\ op.name \notin StateSetting
      BY <1>11 DEF StateAccessing, StateSetting
    <2>5. /\ b.function.pure => \A j \in 1..(i + 1) : events[j].name \notin StateAccessing
          /\ b.function.view => \A j \in 1..(i + 1) : events[j].name \notin StateSetting
      BY <1>8, <1>9, <2>2, <2>4 DEF op, SameMarks
    <2>6. QED BY <1>11, <2>2, <2>3, <2>5 DEF Goes, b, op, T, exact, E, L
  <1>12. CASE op.name \notin {"enter", "leave"}
    <2>1. b = AnalyzeOperation(a, op, yul)
      BY <1>12 DEF Analyze, b
    <2>2. a.jumped # <<>> /\ Last(a.jumped) = Absent
      BY <1>6, <1>7, <1>12
    <2>3. IsAnalysis(b) /\ Marks(a, b, op) /\ Steps(a, b, op, T, yul)
      BY <1>2, <1>3, <2>1, <2>2, OperationIs
    <2>4. op.name = "JUMPI" => op.condition # Absent
      BY <1>1 DEF IsWalk, op
    <2>5. /\ WellFormed(b, T, yul, exact) /\ Len(b.jumped) = Len(a.jumped)
          /\ op.name # "JUMPI" => b.jumped = a.jumped
      BY <1>0, <1>2, <1>3, <2>2, <2>3, <2>4, StepFits
    <2>6. Len(b.jumped) + L(i + 1) = E(i + 1)
      BY <1>4, <1>5, <1>12, <2>5
    <2>7. /\ b.function.pure => \A j \in 1..(i + 1) : events[j].name \notin StateAccessing
          /\ b.function.view => \A j \in 1..(i + 1) : events[j].name \notin StateSetting
      BY <1>8, <1>9, <2>3 DEF op, Marks
    <2>8. QED BY <2>2, <2>5, <2>6, <2>7 DEF Goes, b, op, T, exact, E, L
  <1>13. QED BY <1>10, <1>11, <1>12 DEF b, op

\* One event more is walked: after a panic nothing changes any more.
LEMMA WalkGoesOn ==
  ASSUME NEW events, IsWalk(events), NEW i \in Nat, i < Len(events), NEW yul \in BOOLEAN,
         NEW a, Walked(events, i, a, yul)
  PROVE  Walked(events, i + 1, Analyze(a, events[i + 1], yul), yul)
  <1>1. CASE a.panicked
    BY <1>1 DEF Analyze, Walked
  <1>2. CASE ~a.panicked
    <2>1. Goes(events, i, a, yul)
      BY <1>2 DEF Walked
    <2>2. QED BY <1>2, <2>1, WalkSteps DEF Walked
  <1>3. QED BY <1>1, <1>2

\* The analysis goes through the walk event by event.
LEMMA AnalyzedIs ==
  ASSUME NEW events, Len(events) \in Nat, NEW yul \in BOOLEAN
  PROVE  /\ analyzed(events, yul)[0] = NewAnalysis
         /\ \A i \in 1..Len(events) :
              analyzed(events, yul)[i] = Analyze(analyzed(events, yul)[i - 1], events[i], yul)
  <1> DEFINE n == Len(events)
             Step(f, i) == IF i = 0 THEN NewAnalysis ELSE Analyze(f[i - 1], events[i], yul)
             Solves(f, k) == f = [i \in 0..k |-> Step(f, i)]
             K == {k \in Nat : \E f : Solves(f, k)}
  <1>1. n \in Nat
    OBVIOUS
  <1>2. analyzed(events, yul) = CHOOSE f : Solves(f, n)
    BY DEF analyzed
  <1> HIDE DEF n
  <1>3. 0 \in K
    <2> DEFINE f == [i \in 0..0 |-> NewAnalysis]
    <2>1. f = [i \in 0..0 |-> Step(f, i)]
      OBVIOUS
    <2> HIDE DEF f
    <2>2. QED BY <2>1
  <1>4. ASSUME NEW k \in Nat, k \in K PROVE k + 1 \in K
    <2>1. PICK f : Solves(f, k)
      BY <1>4
    <2> DEFINE g == [i \in 0..(k + 1) |-> IF i = k + 1 THEN Analyze(f[k], events[i], yul) ELSE f[i]]
    <2>2. \A i \in 0..k : g[i] = f[i] /\ f[i] = Step(f, i)
      <3>1. \A i \in 0..k : f[i] = Step(f, i)
        BY <2>1
      <3>2. \A i \in 0..k : g[i] = f[i]
        OBVIOUS
      <3>3. QED BY <3>1, <3>2
    <2>3. g[k + 1] = Analyze(f[k], events[k + 1], yul)
      OBVIOUS
    <2>4. g = [i \in 0..(k + 1) |-> g[i]]
      OBVIOUS
    <2> HIDE DEF g
    <2>5. \A i \in 0..(k + 1) : g[i] = Step(g, i)
      <3>1. TAKE i \in 0..(k + 1)
      <3>2. CASE i = 0
        BY <2>2, <3>2
      <3>3. CASE i = k + 1
        <4>1. i - 1 = k /\ k \in 0..k /\ i # 0
          BY <3>3
        <4>2. g[i - 1] = f[k]
          BY <2>2, <4>1
        <4>3. QED BY <2>3, <3>3, <4>1, <4>2
      <3>4. CASE i # 0 /\ i # k + 1
        <4>1. i \in 0..k /\ i - 1 \in 0..k
          BY <3>4
        <4>2. g[i] = Analyze(f[i - 1], events[i], yul) /\ g[i - 1] = f[i - 1]
          BY <2>2, <3>4, <4>1
        <4>3. QED BY <3>4, <4>2
      <3>5. QED BY <3>2, <3>3, <3>4
    <2> HIDE DEF Step
    <2>6. g = [i \in 0..(k + 1) |-> Step(g, i)]
      BY <2>4, <2>5
    <2>7. QED BY <2>6
  <1>5. n \in K
    <2> HIDE DEF K
    <2>1. QED BY <1>1, <1>3, <1>4, Induction
  <1> DEFINE f == analyzed(events, yul)
  <1>6. Solves(f, n)
    BY <1>2, <1>5
  <1> HIDE DEF f
  <1>7. \A i \in 0..n : f[i] = Step(f, i)
    BY <1>6
  <1>8. f[0] = NewAnalysis /\ \A i \in 1..n : f[i] = Analyze(f[i - 1], events[i], yul)
    BY <1>1, <1>7
  <1>9. QED BY <1>8 DEF f, n

\* At the end of a walk all of it is walked.
LEMMA WalkEnds ==
  ASSUME NEW events, IsWalk(events), NEW yul \in BOOLEAN
  PROVE  Walked(events, Len(events), analyzed(events, yul)[Len(events)], yul)
  <1> DEFINE f == analyzed(events, yul)
             n == Len(events)
             K == {i \in Nat : i <= n => Walked(events, i, f[i], yul)}
  <1>1. n \in Nat
    BY DEF IsWalk
  <1>2. f[0] = NewAnalysis /\ \A i \in 1..n : f[i] = Analyze(f[i - 1], events[i], yul)
    BY <1>1, AnalyzedIs
  <1> HIDE DEF f
  <1>3. 0 \in K
    BY <1>2, WalkStarts
  <1>4. ASSUME NEW i \in Nat, i \in K PROVE i + 1 \in K
    <2>1. SUFFICES ASSUME i + 1 <= n PROVE Walked(events, i + 1, f[i + 1], yul)
      OBVIOUS
    <2>2. i < n /\ i + 1 \in 1..n /\ (i + 1) - 1 = i
      BY <1>1, <2>1
    <2>3. Walked(events, i, f[i], yul)
      BY <1>1, <1>4, <2>2
    <2>4. f[i + 1] = Analyze(f[i], events[i + 1], yul)
      BY <1>2, <2>2
    <2>5. Walked(events, i + 1, Analyze(f[i], events[i + 1], yul), yul)
      BY <2>2, <2>3, WalkGoesOn
    <2>6. QED BY <2>4, <2>5
  <1>5. n \in K
    <2> HIDE DEF K
    <2>1. QED BY <1>1, <1>3, <1>4, Induction
  <1>6. QED BY <1>1, <1>5 DEF f

\* Then, without a panic, every trace is left, the stack of conditions is empty,
\* and every block is closed, but for what a mention of the difficulty spoils.
LEMMA WalkedWell ==
  ASSUME NEW events, IsWalk(events), NEW yul \in BOOLEAN, ~Panics(events, yul), NEW function,
         function = analyzed(events, yul)[Len(events)].function
  PROVE  /\ Exact(events, yul) => AllClosed(function.logic)
         /\ \A n \in DOMAIN function.logic :
              BlocksClosed(function.logic, n) <= BlocksOpened(function.logic, n)
         /\ function.pure \in BOOLEAN /\ function.view \in BOOLEAN /\ function.payable \in BOOLEAN
         /\ function.pure => Performed(events) \intersect StateAccessing = {}
         /\ function.view => Performed(events) \intersect StateSetting = {}
  <1> DEFINE T == Texts(events)
             a == analyzed(events, yul)[Len(events)]
             logic == function.logic
             map == a.conditional_map
  <1>1. Goes(events, Len(events), a, yul)
    BY WalkEnds DEF Walked, Panics
  <1> HIDE DEF a
  <1>2. WellFormed(a, T, yul, Exact(events, yul)) /\ function = a.function
    BY <1>1 DEF Goes, a
  <1>3. /\ logic \in Seq(Lines(T)) /\ map \in Seq(T) /\ a.jumped \in Seq(T)
        /\ BlocksFit(logic, Len(map), yul, Exact(events, yul)) /\ Tracked(a, T) /\ IsAnalysis(a)
    BY <1>2 DEF WellFormed
  <1> HIDE DEF T, logic
  <1>4. Len(a.jumped) = 0
    <2>1. Len(a.jumped) + Occurrences(events, Len(events), "leave") = Occurrences(events, Len(events), "enter")
      BY <1>1 DEF Goes
    <2>2. Occurrences(events, Len(events), "leave") \in Nat /\ Len(events) \in Nat
          /\ Occurrences(events, Len(events), "enter") = Occurrences(events, Len(events), "leave")
      BY OccurrencesMore DEF IsWalk
    <2>3. Len(a.jumped) \in Nat
      BY <1>3
    <2>4. QED BY <2>1, <2>2, <2>3
  <1>5. Len(map) = 0
    <2>1. SUFFICES ASSUME Len(map) # 0 PROVE FALSE
      OBVIOUS
    <2>2. 1 \in DOMAIN map /\ map[1] \in T
      BY <1>3, <2>1
    <2>3. map[1] # Absent
      BY <1>3, <2>2 DEF Tracked
    <2>4. Occurs(map, map[1]) <= Occurs(a.jumped, map[1])
      BY <1>3, <2>2, <2>3 DEF Tracked
    <2>5. Occurs(a.jumped, map[1]) = 0
      <3>1. At(a.jumped, map[1]) = {}
        BY <1>3, <1>4 DEF At
      <3>2. QED BY <3>1, FS_EmptySet DEF Occurs
    <2>6. Occurs(map, map[1]) # 0 /\ Occurs(map, map[1]) \in Nat
      <3>1. 1 \in At(map, map[1])
        BY <2>2 DEF At
      <3>2. QED BY <1>3, <3>1, OccursIsNat
    <2> HIDE DEF map
    <2>7. QED BY <2>4, <2>5, <2>6
  <1>6. /\ Len(logic) \in Nat /\ DOMAIN logic = 1..Len(logic)
        /\ Opening(logic) \in SUBSET (1..Len(logic)) /\ Closing(logic) \in SUBSET (1..Len(logic))
        /\ Cardinality(Closing(logic)) \in Nat
    BY <1>3, LogicIs
  <1>7. \A n \in Nat : BlocksOpened(logic, n) = Cardinality(UpTo(Opening(logic), n))
                       /\ BlocksClosed(logic, n) = Cardinality(UpTo(Closing(logic), n))
    <2>1. ASSUME NEW n \in Nat PROVE BlocksOpened(logic, n) = Cardinality(UpTo(Opening(logic), n))
      BY DEF BlocksOpened, UpTo
    <2>2. ASSUME NEW n \in Nat PROVE BlocksClosed(logic, n) = Cardinality(UpTo(Closing(logic), n))
      <3>1. {i \in DOMAIN logic : i <= n /\ logic[i].kind = "}"} = UpTo(Closing(logic), n)
        BY DEF Closing, UpTo
      <3>2. QED BY <3>1 DEF BlocksClosed
    <2>3. QED BY <2>1, <2>2
  <1>8. UpTo(Opening(logic), Len(logic)) = Opening(logic) /\ UpTo(Closing(logic), Len(logic)) = Closing(logic)
    BY <1>6 DEF UpTo
  <1>9. Exact(events, yul) => AllClosed(logic)
    <2>1. SUFFICES ASSUME Exact(events, yul) PROVE AllClosed(logic)
      OBVIOUS
    <2>2. Cardinality(Opening(logic)) = Cardinality(Closing(logic))
      BY <1>3, <1>5, <1>6, <2>1 DEF BlocksFit
    <2>3. QED BY <1>6, <1>7, <1>8, <2>2 DEF AllClosed
  <1>10. \A n \in DOMAIN logic : BlocksClosed(logic, n) <= BlocksOpened(logic, n)
    <2>1. \A n \in Nat : Cardinality(UpTo(Closing(logic), n)) <= Cardinality(UpTo(Opening(logic), n))
      BY <1>3 DEF BlocksFit, Covers
    <2>2. \A n \in DOMAIN logic : n \in Nat
      BY <1>6
    <2>3. QED BY <1>7, <2>1, <2>2
  <1>11. DOMAIN events = 1..Len(events)
    BY DEF IsWalk
  <1>12. /\ function.pure => Performed(events) \intersect StateAccessing = {}
         /\ function.view => Performed(events) \intersect StateSetting = {}
    BY <1>1, <1>2, <1>11 DEF Goes, Performed
  <1>13. function.pure \in BOOLEAN /\ function.view \in BOOLEAN /\ function.payable \in BOOLEAN
    BY <1>2, <1>3 DEF IsAnalysis
  <1>14. QED BY <1>9, <1>10, <1>12, <1>13 DEF logic

\* What the lexers make of the traces is well done, whatever is known of
\* signatures.
LEMMA WalksDecompileWell ==
  ASSUME NEW events, IsWalk(events), NEW resolved
  PROVE  DecompiledWell(events, resolved)
  <1> DEFINE sol == analyze_sol(events)
             Fine(function, yul) ==
               /\ Exact(events, yul) => AllClosed(function.logic)
               /\ \A n \in DOMAIN function.logic :
                    BlocksClosed(function.logic, n) <= BlocksOpened(function.logic, n)
  <1>1. ~Panics(events, FALSE) =>
          /\ Fine(sol, FALSE)
          /\ sol.pure \in BOOLEAN /\ sol.view \in BOOLEAN /\ sol.payable \in BOOLEAN
          /\ sol.pure => Performed(events) \intersect StateAccessing = {}
          /\ sol.view => Performed(events) \intersect StateSetting = {}
    BY WalkedWell DEF analyze_sol
  <1>2. ~Panics(events, TRUE) => Fine(analyze_yul(events), TRUE)
    BY WalkedWell DEF analyze_yul
  <1>3. ASSUME NEW yul \in BOOLEAN, ~Panics(events, yul)
        PROVE  Fine(IF yul THEN analyze_yul(events) ELSE sol, yul)
    <2> HIDE DEF Fine
    <2>1. CASE yul = TRUE
      BY <1>2, <1>3, <2>1
    <2>2. CASE yul = FALSE
      BY <1>1, <1>3, <2>2
    <2>3. QED BY <2>1, <2>2
  <1> HIDE DEF sol
  <1>4. output(sol, resolved).state_mutability = state_mutability(sol)
    BY DEF output
  <1>5. ~Panics(events, FALSE) =>
          /\ state_mutability(sol) = "pure" => sol.pure
          /\ state_mutability(sol) = "view" => sol.view
    BY <1>1 DEF state_mutability
  <1>6. QED BY <1>1, <1>3, <1>4, <1>5 DEF DecompiledWell, sol

\* Whatever the traces of a function are, a lexer that does not panic closes no
\* block that is not open, and leaves none open, but for the lexer of Yul after a
\* mention of the difficulty; and what the ABI declares agrees with all the
\* traces do.
THEOREM FunctionsWhole == TaskSpec => []FunctionsAreWhole
  <1>1. TaskOK => FunctionsAreWhole
    <2> SUFFICES ASSUME TaskOK, task.kind = "decompile"
                 PROVE  DecompiledWell(task.input[1], task.input[2])
      BY DEF FunctionsAreWhole, Given
    <2>1. task.input \in Inputs["decompile"]
      BY DEF TaskOK
    <2>2. IsWalk(task.input[1])
      BY <2>1, LexerAssumption DEF LexerAssumption
    <2>3. QED BY <2>2, WalksDecompileWell
  <1>2. QED BY <1>1, TasksHaveInputs, PTL
=============================================================================
