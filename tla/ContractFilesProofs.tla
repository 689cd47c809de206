------------------------- MODULE ContractFilesProofs -------------------------
(***************************************************************************)
(* Proofs about ContractFiles for every set of contracts and any number of *)
(* kills: no reader takes the beginning of a file for the file, and a file *)
(* that is whole stays whole.                                              *)
(***************************************************************************)
EXTENDS ContractFiles, SequenceTheorems, TLAPS

\* What the names of a contract's files say about one another: the ABI is the
\* last of a contract with source, and the only one of the others.
OrderedFiles(c, files) ==
  IF c \in Published
    THEN /\ files["source"] \in {"none", "part", "whole"}
         /\ files["type"] # "none" => files["source"] = "whole"
         /\ files["version"] # "none" => files["source"] = "whole" /\ files["type"] = "whole"
         /\ files["abi"] # "none" =>
              \A f \in {"source", "type", "version"} : files[f] = "whole"
         /\ files["abi"] # "unpublished"
    ELSE files["source"] = "none" /\ files["abi"] \in {"none", "part", "unpublished"}

DiskInOrder == \A c \in Address : OrderedFiles(c, disk[c])

\* The files of a contract that are still to be written, as FetchInfo lists them
FetchPending(c, n) ==
  /\ c \in Published /\ n \in 1..4 /\ Len(pending) = n
  /\ \A i \in 1..n :
       pending[i] = [contract |-> c, file |-> WriteOrder[4 - n + i], content |-> "whole"]
  /\ \A j \in 1..4 : IF j <= 4 - n THEN disk[c][WriteOrder[j]] = "whole"
                     ELSE disk[c][WriteOrder[j]] \in
                            IF j = 5 - n /\ opened THEN {"part"} ELSE {"none", "part"}

\* or the one file of a contract without source, or Slither's.
OnePending(c) ==
  /\ Len(pending) = 1 /\ pending[1].contract = c
  /\ disk[c][pending[1].file] # "whole"
  /\ \/ /\ c \notin Published
        /\ pending[1].file = "abi" /\ pending[1].content = "unpublished"
     \/ pending[1].file = "analysis" /\ pending[1].content \in {"whole", "unpublished"}

WritesInOrder ==
  pending # <<>> =>
    \E c \in Address : OnePending(c) \/ \E n \in 1..4 : FetchPending(c, n)

IInv == FilesTypeOK /\ DiskInOrder /\ WritesInOrder /\ ServedIsWhole

-----------------------------------------------------------------------------
LEMMA InitInv == FilesInit => IInv
  <1> USE FilesAssumption
  <1>1. SUFFICES ASSUME FilesInit PROVE IInv
    OBVIOUS
  <1>2. disk \in [Address -> [File -> Content]]
    BY <1>1 DEF FilesInit, File, Content
  <1>3. pending \in Seq([contract : Address, file : File, content : Content])
    BY <1>1 DEF FilesInit
  <1>4. FilesTypeOK
    <2>1. info \subseteq Address /\ opened \in BOOLEAN
      BY <1>1 DEF FilesInit
    <2>2. kills \in 0..MaxKills
      BY <1>1 DEF FilesInit, FilesAssumption
    <2>3. served \subseteq [contract : Address, file : File, content : Content]
      BY <1>1 DEF FilesInit
    <2>4. QED
      BY <1>2, <1>3, <2>1, <2>2, <2>3 DEF FilesTypeOK
  <1>5. DiskInOrder
    BY <1>1 DEF FilesInit, DiskInOrder, OrderedFiles, File
  <1>6. WritesInOrder /\ ServedIsWhole
    BY <1>1 DEF FilesInit, WritesInOrder, ServedIsWhole
  <1>7. QED
    BY <1>4, <1>5, <1>6 DEF IInv

\* The order of the four files
LEMMA Order ==
  /\ WriteOrder[1] = "source" /\ WriteOrder[2] = "type"
  /\ WriteOrder[3] = "version" /\ WriteOrder[4] = "abi" /\ Len(WriteOrder) = 4
  BY DEF WriteOrder

\* The first of the files to be written is not whole, and the files stay in
\* order when it is opened and when it is closed.
LEMMA FileReplaced ==
  ASSUME IInv, pending # <<>>, NEW content \in {"part", pending[1].content}
  PROVE  LET c == pending[1].contract  f == pending[1].file
         IN  /\ c \in Address /\ f \in File /\ content \in Content
             /\ disk[c][f] # "whole"
             /\ OrderedFiles(c, [disk[c] EXCEPT ![f] = content])
  <1> DEFINE c == pending[1].contract
             f == pending[1].file
  <1>1. PICK d \in Address : OnePending(d) \/ \E n \in 1..4 : FetchPending(d, n)
    BY DEF IInv, WritesInOrder
  <1>2. disk[d] \in [File -> Content] /\ OrderedFiles(d, disk[d])
    BY DEF IInv, FilesTypeOK, DiskInOrder
  <1>3. CASE OnePending(d)
    BY <1>2, <1>3 DEF OnePending, OrderedFiles, File, Content
  <1>4. ASSUME NEW n \in 1..4, FetchPending(d, n)
        PROVE  /\ c = d /\ f = WriteOrder[5 - n] /\ pending[1].content = "whole"
               /\ d \in Published
               /\ \A j \in 1..(4 - n) : disk[d][WriteOrder[j]] = "whole"
               /\ \A j \in (5 - n)..4 : disk[d][WriteOrder[j]] \in {"none", "part"}
    <2>1. /\ d \in Published /\ n \in 1..4 /\ 4 - n + 1 = 5 - n
          /\ pending[1] = [contract |-> d, file |-> WriteOrder[4 - n + 1], content |-> "whole"]
      BY <1>4 DEF FetchPending
    <2>2. \A j \in 1..(4 - n) : disk[d][WriteOrder[j]] = "whole"
      BY <1>4 DEF FetchPending
    <2>3. ASSUME NEW j \in (5 - n)..4 PROVE disk[d][WriteOrder[j]] \in {"none", "part"}
      <3>1. j \in 1..4 /\ ~(j <= 4 - n)
        OBVIOUS
      <3>2. disk[d][WriteOrder[j]] \in IF j = 5 - n /\ opened THEN {"part"} ELSE {"none", "part"}
        BY <1>4, <3>1 DEF FetchPending
      <3>3. QED
        BY <3>2
    <2>4. QED
      BY <2>1, <2>2, <2>3
  <1>5. ASSUME NEW n \in 1..4, FetchPending(d, n)
        PROVE  /\ c = d /\ f \in File /\ content \in {"part", "whole"}
               /\ disk[d][f] # "whole" /\ OrderedFiles(d, [disk[d] EXCEPT ![f] = content])
    <2>1. CASE n = 4
      <3>1. /\ f = "source" /\ disk[d]["source"] \in {"none", "part"}
            /\ d \in Published /\ content \in {"part", "whole"}
        BY <1>4, <1>5, <2>1, Order
      <3>2. QED
        BY <1>2, <1>4, <1>5, <3>1 DEF OrderedFiles, File
    <2>2. CASE n = 3
      <3>1. /\ f = "type" /\ disk[d]["type"] \in {"none", "part"}
            /\ d \in Published /\ content \in {"part", "whole"}
        BY <1>4, <1>5, <2>2, Order
      <3>2. disk[d]["source"] = "whole"
        BY <1>4, <1>5, <2>2, Order
      <3>3. QED
        BY <1>2, <1>4, <1>5, <3>1, <3>2 DEF OrderedFiles, File
    <2>3. CASE n = 2
      <3>1. /\ f = "version" /\ disk[d]["version"] \in {"none", "part"}
            /\ d \in Published /\ content \in {"part", "whole"}
        BY <1>4, <1>5, <2>3, Order
      <3>2. disk[d]["source"] = "whole" /\ disk[d]["type"] = "whole"
        BY <1>4, <1>5, <2>3, Order
      <3>3. QED
        BY <1>2, <1>4, <1>5, <3>1, <3>2 DEF OrderedFiles, File
    <2>4. CASE n = 1
      <3>1. /\ f = "abi" /\ disk[d]["abi"] \in {"none", "part"}
            /\ d \in Published /\ content \in {"part", "whole"}
        BY <1>4, <1>5, <2>4, Order
      <3>2. disk[d]["source"] = "whole" /\ disk[d]["type"] = "whole" /\ disk[d]["version"] = "whole"
        BY <1>4, <1>5, <2>4, Order
      <3>3. QED
        BY <1>2, <1>4, <1>5, <3>1, <3>2 DEF OrderedFiles, File
    <2>5. QED
      BY <2>1, <2>2, <2>3, <2>4
  <1>6. QED
    BY <1>1, <1>3, <1>5 DEF Content

\* So the disk keeps its order, and loses no file that is whole.
LEMMA DiskWritten ==
  ASSUME IInv, pending # <<>>, NEW content \in {"part", pending[1].content},
         disk' = [disk EXCEPT ![pending[1].contract][pending[1].file] = content]
  PROVE  /\ disk' \in [Address -> [File -> Content]] /\ DiskInOrder'
         /\ \A c \in Address, f \in File : Holds(c, f, "whole") => Holds(c, f, "whole")'
  <1> DEFINE c == pending[1].contract
             f == pending[1].file
  <1>1. /\ c \in Address /\ f \in File /\ content \in Content
        /\ disk[c][f] # "whole" /\ OrderedFiles(c, [disk[c] EXCEPT ![f] = content])
    BY FileReplaced
  <1>2. disk \in [Address -> [File -> Content]] /\ DiskInOrder
    BY DEF IInv, FilesTypeOK
  <1>3. /\ disk'[c] = [disk[c] EXCEPT ![f] = content]
        /\ \A d \in Address \ {c} : disk'[d] = disk[d]
    BY <1>1, <1>2
  <1>4. disk' \in [Address -> [File -> Content]]
    BY <1>1, <1>2
  <1>5. DiskInOrder'
    BY <1>1, <1>2, <1>3 DEF DiskInOrder
  <1>6. \A d \in Address, g \in File : Holds(d, g, "whole") => Holds(d, g, "whole")'
    BY <1>1, <1>2, <1>3 DEF Holds
  <1>7. QED
    BY <1>4, <1>5, <1>6

\* with open(path, "w") truncates a file that is not whole.
LEMMA OpenInv ==
  ASSUME IInv, Open
  PROVE  IInv' /\ \A c \in Address, f \in File : Holds(c, f, "whole") => Holds(c, f, "whole")'
  <1> DEFINE c == pending[1].contract
             f == pending[1].file
  <1>1. /\ pending # <<>> /\ opened' = TRUE /\ ~opened
        /\ disk' = [disk EXCEPT ![c][f] = "part"]
        /\ UNCHANGED <<pending, info, kills, served>>
    BY DEF Open, AtRest
  <1>2. /\ disk' \in [Address -> [File -> Content]] /\ DiskInOrder'
        /\ \A d \in Address, g \in File : Holds(d, g, "whole") => Holds(d, g, "whole")'
    BY <1>1, DiskWritten
  <1>3. FilesTypeOK' /\ ServedIsWhole'
    BY <1>1, <1>2 DEF IInv, FilesTypeOK, ServedIsWhole
  <1>4. c \in Address /\ f \in File /\ disk \in [Address -> [File -> Content]]
    BY <1>1, FileReplaced DEF IInv, FilesTypeOK
  <1>5. PICK d \in Address : OnePending(d) \/ \E n \in 1..4 : FetchPending(d, n)
    BY <1>1 DEF IInv, WritesInOrder
  <1>6. CASE OnePending(d)
    <2>1. OnePending(d)'
      BY <1>1, <1>4, <1>6 DEF OnePending
    <2>2. QED
      BY <1>2, <1>3, <2>1 DEF IInv, WritesInOrder
  <1>7. ASSUME NEW n \in 1..4, FetchPending(d, n)
        PROVE  FetchPending(d, n)'
    <2>1. c = d /\ f = WriteOrder[5 - n]
      BY <1>7 DEF FetchPending
    <2>2. \A j \in 1..4 : disk'[d][WriteOrder[j]] =
                            IF j = 5 - n THEN "part" ELSE disk[d][WriteOrder[j]]
      BY <1>1, <1>4, <2>1, Order DEF File
    <2>3. QED
      BY <1>1, <1>7, <2>2 DEF FetchPending
  <1>8. QED
    BY <1>2, <1>3, <1>5, <1>6, <1>7 DEF IInv, WritesInOrder

\* Closing it makes it whole and leaves what follows it in the list.
LEMMA CloseInv ==
  ASSUME IInv, Close
  PROVE  IInv' /\ \A c \in Address, f \in File : Holds(c, f, "whole") => Holds(c, f, "whole")'
  <1> DEFINE c == pending[1].contract
             f == pending[1].file
             record == [contract : Address, file : File, content : Content]
  <1>1. /\ pending # <<>> /\ opened /\ opened' = FALSE /\ pending' = Tail(pending)
        /\ disk' = [disk EXCEPT ![c][f] = pending[1].content]
        /\ info' \in {info, info \union {c}} /\ UNCHANGED <<kills, served>>
    BY DEF Close, AtRest
  <1>2. /\ disk' \in [Address -> [File -> Content]] /\ DiskInOrder'
        /\ \A d \in Address, g \in File : Holds(d, g, "whole") => Holds(d, g, "whole")'
    BY <1>1, DiskWritten
  <1>3. c \in Address /\ f \in File /\ disk \in [Address -> [File -> Content]]
    BY <1>1, FileReplaced DEF IInv, FilesTypeOK
  <1>4. pending \in Seq(record)
    BY DEF IInv, FilesTypeOK
  <1>5. /\ pending' \in Seq(record) /\ Len(pending') = Len(pending) - 1
        /\ \A i \in 1..Len(pending') : pending'[i] = pending[i + 1]
    BY <1>1, <1>4, HeadTailProperties
  <1>6. FilesTypeOK' /\ ServedIsWhole'
    BY <1>1, <1>2, <1>3, <1>5 DEF IInv, FilesTypeOK, ServedIsWhole
  <1>7. PICK d \in Address : OnePending(d) \/ \E n \in 1..4 : FetchPending(d, n)
    BY <1>1 DEF IInv, WritesInOrder
  <1>8. CASE OnePending(d)
    <2>1. Len(pending') = 0
      <3>1. Len(pending) = 1
        BY <1>8 DEF OnePending
      <3>2. QED
        BY <1>5, <3>1
    <2>2. pending' = <<>>
      BY <1>5, <2>1, EmptySeq
    <2>3. QED
      BY <1>2, <1>6, <2>2 DEF IInv, WritesInOrder
  <1>9. ASSUME NEW n \in 1..4, FetchPending(d, n), n > 1
        PROVE  FetchPending(d, n - 1)'
    <2>1. /\ c = d /\ f = WriteOrder[5 - n] /\ pending[1].content = "whole"
          /\ d \in Published /\ Len(pending) = n
      BY <1>9 DEF FetchPending
    <2>2. \A j \in 1..4 : disk'[d][WriteOrder[j]] =
                            IF j = 5 - n THEN "whole" ELSE disk[d][WriteOrder[j]]
      BY <1>1, <1>3, <2>1, Order DEF File
    <2>3. \A i \in 1..(n - 1) :
            pending'[i] = [contract |-> d, file |-> WriteOrder[4 - (n - 1) + i],
                           content |-> "whole"]
      <3>1. TAKE i \in 1..(n - 1)
      <3>2. i + 1 \in 1..n /\ i \in 1..Len(pending') /\ 4 - n + (i + 1) = 4 - (n - 1) + i
        BY <1>5, <2>1
      <3>3. pending[i + 1] = [contract |-> d, file |-> WriteOrder[4 - n + (i + 1)],
                              content |-> "whole"]
        BY <1>9, <3>2 DEF FetchPending
      <3>4. QED
        BY <1>5, <3>2, <3>3
    <2>4. \A j \in 1..4 : IF j <= 4 - (n - 1) THEN disk'[d][WriteOrder[j]] = "whole"
                          ELSE disk'[d][WriteOrder[j]] \in {"none", "part"}
      <3>1. TAKE j \in 1..4
      <3>2. CASE j <= 4 - n
        BY <1>9, <2>2, <3>2 DEF FetchPending
      <3>3. CASE j = 5 - n
        BY <1>9, <2>2, <3>3
      <3>4. CASE j > 5 - n
        <4>1. disk[d][WriteOrder[j]] \in IF j = 5 - n /\ opened THEN {"part"}
                                         ELSE {"none", "part"}
          BY <1>9, <3>4 DEF FetchPending
        <4>2. QED
          BY <1>9, <2>2, <3>4, <4>1
      <3>5. QED
        BY <1>9, <3>2, <3>3, <3>4
    <2>5. QED
      BY <1>1, <1>5, <1>9, <2>1, <2>3, <2>4 DEF FetchPending
  <1>10. ASSUME FetchPending(d, 1)
         PROVE  pending' = <<>>
    BY <1>5, <1>10, EmptySeq DEF FetchPending
  <1>11. ASSUME NEW n \in 1..4, FetchPending(d, n)
         PROVE  WritesInOrder'
    <2>1. CASE n = 1
      BY <1>10, <1>11, <2>1 DEF WritesInOrder
    <2>2. CASE n > 1
      <3>1. FetchPending(d, n - 1)' /\ n - 1 \in 1..4
        BY <1>9, <1>11, <2>2
      <3>2. QED
        BY <3>1 DEF WritesInOrder
    <2>3. QED
      BY <2>1, <2>2
  <1>12. QED
    BY <1>2, <1>6, <1>7, <1>8, <1>11 DEF IInv

-----------------------------------------------------------------------------
(* Starting to write                                                        *)

LEMMA OneFile ==
  ASSUME NEW file
  PROVE  DOMAIN <<file>> = 1..1 /\ \A i \in 1..1 : <<file>>[i] = file
  <1>1. <<file>> \in Seq({file}) /\ Len(<<file>>) = 1 /\ <<file>>[1] = file
    OBVIOUS
  <1>2. QED
    BY <1>1, LenProperties

LEMMA OneRecord ==
  ASSUME NEW c \in Address, NEW f \in File, NEW content \in Content,
         NEW s, s = [i \in 1..1 |-> [contract |-> c, file |-> f, content |-> content]]
  PROVE  /\ s \in Seq([contract : Address, file : File, content : Content])
         /\ Len(s) = 1 /\ s[1] = [contract |-> c, file |-> f, content |-> content]
  <1>1. s \in [1..1 -> [contract : Address, file : File, content : Content]]
    OBVIOUS
  <1>2. QED
    BY <1>1

LEMMA FetchInfoInv ==
  ASSUME IInv, NEW c \in Address, FetchInfo(c)
  PROVE  IInv'
  <1> DEFINE record == [contract : Address, file : File, content : Content]
  <1>1. /\ opened' = FALSE /\ UNCHANGED <<disk, info, kills, served>>
        /\ disk[c]["source"] = "none" /\ OrderedFiles(c, disk[c])
    BY DEF FetchInfo, Write, IsCached, Holds, IInv, DiskInOrder
  <1>2. DiskInOrder' /\ ServedIsWhole'
    BY <1>1 DEF IInv, DiskInOrder, ServedIsWhole
  <1>3. CASE c \in Published /\ Write(c, WriteOrder, "whole")
    <2>1. pending' = [i \in 1..4 |-> [contract |-> c, file |-> WriteOrder[i],
                                      content |-> "whole"]]
      BY <1>3 DEF Write, WriteOrder
    <2>2. \A i \in 1..4 : WriteOrder[i] \in File
      BY Order DEF File
    <2>3. pending' \in Seq(record) /\ Len(pending') = 4
      BY <2>1, <2>2 DEF Content
    <2>4. \A j \in 1..4 : disk[c][WriteOrder[j]] \in {"none", "part"}
      <3>1. \A f \in {"source", "type", "version", "abi"} : disk[c][f] = "none"
        BY <1>1, <1>3 DEF OrderedFiles
      <3>2. QED
        BY <3>1, Order
    <2>5. FetchPending(c, 4)'
      BY <1>1, <1>3, <2>1, <2>3, <2>4 DEF FetchPending
    <2>6. QED
      <3>1. FilesTypeOK'
        BY <1>1, <2>3 DEF IInv, FilesTypeOK
      <3>2. WritesInOrder'
        BY <2>5 DEF WritesInOrder
      <3>3. QED
        BY <1>2, <3>1, <3>2 DEF IInv
  <1>4. CASE NoCode(c) /\ Write(c, <<"abi">>, "unpublished")
    <2>1. pending' = [i \in 1..1 |-> [contract |-> c, file |-> "abi",
                                      content |-> "unpublished"]]
      BY <1>4, OneFile DEF Write
    <2>2. /\ pending' \in Seq(record) /\ Len(pending') = 1
          /\ pending'[1] = [contract |-> c, file |-> "abi", content |-> "unpublished"]
      BY <2>1, OneRecord DEF Content, File
    <2>3. OnePending(c)'
      BY <1>1, <1>4, <2>2 DEF OnePending, NoCode, OrderedFiles
    <2>4. QED
      <3>1. FilesTypeOK'
        BY <1>1, <2>2 DEF IInv, FilesTypeOK
      <3>2. WritesInOrder'
        BY <2>3 DEF WritesInOrder
      <3>3. QED
        BY <1>2, <3>1, <3>2 DEF IInv
  <1>5. QED
    BY <1>3, <1>4 DEF FetchInfo

LEMMA AnalyseInv ==
  ASSUME IInv, NEW c \in Address, Analyse(c)
  PROVE  IInv'
  <1> DEFINE record == [contract : Address, file : File, content : Content]
  <1>1. PICK content \in {"whole", "unpublished"} : Write(c, <<"analysis">>, content)
    BY DEF Analyse
  <1>2. /\ opened' = FALSE /\ UNCHANGED <<disk, info, kills, served>>
        /\ disk[c]["analysis"] = "none"
    BY <1>1 DEF Analyse, Write, Holds
  <1>3. DiskInOrder' /\ ServedIsWhole'
    BY <1>2 DEF IInv, DiskInOrder, ServedIsWhole
  <1>4. pending' = [i \in 1..1 |-> [contract |-> c, file |-> "analysis",
                                    content |-> content]]
    BY <1>1, OneFile DEF Write
  <1>5. content \in Content /\ "analysis" \in File
    BY DEF Content, File
  <1>6. /\ pending' \in Seq(record) /\ Len(pending') = 1
        /\ pending'[1] = [contract |-> c, file |-> "analysis", content |-> content]
    BY <1>4, <1>5, OneRecord
  <1>7. OnePending(c)'
    BY <1>2, <1>6 DEF OnePending
  <1>8. FilesTypeOK'
    BY <1>2, <1>6 DEF IInv, FilesTypeOK
  <1>9. WritesInOrder'
    BY <1>7 DEF WritesInOrder
  <1>10. QED
    BY <1>3, <1>8, <1>9 DEF IInv

-----------------------------------------------------------------------------
(* Reading                                                                  *)

\* A reader that is served whole files keeps the invariant.
LEMMA ServeInv ==
  ASSUME IInv, NEW c \in Address, NEW files \in SUBSET File, Serve(c, files),
         \A f \in files \ {"analysis"} : disk[c][f] = "whole",
         UNCHANGED <<disk, pending, opened, kills>>, info' \in {info, info \union {c}}
  PROVE  IInv'
  <1>1. served' \subseteq [contract : Address, file : File, content : Content]
    BY DEF Serve, IInv, FilesTypeOK
  <1>2. ServedIsWhole'
    BY DEF Serve, IInv, ServedIsWhole
  <1>3. FilesTypeOK'
    BY <1>1 DEF IInv, FilesTypeOK
  <1>4. DiskInOrder' /\ WritesInOrder'
    BY DEF IInv, DiskInOrder, WritesInOrder, OnePending, FetchPending
  <1>5. QED
    BY <1>2, <1>3, <1>4 DEF IInv

\* Only the source's existence is looked up, but with an ABI the others are
\* whole, and a source is only there for a contract that has one.
LEMMA CachedInfoInv ==
  ASSUME IInv, NEW c \in Address, CachedInfo(c)
  PROVE  IInv'
  <1>1. /\ disk[c]["source"] # "none" /\ disk[c]["abi"] # "none"
        /\ OrderedFiles(c, disk[c])
    BY DEF CachedInfo, IsCached, Holds, IInv, DiskInOrder
  <1>2. \A f \in {"source", "type", "version"} : disk[c][f] = "whole"
    BY <1>1 DEF OrderedFiles
  <1>3. disk[c]["abi"] # "unpublished"
    BY <1>1 DEF OrderedFiles
  <1>4. /\ Serve(c, {"source", "type", "version"}) /\ info' = info \union {c}
        /\ UNCHANGED <<disk, pending, opened, kills>>
    BY <1>3 DEF CachedInfo, Holds
  <1>5. QED
    BY <1>2, <1>4, ServeInv DEF File

LEMMA NextInv ==
  ASSUME IInv, [FilesNext]_file_vars
  PROVE  IInv' /\ \A c \in Address, f \in File : Holds(c, f, "whole") => Holds(c, f, "whole")'
  <1>1. ASSUME UNCHANGED disk
        PROVE  \A c \in Address, f \in File : Holds(c, f, "whole") => Holds(c, f, "whole")'
    BY <1>1 DEF Holds
  <1>2. CASE UNCHANGED file_vars
    <2>1. IInv'
      BY <1>2 DEF file_vars, IInv, FilesTypeOK, DiskInOrder, WritesInOrder, OnePending,
                  FetchPending, ServedIsWhole
    <2>2. QED
      BY <1>1, <1>2, <2>1 DEF file_vars
  <1>3. CASE Kill
    <2>1. pending' = <<>> /\ opened' = FALSE /\ info' = {} /\ UNCHANGED <<disk, served>>
          /\ kills < MaxKills /\ kills' = kills + 1
      BY <1>3 DEF Kill
    <2>2. kills' \in 0..MaxKills
      BY <2>1, FilesAssumption DEF IInv, FilesTypeOK, FilesAssumption
    <2>3. pending' \in Seq([contract : Address, file : File, content : Content])
      BY <2>1
    <2>4. FilesTypeOK'
      BY <2>1, <2>2, <2>3 DEF IInv, FilesTypeOK
    <2>5. DiskInOrder' /\ WritesInOrder' /\ ServedIsWhole'
      BY <2>1 DEF IInv, DiskInOrder, WritesInOrder, ServedIsWhole
    <2>6. QED
      BY <1>1, <2>1, <2>4, <2>5 DEF IInv
  <1>4. CASE Open
    BY <1>4, OpenInv
  <1>5. CASE Close
    BY <1>5, CloseInv
  <1>6. ASSUME NEW c \in Address, CachedInfo(c)
        PROVE  IInv' /\ UNCHANGED disk
    BY <1>6, CachedInfoInv DEF CachedInfo
  <1>7. ASSUME NEW c \in Address, FetchInfo(c)
        PROVE  IInv' /\ UNCHANGED disk
    BY <1>7, FetchInfoInv DEF FetchInfo
  <1>8. ASSUME NEW c \in Address, Analyse(c)
        PROVE  IInv' /\ UNCHANGED disk
    BY <1>8, AnalyseInv DEF Analyse
  <1>9. ASSUME NEW c \in Address, FunctionAbis(c)
        PROVE  IInv' /\ UNCHANGED disk
    <2>1. /\ Serve(c, {"abi"}) /\ disk[c]["abi"] = "whole" /\ info' = info
          /\ UNCHANGED <<disk, pending, opened, kills>>
      BY <1>9 DEF FunctionAbis, Holds
    <2>2. QED
      BY <2>1, ServeInv DEF File
  <1>10. ASSUME NEW c \in Address, AlreadyAnalysed(c)
         PROVE  IInv' /\ UNCHANGED disk
    <2>1. /\ Serve(c, {"analysis"}) /\ info' = info
          /\ UNCHANGED <<disk, pending, opened, kills>>
      BY <1>10 DEF AlreadyAnalysed
    <2>2. QED
      BY <2>1, ServeInv DEF File
  <1>11. QED
    BY <1>1, <1>2, <1>3, <1>4, <1>5, <1>6, <1>7, <1>8, <1>9, <1>10 DEF FilesNext

\* The files are in order in every reachable state.
THEOREM FilesInductive == FilesSpec => []IInv
  <1>1. IInv /\ [FilesNext]_file_vars => IInv'
    BY NextInv
  <1>2. QED
    BY <1>1, InitInv, PTL DEF FilesSpec

\* Whatever was killed before, what a driver takes from the cache is true: no
\* reader of type, version, source or ABI gets the beginning of one
\* (onchain_tool.py:97-111), and a contract with source is never marked as
\* having none.
THEOREM CacheTrue == FilesSpec => []CacheIsTrue
  <1>1. IInv => CacheIsTrue
    BY FilesAssumption DEF IInv, CacheIsTrue, MarkedIsUnpublished, DiskInOrder,
                           OrderedFiles, FilesAssumption
  <1>2. QED
    BY <1>1, FilesInductive, PTL

\* What is whole on the disk is never truncated again.
THEOREM WholeStays == FilesSpec => WholeKept
  <1>1. IInv /\ [FilesNext]_file_vars =>
          [\A c \in Address, f \in File : Holds(c, f, "whole") => Holds(c, f, "whole")']_file_vars
    BY NextInv
  <1>2. QED
    BY <1>1, FilesInductive, PTL DEF FilesSpec, WholeKept
=============================================================================
