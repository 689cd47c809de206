---------------------------- MODULE ContractFiles ----------------------------
(***************************************************************************)
(* The files the static driver keeps of each contract                      *)
(* (lib/onchain_tool.py, generate_tx_with_abi.py, analysis_slither.py):    *)
(* source, type, compiler version and ABI from the explorer, and Slither's *)
(* result.  Each file is truncated when it is opened and whole when it is  *)
(* closed; the driver may be killed in between and started again on what   *)
(* is there.  One driver runs at a time.                                   *)
(***************************************************************************)
EXTENDS Naturals, Sequences

CONSTANTS
  Address,
  Published,  \* contracts whose source the explorer has
  MaxKills    \* bound on how often the driver is killed

File    == {"source", "type", "version", "abi", "analysis"}
Content == {"none", "part", "whole", "unpublished"}

ASSUME FilesAssumption == Published \subseteq Address /\ MaxKills \in Nat

VARIABLES
  disk,     \* per contract and file: its content; "part" may be empty
  pending,  \* the files being written, first the next: contract, file, content
  opened,   \* is the first of them open?
  info,     \* contracts for which get_contract_online_info answered True
  kills,
  served    \* history: what readers were given: contract, file, content

file_vars == <<disk, pending, opened, info, kills, served>>

FilesInit ==
  /\ disk = [c \in Address |-> [f \in File |-> "none"]]
  /\ pending = <<>> /\ opened = FALSE
  /\ info = {} /\ kills = 0 /\ served = {}

AtRest == pending = <<>>
Holds(c, f, content) == disk[c][f] = content

\* mutants: the ABI is not the last file; a file nobody reads is written
AbiEarly == <<"source", "abi", "type", "version">>
Misnamed == <<"source", "type", "version", "abi_json">>

WriteOrder == <<"source", "type", "version", "abi">>

Write(c, files, content) ==
  /\ pending' = [i \in DOMAIN files |->
                   [contract |-> c, file |-> files[i], content |-> content]]
  /\ opened' = FALSE

-----------------------------------------------------------------------------
\* get_contract_online_info looks for the source file alone.
CachedNever(c) == FALSE                                    \* mutant

IsCached(c) == ~Holds(c, "source", "none")

Serve(c, files) ==
  served' = served \union {[contract |-> c, file |-> f, content |-> disk[c][f]] :
                             f \in files}

\* Reading the files; one that is missing raises.
CachedInfo(c) ==
  /\ AtRest /\ IsCached(c)
  /\ ~Holds(c, "abi", "none")
  /\ IF Holds(c, "abi", "unpublished")
       THEN UNCHANGED <<info, served>>
       ELSE /\ ~Holds(c, "type", "none") /\ ~Holds(c, "version", "none")
            /\ info' = info \union {c}
            /\ Serve(c, {"source", "type", "version"})
  /\ UNCHANGED <<disk, pending, opened, kills>>

\* mutant: any failure counts as a contract without source
NoCodeOrFailure(c) == TRUE

NoCode(c) == c \notin Published

\* Asking the explorer: a failure leaves no file behind.
FetchInfo(c) ==
  /\ AtRest /\ ~IsCached(c)
  /\ \/ c \in Published /\ Write(c, WriteOrder, "whole")
     \/ NoCode(c) /\ Write(c, <<"abi">>, "unpublished")
  /\ UNCHANGED <<disk, info, kills, served>>

\* with open(path, "w") as file: file.write(..)
Open ==
  /\ ~AtRest /\ ~opened
  /\ opened' = TRUE
  /\ disk' = [disk EXCEPT ![pending[1].contract][pending[1].file] = "part"]
  /\ UNCHANGED <<pending, info, kills, served>>

Close ==
  /\ ~AtRest /\ opened
  /\ opened' = FALSE /\ pending' = Tail(pending)
  /\ disk' = [disk EXCEPT ![pending[1].contract][pending[1].file] =
                pending[1].content]
  /\ info' = IF Len(pending) = 1 /\ pending[1].content = "whole"
               THEN info \union {pending[1].contract} ELSE info
  /\ UNCHANGED <<kills, served>>

-----------------------------------------------------------------------------
\* get_function_abis: json.load raises on anything but the whole ABI.
FunctionAbis(c) ==
  /\ AtRest /\ c \in info /\ Holds(c, "abi", "whole")
  /\ Serve(c, {"abi"})
  /\ UNCHANGED <<disk, pending, opened, info, kills>>

\* analyze_contracts without its file: Slither's result, the explorer's "no
\* public source code", or a failure that leaves no file.
Analyse(c) ==
  /\ AtRest /\ c \in info /\ Holds(c, "analysis", "none")
  /\ \E content \in {"whole", "unpublished"} : Write(c, <<"analysis">>, content)
  /\ UNCHANGED <<disk, info, kills, served>>

\* and with it: an empty file fails, a part of one passes for a result.
AlreadyAnalysed(c) ==
  /\ AtRest /\ c \in info
  /\ disk[c]["analysis"] \in {"part", "whole"}
  /\ Serve(c, {"analysis"})
  /\ UNCHANGED <<disk, pending, opened, info, kills>>

\* Killed, and started again: memory is lost.
Kill ==
  /\ kills < MaxKills /\ kills' = kills + 1
  /\ pending' = <<>> /\ opened' = FALSE /\ info' = {}
  /\ UNCHANGED <<disk, served>>

FilesNext ==
  \/ Open \/ Close \/ Kill
  \/ \E c \in Address :
       \/ CachedInfo(c) \/ FetchInfo(c)
       \/ FunctionAbis(c) \/ Analyse(c) \/ AlreadyAnalysed(c)

FilesSpec == FilesInit /\ [][FilesNext]_file_vars

-----------------------------------------------------------------------------
\* Types of every variable
FilesTypeOK ==
  /\ disk \in [Address -> [File -> Content]]
  /\ pending \in Seq([contract: Address, file: File, content: Content])
  /\ opened \in BOOLEAN /\ info \subseteq Address /\ kills \in 0..MaxKills
  /\ served \subseteq [contract: Address, file: File, content: Content]

\* A reader of the cache never gets the start of a type, a version, a source or
\* an ABI that a killed driver left behind, although only the source file's
\* existence is looked up (onchain_tool.py:97-111).
ServedIsWhole ==
  \A s \in served : s.file # "analysis" => s.content = "whole"

\* A contract is marked as without source only if the explorer said so.
MarkedIsUnpublished ==
  \A c \in Published : disk[c]["abi"] # "unpublished"

\* What is whole on the disk is never truncated again.
WholeKept ==
  [][\A c \in Address, f \in File : Holds(c, f, "whole") => Holds(c, f, "whole")']_file_vars

\* Whatever was killed before, what a driver takes from the cache is true.
CacheIsTrue == FilesTypeOK /\ ServedIsWhole /\ MarkedIsUnpublished
=============================================================================
