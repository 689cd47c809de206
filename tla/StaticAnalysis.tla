--------------------------- MODULE StaticAnalysis ---------------------------
(***************************************************************************)
(* The static analysis of the driver (code/analysis_slither.py): which     *)
(* functions write the state that a function reads, and which of them only *)
(* their owner, or a guard against reentrancy, lets through.               *)
(*                                                                         *)
(* Slither parses the source; a contract is what its API says of it:       *)
(*   functions  the contract's functions, in order                         *)
(*   fn         of each callee: name, signature, visibility and kind, the  *)
(*              variables it reads and writes, its internal calls and      *)
(*              modifiers, and whether Slither calls it not reentrant      *)
(*   modifiers  the contract's modifiers, by signature                     *)
(*   modifier   of each, and of the functions they call: the kinds of what *)
(*              it reads (msg.sender, or a state variable), in order, the  *)
(*              comparisons of its nodes, in order, its internal calls and *)
(*              whether it calls out                                       *)
(*   state      the variables of the contract that are neither constant    *)
(*              nor immutable, nor of another contract                     *)
(* Internal calls that are Solidity's own (require) have none of these     *)
(* attributes and are left out.  is_input_verify, which only the log       *)
(* mentions, is left out too.                                              *)
(***************************************************************************)
EXTENDS Tasks, Naturals, Sequences, FiniteSets, SequencesExt

\* Python's recursion over internal_calls, with the root
Reached(c, f) ==
  LET reached[g \in DOMAIN c.fn] ==
        {g} \union UNION {reached[h] : h \in c.fn[g].internal_calls}
  IN  reached[f]

is_nonReentrant(c, f) == \E g \in Reached(c, f) : ~c.fn[g].is_reentrant

is_function_need_record(c, f) ==
  /\ c.fn[f].visibility \in {"public", "external"}
  /\ c.fn[f].kind \notin {"pure", "constructor", "fallback"}

-----------------------------------------------------------------------------
\* The comparison of one node: whether it names msg.sender, and whether with
\* a local of memory.  (The test for the result of a call asks for a value
\* that Slither's calls do not have.)
use_msgSender_compare_with_state(comparison) ==
  <<comparison # "other", comparison = "sender-local">>

\* Each state variable read, and each comparison, overwrites the flags of the
\* one before it.
LastFlags(flags, comparisons) ==
  IF comparisons = <<>> THEN flags
  ELSE use_msgSender_compare_with_state(Last(comparisons))

analysis_modifier_variable(variable) == variable \in {"address", "mapping"}

StateVariables(m) == {i \in DOMAIN m.variables_read : m.variables_read[i] # "msg.sender"}

\* What is_only_owner_modifier finds in one body: caller, state, local
BodyFlags(m) ==
  LET flags == LastFlags(<<FALSE, FALSE>>, m.nodes)
      reads == Contains(m.variables_read, "msg.sender")
  IN  [caller |-> reads /\ flags[1],
       state  |-> \/ \E i \in StateVariables(m) :
                       /\ \A j \in StateVariables(m) : j <= i
                       /\ analysis_modifier_variable(m.variables_read[i])
                  \/ m.external_calls,
       local  |-> reads /\ flags[2]]

\* analyze_contracts' test of the flags; the functions that a modifier calls
\* are given as modifiers without calls of their own.
is_only_owner_modifier(c, m) ==
  LET flags == {BodyFlags(c.modifier[n]) :
                  n \in {m} \union c.modifier[m].internal_calls}
  IN  /\ \E r \in flags : r.caller
      /\ \E r \in flags : r.state
      /\ \A r \in flags : ~r.local

only_owner_modifiers(c) == {m \in c.modifiers : is_only_owner_modifier(c, m)}

contain_only_owner_modifier(c, f) ==
  (UNION {c.fn[g].modifiers : g \in Reached(c, f)}) \intersect only_owner_modifiers(c)

-----------------------------------------------------------------------------
\* mutant: only what the function writes itself
WritesItself(c, f) == c.fn[f].writes \intersect c.state

\* find_read_write_variable, with ..._in_internal_calls
function_read(c, f)  == (UNION {c.fn[g].reads  : g \in Reached(c, f)}) \intersect c.state
function_write(c, f) == (UNION {c.fn[g].writes : g \in Reached(c, f)}) \intersect c.state

\* The functions that are recorded, by their position
Recorded(c) == {i \in DOMAIN c.functions : is_function_need_record(c, c.functions[i])}

RecordedFunctions(c) == {c.functions[i] : i \in Recorded(c)}

\* unique_storage_record: of the writers with one name, the first stays.
unique_storage_record(c, writers) ==
  {c.functions[i] : i \in {j \in writers : \A k \in writers :
     k < j => c.fn[c.functions[k]].name # c.fn[c.functions[j]].name}}

storage_write_unique(c, v) ==
  unique_storage_record(c, {i \in Recorded(c) : v \in function_write(c, c.functions[i])})

\* Dictionaries keyed by signature: the last function of a signature wins.
Keyed(c, signature) ==
  LET same == {i \in Recorded(c) : c.fn[c.functions[i]].signature = signature}
  IN  c.functions[CHOOSE i \in same : \A j \in same : j <= i]

Signatures(c) == {c.fn[f].signature : f \in RecordedFunctions(c)}

\* What f's calls lead to, f included
Closed(c, S) == \A g \in S : c.fn[g].internal_calls \subseteq S

Runs(c, f) ==
  {g \in DOMAIN c.fn : \A S \in SUBSET DOMAIN c.fn : f \in S /\ Closed(c, S) => g \in S}

\* Calls that come back to where they started end in RecursionError.
Recurses(c, f) == \E g \in Runs(c, f) : \E h \in c.fn[g].internal_calls : g \in Runs(c, h)

\* What analyze_contracts writes into the contract's file; an exception leaves
\* no file.
analyze_contracts(c) ==
  IF \E f \in RecordedFunctions(c) : Recurses(c, f) THEN [failed |-> TRUE]
  ELSE
  [failed        |-> FALSE,
   function_read |-> [s \in Signatures(c) |-> function_read(c, Keyed(c, s))],
   storage_write |-> [v \in c.state |->
                        {c.fn[f].signature : f \in storage_write_unique(c, v)}],
   only_owner    |-> [s \in Signatures(c) |->
                        contain_only_owner_modifier(c, Keyed(c, s)) # {}],
   non_Reentrant |-> [s \in Signatures(c) |-> is_nonReentrant(c, Keyed(c, s))]]

-----------------------------------------------------------------------------
\* The queries of the driver, answered from the file
is_only_owner_function(result, signature) ==
  signature \in DOMAIN result.only_owner /\ result.only_owner[signature]

Excluded(result, w, signature) ==
  \/ result.non_Reentrant[w] /\ result.non_Reentrant[signature]
  \/ w = signature

find_implicit_dependency(result, signature) ==
  IF signature \notin DOMAIN result.function_read THEN {}
  ELSE {w \in UNION {result.storage_write[v] : v \in result.function_read[signature]} :
          ~result.only_owner[w] /\ ~Excluded(result, w, signature)}

-----------------------------------------------------------------------------
(* The reference: what an implicit dependency is                           *)

\* Only the owner passes m: it compares the caller, not with a local, and looks
\* at an address or a mapping of the state or asks another contract.
OwnerOnly(c, m) ==
  LET bodies == {c.modifier[n] : n \in {m} \union c.modifier[m].internal_calls}
      comparing == {b \in bodies : Contains(b.variables_read, "msg.sender")}
  IN  /\ \E b \in comparing : \E k \in ToSet(b.nodes) : k # "other"
      /\ \A b \in comparing : "sender-local" \notin ToSet(b.nodes)
      /\ \E b \in bodies : \/ b.external_calls
                           \/ ToSet(b.variables_read) \intersect {"address", "mapping"} # {}

\* w changes a variable that f reads, is not the owner's, and at least one of
\* the two may be entered while it runs.
DependsOn(c, f, w) ==
  /\ f # w
  /\ \E v \in c.state : /\ \E g \in Runs(c, f) : v \in c.fn[g].reads
                        /\ \E g \in Runs(c, w) : v \in c.fn[g].writes
  /\ ~\E g \in Runs(c, w) : \E m \in c.fn[g].modifiers :
        m \in c.modifiers /\ OwnerOnly(c, m)
  /\ \E g \in {f, w} : \A h \in Runs(c, g) : c.fn[h].is_reentrant

\* Of several state variables, or comparisons, of one body the last decides.
Unambiguous(c) ==
  \A m \in DOMAIN c.modifier :
    /\ \A i, j \in StateVariables(c.modifier[m]) : i = j
    /\ Len(c.modifier[m].nodes) <= 1

DistinctSignatures(c) ==
  \A f, g \in RecordedFunctions(c) : c.fn[f].signature = c.fn[g].signature => f = g

\* Of functions of one name only the first is kept.
FirstOfName(c, w, v) ==
  ~\E k, i \in DOMAIN c.functions :
     /\ k < i /\ c.functions[i] = w
     /\ c.fn[c.functions[k]].name = c.fn[w].name
     /\ is_function_need_record(c, c.functions[k])
     /\ \E g \in Runs(c, c.functions[k]) : v \in c.fn[g].writes

\* Every function the driver is told to test together with f changes what f
\* reads, in whatever function the two do it, and no such function is missing,
\* except those that share the name of an earlier one.
DependencyIsExact(c) ==
  LET result == analyze_contracts(c)
      found(f) == find_implicit_dependency(result, c.fn[f].signature)
  IN  (Unambiguous(c) /\ DistinctSignatures(c) /\ ~result.failed) =>
        \A f, w \in RecordedFunctions(c) :
          /\ c.fn[w].signature \in found(f) => DependsOn(c, f, w)
          /\ (/\ DependsOn(c, f, w)
              /\ \A v \in c.state : FirstOfName(c, w, v)) => c.fn[w].signature \in found(f)

\* What is assumed of a contract: its functions and modifiers are Slither's.
IsContract(c) ==
  /\ IsFiniteSet(DOMAIN c.fn) /\ c.functions \in Seq(DOMAIN c.fn)
  /\ \A f \in DOMAIN c.fn : c.fn[f].internal_calls \subseteq DOMAIN c.fn
  /\ c.modifiers \subseteq DOMAIN c.modifier
  /\ \A m \in DOMAIN c.modifier :
       /\ c.modifier[m].internal_calls \subseteq DOMAIN c.modifier
       /\ c.modifier[m].variables_read \in Seq({"msg.sender", "address", "mapping", "other"})
       /\ c.modifier[m].nodes \in Seq({"sender-state", "sender-local", "other"})
       /\ c.modifier[m].external_calls \in BOOLEAN

ASSUME AnalysisAssumption == \A c \in Inputs["analyse"] : IsContract(c)

\* What the driver is told to test with a function is what changes the state
\* that the function reads (analysis_slither.py).
AnalysisIsExact == Given("analyse") => DependencyIsExact(task.input)
=============================================================================
