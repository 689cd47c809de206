------------------------------ MODULE DappMerge ------------------------------
(***************************************************************************)
(* How data.csv is made (collect_dapp_information.py): for the contracts   *)
(* that a list names as a DApp's, the accounts that created them; then,    *)
(* since an account may have created contracts of several DApps, one name  *)
(* for all DApps that have a creator in common.                            *)
(*                                                                         *)
(* DApps are numbers, in the order of their names; a name that joins       *)
(* several with "&" is the set of them.                                    *)
(***************************************************************************)
EXTENDS Tasks, Naturals, Sequences, FiniteSets, FiniteSetsExt

-----------------------------------------------------------------------------
(* Collecting                                                               *)

\* The walk from a listed contract up to the account behind it, five creations
\* at most: a factory's factory beyond them is dropped without a word.  If the
\* creation cannot be looked up, the listed address stands for its creator.
Walk(created_by, unknown, listed) ==
  LET up[i \in 0..5] ==
        IF i = 0 THEN listed
        ELSE IF up[i - 1] \in DOMAIN created_by THEN created_by[up[i - 1]] ELSE up[i - 1]
      end == {i \in 0..4 : up[i] \in unknown \/ up[i + 1] \notin DOMAIN created_by}
  IN  IF end = {} THEN {}
      ELSE IF up[Min(end)] \in unknown THEN {listed} ELSE {up[Min(end) + 1]}

collected(lists, created_by, unknown) ==
  UNION {Walk(created_by, unknown, l[1]) \X {l[2]} : l \in lists}

-----------------------------------------------------------------------------
(* unique_dapp_information on the pairs in some order                       *)

Creators(pairs) == {pairs[i][1] : i \in DOMAIN pairs}
Dapps(pairs)    == {pairs[i][2] : i \in DOMAIN pairs}

\* Creators are taken in the order of their first pair.
FirstOfCreator(pairs, i) == ~\E j \in 1..(i - 1) : pairs[j][1] = pairs[i][1]

creator_to_dapp(pairs, c) == {pairs[i][2] : i \in {j \in DOMAIN pairs : pairs[j][1] = c}}

dapp_to_creator(pairs) ==
  [name \in {{d} : d \in Dapps(pairs)} |->
     {pairs[i][1] : i \in {j \in DOMAIN pairs : {pairs[j][2]} = name}}]

Without(f, names) == [name \in DOMAIN f \ names |-> f[name]]

MergesNothing(t, dapps) == t                                    \* mutant

\* One creator's DApps become one name.  Only the first of them that was renamed
\* before brings its old name in, and the DApps of that keep it: the next
\* creator of one of these finds no such name any more, a KeyError.
Merged(t, dapps) ==
  LET renamed == dapps \intersect DOMAIN t.new_name
      old     == IF renamed = {} THEN {} ELSE t.new_name[Min(renamed)]
      all     == dapps \union old
      rest    == Without(t.creators, {old})
      single  == {name \in {{d} : d \in all} : name \in DOMAIN rest}
      found   == (IF renamed = {} THEN {} ELSE t.creators[old])
                    \union UNION {rest[name] : name \in single}
      renames == IF Cardinality(all) > 1 THEN UNION single ELSE {}
  IN  IF t.error \/ (renamed # {} /\ old \notin DOMAIN t.creators)
        THEN [t EXCEPT !.error = TRUE]
      ELSE [error    |-> FALSE,
            new_name |-> [d \in DOMAIN t.new_name \union renames |->
                            IF d \in renames THEN all ELSE t.new_name[d]],
            creators |-> LET left == Without(rest, single)
                         IN  IF found = {} THEN left
                             ELSE [name \in DOMAIN left \union {all} |->
                                     IF name = all THEN found ELSE left[name]]]

\* The tables after the first i pairs
tables(pairs) ==
  LET after[i \in 0..Len(pairs)] ==
        IF i = 0 THEN [error |-> FALSE, new_name |-> <<>>, creators |-> dapp_to_creator(pairs)]
        ELSE IF FirstOfCreator(pairs, i)
               THEN Merged(after[i - 1], creator_to_dapp(pairs, pairs[i][1]))
        ELSE after[i - 1]
  IN  after

unique_dapp_information(pairs) ==
  LET last == tables(pairs)[Len(pairs)]
  IN  [error |-> last.error,
       rows  |-> UNION {last.creators[name] \X {name} : name \in DOMAIN last.creators}]

-----------------------------------------------------------------------------
\* The reference: DApps are linked by a creator they have in common, directly
\* or through other DApps.
Sets(pairs) == {creator_to_dapp(pairs, c) : c \in Creators(pairs)}

Together(pairs, S) == \A s \in Sets(pairs) : s \intersect S # {} => s \subseteq S

Linked(pairs, d) ==
  {e \in Dapps(pairs) : \A S \in SUBSET Dapps(pairs) : d \in S /\ Together(pairs, S) => e \in S}

\* "creator may belong to more than one dapp": as long as creators of several
\* DApps that are linked have the same ones, each creator gets one name, that of
\* all its linked DApps.  Whatever is linked, no creator is lost, and none gets
\* the name of a DApp it has no link to.
CreatorsAreNamed(pairs) ==
  LET result  == unique_dapp_information(pairs)
      several == {s \in Sets(pairs) : Cardinality(s) > 1}
      rows(c) == {r \in result.rows : r[1] = c}
  IN  /\ (\A s, t \in several : s = t \/ s \intersect t = {}) =>
           /\ ~result.error
           /\ \A i \in DOMAIN pairs :
                rows(pairs[i][1]) = {<<pairs[i][1], Linked(pairs, pairs[i][2])>>}
      /\ ~result.error =>
           \A i \in DOMAIN pairs :
             /\ rows(pairs[i][1]) # {}
             /\ \A r \in rows(pairs[i][1]) : r[2] \subseteq Linked(pairs, pairs[i][2])

\* The account found for a contract is the one at the top of its creations,
\* unless a lookup failed on the way; then it is that contract itself.
CreatorsAreFound(lists, created_by, unknown) ==
  \A r \in collected(lists, created_by, unknown) :
    \/ r[1] \notin DOMAIN created_by
    \/ unknown # {} /\ r \in lists

\* What is assumed of the inputs: they hold pairs, and DApps are numbers.
ArePairs(pairs) ==
  Len(pairs) \in Nat /\ DOMAIN pairs = 1..Len(pairs) /\ Dapps(pairs) \subseteq Nat

ASSUME DappAssumption ==
  /\ \A pairs \in Inputs["merge"] : ArePairs(pairs)
  /\ \A input \in Inputs["collect"] : \A l \in input[1] : l = <<l[1], l[2]>>

\* A creator is listed once, under the DApps it and those linked to it belong to
\* (collect_dapp_information.py).
CreatorsAreUnique ==
  /\ Given("merge") => CreatorsAreNamed(task.input)
  /\ Given("collect") => CreatorsAreFound(task.input[1], task.input[2], task.input[3])
=============================================================================
