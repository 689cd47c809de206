----------------------------- MODULE MCAlgorithms -----------------------------
(***************************************************************************)
(* The pure algorithms, each on every input of a bounded set: a task is    *)
(* taken, its result compared with the reference of its module, and the    *)
(* next one is taken.                                                      *)
(***************************************************************************)
EXTENDS StaticAnalysis, AbiCodec, Precompiles, TraceLexer, GasMeter,
        DappMerge

Upto(S, n) == UNION {[1..k -> S] : k \in 1..n}

-----------------------------------------------------------------------------
(* Contracts: a reader, a writer that may share its name with another, and *)
(* a helper that either may call, which may call back.                     *)

Function(name, visibility, reads, writes, calls, modifiers, reentrant) ==
  [name |-> name, signature |-> name, visibility |-> visibility, kind |-> "function",
   reads |-> reads, writes |-> writes, internal_calls |-> calls,
   modifiers |-> modifiers, is_reentrant |-> reentrant]

Modifiers ==
  {[variables_read |-> read, nodes |-> nodes, internal_calls |-> calls,
    external_calls |-> out] :
      read  \in {<<"msg.sender", "address">>, <<"msg.sender">>, <<"other", "msg.sender">>},
      nodes \in {<<"sender-state">>, <<"sender-local">>, <<"other">>},
      calls \in {{}, {"check"}}, out \in {FALSE}}

Check == [variables_read |-> <<"mapping">>, nodes |-> <<>>, internal_calls |-> {},
          external_calls |-> FALSE]

ContractOf(order, v, f, w, h, m) ==
  [functions |-> order,
   fn |-> ("f" :> Function("f", "public", {"x"}, {}, f[1], {}, f[2])) @@
          ("w" :> Function("w", v, {}, w[1], w[2], w[3], w[4])) @@
          ("u" :> [Function("w", "external", {}, {"x"}, {}, {}, TRUE)
                     EXCEPT !.signature = "u"]) @@
          ("h" :> Function("h", "internal", {"x"}, h[1], h[2], h[3], TRUE)),
   modifiers |-> {"owner"}, modifier |-> ("owner" :> m) @@ ("check" :> Check),
   state |-> {"x"}]

OwnerModifier == [variables_read |-> <<"msg.sender", "address">>,
                  nodes |-> <<"sender-state">>, internal_calls |-> {},
                  external_calls |-> FALSE]

Helper == {{"x"}, {"constant"}} \X {{}, {"h"}} \X {{}, {"owner"}}

Contracts ==
  {ContractOf(order, "public", f, w, h, OwnerModifier) :
     order \in {<<"f", "w">>, <<"u", "w", "f">>},
     f \in {{}, {"h"}} \X BOOLEAN,
     w \in {{}, {"x"}} \X {{}, {"h"}} \X {{}, {"owner"}} \X BOOLEAN,
     h \in Helper}
  \union
  {ContractOf(<<"f", "w">>, v, <<{}, TRUE>>, <<{"x"}, {"h"}, {"owner"}, TRUE>>, h, m) :
     v \in {"public", "private"}, h \in Helper, m \in Modifiers}

-----------------------------------------------------------------------------
(* Values of the ABI, nested twice, with the words of an address, of a     *)
(* number and of bytes that fill a word or do not                          *)

BasicValues ==
  {A256(<<1, 2>>), AUnknown(A256(<<5>>)), ADynamic(<<7, 8, 9>>), ADynamic(<<>>)}

ArraysOf(S) ==
  {AArray(data, dynamic) : data \in Upto(S, 2), dynamic \in BOOLEAN}
    \union {AArray(<<>>, TRUE)}

Values == BasicValues \union ArraysOf(BasicValues \union ArraysOf(BasicValues))

BasicTypes ==
  {[ty |-> "uint", len |-> 1], [ty |-> "bytesN", len |-> 2], [ty |-> "bool"],
   [ty |-> "address", with_address |-> <<3, 4>>], [ty |-> "bytes"], [ty |-> "unknown"]}

TypesOf(S) ==
  {[ty |-> "list", of |-> <<t>>] : t \in S}
    \union {[ty |-> "array", of |-> <<t>>, len |-> 2] : t \in S}
    \union {[ty |-> "tuple", of |-> types] : types \in Upto(S, 2)}

Types == BasicTypes \union TypesOf(BasicTypes \union TypesOf(BasicTypes))
           \union {[ty |-> "tuple", of |-> <<>>], [ty |-> ""]}

-----------------------------------------------------------------------------
(* Call data of the modular exponentiation: three lengths and digits,      *)
(* complete or cut short anywhere                                          *)

Head6(a, l) == <<a, l[1], 0, l[2], 0, l[3]>>

CallDatas ==
  {Head6(0, l) \o digits : l \in (0..2) \X (0..2) \X (0..2), digits \in Upto({0, 1, 3}, 4)}
    \union {Head6(a, l) \o <<2>> : a \in {0, 1}, l \in (0..3) \X (0..3) \X (0..3)}
    \union {SubSeq(Head6(0, l), 1, n) : l \in (0..3) \X (0..3) \X (0..3), n \in 0..6}

-----------------------------------------------------------------------------
(* Traces: conditions that are alike and conditions that differ, three     *)
(* deep, with the ends a branch may have; a statement that mentions the     *)
(* difficulty, events with topics, without and not recorded                 *)

Jumpi(condition) == [name |-> "JUMPI", condition |-> condition]
Revert(data)     == [name |-> "REVERT", data |-> data, error |-> "e"]
Mark(name)       == [name |-> name]
StatementOp(name, mentions) == [name |-> name, contains_if |-> mentions]
Emit(event, mentions) == [name |-> "LOG", event |-> event, contains_if |-> mentions]

Leaf(ops) == [operations |-> ops, children |-> <<>>]
Fork(ops, children) == [operations |-> ops, children |-> children]

Leaves ==
  {Leaf(<<op>>) :
     op \in {Revert("string"), Revert("panic"), Revert("custom"), Mark("SLOAD"), Mark("STOP"),
            [name |-> "RETURN", returns |-> "bool", contains_if |-> FALSE]}
         \union {StatementOp("SSTORE", mentions) : mentions \in BOOLEAN}
         \union {Emit(event, event = "mentioned") :
                   event \in {"e", "mentioned", Absent, Anonymous}}}

Forks(conditions, left, right) ==
  {Fork(<<Jumpi(c)>>, <<l, r>>) : c \in conditions, l \in left, r \in right}

Ends      == {Leaf(<<Revert("string")>>), Leaf(<<StatementOp("SSTORE", FALSE)>>)}
Forks1    == Forks({"a", "b"}, Ends, Ends)
Forks2    == Forks({"a", "b"}, Ends \union Forks1, Ends \union Forks1)
Mentioned == Ends \union {Leaf(<<StatementOp("SSTORE", TRUE)>>)}

ArgumentOps ==
  {[name |-> "CALLDATALOAD", slot |-> s] : s \in 0..1} \union
  {[name |-> n, slot |-> 0, mask_size |-> 20, types |-> {"address"}] :
     n \in {"ISZERO", "AND", "MUL", "SHR"}}

RECURSIVE WalkOf(_)
WalkOf(trace) ==
  <<Mark("enter")>> \o trace.operations
    \o FlattenSeq([i \in DOMAIN trace.children |-> WalkOf(trace.children[i])])
    \o <<Mark("leave")>>

Traces ==
  Forks({"a", "b", "!msg.value", "compiler"}, Leaves, Leaves)
    \union Forks2 \union Forks({"a", "b"}, Ends \union Forks1, Forks2)
    \union Forks({"a", "b"}, Mentioned, Forks({"a", "b"}, Mentioned, Mentioned))
    \union {Leaf(ops) : ops \in Upto(ArgumentOps, 3)}

Signatures_known == <<[inputs |-> <<"[]">>], [inputs |-> <<"bool", "address">>]>>

Decompiled == {<<WalkOf(trace), Signatures_known>> : trace \in Traces}

-----------------------------------------------------------------------------
(* Transactions: stores of three values with calls around them, with enough *)
(* gas and with little, under the rules of four forks                       *)

Store(v)     == [op |-> "sstore", value |-> v]
CallWith(p)  == [op |-> "call", pays |-> p, asked |-> 60000]
Expand(n)    == [op |-> "expand", words |-> n]
Ends_of_call == {[op |-> "return"], [op |-> "revert"]}

Depths(steps) ==
  \A n \in 1..Len(steps) :
    Len(SelectSeq(SubSeq(steps, 1, n), LAMBDA s : s.op = "call"))
      >= Len(SelectSeq(SubSeq(steps, 1, n), LAMBDA s : s.op \in {"return", "revert"}))

Nested(ops, n) == {steps \in Upto(ops, n) : Depths(steps)}

Stores == {Store(v) : v \in 0..2}

Scripts ==
  Nested(Stores \union {CallWith(FALSE)} \union Ends_of_call, 5)
    \union Nested(Stores \union {CallWith(TRUE), Expand(3), Expand(40)} \union Ends_of_call, 3)

Transactions ==
  {[spec |-> SpecId[fork], limit |-> limit, original |-> original, steps |-> steps,
    data |-> [zero |-> 3, other |-> 2, accounts |-> 1, slots |-> 1]] :
     fork \in {"TANGERINE", "ISTANBUL", "BERLIN", "LONDON"},
     limit \in {50000, 400000}, original \in 0..1, steps \in Scripts}

Prices == {<<SpecId[fork], len, power>> :
             fork \in {"FRONTIER", "LONDON"}, len \in 0..100, power \in 0..255}

-----------------------------------------------------------------------------
(* Pairs of creator and DApp in every order that first names the creators   *)
(* in turn, so many that three creators share four DApps; and creations in  *)
(* a row, longer than what is followed                                      *)

PairsOf(c, dapps) == [i \in 1..Cardinality(dapps) |-> <<c, SetToSeq(dapps)[i]>>]

Merges ==
  {PairsOf("x", a) \o PairsOf("y", b) \o PairsOf("z", c) :
     a, b, c \in SUBSET (1..4) \ {{}}}

CreatedInARow == [a \in 1..6 |-> a + 1]

Listings == {<<lists, CreatedInARow, unknown>> : lists \in SUBSET ((1..6) \X {1, 2}) \ {{}},
                                  unknown \in {{}, {3}, {6}, {2, 5}}}

-----------------------------------------------------------------------------
MCInputs ==
  [analyse |-> Contracts, encode |-> Values, construct |-> Types, exponent |-> CallDatas,
   decompile |-> Decompiled, meter |-> Transactions, price |-> Prices, merge |-> Merges,
   collect |-> Listings]

-----------------------------------------------------------------------------
\* Call data made for a type, or of any value of it, is what Solidity decodes
\* to that value (abi.rs).
AbiIsDecodable ==
  /\ Given("encode") => EncodedAsSolidity(task.input)
  /\ Given("construct") => EncodedAsSolidity(get_abi_type(task.input))

\* The precompiled contract computes the power from whatever part of its input
\* is there (modexp.rs).
PowerIsExact == Given("exponent") => ModExpIsPower(task.input, 100000)

\* A transaction is charged what EIP-2200 and EIP-2929 say, in whatever order it
\* stores, calls and reverts (gas.rs, gas/calc.rs).
MeteringIsNet ==
  /\ Given("meter") => TransactionAddsUp(task.input)
  /\ Given("price") => PricesGrow(task.input[1], task.input[2], task.input[3])
=============================================================================
