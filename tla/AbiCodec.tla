------------------------------ MODULE AbiCodec ------------------------------
(***************************************************************************)
(* The ABI codec (src/evm/abi.rs): the value get_abi_type makes for a      *)
(* type, the call data get_bytes encodes it to, and set_bytes, which reads *)
(* such data back into a value.  Bytes are numbers below 256; a word has   *)
(* WordBytes of them (32 in the code), and an offset fits into one.        *)
(*                                                                         *)
(* Types are trees, not text: [ty |-> "tuple", of |-> types],              *)
(* [ty |-> "list", of |-> <<type>>] for T[], [ty |-> "array", of |->       *)
(* <<type>>, len] for T[n], and the basic ones.  AUnknown behaves as the   *)
(* argument it holds.  Random sampling and mutation of values belong to    *)
(* the fuzzer that SmartReco does not run, and are left out.               *)
(***************************************************************************)
EXTENDS Naturals, Sequences, SequencesExt

CONSTANT WordBytes

ASSUME AbiAssumption == WordBytes \in Nat \ {0}

Zeros(n) == [i \in 1..n |-> 0]

Repeated(v, n) == [i \in 1..n |-> v]

roundup(x, multiplier) == ((x + multiplier - 1) \div multiplier) * multiplier

\* A number of a word's width, most significant byte first, and back
set_size(len) == [i \in 1..WordBytes |-> (len \div 256^(WordBytes - i)) % 256]

get_size_of(word) == FoldLeft(LAMBDA n, b : 256 * n + b, 0, word)

-----------------------------------------------------------------------------
(* Values                                                                  *)

AEmpty          == [abi |-> "AEmpty"]
A256(data)      == [abi |-> "A256", data |-> data]
ADynamic(data)  == [abi |-> "ADynamic", data |-> data]
AArray(data, dynamic_size) ==
  [abi |-> "AArray", data |-> data, dynamic_size |-> dynamic_size]
AUnknown(concrete) == [abi |-> "AUnknown", concrete |-> concrete]

\* get_abi_type_basic: uintN and bytesN have N \div 8 and N bytes.
get_abi_type_basic(type) ==
  CASE type.ty \in {"uint", "bytesN"}  -> A256(Zeros(type.len))
    [] type.ty = "address"             -> A256(type.with_address)
    [] type.ty = "bool"                -> A256(Zeros(1))
    [] type.ty \in {"bytes", "string"} -> ADynamic(<<>>)
    [] type.ty = "unknown"             -> AUnknown(A256(Zeros(WordBytes)))
    [] type.ty = ""                    -> AEmpty

RECURSIVE get_abi_type(_)
get_abi_type(type) ==
  CASE type.ty = "tuple" /\ type.of = <<>> -> AEmpty
    [] type.ty = "tuple" /\ type.of # <<>> ->
         AArray([i \in DOMAIN type.of |-> get_abi_type(type.of[i])], FALSE)
    [] type.ty = "list"  -> AArray(<<get_abi_type(type.of[1])>>, TRUE)
    [] type.ty = "array" -> AArray(Repeated(get_abi_type(type.of[1]), type.len), FALSE)
    [] OTHER -> get_abi_type_basic(type)

RECURSIVE is_static(_)
is_static(v) ==
  CASE v.abi = "ADynamic" -> FALSE
    [] v.abi = "AArray"   -> ~v.dynamic_size /\ \A i \in DOMAIN v.data : is_static(v.data[i])
    [] v.abi = "AUnknown" -> is_static(v.concrete)
    [] OTHER -> TRUE

-----------------------------------------------------------------------------
(* Encoding                                                                *)

EncodedWord(data) == Zeros(WordBytes - Len(data)) \o data

EncodedBytes(data) ==
  set_size(Len(data)) \o data \o Zeros(roundup(Len(data), WordBytes) - Len(data))

TailsBefore(tails, i) == Len(FlattenSeq(SubSeq(tails, 1, i - 1)))

HeadSize(statics, tails) ==
  FoldLeftDomain(LAMBDA n, i : n + IF tails[i] # <<>> THEN WordBytes ELSE Len(statics[i]),
                 0, statics)

\* mutant: offsets from the start of the tails
TailFromTails(statics, tails, i) == TailsBefore(tails, i)

\* The tails start behind all heads, in order.
TailOffset(statics, tails, i) == HeadSize(statics, tails) + TailsBefore(tails, i)

\* The body of AArray::get_bytes: the head of an item is its encoding, or the
\* offset of its tail when that is empty.  (An item of no bytes at all, which
\* no type of Solidity has, would get an offset that HeadSize does not count.)
EncodedItems(statics, tails) ==
  FlattenSeq([i \in DOMAIN statics |->
    IF statics[i] = <<>> THEN set_size(TailOffset(statics, tails, i)) ELSE statics[i]])
  \o FlattenSeq(tails)

RECURSIVE get_bytes(_)
get_bytes(v) ==
  CASE v.abi = "AEmpty"   -> <<>>
    [] v.abi = "A256"     -> EncodedWord(v.data)
    [] v.abi = "ADynamic" -> EncodedBytes(v.data)
    [] v.abi = "AUnknown" -> get_bytes(v.concrete)
    [] v.abi = "AArray"   ->
         LET encoded == [i \in DOMAIN v.data |-> get_bytes(v.data[i])]
             static  == [i \in DOMAIN v.data |-> is_static(v.data[i])]
             statics == [i \in DOMAIN v.data |-> IF static[i] THEN encoded[i] ELSE <<>>]
             tails   == [i \in DOMAIN v.data |-> IF static[i] THEN <<>> ELSE encoded[i]]
         IN  (IF v.dynamic_size THEN set_size(Len(v.data)) ELSE <<>>)
             \o EncodedItems(statics, tails)

\* BoxedABI::get_bytes
CallData(function, v) == function \o get_bytes(v)

-----------------------------------------------------------------------------
(* Setting a value from bytes                                              *)

RECURSIVE get_size(_)
get_size(v) ==
  CASE v.abi = "AEmpty"   -> 0
    [] v.abi = "A256"     -> WordBytes
    [] v.abi = "ADynamic" -> Len(v.data) + WordBytes
    [] v.abi = "AUnknown" -> get_size(v.concrete)
    [] v.abi = "AArray"   ->
         FoldLeft(LAMBDA n, x : n + get_size(x), 0, v.data)
         + IF v.dynamic_size THEN WordBytes ELSE 0

\* A slice beyond the end, which panics in the code, is cut off at it.
Slice(bytes, from, to) ==
  SubSeq(bytes, from + 1, IF to > Len(bytes) THEN Len(bytes) ELSE to)

\* The offsets of the dynamic items are read one word after the other from
\* the first head on, whatever heads of static items lie in between.
TailsRead(items, bytes, offset) ==
  LET dynamic == SelectSeq(items, LAMBDA x : ~is_static(x))
  IN  [k \in DOMAIN dynamic |->
        get_size_of(Slice(bytes, offset + WordBytes * (k - 1), offset + WordBytes * k))]

\* How many of the first i items are dynamic, and where item i's head starts:
\* only static items move the offset on.
DynamicUpTo(items, i) == Len(SelectSeq(SubSeq(items, 1, i), LAMBDA x : ~is_static(x)))

OffsetAt(items, i, offset) ==
  offset + FoldLeft(LAMBDA n, x : n + IF is_static(x) THEN get_size(x) ELSE 0, 0,
                    SubSeq(items, 1, i - 1))

BytesOfItem(items, bytes, offset, i) ==
  LET at    == OffsetAt(items, i, offset)
      tails == TailsRead(items, bytes, offset)
      k     == DynamicUpTo(items, i)
      start == tails[k] + at
  IN  IF is_static(items[i]) THEN Slice(bytes, at, at + get_size(items[i]))
      ELSE IF k = Len(tails) THEN Slice(bytes, start, Len(bytes))
      ELSE Slice(bytes, start, tails[k + 1] + at)

RECURSIVE set_bytes(_, _)
set_bytes(v, bytes) ==
  CASE v.abi = "AEmpty"   -> v
    [] v.abi = "AUnknown" -> AUnknown(set_bytes(v.concrete, bytes))
    [] v.abi = "AArray"   ->
         LET offset == IF v.dynamic_size THEN WordBytes ELSE 0
         IN  AArray([i \in DOMAIN v.data |->
                       set_bytes(v.data[i], BytesOfItem(v.data, bytes, offset, i))],
                    v.dynamic_size)
    [] OTHER -> [v EXCEPT !.data = bytes]

-----------------------------------------------------------------------------
(* The reference: where the Solidity specification puts a value            *)

\* bytes carry v at position at, its offsets counted from base.
RECURSIVE StaticSize(_), CarriedAt(_, _, _)
StaticSize(v) ==
  CASE v.abi = "A256" -> WordBytes
    [] v.abi = "AUnknown" -> StaticSize(v.concrete)
    [] v.abi = "AArray" -> FoldLeft(LAMBDA n, x : n + StaticSize(x), 0, v.data)
    [] OTHER -> 0

CarriedAt(bytes, at, v) ==
  LET number == get_size_of(Slice(bytes, at, at + WordBytes))
      base   == IF v.abi = "AArray" /\ v.dynamic_size THEN at + WordBytes ELSE at
      head(i) == base + FoldLeft(LAMBDA n, x :
                   n + IF is_static(x) THEN StaticSize(x) ELSE WordBytes, 0,
                   SubSeq(v.data, 1, i - 1))
  IN
  CASE v.abi = "A256" ->
         /\ at + WordBytes <= Len(bytes)
         /\ \A i \in 1..WordBytes : bytes[at + i] =
              IF i <= WordBytes - Len(v.data) THEN 0
              ELSE v.data[i - (WordBytes - Len(v.data))]
    [] v.abi = "ADynamic" ->
         /\ number = Len(v.data)
         /\ Slice(bytes, at + WordBytes, at + WordBytes + number) = v.data
    [] v.abi = "AUnknown" -> CarriedAt(bytes, at, v.concrete)
    [] v.abi = "AArray" ->
         /\ v.dynamic_size => number = Len(v.data)
         /\ \A i \in DOMAIN v.data :
              IF is_static(v.data[i]) THEN CarriedAt(bytes, head(i), v.data[i])
              ELSE CarriedAt(bytes,
                     base + get_size_of(Slice(bytes, head(i), head(i) + WordBytes)),
                     v.data[i])
    [] OTHER -> TRUE

\* What Solidity decodes from the call data of v is v, no word of it is
\* missing or left over, and a static value read back with set_bytes encodes
\* to the same data.
EncodedAsSolidity(v) ==
  LET bytes == get_bytes(v)
  IN  /\ CarriedAt(bytes, 0, v)
      /\ Len(bytes) % WordBytes = 0
      /\ is_static(v) => /\ Len(bytes) = get_size(v)
                         /\ get_bytes(set_bytes(v, bytes)) = bytes
=============================================================================
