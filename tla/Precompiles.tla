----------------------------- MODULE Precompiles -----------------------------
(***************************************************************************)
(* The modular exponentiation contract of revm's precompiles               *)
(* (revm/crates/precompile/src/modexp.rs), which the hosts run for calls   *)
(* to address 5: three lengths of a word each, then base, exponent and     *)
(* modulus, with whatever is missing at the end read as zero.              *)
(*                                                                         *)
(* A byte is a number below Radix, a word has LengthBytes bytes, of which    *)
(* the last UsizeBytes count (256, 32 and 8 in the code); HighBytes is how *)
(* much of the exponent the price looks at (32).                           *)
(***************************************************************************)
EXTENDS Naturals, Sequences, SequencesExt

CONSTANTS Radix, LengthBytes, UsizeBytes, HighBytes, OverflowLimit

ASSUME PrecompilesAssumption ==
  /\ Radix \in Nat \ {0, 1} /\ OverflowLimit \in Nat
  /\ UsizeBytes \in Nat /\ LengthBytes \in Nat /\ UsizeBytes < LengthBytes
  /\ HighBytes \in Nat \ {0}

Error(kind) == [ok |-> FALSE, error |-> kind]

Least(a, b) == IF a <= b THEN a ELSE b
Most(a, b)  == IF a <= b THEN b ELSE a

from_bytes_be(bytes) == FoldLeft(LAMBDA n, b : Radix * n + b, 0, bytes)

\* The bytes from..to of the input, counted from 0, as far as there are any,
\* and zeros behind them
Present(input, from, to) == SubSeq(input, from + 1, Least(to, Len(input)))

\* mutant: zeros in front
PaddedInFront(input, from, to) ==
  LET bytes == Present(input, from, to)
  IN  [i \in 1..(to - from - Len(bytes)) |-> 0] \o bytes

Padded(input, from, to) ==
  LET bytes == Present(input, from, to)
  IN  bytes \o [i \in 1..(to - from - Len(bytes)) |-> 0]

read_u64(input, from) == from_bytes_be(Padded(input, from + LengthBytes - UsizeBytes,
                                              from + LengthBytes))

\* A length that is too large, or has a byte set above the width of usize
overflows(input, from) ==
  \/ read_u64(input, from) >= OverflowLimit
  \/ \E i \in DOMAIN Present(input, from, from + LengthBytes - UsizeBytes) :
       Present(input, from, from + LengthBytes - UsizeBytes)[i] # 0

read_big(input, from, to) == from_bytes_be(Padded(input, from, to))

\* The first HighBytes of the exponent as a number
exp_highp(input, base_end, exp_len) ==
  read_big(input, base_end, base_end + Least(HighBytes, exp_len))

bits(n) == CHOOSE k \in 0..(n + 1) : 2^k > n /\ (k = 0 \/ 2^(k - 1) <= n)

calculate_iteration_count(exp_len, high) ==
  Most(1, IF exp_len <= HighBytes
            THEN IF high = 0 THEN 0 ELSE bits(high) - 1
            ELSE 8 * (exp_len - HighBytes) + Most(1, bits(high)) - 1)

\* EIP-2565: words of eight bytes
berlin_gas_calc(base_len, exp_len, mod_len, high) ==
  LET words == (Most(base_len, mod_len) + 7) \div 8
  IN  Most(200, (words * words * calculate_iteration_count(exp_len, high)) \div 3)

\* BigUint::modpow
modpow[base \in Nat, exponent \in Nat, modulus \in Nat] ==
  IF exponent = 0 THEN 1 % modulus
  ELSE (base * modpow[base, exponent - 1, modulus]) % modulus

\* to_bytes_be: at least one byte
DigitsOf(n) == CHOOSE k \in 1..(n + 1) : Radix^k > n /\ (k = 1 \/ Radix^(k - 1) <= n)
to_bytes_be(n) == [i \in 1..DigitsOf(n) |-> (n \div Radix^(DigitsOf(n) - i)) % Radix]

\* The result in as many bytes as the modulus has
Output(n, mod_len) ==
  LET bytes == to_bytes_be(n)
  IN  IF Len(bytes) > mod_len THEN <<>>
      ELSE [i \in 1..(mod_len - Len(bytes)) |-> 0] \o bytes

run_inner(input, gas_limit) ==
  LET base_len == read_u64(input, 0)
      exp_len  == read_u64(input, LengthBytes)
      mod_len  == read_u64(input, 2 * LengthBytes)
      base_end == 3 * LengthBytes + base_len
      exp_end  == base_end + exp_len
      gas_cost == berlin_gas_calc(base_len, exp_len, mod_len,
                                  exp_highp(input, base_end, exp_len))
      base     == read_big(input, 3 * LengthBytes, base_end)
      exponent == read_big(input, base_end, exp_end)
      modulus  == read_big(input, exp_end, exp_end + mod_len)
  IN
  IF overflows(input, 0) \/ overflows(input, 2 * LengthBytes)
    THEN Error("ModexpBaseOverflow")
  ELSE IF base_len = 0 /\ mod_len = 0
    THEN [ok |-> TRUE, gas_cost |-> 200, output |-> Output(0, mod_len)]
  ELSE IF overflows(input, LengthBytes) THEN Error("ModexpExpOverflow")
  ELSE IF gas_cost > gas_limit THEN Error("OutOfGas")
  ELSE [ok |-> TRUE, gas_cost |-> gas_cost,
        output |-> Output(IF modulus \in {0, 1} THEN 0
                          ELSE modpow[base, exponent, modulus], mod_len)]

-----------------------------------------------------------------------------
\* The reference (EIP-198): the input continued with zeros for ever, the
\* result in the modulus' number of bytes.
ByteOf(input, i) == IF i < Len(input) THEN input[i + 1] ELSE 0

NumberAt(input, from, len) ==
  from_bytes_be([i \in 1..len |-> ByteOf(input, from + i - 1)])

Lengths(input) == [k \in 0..2 |-> NumberAt(input, k * LengthBytes, LengthBytes)]

Expected(input) ==
  LET len  == Lengths(input)
      at   == 3 * LengthBytes
      b    == NumberAt(input, at, len[0])
      e    == NumberAt(input, at + len[0], len[1])
      m    == NumberAt(input, at + len[0] + len[1], len[2])
      want == IF m = 0 THEN 0 ELSE (IF e = 0 THEN 1 ELSE b^e) % m
  IN  [i \in 1..len[2] |-> (want \div Radix^(len[2] - i)) % Radix]

\* Whatever part of the call data is missing, the contract answers with the
\* power and refuses only lengths that pass the limit.
ModExpIsPower(input, gas_limit) ==
  LET result == run_inner(input, gas_limit)
      len    == Lengths(input)
      large  == {k \in 0..2 : len[k] >= OverflowLimit}
  IN  IF large # {} /\ ~(large = {1} /\ len[0] = 0 /\ len[2] = 0) THEN ~result.ok
      ELSE result.ok /\ result.output = Expected(input)
=============================================================================
