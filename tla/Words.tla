-------------------------------- MODULE Words --------------------------------
(***************************************************************************)
(* The word operators of the two EVMs of this repository: those of revm's   *)
(* interpreter (instructions/arithmetic.rs, bitwise.rs and i256.rs) and     *)
(* those of the decompiler's VM (heimdall's evm/vm.rs), beside the two's    *)
(* complement arithmetic that both implement.  A word is a number of BITS   *)
(* bits and has BYTES bytes; operands are a tuple, the top of the stack     *)
(* first.                                                                   *)
(***************************************************************************)
EXTENDS Integers, Bitwise

CONSTANTS
  BITS,        \* 256 in the code
  BYTE_BITS,   \* 8 in the code
  USIZE_MAX,
  I256_KEEPS_SIGN  \* whether ethers' >> of a negative I256 is arithmetic

BYTES   == BITS \div BYTE_BITS
MODULUS == 2^BITS
BYTE    == 2^BYTE_BITS
Word    == 0..(MODULUS - 1)

wrap(z)    == z % MODULUS
bit(w, i)  == i < BITS /\ (w \div 2^i) % 2 = 1
invert(w)  == MODULUS - 1 - w
left(w, n) == IF n >= BITS THEN 0 ELSE wrap((w % 2^(BITS - n)) * 2^n)
right(w, n) == IF n >= BITS THEN 0 ELSE w \div 2^n
truth(b)   == IF b THEN 1 ELSE 0
power(w, e) ==
  LET p[i \in 0..BITS] ==
        IF i = 0 THEN 1
        ELSE CHOOSE r \in {wrap(wrap(q * q) * (IF bit(e, BITS - i) THEN w ELSE 1)) :
                             q \in {p[i - 1]}} : TRUE
  IN p[BITS]

-----------------------------------------------------------------------------
(* revm                                                                     *)

two_compl(w) == wrap(MODULUS - w)
MIN_NEGATIVE_VALUE == 2^(BITS - 1)
u256_remove_sign(w) == w % MIN_NEGATIVE_VALUE

i256_sign(w) == IF bit(w, BITS - 1) THEN -1 ELSE IF w = 0 THEN 0 ELSE 1
magnitude(w) == IF i256_sign(w) = -1 THEN two_compl(w) ELSE w

\* -1, 0 or 1 for Less, Equal, Greater.
i256_cmp(a, b) ==
  IF i256_sign(a) # i256_sign(b) THEN (IF i256_sign(a) < i256_sign(b) THEN -1 ELSE 1)
  ELSE IF a < b THEN -1 ELSE IF a = b THEN 0 ELSE 1

i256_div(a, b) ==
  IF b = 0 THEN 0
  ELSE IF a = MIN_NEGATIVE_VALUE /\ magnitude(b) = 1 THEN two_compl(MIN_NEGATIVE_VALUE)
  ELSE LET d == u256_remove_sign(magnitude(a) \div magnitude(b))
       IN IF i256_sign(a) * i256_sign(b) = -1 THEN two_compl(d) ELSE d

ModTakesDivisorSign(a, b) == \* mutant
  LET r == u256_remove_sign(magnitude(a) % magnitude(b))
  IN IF i256_sign(b) = -1 THEN two_compl(r) ELSE r
i256_mod(a, b) ==
  LET r == u256_remove_sign(magnitude(a) % magnitude(b))
  IN IF i256_sign(a) = -1 THEN two_compl(r) ELSE r

\* SIGNEXTEND is the bit trick that its comment describes.
signextend(x) ==
  LET index == BYTE_BITS * x[1] + BYTE_BITS - 1
      mask  == 2^index - 1
  IN IF x[1] >= BYTES THEN x[2]
     ELSE IF bit(x[2], index) THEN x[2] | invert(mask) ELSE x[2] & mask

arithmetic(op, x) ==
  CASE op = "ADD"    -> wrap(x[1] + x[2])
    [] op = "MUL"    -> wrap(x[1] * x[2])
    [] op = "SUB"    -> wrap(MODULUS + x[1] - x[2])
    [] op = "DIV"    -> IF x[2] = 0 THEN 0 ELSE x[1] \div x[2]
    [] op = "SDIV"   -> i256_div(x[1], x[2])
    [] op = "MOD"    -> IF x[2] = 0 THEN 0 ELSE x[1] % x[2]
    [] op = "SMOD"   -> IF x[2] = 0 THEN x[2] ELSE i256_mod(x[1], x[2])
    [] op = "ADDMOD" -> IF x[3] = 0 THEN 0 ELSE (x[1] + x[2]) % x[3]
    [] op = "MULMOD" -> IF x[3] = 0 THEN 0 ELSE (x[1] * x[2]) % x[3]
    [] op = "EXP"    -> power(x[1], x[2])

as_usize_saturated(w) == IF w > USIZE_MAX THEN USIZE_MAX ELSE w

byte(x) ==
  LET o1 == as_usize_saturated(x[1])
  IN IF o1 < BYTES THEN right(left(x[2], BYTE_BITS * o1), BYTE_BITS * (BYTES - 1)) ELSE 0

sar(x) ==
  IF x[2] = 0 \/ x[1] >= BITS
  THEN (IF i256_sign(x[2]) = -1 THEN two_compl(1) ELSE 0)
  ELSE IF i256_sign(x[2]) = -1
       THEN two_compl(wrap(right(wrap(MODULUS + magnitude(x[2]) - 1), x[1]) + 1))
       ELSE right(x[2], x[1])

bitwise(op, x) ==
  CASE op = "LT"     -> truth(x[1] < x[2])
    [] op = "GT"     -> truth(x[1] > x[2])
    [] op = "SLT"    -> truth(i256_cmp(x[1], x[2]) = -1)
    [] op = "SGT"    -> truth(i256_cmp(x[1], x[2]) = 1)
    [] op = "EQ"     -> truth(x[1] = x[2])
    [] op = "ISZERO" -> truth(x[1] = 0)
    [] op = "AND"    -> x[1] & x[2]
    [] op = "OR"     -> x[1] | x[2]
    [] op = "XOR"    -> x[1] ^^ x[2]
    [] op = "NOT"    -> invert(x[1])
    [] op = "SHL"    -> left(x[2], as_usize_saturated(x[1]))
    [] op = "SHR"    -> right(x[2], as_usize_saturated(x[1]))

Arithmetic == {"ADD", "MUL", "SUB", "DIV", "SDIV", "MOD", "SMOD", "ADDMOD", "MULMOD", "EXP"}
Revm(op, x) ==
  CASE op \in Arithmetic    -> arithmetic(op, x)
    [] op = "SIGNEXTEND"    -> signextend(x)
    [] op = "BYTE"          -> byte(x)
    [] op = "SAR"           -> sar(x)
    [] OTHER                -> bitwise(op, x)

-----------------------------------------------------------------------------
(* The decompiler's VM.  The operators of ethers panic where a shift amount *)
(* or a product does not fit, and those of I256 wrap (no debug assertions). *)

PANIC == -1
EXIT2 == -2

signed(w) == IF w >= MIN_NEGATIVE_VALUE THEN w - MODULUS ELSE w
abs(z)    == IF z < 0 THEN -z ELSE z
quotient(a, b)  == (IF (a < 0) = (b < 0) THEN 1 ELSE -1) * (abs(a) \div abs(b))
remainder(a, b) == (IF a < 0 THEN -1 ELSE 1) * (abs(a) % abs(b))

basic_op(op, x) ==
  CASE op = "ADD" -> wrap(x[1] + x[2])
    [] op = "MUL" -> wrap(x[1] * x[2])
    [] op = "SUB" -> wrap(MODULUS + x[1] - x[2])
    [] op = "DIV" -> IF x[2] = 0 THEN 0 ELSE x[1] \div x[2]

signed_op(op, x) ==
  CASE op = "SDIV" -> IF x[2] = 0 THEN 0 ELSE wrap(quotient(signed(x[1]), signed(x[2])))
    [] op = "MOD"  -> IF x[2] = 0 THEN 0 ELSE x[1] % x[2]
    [] op = "SMOD" -> IF x[2] = 0 THEN 0 ELSE wrap(remainder(signed(x[1]), signed(x[2])))

\* The sum and the product wrap before the modulus is taken.
modular_op(op, x) ==
  CASE op = "ADDMOD" -> IF x[3] = 0 THEN 0 ELSE wrap(x[1] + x[2]) % x[3]
    [] op = "MULMOD" -> IF x[3] = 0 THEN 0 ELSE wrap(x[1] * x[2]) % x[3]
    [] op = "EXP"    -> power(x[1], x[2])

signextend_op(x) ==
  LET t        == x[1] * BYTE_BITS + BYTE_BITS - 1
      sign_bit == left(1, t)
  IN IF t >= MODULUS \/ t > USIZE_MAX THEN PANIC
     ELSE wrap(MODULUS + (x[2] & wrap(MODULUS + sign_bit - 1)) - (x[2] & sign_bit))

comparison_op(op, x) ==
  truth(CASE op = "LT"     -> x[1] < x[2]
          [] op = "GT"     -> x[1] > x[2]
          [] op = "SLT"    -> signed(x[1]) < signed(x[2])
          [] op = "SGT"    -> signed(x[1]) > signed(x[2])
          [] op = "EQ"     -> x[1] = x[2]
          [] op = "ISZERO" -> x[1] = 0)

bit_op(op, x) ==
  CASE op = "AND" -> x[1] & x[2]
    [] op = "OR"  -> x[1] | x[2]
    [] op = "XOR" -> x[1] ^^ x[2]
    [] op = "NOT" -> invert(x[1])

byte_op(x) == IF x[1] >= BYTES THEN 0 ELSE (x[2] \div BYTE^(BYTES - 1 - x[1])) % BYTE

\* The shift comes before the test that the amount is at most BITS - 1.
ShiftByOneLess(op, x) == \* mutant
  CASE x[1] >= BITS - 1 -> 0
    [] op = "SHL"       -> left(x[2], x[1])
    [] op = "SHR"       -> right(x[2], x[1])
shift_op(op, x) ==
  CASE x[1] > USIZE_MAX /\ (op = "SHL" \/ x[2] # 0) -> PANIC
    [] x[1] > BITS - 1  -> 0
    [] op = "SHL"       -> left(x[2], x[1])
    [] OTHER            -> right(x[2], x[1])

sar_op(x) ==
  CASE x[1] > USIZE_MAX -> EXIT2
    [] signed(x[2]) < 0 /\ I256_KEEPS_SIGN ->
         IF x[1] >= BITS THEN MODULUS - 1 ELSE wrap(signed(x[2]) \div 2^x[1])
    [] OTHER -> right(x[2], x[1])

Heimdall(op, x) ==
  CASE op \in {"ADD", "MUL", "SUB", "DIV"}     -> basic_op(op, x)
    [] op \in {"SDIV", "MOD", "SMOD"}          -> signed_op(op, x)
    [] op \in {"ADDMOD", "MULMOD", "EXP"}      -> modular_op(op, x)
    [] op = "SIGNEXTEND"                       -> signextend_op(x)
    [] op \in {"AND", "OR", "XOR", "NOT"}      -> bit_op(op, x)
    [] op = "BYTE"                             -> byte_op(x)
    [] op \in {"SHL", "SHR"}                   -> shift_op(op, x)
    [] op = "SAR"                              -> sar_op(x)
    [] OTHER                                   -> comparison_op(op, x)

-----------------------------------------------------------------------------
(* Reference: the operators that the yellow paper defines on integers.      *)

Reference(op, x) ==
  CASE op = "SDIV" -> IF x[2] = 0 THEN 0 ELSE wrap(quotient(signed(x[1]), signed(x[2])))
    [] op = "SMOD" -> IF x[2] = 0 THEN 0 ELSE wrap(remainder(signed(x[1]), signed(x[2])))
    [] op = "SLT"  -> truth(signed(x[1]) < signed(x[2]))
    [] op = "SGT"  -> truth(signed(x[1]) > signed(x[2]))
    [] op = "SAR"  -> IF x[1] >= BITS THEN (IF signed(x[2]) < 0 THEN MODULUS - 1 ELSE 0)
                      ELSE wrap(signed(x[2]) \div 2^x[1])
    [] op = "BYTE" -> IF x[1] >= BYTES THEN 0
                      ELSE (x[2] \div 2^(BITS - BYTE_BITS * (x[1] + 1))) % BYTE
    [] op = "SIGNEXTEND" ->
         IF x[1] >= BYTES THEN x[2]
         ELSE LET size == 2^(BYTE_BITS * (x[1] + 1))
                  low  == x[2] % size
              IN wrap(IF 2 * low >= size THEN low - size ELSE low)
    [] OTHER -> Revm(op, x)
=============================================================================
