------------------------------- MODULE GasMeter -------------------------------
(***************************************************************************)
(* What revm charges for a transaction (revm/crates/interpreter/src/gas.rs *)
(* and gas/calc.rs): an initial price for its data, a meter per frame, and *)
(* the settlement of what is left and of the refunds (evm_impl.rs).  This  *)
(* build leaves metering off (feature no_gas_measuring); the code and its  *)
(* forks are there.                                                        *)
(*                                                                         *)
(* A transaction is a sequence of steps on one slot, in frames that call   *)
(* one another.  A number of LimbBits * 4 bits stands for U256.            *)
(***************************************************************************)
EXTENDS Integers, Sequences, SequencesExt, FiniteSetsExt

CONSTANTS LimbBits, ByteBits   \* 64 and 8 in the code

ASSUME GasAssumption == LimbBits \in Nat \ {0} /\ ByteBits \in Nat \ {0}

\* The forks at which a price changes
SpecId == [FRONTIER |-> 0, HOMESTEAD |-> 2, TANGERINE |-> 4, SPURIOUS_DRAGON |-> 5,
           ISTANBUL |-> 9, BERLIN |-> 11, LONDON |-> 12, SHANGHAI |-> 16]

enabled(our, other) == our >= SpecId[other]

\* The price of the newest of the forks that is enabled
Since(spec, prices) ==
  LET known == {f \in DOMAIN prices : enabled(spec, f)}
  IN  prices[CHOOSE f \in known : \A g \in known : SpecId[g] <= SpecId[f]]

-----------------------------------------------------------------------------
(* Prices                                                                   *)

SSTORE_SET == 20000
SSTORE_RESET == 5000
COLD_SLOAD_COST == 2100
CALL_STIPEND == 2300
CALLVALUE == 9000
NEWACCOUNT == 25000

WordsFor(len) == len \div 32 + IF len % 32 = 0 THEN 0 ELSE 1

Account(is_cold) == IF is_cold THEN 2600 ELSE 100

sload_cost(spec, is_cold) ==
  Since(spec, [FRONTIER |-> 50, TANGERINE |-> 200, ISTANBUL |-> 800,
               BERLIN |-> IF is_cold THEN COLD_SLOAD_COST ELSE 100])

clears_schedule(spec) == Since(spec, [FRONTIER |-> 15000, LONDON |-> 4800])

reset_cost(spec) ==
  Since(spec, [FRONTIER |-> SSTORE_RESET, BERLIN |-> SSTORE_RESET - COLD_SLOAD_COST])

\* EIP-2200: what was cleared is refunded, and charged again when it is set
\* after all; so is the first change of a slot that gets its value back.
sstore_refund(spec, original, current, new) ==
  IF ~enabled(spec, "ISTANBUL") THEN (IF current # 0 /\ new = 0
                                         THEN clears_schedule(spec) ELSE 0)
  ELSE IF current = new THEN 0
  ELSE IF original = current /\ new = 0 THEN clears_schedule(spec)
  ELSE
    (IF original = 0 THEN 0
     ELSE IF current = 0 THEN -clears_schedule(spec)
     ELSE IF new = 0 THEN clears_schedule(spec) ELSE 0)
    + (IF original # new THEN 0
       ELSE (IF original = 0 THEN SSTORE_SET ELSE reset_cost(spec))
            - sload_cost(spec, FALSE))

\* EIP-1706: sstore_cost has no price when no more than the stipend is left.
OnStipend(spec, gas) == enabled(spec, "ISTANBUL") /\ gas <= CALL_STIPEND

sstore_cost(spec, original, current, new, is_cold) ==
  LET net ==
        IF new = current \/ original # current THEN sload_cost(spec, FALSE)
        ELSE IF original = 0 THEN SSTORE_SET ELSE reset_cost(spec)
      plain == IF current = 0 /\ new # 0 THEN SSTORE_SET ELSE reset_cost(spec)
      cold == IF enabled(spec, "BERLIN") /\ is_cold THEN COLD_SLOAD_COST ELSE 0
  IN  IF enabled(spec, "ISTANBUL") THEN net + cold ELSE plain

xfer_cost(transfers_value) == IF transfers_value THEN CALLVALUE ELSE 0

\* EIP-161: an account is only new once it is paid.
new_cost(spec, is_new, transfers_value) ==
  IF is_new /\ (transfers_value \/ ~enabled(spec, "SPURIOUS_DRAGON"))
    THEN NEWACCOUNT ELSE 0

call_cost(spec, transfers_value, is_new, is_cold) ==
  Since(spec, [FRONTIER |-> 40, TANGERINE |-> 700, BERLIN |-> Account(is_cold)])
    + xfer_cost(transfers_value) + new_cost(spec, is_new, transfers_value)

memory_gas(words) == 3 * words + (words * words) \div 512

initcode_cost(len) == 2 * WordsFor(len)
sha3_cost(len) == 30 + 6 * WordsFor(len)
create2_cost(len) == 32000 + 6 * WordsFor(len)
verylowcopy_cost(len) == 3 + 3 * WordsFor(len)

extcodecopy_cost(spec, len, is_cold) ==
  3 * WordsFor(len)
    + Since(spec, [FRONTIER |-> 20, TANGERINE |-> 700, BERLIN |-> Account(is_cold)])

log_cost(n, len) == 375 + 8 * len + 375 * n

selfdestruct_cost(spec, had_value, target_exists, is_cold) ==
  LET topup == ~target_exists /\ (had_value \/ ~enabled(spec, "SPURIOUS_DRAGON"))
  IN  (IF ~enabled(spec, "TANGERINE") THEN 0 ELSE 5000 + IF topup THEN 25000 ELSE 0)
        + (IF enabled(spec, "BERLIN") /\ is_cold THEN 2600 ELSE 0)

\* The four limbs of a number, least significant first, and the zeros in front
\* of the first that is not zero
Limb(value, i) == (value \div 2^(LimbBits * i)) % 2^LimbBits

LeadingZeros(limb) ==
  CHOOSE z \in 0..LimbBits :
    limb < 2^(LimbBits - z) /\ (z < LimbBits => limb >= 2^(LimbBits - z - 1))

log2floor(value) ==
  LET top == CHOOSE i \in 0..3 :
               Limb(value, i) # 0 /\ \A j \in (i + 1)..3 : Limb(value, j) = 0
  IN  4 * LimbBits - (3 - top) * LimbBits - LeadingZeros(Limb(value, top)) - 1

exp_cost(spec, power) ==
  10 + IF power = 0 THEN 0
       ELSE Since(spec, [FRONTIER |-> 10, SPURIOUS_DRAGON |-> 50])
              * (log2floor(power) \div ByteBits + 1)

\* data: how many of the bytes are zero, how many are not, and the accounts
\* and slots of the access list
initial_tx_gas(spec, data, is_create) ==
  4 * data.zero + Since(spec, [FRONTIER |-> 68, ISTANBUL |-> 16]) * data.other
    + Since(spec, [FRONTIER |-> 0, BERLIN |-> 2400 * data.accounts + 1900 * data.slots])
    + Since(spec, [FRONTIER |-> 21000, HOMESTEAD |-> IF is_create THEN 53000 ELSE 21000])
    + Since(spec, [FRONTIER |-> 0, SHANGHAI |->
                     IF is_create THEN initcode_cost(data.zero + data.other) ELSE 0])

-----------------------------------------------------------------------------
(* The meter of a frame                                                     *)

Gas(limit) == [limit |-> limit, all_used |-> 0, used |-> 0, memory |-> 0, refunded |-> 0]

remaining(gas) == gas.limit - gas.all_used

Affords(gas, cost) == gas.all_used + cost <= gas.limit

record_cost(gas, cost) ==
  [gas EXCEPT !.used = @ + cost, !.all_used = @ + cost]

erase_cost(gas, returned) ==
  [gas EXCEPT !.used = @ - returned, !.all_used = @ - returned]

record_refund(gas, refund) == [gas EXCEPT !.refunded = @ + refund]

record_memory(gas, cost) ==
  IF cost <= gas.memory THEN gas
  ELSE [gas EXCEPT !.memory = cost, !.all_used = gas.used + cost]

-----------------------------------------------------------------------------
(* A transaction: the frames with their meters, the slot and the account    *)
(* that is called, and per frame what they were when it was entered.        *)

World(tx) == [value |-> tx.original, slot_cold |-> TRUE, account_cold |-> TRUE,
              exists |-> FALSE]

Begin(tx) ==
  [frames |-> <<[gas |-> Gas(tx.limit - initial_tx_gas(tx.spec, tx.data, FALSE)),
                 before |-> World(tx)]>>,
   world |-> World(tx), halted |-> FALSE, sound |-> TRUE]

TopGas(m) == Last(m.frames).gas
WithGas(m, gas) == [m EXCEPT !.frames[Len(m.frames)].gas = gas]

\* A frame that cannot pay ends without giving anything back.
AllSpent(gas) ==
  [gas EXCEPT !.all_used = gas.limit, !.used = gas.limit - gas.memory, !.refunded = 0]

Halt(m) ==
  [m EXCEPT !.halted = TRUE, !.world = Last(m.frames).before,
            !.frames = IF Len(@) = 1 THEN <<[@[1] EXCEPT !.gas = AllSpent(@)]>>
                       ELSE Front(@)]

sstore(tx, m, new) ==
  LET w    == m.world
      cost == sstore_cost(tx.spec, tx.original, w.value, new, w.slot_cold)
  IN  IF OnStipend(tx.spec, remaining(TopGas(m))) THEN Halt(m)
      ELSE IF ~Affords(TopGas(m), cost) THEN Halt(m)
      ELSE [WithGas(m, record_refund(record_cost(TopGas(m), cost),
                                     sstore_refund(tx.spec, tx.original, w.value, new)))
              EXCEPT !.world = [w EXCEPT !.value = new, !.slot_cold = FALSE]]

memory_resize(m, words) ==
  LET gas  == TopGas(m)
      cost == memory_gas(words)
  IN  IF cost > gas.memory /\ gas.used + cost > gas.limit THEN Halt(m)
      ELSE WithGas(m, record_memory(gas, cost))

\* EIP-150: at most all but a 64th of what is left goes to the callee.
Forwarded(tx, gas, asked) ==
  LET all == remaining(gas)
  IN  IF enabled(tx.spec, "TANGERINE") /\ asked > all - all \div 64
        THEN all - all \div 64 ELSE asked

call_inner(tx, m, pays, asked) ==
  LET w     == m.world
      cost  == call_cost(tx.spec, pays, ~w.exists, w.account_cold)
      paid  == record_cost(TopGas(m), cost)
      limit == Forwarded(tx, paid, asked)
      after == [w EXCEPT !.account_cold = FALSE, !.exists = @ \/ pays]
  IN  IF ~Affords(TopGas(m), cost) THEN Halt(m)
      ELSE IF ~Affords(paid, limit) THEN Halt(m)
      ELSE [WithGas(m, record_cost(paid, limit)) EXCEPT
              !.frames = Append(@, [gas |-> Gas(limit + IF pays THEN CALL_STIPEND ELSE 0),
                                    before |-> [w EXCEPT !.account_cold = FALSE]]),
              !.world = after]

ReturnKeepsRefund(m, ok) ==                                     \* mutant
  LET callee == TopGas(m)
      caller == [m EXCEPT !.frames = Front(@)]
      given  == erase_cost(TopGas(caller), remaining(callee))
  IN  [WithGas(caller, record_refund(given, callee.refunded))
         EXCEPT !.world = IF ok THEN @ ELSE Last(m.frames).before]

\* return_ok hands back the gas and the refunds, return_revert only the gas.
Leave(m, ok) ==
  LET callee == TopGas(m)
      caller == [m EXCEPT !.frames = Front(@)]
      given  == erase_cost(TopGas(caller), remaining(callee))
  IN  [WithGas(caller, IF ok THEN record_refund(given, callee.refunded) ELSE given)
         EXCEPT !.world = IF ok THEN @ ELSE Last(m.frames).before]

Sound(gas) ==
  /\ gas.all_used = gas.used + gas.memory /\ gas.all_used <= gas.limit
  /\ gas.used >= 0 /\ gas.memory >= 0

Watched(m) == [m EXCEPT !.sound = @ /\ \A i \in DOMAIN m.frames : Sound(m.frames[i].gas)]

Step(tx, m, s) ==
  Watched(CASE s.op = "sstore" -> sstore(tx, m, s.value)
            [] s.op = "expand" -> memory_resize(m, s.words)
            [] s.op = "call"   -> call_inner(tx, m, s.pays, s.asked)
            [] OTHER -> IF Len(m.frames) = 1 THEN m ELSE Leave(m, s.op = "return"))

\* The steps, and the return of every frame that is left
Returned(m) ==
  FoldFunction(LAMBDA r, a : Leave(a, TRUE), m, [i \in 2..Len(m.frames) |-> "return"])

Metered(tx) == Returned(FoldLeft(LAMBDA a, s : Step(tx, a, s), Begin(tx), tx.steps))

\* transact charges the whole limit and gives back what the frame left.
Charged(tx, ret) ==
  record_refund(erase_cost(record_cost(Gas(tx.limit), tx.limit), remaining(ret)), ret.refunded)

\* finalize caps the refund.
finalize(tx, gas) ==
  LET quota == gas.all_used \div Since(tx.spec, [FRONTIER |-> 2, LONDON |-> 5])
      refund == IF gas.refunded \in 0..quota THEN gas.refunded ELSE quota
  IN  [spent |-> gas.all_used, counted |-> gas.refunded, refund |-> refund,
       used |-> gas.all_used - refund]

Settled(tx, m) == finalize(tx, Charged(tx, TopGas(m)))

-----------------------------------------------------------------------------
(* The reference                                                            *)

\* The step that opened the frame in which step i runs, 0 for the transaction
Opened(steps) ==
  LET after[i \in 0..Len(steps)] ==
        IF i = 0 THEN <<0>>
        ELSE LET stack == after[i - 1]
             IN  CASE steps[i].op = "call" -> Append(stack, i)
                   [] steps[i].op \in {"return", "revert"} /\ Len(stack) > 1 -> Front(stack)
                   [] OTHER -> stack
  IN  [i \in 1..Len(steps) |-> Last(after[i - 1])]

\* What remains when the reverted frames are left out
Reverted(steps) ==
  LET opened == Opened(steps)
  IN  {i \in DOMAIN steps : \E r \in DOMAIN steps :
         steps[r].op = "revert" /\ opened[r] # 0 /\ opened[r] <= i /\ i <= r}

Kept(steps) ==
  LET gone == Reverted(steps)
      kept[i \in 0..Len(steps)] ==
        IF i = 0 THEN <<>>
        ELSE IF i \in gone THEN kept[i - 1] ELSE Append(kept[i - 1], steps[i])
  IN  kept[Len(steps)]

Count(steps, P(_)) == Cardinality({i \in DOMAIN steps : P(steps[i])})

\* EIP-2200: the change of the slot from one end of the transaction to the other
\* is all that an SSTORE costs beyond a read.
NetChange(tx, final) ==
  IF final = tx.original THEN 0
  ELSE IF tx.original = 0 THEN SSTORE_SET - sload_cost(tx.spec, FALSE)
  ELSE reset_cost(tx.spec) - sload_cost(tx.spec, FALSE)
         - IF final = 0 THEN clears_schedule(tx.spec) ELSE 0

MemoryBill(steps) ==
  LET opened == Opened(steps)
      words(f) == {0} \union {steps[i].words : i \in
                     {j \in DOMAIN steps : steps[j].op = "expand" /\ opened[j] = f}}
  IN  MapThenSumSet(LAMBDA f : memory_gas(Max(words(f))),
                    {opened[i] : i \in DOMAIN steps})

CallBill(tx) ==
  LET calls == Count(tx.steps, LAMBDA s : s.op = "call")
      paid  == Count(tx.steps, LAMBDA s : s.op = "call" /\ s.pays)
  IN  IF calls = 0 THEN 0
      ELSE calls * call_cost(tx.spec, FALSE, FALSE, FALSE)
             + Account(enabled(tx.spec, "BERLIN")) - Account(FALSE)
             + paid * (CALLVALUE - CALL_STIPEND) + IF paid = 0 THEN 0 ELSE NEWACCOUNT

Bill(tx) ==
  LET stores == SelectSeq(tx.steps, LAMBDA s : s.op = "sstore")
  IN  initial_tx_gas(tx.spec, tx.data, FALSE) + MemoryBill(tx.steps) + CallBill(tx)
        + IF stores = <<>> THEN 0
          ELSE Len(stores) * sload_cost(tx.spec, FALSE) + NetChange(tx, Last(stores).value)
                 + IF enabled(tx.spec, "BERLIN") THEN COLD_SLOAD_COST ELSE 0

\* m is the meter of tx, gas its settlement, kept what was not reverted of it.
AddsUp(tx, m, kept, gas) ==
  /\ m.sound /\ gas.spent <= tx.limit /\ gas.counted >= 0
  /\ ~m.halted =>
       /\ gas.counted = Settled(kept, Metered(kept)).counted
       /\ enabled(tx.spec, "ISTANBUL") /\ Reverted(tx.steps) = {} =>
            gas.spent - gas.counted = Bill(tx)

\* In every order of stores, calls and reverts: the meters add up and never give
\* a caller more than it paid; reverted frames leave no refund; the refunds of
\* a transaction, which finalize casts to unsigned, are not negative; and net of
\* them a slot costs what EIP-2200 says, whatever it held in between.
TransactionAddsUp(tx) ==
  LET of(m) == AddsUp(tx, m, [tx EXCEPT !.steps = Kept(tx.steps)], Settled(tx, m))
  IN  of(Metered(tx))

\* A longer input never costs less, nor does an account seen for the first time;
\* and every byte of an exponent is charged, whichever limb it is in.
PricesGrow(spec, len, power) ==
  /\ \A price \in {<<memory_gas(len), memory_gas(len + 1)>>,
                   <<sha3_cost(len), sha3_cost(len + 1)>>,
                   <<create2_cost(len), create2_cost(len + 1)>>,
                   <<verylowcopy_cost(len), verylowcopy_cost(len + 1)>>,
                   <<extcodecopy_cost(spec, len, FALSE), extcodecopy_cost(spec, len + 1, TRUE)>>,
                   <<log_cost(1, len), log_cost(2, len)>>,
                   <<selfdestruct_cost(spec, TRUE, TRUE, FALSE),
                     selfdestruct_cost(spec, TRUE, FALSE, TRUE)>>} : price[1] <= price[2]
  /\ LET bytes == CHOOSE k \in 0..(4 * LimbBits) :
                    power < 2^(ByteBits * k) /\ (k = 0 \/ power >= 2^(ByteBits * (k - 1)))
     IN  exp_cost(spec, power) = 10 + bytes * (exp_cost(spec, 1) - 10)
=============================================================================
