------------------------------- MODULE Sizing -------------------------------
(***************************************************************************)
(* simulation/src/profit.rs, sizing.rs and eth_call.rs: the profit of a    *)
(* loan of x, the four stages that choose x, and the two gates a sized     *)
(* loan passes before a transaction.  A profit function is a function of   *)
(* x; gas is what gas_cost_usd makes of the base fee, the gas estimate and *)
(* the HYPE price, all read once for the whole search.                     *)
(***************************************************************************)
EXTENDS Amm, FiniteSetsExt, Sequences

CONSTANTS
  GssIterations    \* 128 in the code; fewer settle whole numbers

ASSUME SizingAssumption == GssIterations \in Nat

NegInfinity == -1000000000
None == [x |-> 0, profit |-> 0]
Least(a, b) == IF a < b THEN a ELSE b

(* iter().sum() *)
Total(seq) ==
  LET upTo[k \in 0 .. Len(seq)] == IF k = 0 THEN 0 ELSE upTo[k - 1] + seq[k]
  IN upTo[Len(seq)]

-----------------------------------------------------------------------------
(* profit.rs *)

NetProfit(x, out, flashFee, gas) == out - x - (x * flashFee) \div FeeUnit - gas

TwoLeg(poolA, poolB, x, flashFee, gas) ==
  LET out == GetOutput(poolB, GetOutput(poolA, x))
  IN IF out <= 0 THEN NegInfinity ELSE NetProfit(x, out, flashFee, gas)

ThreeLeg(poolAB, poolBC, poolCA, x, flashFee, gas) ==
  LET out == GetOutput(poolCA, GetOutput(poolBC, GetOutput(poolAB, x)))
  IN IF out <= 0 THEN NegInfinity ELSE NetProfit(x, out, flashFee, gas)

StableDepeg(poolBuy, poolSell, x, flashFee, gas) ==
  LET out == GetOutputStable(poolSell, GetOutputStable(poolBuy, x))
  IN IF out = NaN THEN NaN ELSE IF out <= 0 THEN NegInfinity ELSE NetProfit(x, out, flashFee, gas)

(* roi is in hundredths.  A whole number is above the floor when it is     *)
(* above the floor rounded down.                                           *)
EffectiveMinProfit(minProfit, roi, gas) == Max({minProfit, (roi * gas) \div 100})

-----------------------------------------------------------------------------
(* sizing.rs *)

(* A share of the reserve, in thousandths: half the imbalance, between     *)
(* 0.5% and 20%.                                                           *)
ProbeFraction(in, out) ==
  LET half == (Max({in - out, out - in}) * 500) \div Max({in, out})
  IN Max({5, Least(half, 200)})

FirstProbe(in, out) == (in * ProbeFraction(in, out)) \div 1000

Doublings == 8    \* 0.5% doubled eight times is above 95%

(* Variant for mutation: the probe is doubled until it pays. *)
NextProbeUntilPaying(probe, pays, most, ceiling) ==
  LET next == Min({probe * 2, most, ceiling})
  IN IF ~pays /\ probe < most /\ next > probe THEN next ELSE probe

(* The probe is doubled while it pays. *)
NextProbe(probe, pays, most, ceiling) ==
  LET next == Min({probe * 2, most, ceiling})
  IN IF pays /\ probe < most /\ next > probe THEN next ELSE probe

(* Stage 1 *)
Stage1UpperBound(profit, in, out, ceiling) ==
  LET probe[k \in 0 .. Doublings] ==
        IF k = 0 THEN FirstProbe(in, out)
        ELSE LET last == probe[k - 1]
             IN NextProbe(last, Above(profit[last], 0), (in * 95) \div 100, ceiling)
  IN IF in <= 0 \/ out <= 0 THEN ceiling ELSE Least(probe[Doublings], ceiling)

(* In thousandths of a reserve: from 0.5% at A = 50 to 3% at A = 2000, on  *)
(* a logarithmic scale (log2(40) is 5.32), here by whole powers of two.    *)
MaxImpactForA(amp) ==
  IF amp <= 50 THEN 5
  ELSE IF amp >= 2000 THEN 30
  ELSE 5 + (2500 * Max({k \in 0 .. 5 : 50 * 2^k <= amp})) \div 532

(* Stage 3: the exit leg "scales back" the entry by a factor that min(1.0) *)
(* makes 1 whenever it applies, so the least of the three bounds is left.  *)
Gated(upper, in, out, ampEntry, ampExit) ==
  IF ampEntry = 0 /\ ampExit = 0 THEN upper
  ELSE Min({upper,
            IF ampEntry > 0 THEN (MaxImpactForA(ampEntry) * in) \div 1000 ELSE upper,
            IF ampExit > 0 THEN (MaxImpactForA(ampExit) * out) \div 1000 ELSE upper})

(* Stage 2: golden-section search, until nothing is left between the two   *)
(* points it compares.                                                     *)
GoldenSection(profit, upper) ==
  LET span[k \in 0 .. GssIterations] ==
        IF k = 0 THEN [lo |-> 0, hi |-> upper]
        ELSE LET last == span[k - 1]
                 part == (618 * (last.hi - last.lo)) \div 1000
                 m1 == last.hi - part
                 m2 == last.lo + part
             IN IF m1 >= m2 THEN last
                ELSE IF Below(profit[m1], profit[m2]) THEN [last EXCEPT !.lo = m1]
                                                ELSE [last EXCEPT !.hi = m2]
      end == span[GssIterations]
  IN (end.lo + end.hi) \div 2

(* optimal_borrow_size, without the conversion of x to the token's units.  *)
OptimalBorrowSize(profit, flashAvailable, hardCap, in, out, ampEntry, ampExit) ==
  LET ceiling == Least(flashAvailable, hardCap)
      upper == Gated(Stage1UpperBound(profit, in, out, ceiling), in, out, ampEntry, ampExit)
      x == GoldenSection(profit, upper)
  IN IF ceiling <= 0 \/ upper <= 0 \/ AtMost(profit[x], 0) THEN None
     ELSE [x |-> x, profit |-> profit[x]]

-----------------------------------------------------------------------------
(* The gates *)

(* Variant for mutation: the comparison that rejects, instead of the one   *)
(* that accepts.                                                           *)
Layer4NotBelow(profit, minProfit, roi, gas) == ~AtMost(profit, EffectiveMinProfit(minProfit, roi, gas))

Layer4ProfitCheck(profit, minProfit, roi, gas) == Above(profit, EffectiveMinProfit(minProfit, roi, gas))

(* simulate_and_validate, given what the contract answers for the loan:    *)
(* its profit may differ from the expected by 0.5%.  As written no         *)
(* contract answers with the two words decode_sim_return asks for, and     *)
(* every simulation is an error.                                           *)
Layer5Passes(onChain, expected, minProfit) ==
  /\ onChain >= minProfit
  /\ expected > 0 => 1000 * Max({onChain - expected, expected - onChain}) <= 5 * expected
=============================================================================
