----------------------------- MODULE DepegScan ------------------------------
(***************************************************************************)
(* S4: check_depeg (scanner/src/s4_signal.rs), check_stable (strategies/   *)
(* stable_depeg/src/executor.rs) and what StableDepegExecutor.sol makes of *)
(* its call.  A pool holds tokens a and b; first says that a is the        *)
(* stable.  Prices are in thousandths; both pools trade the stable against *)
(* the same other token.                                                   *)
(***************************************************************************)
EXTENDS Sizing

(* In and out of a pool for the stable as token_in. *)
StableIn(p) ==
  [in |-> IF p.first THEN p.a ELSE p.b, out |-> IF p.first THEN p.b ELSE p.a,
   fee |-> p.fee, amp |-> p.amp]

StablePoolPrice(p) ==
  IF StableIn(p).in = 0 THEN 0 ELSE (1000 * StableIn(p).out) \div StableIn(p).in

Distance(price, oracle) == Max({price - oracle, oracle - price})

(* The pool whose price is further from the oracle is the one to buy in. *)
BuyIsA(a, b, oracle) ==
  Distance(StablePoolPrice(a), oracle) >= Distance(StablePoolPrice(b), oracle)

(* check_depeg: a deviation above the threshold, in thousandths. *)
Depegged(price, oracle, threshold) ==
  oracle > 0 /\ 1000 * Distance(price, oracle) > threshold * oracle

(* Variant for mutation: a premium is acted on like a discount. *)
HandledAnyway(price, oracle) == TRUE

(* Only the discount is handled. *)
Handled(price, oracle) == price < oracle

(* The size check_stable arrives at.  Both legs are computed with the      *)
(* stable going in; the reserves for the probe are a and b in this order.  *)
SizeDepeg(buy, sell, oracle, flashFee, gas, hardCap) ==
  LET profit == [x \in Nat |-> StableDepeg(StableIn(buy), StableIn(sell), x, flashFee, gas)]
      available == (Least(buy.a, buy.b) * oracle) \div 1000
  IN OptimalBorrowSize(profit, available, hardCap,
       (buy.a * oracle) \div 1000, (buy.b * oracle) \div 1000, buy.amp, sell.amp)

(* receiveFlashLoan: the stable is swapped for the other token in poolBuy, *)
(* and that one for the stable in poolSell; no gas in this profit.         *)
DepegOnChain(buy, sell, x, flashFee) ==
  LET other == GetOutputStable(StableIn(buy), x)
      back == GetOutputStable(Reversed(StableIn(sell), 0, 0), other)
  IN IF back <= 0 THEN NegInfinity ELSE NetProfit(x, back, flashFee, 0)
=============================================================================
