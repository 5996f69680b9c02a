--------------------------- MODULE LiquidationScan --------------------------
(***************************************************************************)
(* S2 up to the simulation: compute_health_factor (strategies/liquidation/ *)
(* src/monitor.rs), compute_liquidation_params (sizing.rs) and the order   *)
(* in which try_liquidate (executor.rs) looks at them.  A position is two  *)
(* sequences of [token, amount], collateral with its threshold lt; prices  *)
(* is a function on the tokens that have one.  Factors are in thousandths. *)
(***************************************************************************)
EXTENDS Sizing

HfPresimulate == 1100
HfSubmit == 1050
HfMax == 1000000

(* A price that is missing counts as zero in both sums. *)
PriceOf(prices, token) == IF token \in DOMAIN prices THEN prices[token] ELSE 0

(* Variant for mutation: the collateral that would be seized counts alone. *)
HealthFactorOfFirst(position, prices) ==
  LET coll == position.collateral
      debt == position.debt
      owed == Total([i \in DOMAIN debt |-> debt[i].amount * PriceOf(prices, debt[i].token)])
  IN IF owed = 0 THEN HfMax
     ELSE IF coll = <<>> THEN 0 ELSE (coll[1].amount * PriceOf(prices, coll[1].token) * coll[1].lt) \div owed

ComputeHealthFactor(position, prices) ==
  LET coll == position.collateral
      debt == position.debt
      owed == Total([i \in DOMAIN debt |-> debt[i].amount * PriceOf(prices, debt[i].token)])
      held == Total([i \in DOMAIN coll |-> coll[i].amount * PriceOf(prices, coll[i].token) * coll[i].lt])
  IN IF owed = 0 THEN HfMax ELSE held \div owed

DynamicCloseFactor(hf) == IF hf < 950 THEN 1000 ELSE 500

Priced(prices, token) == token \in DOMAIN prices /\ prices[token] > 0

(* compute_liquidation_params, for the first debt and the first            *)
(* collateral: "none" for an empty side, an error for a configuration that *)
(* is not read and for a price that is missing or zero.  The amounts of    *)
(* all debts are added up as if they were of one token, and the bonus is   *)
(* read for the debt's token.                                              *)
LiquidationParams(position, prices, cachedHf, configRead, bonus, flashFee, gas) ==
  IF position.debt = <<>> \/ position.collateral = <<>> THEN [is |-> "none"]
  ELSE
    LET debtToken == position.debt[1].token
        amount == Total([i \in DOMAIN position.debt |-> position.debt[i].amount])
        repay == (amount * DynamicCloseFactor(cachedHf)) \div 1000
        debtUsd == repay * PriceOf(prices, debtToken)
        received == (debtUsd * bonus[debtToken]) \div 1000
        slippage == received \div 200      \* no swap pool is passed: 0.5%
    IN IF repay = 0 THEN [is |-> "none"]
       ELSE IF ~configRead \/ ~Priced(prices, debtToken) \/ ~Priced(prices, position.collateral[1].token)
         THEN [is |-> "error"]
       ELSE [is |-> "sized", repay |-> repay,
             profit |-> received - debtUsd - (debtUsd * flashFee) \div FeeUnit - slippage - gas]

(* try_liquidate up to layer 5, given what compute_liquidation_params      *)
(* returns: where it ends, or "simulate".                                  *)
TryLiquidate(position, prices, params, minProfit, roi, gas) ==
  LET hf == ComputeHealthFactor(position, prices)
  IN IF hf >= HfPresimulate THEN "healthy"
     ELSE IF params.is # "sized" THEN params.is
     ELSE IF ~Layer4ProfitCheck(params.profit, minProfit, roi, gas) THEN "unprofitable"
     ELSE IF hf >= HfSubmit THEN "wait"
     ELSE "simulate"
=============================================================================
