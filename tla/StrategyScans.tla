--------------------------- MODULE StrategyScans ----------------------------
(***************************************************************************)
(* What a strategy task computes between its trigger and its transaction.  *)
(* S3 and S4 are followed to the landing: the pools that were read, the    *)
(* pools of the simulation and the pools of the block may all differ by    *)
(* swaps.  S1 is followed through the simulation and S2 up to it;          *)
(* Execution and EvmArb have the wallet, the transaction and what comes    *)
(* after it.  Amounts are dollars, and reserves are counted in the unit of *)
(* the amounts.                                                            *)
(***************************************************************************)
EXTENDS DepegScan, EvmArbSignal, LiquidationScan

CONSTANTS
  Routes,          \* S3: the three pools of a triangle, each from token_in's side
  StablePairs,     \* S4: the two pools of a stable
  Oracles,         \* S4: oracle prices
  DepegThreshold,  \* in thousandths; s4_depeg_threshold_bps
  ArbPools,        \* S1: states of the pool it trades in
  BookTops,          \* S1: [bid, ask, mid] the detector may hold
  SignalThreshold, \* in thousandths
  PriceHistories,  \* S1: the HYPE prices of the ticks so far
  Books,           \* S1: [bids, size] for the slippage estimate
  Positions,       \* S2: what refresh_position may have stored
  PriceMaps,       \* S2: price maps try_liquidate may be given
  CachedFactors,   \* S2: health factors computed earlier, of older prices
  Bonus,           \* S2: liquidation bonus of a token
  GasCosts,        \* gas_cost_usd of a transaction, at the plain base fee
  GasPriceMultiplier,  \* S3 and S4: base fees paid for a unit of gas
  FlashFee, FlashAvailable, HardCap, MinProfit,
  Roi,             \* gas_roi_multiplier, in hundredths
  Trades,          \* what others may add to one side of a pool meanwhile
  Amounts          \* of a swap there and back

ASSUME ScansAssumption ==
  /\ Roi \in Nat /\ MinProfit \in Nat /\ HardCap \in Nat /\ FlashAvailable \in Nat
  /\ FlashFee \in 0 .. FeeUnit /\ GasCosts \subseteq Nat
  /\ GasPriceMultiplier \in [{"S3", "S4"} -> Nat]

(* A pool keeps a part of what goes in, and a trade leaves something in it. *)
ASSUME ArbPoolsAssumption ==
  /\ Trades \subseteq Int
  /\ ArbPools \subseteq [a : Nat, b : Nat, first : BOOLEAN, fee : 0 .. FeeUnit - 1, amp : {0}]
  /\ \A p \in ArbPools, y \in Trades : p.a + y > 0

(* So does a trade in a pool of a route.  A stable is in two pools, and the *)
(* book lists its best bids first.                                         *)
StablePool == [a : Nat, b : Nat, first : BOOLEAN, fee : 0 .. FeeUnit, amp : Nat]

ASSUME InputsAssumption ==
  /\ Routes \subseteq [1 .. 3 -> AmmPool]
  /\ \A route \in Routes, y \in Trades, i \in 1 .. 3 : route[i].in + y > 0
  /\ StablePairs \subseteq [1 .. 2 -> StablePool] /\ Oracles \subseteq Nat
  /\ \A quote \in BookTops : quote.bid \in Nat
  /\ PriceHistories \subseteq Seq(Nat)
  /\ Books \subseteq [bids : Seq([price : Nat, size : Nat]), size : Nat]
  /\ \A book \in Books : \A i, j \in DOMAIN book.bids :
       i < j => book.bids[i].price >= book.bids[j].price
  /\ Positions \subseteq [collateral : Seq([token : DOMAIN Bonus, amount : Nat, lt : Nat]),
                         debt : Seq([token : DOMAIN Bonus, amount : Nat])]
  /\ \A prices \in PriceMaps : \A t \in DOMAIN prices : prices[t] \in Nat
  /\ Amounts \subseteq Nat

VARIABLE scan      \* one task: its inputs, what it made of them and how far it is

Rest == [strategy |-> "none", at |-> "rest"]

(* The outcome of sizing and of layer 4. *)
Gate(sized, gas) ==
  IF sized = None THEN "no size"
  ELSE IF Layer4ProfitCheck(sized.profit, MinProfit, Roi, gas) THEN "sized" ELSE "unprofitable"

-----------------------------------------------------------------------------
(* S3: evaluate_route and layer 4, which reads base fee and HYPE price     *)
(* again: gasNow.                                                          *)
SizeRoute ==
  /\ scan = Rest
  /\ \E route \in Routes, gas, gasNow \in GasCosts :
       LET profit == [x \in Nat |-> ThreeLeg(route[1], route[2], route[3], x, FlashFee, gas)]
           sized == OptimalBorrowSize(profit, FlashAvailable, HardCap, route[1].in, route[1].out,
                                      route[1].amp, route[3].amp)
       IN scan' = [strategy |-> "S3", at |-> Gate(sized, gasNow), pools |-> route, gas |-> gas,
                   gasNow |-> gasNow, paid |-> 0, x |-> sized.x, expected |-> sized.profit, net |-> 0]

(* S4: check_stable up to layer 4, with the one gas it has read *)
CheckStable ==
  /\ scan = Rest
  /\ \E pair \in StablePairs, oracle \in Oracles, gas \in GasCosts :
       LET buy == IF BuyIsA(pair[1], pair[2], oracle) THEN pair[1] ELSE pair[2]
           sell == IF BuyIsA(pair[1], pair[2], oracle) THEN pair[2] ELSE pair[1]
           price == StablePoolPrice(buy)
           signal == Depegged(price, oracle, DepegThreshold) /\ Handled(price, oracle)
           sized == IF signal THEN SizeDepeg(buy, sell, oracle, FlashFee, gas, HardCap) ELSE None
       IN scan' = [strategy |-> "S4", at |-> IF signal THEN Gate(sized, gas) ELSE "no signal",
                   pools |-> <<buy, sell>>, oracle |-> oracle, gas |-> gas, gasNow |-> gas, paid |-> 0,
                   x |-> sized.x, expected |-> sized.profit, net |-> 0]

-----------------------------------------------------------------------------
(* The route's or the pair's pools after a swap in one of them; the other  *)
(* direction is the same swap with a negative amount.                      *)
Traded(strategy, p, y) ==
  IF strategy = "S3" THEN [p EXCEPT !.in = p.in + y, !.out = (p.in * p.out) \div (p.in + y)]
                     ELSE [p EXCEPT !.a = p.a + y, !.b = p.b - y]

Later(s) ==
  {s.pools} \cup
  {[s.pools EXCEPT ![i] = Traded(s.strategy, s.pools[i], y)] : i \in DOMAIN s.pools, y \in Trades}

(* What the loan leaves in the contract beyond what it repays. *)
OnChain(s, pools) ==
  IF s.strategy = "S3" THEN ThreeLeg(pools[1], pools[2], pools[3], s.x, FlashFee, 0)
                       ELSE DepegOnChain(pools[1], pools[2], s.x, FlashFee)

(* The least profit in the call, 80% of the expected. *)
MinProfitWei(s) == (8 * s.expected) \div 10

(* Variant for mutation: a gross profit is enough. *)
AssertGross(s, net) == net > 0

(* _assertProfitable *)
AssertProfitable(s, net) == net > 0 /\ net >= MinProfitWei(s)

(* What a transaction pays for its gas: compute_gas_price, on a base fee   *)
(* read once more.                                                         *)
GasPaid(strategy, gas) == GasPriceMultiplier[strategy] * gas

(* Layer 5, on the pools of now, and the gas price of the transaction that *)
(* follows.  What the source leaves to a deployment decides whether a      *)
(* contract answers at all: wired.                                         *)
Simulate ==
  /\ scan.at = "sized" /\ scan.strategy \in {"S3", "S4"}
  /\ \E pools \in Later(scan), wired \in BOOLEAN, gas \in GasCosts :
       LET net == OnChain(scan, pools)
           passes == wired /\ AssertProfitable(scan, net) /\ Layer5Passes(net, scan.expected, MinProfit)
       IN scan' = IF passes
                    THEN [scan EXCEPT !.at = "submitted", !.paid = GasPaid(scan.strategy, gas)]
                    ELSE [scan EXCEPT !.at = "rejected"]

(* The block has the pools of then, and the contract its guard. *)
Land ==
  /\ scan.at = "submitted" /\ scan.strategy \in {"S3", "S4"}
  /\ \E pools \in Later(scan) :
       LET net == OnChain(scan, pools)
       IN scan' = IF AssertProfitable(scan, net)
                    THEN [scan EXCEPT !.at = "landed", !.net = net]
                    ELSE [scan EXCEPT !.at = "reverted"]

-----------------------------------------------------------------------------
(* S1: try_phase1 up to layer 5 *)
ScanPhase1 ==
  /\ scan = Rest
  /\ \E p \in ArbPools, quote \in BookTops, prices \in PriceHistories, gas \in GasCosts :
       LET sized == SizePhase1(p, quote.bid, FlashFee, gas, FlashAvailable, HardCap)
           at == IF Evaluate(quote.bid, quote.ask, quote.mid, SignalThreshold) = "none" THEN "no signal"
                 ELSE IF Gate(sized, gas) # "sized" THEN Gate(sized, gas)
                 ELSE IF S1RiskCheck(sized.profit, sized.x, PushAll(prices)) THEN "sized" ELSE "risky"
       IN scan' = [strategy |-> "S1", at |-> at, pool |-> p, quote |-> quote, prices |-> prices,
                   gas |-> gas, x |-> sized.x, expected |-> sized.profit]

(* The S1 pool after a swap of others. *)
LaterPools(p) == {p} \cup {[p EXCEPT !.a = p.a + y, !.b = (p.a * p.b) \div (p.a + y)] : y \in Trades}

(* Variant for mutation: the reserves are not turned around for the way    *)
(* back.                                                                   *)
AmountInSameSide(pool, y) == (pool.out * y * FeeUnit) \div ((pool.in - y) * (FeeUnit - pool.fee)) + 1

(* _amountInForExactOut: what to sell into a pool for y of its other token *)
AmountInForExactOut(pool, y) == (pool.in * y * FeeUnit) \div ((pool.out - y) * (FeeUnit - pool.fee)) + 1

(* receiveFlashLoan of EvmArbExecutor: the whole loan buys in the pool,    *)
(* part of what is bought is sold in the same pool to repay the loan, and  *)
(* the rest, 95% of the loan or more, goes to the escrow.                  *)
Phase1Repays(side, x) ==
  LET bought == GetOutput(side, x)
      after == Reversed(side, x, bought)
      repay == x + (x * FlashFee) \div FeeUnit
      toSellBack == AmountInForExactOut(after, repay)
  IN /\ bought > 0 /\ repay < after.out
     /\ toSellBack <= bought
     /\ bought - toSellBack >= (95 * x) \div 100

(* Layer 5 of S1.  There is no profit to compare before phase 2: what the  *)
(* contract answers when it does not revert is left open.                  *)
SimulatePhase1 ==
  /\ scan.at = "sized" /\ scan.strategy = "S1"
  /\ \E p \in LaterPools(scan.pool), wired \in BOOLEAN :
       scan' = [scan EXCEPT !.at =
                  IF wired /\ Phase1Repays(Phase1Pool(p), scan.x) THEN "submitted" ELSE "rejected"]

(* The slippage estimate, which nothing calls yet. *)
EstimateSlippage ==
  /\ scan = Rest
  /\ \E book \in Books :
       scan' = [strategy |-> "book", at |-> "estimated", book |-> book,
                slippage |-> EstimateCoreSellSlippage(book.bids, book.size)]

(* S2; the call for the configuration of the debt's reserve may fail. *)
ScanPosition ==
  /\ scan = Rest
  /\ \E position \in Positions, prices \in PriceMaps, cachedHf \in CachedFactors,
        configRead \in BOOLEAN, gas, gasNow \in GasCosts :
       LET params == LiquidationParams(position, prices, cachedHf, configRead, Bonus, FlashFee, gas)
       IN scan' = [strategy |-> "S2", position |-> position, prices |-> prices,
                   at |-> TryLiquidate(position, prices, params, MinProfit, Roi, gasNow)]

(* The task ends; a transaction of S1 is EvmArb's from here on. *)
End ==
  /\ scan.at \notin {"rest", "sized"}
  /\ scan.at = "submitted" => scan.strategy = "S1"
  /\ scan' = Rest

ScansInit == scan = Rest

ScansNext ==
  \/ SizeRoute \/ CheckStable \/ Simulate \/ Land
  \/ ScanPhase1 \/ SimulatePhase1 \/ EstimateSlippage \/ ScanPosition
  \/ End

ScansSpec == ScansInit /\ [][ScansNext]_scan

-----------------------------------------------------------------------------
Worked(s) == s.strategy \in {"S1", "S3", "S4"}

(* What a task may borrow: from the lender, or from the pool itself. *)
CeilingOf(s) ==
  Least(HardCap, IF s.strategy = "S4" THEN (Least(s.pools[1].a, s.pools[1].b) * s.oracle) \div 1000
                                      ELSE FlashAvailable)

EntryPool(s) == IF s.strategy = "S3" THEN s.pools[1] ELSE Phase1Pool(s.pool)

EntryReserve(s) ==
  IF s.strategy = "S4" THEN (s.pools[1].a * s.oracle) \div 1000 ELSE EntryPool(s).in

(* A size exceeds neither the ceiling nor 95% of the reserve it starts     *)
(* from, and what goes on to a simulation expects a profit that is a       *)
(* number: the 0/0 of a stable pool without an amplification coefficient   *)
(* stays behind.                                                           *)
ScansTypeOK ==
  Worked(scan) =>
    /\ scan.x \in 0 .. CeilingOf(scan)
    /\ scan.x <= (EntryReserve(scan) * 95) \div 100
    /\ scan.at \in {"sized", "submitted", "landed"} => scan.expected \in Nat \ {0}
    /\ scan.at = "landed" => scan.net \in Nat \ {0}

(* A transaction that lands has earned the gas it pays, whatever has been  *)
(* traded since its pools were read and since it was simulated, and        *)
(* whatever base fee and price did, if that gas is at most 80% of the      *)
(* floor of layer 4.  Nothing sees to the if: the floor is set from gas at *)
(* the plain base fee, and the price of the transaction is a multiple.     *)
LandedPays ==
  scan.at = "landed" /\ 10 * scan.paid <= 8 * EffectiveMinProfit(MinProfit, Roi, scan.gasNow) =>
    scan.net >= scan.paid

(* What S4 does with a stable at a discount loses on the pools as it read  *)
(* them, whatever the amount: the size is for buying the stable where it   *)
(* is cheapest, and the call sells it there.  Two pools of one             *)
(* amplification; in whole numbers a unit may be gained by rounding.       *)
DiscountLosesAsRead ==
  scan.strategy = "S4" /\ scan.at # "no signal" /\ scan.pools[1].amp = scan.pools[2].amp =>
    \A x \in Amounts \cup {scan.x} : OnChain([scan EXCEPT !.x = x], scan.pools) <= 1

(* What a size earns less than the best there is: the golden section looks *)
(* at whole numbers, and takes a plateau for a slope.                      *)
Rounding == 4

ProfitOf(s, x) ==
  IF s.strategy = "S3" THEN ThreeLeg(s.pools[1], s.pools[2], s.pools[3], x, FlashFee, s.gas)
                       ELSE TwoLeg(Phase1Pool(s.pool), SellProxy(s.quote.bid), x, FlashFee, s.gas)

(* No loan within the ceiling and 95% of the reserve earns more than the   *)
(* one S1 or S3 settles on, except beyond a first probe that does not pay. *)
SizedNearBest ==
  scan.strategy \in {"S1", "S3"} =>
    LET in == EntryPool(scan).in
        probe == FirstProbe(in, EntryPool(scan).out)
        most == Min({FlashAvailable, HardCap, (in * 95) \div 100})
    IN \A x \in {x \in 1 .. most : x % 7 = 0} :
         \/ ProfitOf(scan, x) <= scan.expected + Rounding
         \/ x > probe /\ ProfitOf(scan, probe) <= 0

(* A swap never takes from a pool: there and back gains nothing, and the   *)
(* invariant of a stable pool does not fall, wherever the two iterations   *)
(* stop.                                                                   *)
ProductConserves ==
  scan.strategy = "S3" =>
    \A i \in DOMAIN scan.pools, x \in Amounts :
      LET p == scan.pools[i]
          y == GetOutput(p, x)
      IN GetOutput(Reversed(p, x, y), y) <= x

StableConserves ==
  scan.strategy = "S4" =>
    \A i \in DOMAIN scan.pools, x \in Amounts :
      LET p == StableIn(scan.pools[i])
          y == GetOutputStable(p, x)
      IN Above(y, 0) => ComputeD(p.amp, p.in, p.out) <= ComputeD(p.amp, p.in + x, p.out - y)

SwapsConserve == ProductConserves /\ StableConserves

(* Phase 1 buys nothing it could not sell at the bid for more: its price   *)
(* is upside down, on the safe side for a token of a dollar or more.       *)
Phase1SizesNoLoss ==
  scan.strategy = "S1" /\ scan.at = "sized" /\ scan.quote.bid >= PriceUnit =>
    LET p == scan.pool
        flash == IF p.first THEN p.a ELSE p.b
        other == IF p.first THEN p.b ELSE p.a
        bought == GetOutput([in |-> flash, out |-> other, fee |-> p.fee, amp |-> 0], scan.x)
    IN bought * scan.quote.bid > scan.x * PriceUnit

(* No phase 1 is ever submitted.  The tokens a loan buys in a pool do not  *)
(* buy the loan back from the same pool, whatever it holds by then and     *)
(* even without a fee.                                                     *)
Phase1CannotRepay == scan.strategy = "S1" => scan.at # "submitted"

(* The volatility is that of the last prices the window has room for.      *)
WindowIsLast ==
  scan.strategy = "S1" =>
    LET n == Len(scan.prices)
    IN Volatility(PushAll(scan.prices)) = Spread(SubSeq(scan.prices, Max({1, n - Window + 1}), n))

(* The slippage is the least at which the book can take the whole size,    *)
(* and everything where it cannot.                                         *)
Fills(book) ==
  {f \in [DOMAIN book.bids -> 0 .. book.size] :
     /\ \A i \in DOMAIN f : f[i] <= book.bids[i].size
     /\ Total(f) = book.size}

SlippageExact ==
  scan.strategy = "book" =>
    LET bids == scan.book.bids
        best == BestBid(bids) * scan.book.size
        value == {Total([i \in DOMAIN f |-> f[i] * bids[i].price]) : f \in Fills(scan.book)}
    IN scan.slippage = IF best = 0 \/ value = {} THEN 1000 ELSE (1000 * (best - Max(value))) \div best

(* A missing price lowers the health factor, and the lowest of all is what *)
(* the bot looks for: nothing is tried on a position with an unpriced debt *)
(* or collateral to take, nor on one that all its debts and collaterals,   *)
(* at the prices the bot was given, leave at HF_SUBMIT or above, which is  *)
(* 1.05 and not yet the 1.00 of a liquidation.  Unpriced collateral        *)
(* further down a list still makes a position look worse than it is.       *)
LiquidatesBelowSubmit ==
  scan.strategy = "S2" /\ scan.at = "simulate" =>
    LET coll == scan.position.collateral
        debt == scan.position.debt
        Price(asset) == PriceOf(scan.prices, asset.token)
    IN /\ Price(debt[1]) > 0 /\ Price(coll[1]) > 0
       /\ 100 * Total([i \in DOMAIN coll |-> coll[i].amount * Price(coll[i]) * coll[i].lt])
            < 105 * 1000 * Total([i \in DOMAIN debt |-> debt[i].amount * Price(debt[i])])
=============================================================================
