---------------------------- MODULE EvmArbSignal ----------------------------
(***************************************************************************)
(* S1's reading of the market: S1Detector (scanner/src/s1_signal.rs), the  *)
(* book it is meant to follow (hypercore/src/orderbook.rs), VolEstimator   *)
(* and s1_risk_check (evm_arb/src/phase.rs), and the size of phase 1.      *)
(* Prices are whole numbers of 1/PriceUnit of a dollar; 10^8 in the code.  *)
(***************************************************************************)
EXTENDS Sizing

CONSTANTS
  PriceUnit,
  Window,        \* prices VolEstimator keeps; 60 in the code
  ProxyDepth     \* reserve of the pool that stands for the order book; 1,000,000

ASSUME EvmArbSignalAssumption ==
  PriceUnit \in Nat \ {0} /\ Window \in Nat \ {0, 1} /\ ProxyDepth \in Nat \ {0}

-----------------------------------------------------------------------------
(* evaluate, with a threshold in thousandths; zero prices give no signal. *)
Evaluate(bid, ask, mid, threshold) ==
  IF mid <= 0 \/ bid <= 0 \/ ask <= 0 THEN "none"
  ELSE IF 1000 * (bid - mid) > threshold * mid THEN "buy EVM"
  ELSE IF 1000 * (mid - ask) > threshold * mid THEN "buy Core"
  ELSE "none"

(* Variant for mutation: the reserves as the pool lists them. *)
Phase1PoolAsListed(p) ==
  [in |-> p.a, out |-> p.b, fee |-> p.fee, amp |-> 0]

(* The flash asset goes in. *)
Phase1Pool(p) ==
  [in |-> IF p.first THEN p.a ELSE p.b, out |-> IF p.first THEN p.b ELSE p.a,
   fee |-> p.fee, amp |-> 0]

(* The order book as a pool: the token in, and a dollar out for every bid  *)
(* dollars' worth: the price is upside down.                               *)
SellProxy(bid) ==
  [in |-> (ProxyDepth * bid) \div PriceUnit, out |-> ProxyDepth, fee |-> 0, amp |-> 0]

SizePhase1(p, bid, flashFee, gas, flashAvailable, hardCap) ==
  LET profit == [x \in Nat |-> TwoLeg(Phase1Pool(p), SellProxy(bid), x, flashFee, gas)]
  IN OptimalBorrowSize(profit, flashAvailable, hardCap,
       Phase1Pool(p).in, Phase1Pool(p).out, 0, 0)

-----------------------------------------------------------------------------
(* VolEstimator *)

NoPrices == [prices |-> [i \in 1 .. Window |-> 0], head |-> 0, count |-> 0]

(* Variant for mutation: the head wraps at the number of prices kept. *)
PushAtCount(vol, price) ==
  [prices |-> [vol.prices EXCEPT ![vol.head + 1] = price],
   head |-> (vol.head + 1) % Max({vol.count, 1}),
   count |-> IF vol.count < Window THEN vol.count + 1 ELSE vol.count]

Push(vol, price) ==
  [prices |-> [vol.prices EXCEPT ![vol.head + 1] = price],
   head |-> (vol.head + 1) % Window,
   count |-> IF vol.count < Window THEN vol.count + 1 ELSE vol.count]

PushAll(prices) ==
  LET after[k \in 0 .. Len(prices)] ==
        IF k = 0 THEN NoPrices ELSE Push(after[k - 1], prices[k])
  IN after[Len(prices)]

(* n (n - 1) times the sample variance of n prices *)
Spread(prices) ==
  Len(prices) * Total([i \in DOMAIN prices |-> prices[i] * prices[i]]) - Total(prices) * Total(prices)

(* The square of n vol_per_second, n prices being kept, times n (n - 1). *)
Volatility(vol) == Spread(SubSeq(vol.prices, 1, vol.count))

(* profit > 2 size vol 4, squared; vol is the deviation over the count. *)
S1RiskCheck(profit, size, vol) ==
  \/ vol.count < 2 /\ profit > 0
  \/ /\ vol.count >= 2 /\ profit > 0
     /\ profit * profit * vol.count * vol.count * vol.count * (vol.count - 1)
          > 64 * size * size * Volatility(vol)

-----------------------------------------------------------------------------
(* The book: levels of [price, size], the best first. *)

BestBid(bids) == IF bids = <<>> THEN 0 ELSE bids[1].price

(* Variant for mutation: what a thin book leaves is taken as sold. *)
SlippageThin(bids, size) ==
  LET at[k \in 0 .. Len(bids)] ==
        IF k = 0 THEN [left |-> size, value |-> 0]
        ELSE LET last == at[k - 1]
                 fill == Least(last.left, bids[k].size)
             IN [left |-> last.left - fill, value |-> last.value + fill * bids[k].price]
      best == BestBid(bids)
  IN IF bids = <<>> \/ size <= 0 \/ best <= 0 THEN 1000
     ELSE Max({0, (1000 * (best * size - at[Len(bids)].value)) \div (best * size)})

(* estimate_core_sell_slippage, in thousandths: the levels are eaten in    *)
(* order until the size is sold.                                           *)
EstimateCoreSellSlippage(bids, size) ==
  LET at[k \in 0 .. Len(bids)] ==
        IF k = 0 THEN [left |-> size, value |-> 0]
        ELSE LET last == at[k - 1]
                 fill == Least(last.left, bids[k].size)
             IN [left |-> last.left - fill, value |-> last.value + fill * bids[k].price]
      end == at[Len(bids)]
      best == BestBid(bids)
  IN IF bids = <<>> \/ size <= 0 \/ end.left > 0 \/ best <= 0 THEN 1000
     ELSE Max({0, (1000 * (best * size - end.value)) \div (best * size)})
=============================================================================
