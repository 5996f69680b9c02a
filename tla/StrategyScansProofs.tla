------------------------- MODULE StrategyScansProofs ------------------------
(***************************************************************************)
(* Proofs about the scans and about S3's search, for any pools, books,     *)
(* positions, prices, fees and amounts: what a task carries from its       *)
(* trigger to the landing, the flash callback of S1, the guard of S3 and   *)
(* S4, and what the search of a graph finds and keeps.                     *)
(***************************************************************************)
EXTENDS StrategyScans, ArbGraph, SizingProofs, FiniteSetTheorems

-----------------------------------------------------------------------------
(* A loan of x buys b in a pool with i and o; i - f is what is left of the *)
(* asset when the loan and its fee f have been bought back with more than  *)
(* b.  g of u units of what goes in are left after the pool's fee.         *)
LEMMA RoundTrip ==
  ASSUME NEW i \in Nat, NEW o \in Nat, NEW x \in Nat, NEW u \in Nat, NEW g \in Nat, NEW f \in Nat,
         NEW b \in Nat, x > 0, g > 0, g <= u, f < i,
         b * (i * u + x * g) <= o * (x * g)
  PROVE  /\ b <= o
         /\ b * ((i - f) * g) <= ((o - b) * (x + f)) * u
         /\ (i - f) * g \in Nat /\ (i - f) * g > 0 /\ ((o - b) * (x + f)) * u \in Nat
<1>1. i * u \in Nat /\ x * g \in Nat /\ x * g > 0
  BY TimesType
<1>2. b <= o /\ b * (i * u) <= (o - b) * (x * g)
  <2> DEFINE p == i * u
             q == x * g
  <2>1. p \in Nat /\ q \in Nat /\ q > 0 /\ b * (p + q) <= o * q
    BY <1>1
  <2> HIDE DEF p, q
  <2>2. b <= o /\ b * p <= (o - b) * q
    BY <2>1, SwapBound
  <2>3. QED
    BY <2>2 DEF p, q
<1> DEFINE c == o - b
           r == i - f
<1>3. c \in Nat /\ r \in Nat /\ r > 0 /\ r <= i
  BY <1>2
<1> HIDE DEF c, r
<1>4. b * (r * g) <= b * (i * u)
  <2>1. r * g <= i * g /\ i * g <= i * u
    BY <1>3, TimesMono
  <2>2. r * g \in Nat /\ i * g \in Nat
    BY <1>3, TimesType
  <2>3. r * g <= i * u
    BY <1>1, <2>1, <2>2
  <2>4. QED
    BY <1>1, <2>2, <2>3, TimesMono
<1>5. c * (x * g) <= (c * (x + f)) * u
  <2>1. x * g <= x * u /\ x * u <= (x + f) * u
    BY TimesMono
  <2>2. x * u \in Nat /\ (x + f) * u \in Nat
    BY TimesType
  <2>3. x * g <= (x + f) * u
    BY <1>1, <2>1, <2>2
  <2>4. c * (x * g) <= c * ((x + f) * u)
    BY <1>1, <1>3, <2>2, <2>3, TimesMono
  <2>5. c * ((x + f) * u) = (c * (x + f)) * u
    BY <1>3
  <2>6. QED
    BY <2>4, <2>5
<1>6. /\ r * g \in Nat /\ r * g > 0 /\ b * (r * g) \in Nat /\ b * (i * u) \in Nat
      /\ c * (x * g) \in Nat /\ (c * (x + f)) * u \in Nat
  <2>1. r * g \in Nat /\ r * g > 0 /\ c * (x + f) \in Nat
    BY <1>3, TimesType
  <2>2. QED
    BY <1>1, <1>3, <2>1, TimesType
<1>7. b * (i * u) <= c * (x * g)
  BY <1>2 DEF c
<1>8. b * (r * g) <= (c * (x + f)) * u
  BY <1>4, <1>5, <1>6, <1>7
<1>9. QED
  BY <1>2, <1>6, <1>8 DEF c, r

(* A pool as S1 sees it, after any trade of others. *)
Side == [in : Nat, out : Nat, fee : 0 .. FeeUnit - 1, amp : {0}]

(* The tokens a loan buys in a pool do not buy the loan back. *)
LEMMA CannotRepay ==
  ASSUME NEW side \in Side, NEW x \in Nat
  PROVE  ~Phase1Repays(side, x)
<1>1. FeeUnit \in Nat /\ FeeUnit > 0 /\ FlashFee \in Nat
  BY AmmAssumption, ScansAssumption
<1> DEFINE i == side.in
           o == side.out
           g == FeeUnit - side.fee
           f == (x * FlashFee) \div FeeUnit
           b == GetOutput(side, x)
<1>2. i \in Nat /\ o \in Nat /\ g \in Nat /\ g > 0 /\ g <= FeeUnit
  BY <1>1 DEF Side
<1>3. f \in Nat
  BY <1>1, DivDown, TimesType
<1>4. SUFFICES ASSUME Phase1Repays(side, x)
               PROVE  FALSE
  OBVIOUS
<1> DEFINE after == Reversed(side, x, b)
<1>5. /\ b > 0 /\ x + f < after.out
      /\ AmountInForExactOut(after, x + f) <= b
  BY <1>4 DEF Phase1Repays
<1>6. x > 0 /\ i > 0 /\ o > 0 /\ b = (o * (x * g)) \div (i * FeeUnit + x * g)
  <2>1. ~Idle(side, x)
    <3>1. Idle(side, x) => b = 0
      BY DEF GetOutput
    <3>2. QED
      BY <1>5, <3>1
  <2>2. x # NaN
    BY DEF NaN
  <2>3. x > 0 /\ i > 0 /\ o > 0
    BY <1>2, <2>1, <2>2 DEF Idle, AtMost
  <2>4. b = (o * (x * g)) \div (i * FeeUnit + x * g)
    BY <2>1 DEF GetOutput
  <2>5. QED
    BY <2>3, <2>4
<1>7. after.in = o - b /\ after.out = i + x /\ after.fee = side.fee
  BY DEF Reversed, Side
<1> HIDE DEF i, o, g, f, b, after
<1>8. b \in Nat /\ b * (i * FeeUnit + x * g) <= o * (x * g)
  <2>1. o * (x * g) \in Nat /\ i * FeeUnit \in Nat /\ x * g \in Nat
    <3>1. x * g \in Nat /\ i * FeeUnit \in Nat
      BY <1>1, <1>2, TimesType
    <3>2. QED
      BY <1>2, <3>1, TimesType
  <2>2. i * FeeUnit + x * g \in Nat /\ i * FeeUnit + x * g > 0
    BY <1>1, <1>2, <1>6, <2>1, TimesType
  <2> DEFINE n == o * (x * g)
             d == i * FeeUnit + x * g
  <2>3. n \in Nat /\ d \in Nat /\ d > 0 /\ b = n \div d
    BY <1>6, <2>1, <2>2
  <2> HIDE DEF n, d
  <2>4. b \in Nat /\ d * b <= n
    BY <2>3, DivDown
  <2>5. b * d <= n
    BY <2>3, <2>4
  <2>6. QED
    BY <2>4, <2>5 DEF n, d
<1>9. f < i
  BY <1>2, <1>3, <1>5, <1>7
<1>10. /\ b * ((i - f) * g) <= ((o - b) * (x + f)) * FeeUnit
       /\ (i - f) * g \in Nat /\ (i - f) * g > 0 /\ ((o - b) * (x + f)) * FeeUnit \in Nat
  BY <1>1, <1>2, <1>3, <1>6, <1>8, <1>9, RoundTrip
<1>11. b <= (((o - b) * (x + f)) * FeeUnit) \div ((i - f) * g)
       /\ (((o - b) * (x + f)) * FeeUnit) \div ((i - f) * g) \in Nat
  BY <1>8, <1>10, DivAtLeast
<1>12. AmountInForExactOut(after, x + f) = (((o - b) * (x + f)) * FeeUnit) \div ((i - f) * g) + 1
  <2>1. after.out - (x + f) = i - f /\ FeeUnit - after.fee = g
    BY <1>2, <1>3, <1>7 DEF g
  <2>2. QED
    BY <1>7, <2>1 DEF AmountInForExactOut
<1>13. QED
  BY <1>5, <1>8, <1>11, <1>12

-----------------------------------------------------------------------------
(* Whatever is traded in an S1 pool, it stays one. *)
LEMMA LaterIsSide ==
  ASSUME NEW p \in ArbPools, NEW q \in LaterPools(p)
  PROVE  Phase1Pool(q) \in Side
<1>1. p.a \in Nat /\ p.b \in Nat /\ p.fee \in 0 .. FeeUnit - 1 /\ \A y \in Trades : y \in Int /\ p.a + y > 0
  BY ArbPoolsAssumption
<1>2. q.a \in Nat /\ q.b \in Nat /\ q.fee = p.fee
  <2>1. CASE q = p
    BY <1>1, <2>1
  <2>2. CASE \E y \in Trades : q = [p EXCEPT !.a = p.a + y, !.b = (p.a * p.b) \div (p.a + y)]
    <3>1. PICK y \in Trades : q = [p EXCEPT !.a = p.a + y, !.b = (p.a * p.b) \div (p.a + y)]
      BY <2>2
    <3>2. PICK m : m = (p.a * p.b) \div (p.a + y)
      OBVIOUS
    <3>3. m \in Nat /\ p.a + y \in Nat
      <4>1. p.a + y \in Nat /\ p.a + y > 0 /\ p.a * p.b \in Nat
        BY <1>1, TimesType
      <4>2. QED
        BY <3>2, <4>1, DivDown
    <3>4. q.a = p.a + y /\ q.b = m /\ q.fee = p.fee
      BY <3>1, <3>2, ArbPoolsAssumption
    <3>5. QED
      BY <3>3, <3>4
  <2>3. QED
    BY <2>1, <2>2 DEF LaterPools
<1>3. QED
  BY <1>1, <1>2 DEF Phase1Pool, Side

-----------------------------------------------------------------------------
(* The gas layer 4 has compared with: S1 reads it once, S3 again. *)
GateGas(s) == IF s.strategy = "S1" THEN s.gas ELSE s.gasNow

(* What a task carries.  A size has come with a profit that passed layer   *)
(* 4; the one of S1 still is the profit of the pool and the book it read.  *)
ScanSized(s) ==
  /\ s.x \in 0 .. CeilingOf(s) /\ s.x <= (EntryReserve(s) * 95) \div 100
  /\ s.at \in {"sized", "submitted", "landed"} =>
       s.expected \in Nat \ {0} /\ Layer4ProfitCheck(s.expected, MinProfit, Roi, GateGas(s))
  /\ s.at = "sized" /\ s.strategy = "S1" => s.expected = ProfitOf(s, s.x)

Carried(s) ==
  CASE s.strategy = "S1" -> /\ {"pool", "quote", "prices", "gas", "x", "expected"} \subseteq DOMAIN s
                            /\ s.pool \in ArbPools /\ s.quote \in BookTops /\ s.gas \in GasCosts
                            /\ s.prices \in PriceHistories
    [] s.strategy = "S3" -> /\ {"pools", "gas", "gasNow", "paid", "x", "expected", "net"} \subseteq DOMAIN s
                            /\ s.pools \in Routes /\ s.gasNow \in GasCosts /\ s.paid \in Nat
    [] s.strategy = "S4" -> /\ {"pools", "oracle", "gas", "gasNow", "paid", "x", "expected", "net"}
                                 \subseteq DOMAIN s
                            /\ s.pools \in [1 .. 2 -> StablePool] /\ s.oracle \in Oracles
                            /\ s.gasNow \in GasCosts /\ s.paid \in Nat
    [] s.strategy = "S2" -> /\ {"position", "prices"} \subseteq DOMAIN s
                            /\ s.position \in Positions /\ s.prices \in PriceMaps
                            /\ s.at = "simulate" =>
                                 \E cachedHf \in CachedFactors, configRead \in BOOLEAN,
                                    gas, gasNow \in GasCosts :
                                   TryLiquidate(s.position, s.prices,
                                     LiquidationParams(s.position, s.prices, cachedHf, configRead,
                                                       Bonus, FlashFee, gas),
                                     MinProfit, Roi, gasNow) = "simulate"
    [] s.strategy = "book" -> /\ {"book", "slippage"} \subseteq DOMAIN s /\ s.book \in Books
                              /\ s.slippage = EstimateCoreSellSlippage(s.book.bids, s.book.size)
    [] OTHER -> s.strategy = "none"

ScanOK(s) ==
  /\ {"strategy", "at"} \subseteq DOMAIN s
  /\ Carried(s)
  /\ Worked(s) => ScanSized(s)
  /\ s.at = "landed" => s.strategy \in {"S3", "S4"} /\ s.net \in Int /\ AssertProfitable(s, s.net)

(* What sizing and layer 4 leave of a size. *)
Kept(profit, ceiling, in, gas, sized) ==
  /\ sized.x \in 0 .. ceiling /\ sized.x <= (in * 95) \div 100
  /\ Gate(sized, gas) \in {"no size", "sized", "unprofitable"}
  /\ Gate(sized, gas) = "sized" =>
       /\ sized.profit \in Nat \ {0} /\ sized.profit = profit[sized.x]
       /\ Layer4ProfitCheck(sized.profit, MinProfit, Roi, gas)

(* Nothing is earned in a pool that has nothing. *)
Earns(profit, ceiling, in, out) ==
  /\ \A x \in Nat : profit[x] \in Int
  /\ in = 0 \/ out = 0 => \A x \in 0 .. ceiling : x = 0 \/ AtMost(profit[x], 0)

(* Layer 4 lets a size through only with its profit, within the ceiling, *)
(* and above the floor the gas sets.                                     *)
LEMMA GateKeeps ==
  ASSUME NEW profit, NEW flashAvailable \in Nat, NEW hardCap \in Nat, NEW in \in Nat, NEW out \in Nat,
         NEW gas \in GasCosts, NEW sized \in {None} \cup Sizes(profit, flashAvailable, hardCap, in, out),
         Earns(profit, Least(hardCap, flashAvailable), in, out)
  PROVE  Kept(profit, Least(hardCap, flashAvailable), in, gas, sized)
<1> USE DEF Kept, Earns
<1>0. /\ Least(flashAvailable, hardCap) = Least(hardCap, flashAvailable)
      /\ Least(hardCap, flashAvailable) \in Nat /\ (in * 95) \div 100 \in Nat
  BY DEF Least
<1>1. CASE sized = None
  <2>1. sized.x = 0 /\ Gate(sized, gas) = "no size"
    BY <1>1 DEF Gate, None
  <2>2. 0 \in 0 .. Least(hardCap, flashAvailable) /\ 0 <= (in * 95) \div 100
    BY <1>0
  <2>3. QED
    BY <2>1, <2>2
<1>2. CASE sized # None
  <2>1. PICK x \in 0 .. Least(flashAvailable, hardCap) :
          /\ sized = [x |-> x, profit |-> profit[x]]
          /\ in > 0 /\ out > 0 => x <= (in * 95) \div 100
          /\ ~AtMost(profit[x], 0)
    BY <1>2 DEF Sizes
  <2>2. x \in Nat /\ profit[x] \in Int /\ x \in 0 .. Least(hardCap, flashAvailable)
    BY <1>0, <2>1
  <2>3. x <= (in * 95) \div 100
    <3>1. in = 0 \/ out = 0 => x = 0
      BY <2>1, <2>2
    <3>2. QED
      BY <1>0, <2>1, <2>2, <3>1
  <2>4. profit[x] = NaN \/ profit[x] > 0
    BY <2>1, <2>2 DEF AtMost
  <2>5. Layer4ProfitCheck(profit[x], MinProfit, Roi, gas) => profit[x] # NaN
    BY DEF Layer4ProfitCheck, Above
  <2>6. sized.x = x /\ sized.profit = profit[x]
    BY <2>1
  <2>7. QED
    BY <1>0, <2>1, <2>2, <2>3, <2>4, <2>5, <2>6 DEF Gate
<1>3. QED
  BY <1>1, <1>2

(* SizeRoute puts only a sized and gated route into the scan. *)
LEMMA RouteCarried ==
  ASSUME SizeRoute
  PROVE  ScanOK(scan')
<1> DEFINE Profit(route, gas) == [x \in Nat |-> ThreeLeg(route[1], route[2], route[3], x, FlashFee, gas)]
           Sized(route, gas) ==
             OptimalBorrowSize(Profit(route, gas), FlashAvailable, HardCap, route[1].in, route[1].out,
                               route[1].amp, route[3].amp)
<1>1. PICK route \in Routes, gas \in GasCosts, gasNow \in GasCosts :
        scan' = [strategy |-> "S3", at |-> Gate(Sized(route, gas), gasNow), pools |-> route, gas |-> gas,
                 gasNow |-> gasNow, paid |-> 0, x |-> Sized(route, gas).x,
                 expected |-> Sized(route, gas).profit, net |-> 0]
  BY DEF SizeRoute
<1> DEFINE profit == Profit(route, gas)
           sized == Sized(route, gas)
<1>2. /\ route[1] \in AmmPool /\ route[2] \in AmmPool /\ route[3] \in AmmPool
      /\ gas \in Nat /\ FlashFee \in Nat /\ FlashAvailable \in Nat /\ HardCap \in Nat
  BY InputsAssumption, ScansAssumption, AmmAssumption
<1>3. \A x \in Nat : profit[x] = ThreeLeg(route[1], route[2], route[3], x, FlashFee, gas)
  OBVIOUS
<1>4. sized \in {None} \cup Sizes(profit, FlashAvailable, HardCap, route[1].in, route[1].out)
  <2>1. route[1].in \in Nat /\ route[1].out \in Nat /\ route[1].amp \in Nat /\ route[3].amp \in Nat
    BY <1>2 DEF AmmPool
  <2> HIDE DEF Profit
  <2>2. QED
    BY <1>2, <2>1, SizeWithProfit
<1> HIDE DEF Profit, Sized
<1>5. AmmPool \subseteq AnyPool
  BY DEF AmmPool, AnyPool
<1>6. route[1] \in AnyPool /\ route[2] \in AnyPool /\ route[3] \in AnyPool
  BY <1>2, <1>5
<1>7. ASSUME NEW x \in Nat
      PROVE  ThreeLeg(route[1], route[2], route[3], x, FlashFee, gas) \in Int
  BY <1>2, <1>6, ThreeLegType
<1>8. \A x \in Nat : profit[x] \in Int
  BY <1>3, <1>7
<1>9. \A x \in Nat : route[1].in = 0 \/ route[1].out = 0 => AtMost(profit[x], 0)
  <2> SUFFICES ASSUME NEW x \in Nat, route[1].in = 0 \/ route[1].out = 0
               PROVE  AtMost(profit[x], 0)
    OBVIOUS
  <2>1. GetOutput(route[1], x) = 0
    BY DEF GetOutput, Idle
  <2>2. GetOutput(route[3], GetOutput(route[2], 0)) = 0
    BY DEF GetOutput, Idle, AtMost, NaN
  <2>3. ThreeLeg(route[1], route[2], route[3], x, FlashFee, gas) = NegInfinity
    BY <2>1, <2>2 DEF ThreeLeg
  <2>4. QED
    BY <1>3, <2>3 DEF AtMost, NaN, NegInfinity
<1> HIDE DEF profit, sized
<1>10. Kept(profit, Least(HardCap, FlashAvailable), route[1].in, gasNow, sized)
  <2>1. route[1].in \in Nat /\ route[1].out \in Nat
    BY <1>2 DEF AmmPool
  <2>2. Earns(profit, Least(HardCap, FlashAvailable), route[1].in, route[1].out)
    BY <1>2, <1>8, <1>9 DEF Earns, Least
  <2>3. QED
    BY <1>2, <1>4, <2>1, <2>2, GateKeeps
<1>11. PICK s : s = [strategy |-> "S3", at |-> Gate(sized, gasNow), pools |-> route, gas |-> gas,
                     gasNow |-> gasNow, paid |-> 0, x |-> sized.x, expected |-> sized.profit,
                     net |-> 0]
  OBVIOUS
<1>12. scan' = s
  BY <1>1, <1>11 DEF sized
<1>13. /\ {"strategy", "at", "pools", "gas", "gasNow", "paid", "x", "expected", "net"} \subseteq DOMAIN s
       /\ s.strategy = "S3" /\ s.at = Gate(sized, gasNow) /\ s.pools = route /\ s.gasNow = gasNow
       /\ s.paid = 0 /\ s.x = sized.x /\ s.expected = sized.profit
  BY <1>11
<1>14. ScanSized(s)
  BY <1>10, <1>13 DEF Kept, ScanSized, GateGas, CeilingOf, EntryReserve, EntryPool
<1>15. ScanOK(s)
  <2>1. Carried(s)
    BY <1>13 DEF Carried
  <2>2. s.at # "landed"
    BY <1>10, <1>13 DEF Kept
  <2>3. QED
    BY <1>13, <1>14, <2>1, <2>2 DEF ScanOK
<1>16. QED
  BY <1>12, <1>15

(* CheckStable puts only a sized and gated pair of pools into the scan. *)
LEMMA DepegCarried ==
  ASSUME CheckStable
  PROVE  ScanOK(scan') /\ scan'.strategy = "S4"
<1> DEFINE Buy(pair, oracle) == IF BuyIsA(pair[1], pair[2], oracle) THEN pair[1] ELSE pair[2]
           Sell(pair, oracle) == IF BuyIsA(pair[1], pair[2], oracle) THEN pair[2] ELSE pair[1]
           Price(pair, oracle) == StablePoolPrice(Buy(pair, oracle))
           Signal(pair, oracle) == /\ Depegged(Price(pair, oracle), oracle, DepegThreshold)
                                   /\ Handled(Price(pair, oracle), oracle)
           Sized(pair, oracle, gas) ==
             IF Signal(pair, oracle)
               THEN SizeDepeg(Buy(pair, oracle), Sell(pair, oracle), oracle, FlashFee, gas, HardCap)
               ELSE None
           At(pair, oracle, gas) ==
             IF Signal(pair, oracle) THEN Gate(Sized(pair, oracle, gas), gas) ELSE "no signal"
<1>1. PICK pair \in StablePairs, oracle \in Oracles, gas \in GasCosts :
        scan' = [strategy |-> "S4", at |-> At(pair, oracle, gas),
                 pools |-> <<Buy(pair, oracle), Sell(pair, oracle)>>, oracle |-> oracle,
                 gas |-> gas, gasNow |-> gas, paid |-> 0,
                 x |-> Sized(pair, oracle, gas).x, expected |-> Sized(pair, oracle, gas).profit, net |-> 0]
  BY DEF CheckStable
<1> DEFINE buy == Buy(pair, oracle)
           sell == Sell(pair, oracle)
           sized == Sized(pair, oracle, gas)
           at == At(pair, oracle, gas)
           profit == [x \in Nat |-> StableDepeg(StableIn(buy), StableIn(sell), x, FlashFee, gas)]
           available == (Least(buy.a, buy.b) * oracle) \div 1000
           in == (buy.a * oracle) \div 1000
           out == (buy.b * oracle) \div 1000
<1>2. /\ buy \in StablePool /\ sell \in StablePool /\ oracle \in Nat
      /\ gas \in Nat /\ FlashFee \in Nat /\ HardCap \in Nat
  <2>1. pair \in [1 .. 2 -> StablePool]
    BY InputsAssumption
  <2>2. pair[1] \in StablePool /\ pair[2] \in StablePool
    BY <2>1
  <2>3. FlashFee \in Nat
    BY ScansAssumption, AmmAssumption
  <2>4. QED
    BY <2>2, <2>3, InputsAssumption, ScansAssumption
<1>3. /\ sized = None \/ sized = SizeDepeg(buy, sell, oracle, FlashFee, gas, HardCap)
      /\ at = Gate(sized, gas) \/ at = "no signal"
  OBVIOUS
<1> HIDE DEF Buy, Sell, Price, Signal, Sized, At, buy, sell, sized, at
<1>4. buy.a \in Nat /\ buy.b \in Nat /\ buy.amp \in Nat /\ sell.amp \in Nat
  BY <1>2 DEF StablePool
<1>5. /\ in \in Nat /\ out \in Nat /\ available \in Nat
      /\ in = 0 \/ out = 0 => available = 0
  <2>1. PICK l \in Nat : l = Least(buy.a, buy.b) /\ l <= buy.a /\ l <= buy.b
    BY <1>4 DEF Least
  <2>2. PICK a \in Nat, b \in Nat, m \in Nat :
          a = buy.a * oracle /\ b = buy.b * oracle /\ m = l * oracle /\ m <= a /\ m <= b
    BY <1>2, <1>4, <2>1, TimesType, TimesMono
  <2>3. in = a \div 1000 /\ out = b \div 1000 /\ available = m \div 1000
    BY <2>1, <2>2
  <2> HIDE DEF in, out, available
  <2>4. QED
    BY <2>2, <2>3
<1>6. sized \in {None} \cup Sizes(profit, available, HardCap, in, out)
  <2>1. SizeDepeg(buy, sell, oracle, FlashFee, gas, HardCap) =
          OptimalBorrowSize(profit, available, HardCap, in, out, buy.amp, sell.amp)
    BY DEF SizeDepeg
  <2> HIDE DEF profit, available, in, out
  <2>2. OptimalBorrowSize(profit, available, HardCap, in, out, buy.amp, sell.amp)
          \in {None} \cup Sizes(profit, available, HardCap, in, out)
    BY <1>2, <1>4, <1>5, SizeWithProfit
  <2>3. QED
    BY <1>3, <2>1, <2>2
<1>7. \A x \in Nat : profit[x] \in Int
  <2>1. StableIn(buy) \in AnyPool /\ StableIn(sell) \in AnyPool
    <3>1. StablePool \subseteq AnyStable
      BY DEF StablePool, AnyStable
    <3>2. QED
      BY <1>2, <3>1, StableInType
  <2>2. ASSUME NEW x \in Nat
        PROVE  StableDepeg(StableIn(buy), StableIn(sell), x, FlashFee, gas) \in Int
    BY <1>2, <2>1, StableDepegType
  <2>3. QED
    BY <2>2
<1> HIDE DEF profit, available, in, out
<1>8. Kept(profit, Least(HardCap, available), in, gas, sized)
  <2>1. Earns(profit, Least(HardCap, available), in, out)
    BY <1>2, <1>5, <1>7 DEF Earns, Least
  <2>2. QED
    BY <1>2, <1>5, <1>6, <2>1, GateKeeps
<1>9. PICK s : s = [strategy |-> "S4", at |-> at, pools |-> <<buy, sell>>, oracle |-> oracle,
                    gas |-> gas, gasNow |-> gas, paid |-> 0, x |-> sized.x,
                    expected |-> sized.profit, net |-> 0]
  OBVIOUS
<1>10. scan' = s
  BY <1>1, <1>9 DEF buy, sell, sized, at
<1>11. /\ {"strategy", "at", "pools", "oracle", "gas", "gasNow", "paid", "x", "expected", "net"}
             \subseteq DOMAIN s
       /\ s.strategy = "S4" /\ s.at = at /\ s.pools = <<buy, sell>> /\ s.gasNow = gas
       /\ s.paid = 0 /\ s.oracle = oracle /\ s.x = sized.x /\ s.expected = sized.profit
  BY <1>9
<1>12. CeilingOf(s) = Least(HardCap, available) /\ EntryReserve(s) = in
  BY <1>11 DEF CeilingOf, EntryReserve, available, in
<1>13. ScanSized(s)
  BY <1>3, <1>8, <1>11, <1>12 DEF Kept, ScanSized, GateGas
<1>14. <<buy, sell>> \in [1 .. 2 -> StablePool]
  BY <1>2
<1>15. ScanOK(s)
  <2>1. Carried(s)
    BY <1>2, <1>11, <1>14 DEF Carried
  <2>2. s.at # "landed"
    BY <1>3, <1>8, <1>11 DEF Kept
  <2>3. QED
    BY <1>11, <1>13, <2>1, <2>2 DEF ScanOK
<1>16. QED
  BY <1>10, <1>11, <1>15

(* Where try_phase1 leaves its task before the simulation. *)
LEMMA Phase1Carried ==
  ASSUME ScanPhase1
  PROVE  /\ ScanOK(scan') /\ scan'.strategy = "S1"
         /\ scan'.at \in {"no signal", "no size", "unprofitable", "sized", "risky"}
<1> DEFINE Sized(p, quote, gas) ==
             SizePhase1(p, quote.bid, FlashFee, gas, FlashAvailable, HardCap)
           At(p, quote, prices, gas) ==
             IF Evaluate(quote.bid, quote.ask, quote.mid, SignalThreshold) = "none" THEN "no signal"
             ELSE IF Gate(Sized(p, quote, gas), gas) # "sized" THEN Gate(Sized(p, quote, gas), gas)
             ELSE IF S1RiskCheck(Sized(p, quote, gas).profit, Sized(p, quote, gas).x, PushAll(prices))
               THEN "sized" ELSE "risky"
<1>1. PICK p \in ArbPools, quote \in BookTops, prices \in PriceHistories, gas \in GasCosts :
        scan' = [strategy |-> "S1", at |-> At(p, quote, prices, gas), pool |-> p, quote |-> quote,
                 prices |-> prices, gas |-> gas, x |-> Sized(p, quote, gas).x,
                 expected |-> Sized(p, quote, gas).profit]
  BY DEF ScanPhase1
<1> DEFINE sized == Sized(p, quote, gas)
           at == At(p, quote, prices, gas)
           pool == Phase1Pool(p)
           proxy == SellProxy(quote.bid)
           profit == [x \in Nat |-> TwoLeg(pool, proxy, x, FlashFee, gas)]
<1>2. /\ at \in {"no signal", "no size", "unprofitable", "sized", "risky"}
      /\ at = "sized" => Gate(sized, gas) = "sized"
  BY DEF Gate
<1>3. sized = OptimalBorrowSize(profit, FlashAvailable, HardCap, pool.in, pool.out, 0, 0)
  BY DEF SizePhase1
<1> HIDE DEF Sized, At, sized, at, pool, proxy
<1>4. gas \in Nat /\ FlashFee \in Nat /\ FlashAvailable \in Nat /\ HardCap \in Nat /\ quote.bid \in Nat
  BY ScansAssumption, AmmAssumption, InputsAssumption
<1>5. pool \in AnyPool /\ pool.in \in Nat /\ pool.out \in Nat
  <2>1. p.a \in Nat /\ p.b \in Nat /\ p.fee \in 0 .. FeeUnit - 1
    BY ArbPoolsAssumption
  <2>2. p.fee \in 0 .. FeeUnit
    BY <2>1, AmmAssumption
  <2>3. QED
    BY <2>1, <2>2 DEF pool, Phase1Pool, AnyPool
<1>6. proxy \in AnyPool
  <2>1. ProxyDepth \in Nat /\ PriceUnit \in Nat /\ PriceUnit > 0 /\ ProxyDepth * quote.bid \in Nat
    BY <1>4, EvmArbSignalAssumption, TimesType
  <2>2. (ProxyDepth * quote.bid) \div PriceUnit \in Nat
    BY <2>1, DivDown
  <2>3. 0 \in 0 .. FeeUnit
    BY AmmAssumption
  <2>4. QED
    BY <2>1, <2>2, <2>3 DEF proxy, SellProxy, AnyPool
<1>7. ASSUME NEW x \in Nat
      PROVE  TwoLeg(pool, proxy, x, FlashFee, gas) \in Int
  BY <1>4, <1>5, <1>6, TwoLegType
<1>8. \A x \in Nat : profit[x] \in Int /\ profit[x] = TwoLeg(pool, proxy, x, FlashFee, gas)
  BY <1>7
<1> HIDE DEF profit
<1>9. sized \in {None} \cup Sizes(profit, FlashAvailable, HardCap, pool.in, pool.out)
  BY <1>3, <1>4, <1>5, SizeWithProfit
<1>10. \A x \in Nat : pool.in = 0 \/ pool.out = 0 => AtMost(profit[x], 0)
  <2> SUFFICES ASSUME NEW x \in Nat, pool.in = 0 \/ pool.out = 0
               PROVE  AtMost(profit[x], 0)
    OBVIOUS
  <2>1. GetOutput(pool, x) = 0
    BY DEF GetOutput, Idle
  <2>2. GetOutput(proxy, 0) = 0
    BY DEF GetOutput, Idle, AtMost, NaN
  <2>3. TwoLeg(pool, proxy, x, FlashFee, gas) = NegInfinity
    BY <2>1, <2>2 DEF TwoLeg
  <2>4. QED
    BY <1>8, <2>3 DEF AtMost, NaN, NegInfinity
<1>11. Kept(profit, Least(HardCap, FlashAvailable), pool.in, gas, sized)
  <2>1. Earns(profit, Least(HardCap, FlashAvailable), pool.in, pool.out)
    BY <1>4, <1>8, <1>10 DEF Earns, Least
  <2>2. QED
    BY <1>4, <1>5, <1>9, <2>1, GateKeeps
<1>12. PICK s : s = [strategy |-> "S1", at |-> at, pool |-> p, quote |-> quote, prices |-> prices,
                     gas |-> gas, x |-> sized.x, expected |-> sized.profit]
  OBVIOUS
<1>13. scan' = s
  BY <1>1, <1>12 DEF sized, at
<1>14. /\ {"strategy", "at", "pool", "quote", "prices", "gas", "x", "expected"} \subseteq DOMAIN s
       /\ s.strategy = "S1" /\ s.at = at /\ s.pool = p /\ s.quote = quote /\ s.prices = prices
       /\ s.gas = gas /\ s.x = sized.x /\ s.expected = sized.profit
  BY <1>12
<1>15. CeilingOf(s) = Least(HardCap, FlashAvailable) /\ EntryReserve(s) = pool.in
  BY <1>14 DEF CeilingOf, EntryReserve, EntryPool, pool
<1>16. sized.x \in Nat
  <2>1. PICK c \in Nat : c = Least(HardCap, FlashAvailable)
    BY <1>4 DEF Least
  <2>2. sized.x \in 0 .. c
    BY <1>11, <2>1 DEF Kept
  <2>3. QED
    BY <2>1, <2>2
<1>17. ProfitOf(s, s.x) = profit[sized.x]
  BY <1>8, <1>14, <1>16 DEF ProfitOf, pool, proxy
<1>18. ScanSized(s)
  BY <1>2, <1>11, <1>14, <1>15, <1>17 DEF Kept, ScanSized, GateGas
<1>19. ScanOK(s)
  BY <1>2, <1>14, <1>18 DEF ScanOK, Carried
<1>20. QED
  BY <1>2, <1>13, <1>14, <1>19

(* What a pool of a route, or of a pair, is after a trade of others. *)
LEMMA TradedType ==
  ASSUME NEW y \in Trades
  PROVE  /\ \A p \in AmmPool : p.in + y > 0 => Traded("S3", p, y) \in AnyPool
         /\ \A p \in StablePool : Traded("S4", p, y) \in AnyStable
<1>0. y \in Int
  BY ArbPoolsAssumption
<1>1. ASSUME NEW p \in AmmPool, p.in + y > 0
      PROVE  Traded("S3", p, y) \in AnyPool
  <2>1. p.in \in Nat /\ p.out \in Nat /\ p.in * p.out \in Nat
    BY TimesType DEF AmmPool
  <2>2. PICK i \in Nat, o \in Int : i = p.in + y /\ o = (p.in * p.out) \div i
    <3>1. p.in + y \in Nat
      BY <1>0, <1>1, <2>1
    <3>2. (p.in * p.out) \div (p.in + y) \in Int
      BY <1>1, <2>1, <3>1, DivDown
    <3>3. QED
      BY <3>1, <3>2
  <2>3. Traded("S3", p, y) = [p EXCEPT !.in = i, !.out = o]
    BY <2>2 DEF Traded
  <2>4. p \in AnyPool
    BY DEF AmmPool, AnyPool
  <2>5. i \in Int
    OBVIOUS
  <2>6. [p EXCEPT !.in = i, !.out = o] \in AnyPool
    BY <2>4, <2>5 DEF AnyPool
  <2>7. QED
    BY <2>3, <2>6
<1>2. ASSUME NEW p \in StablePool
      PROVE  Traded("S4", p, y) \in AnyStable
  <2>1. PICK a \in Int, b \in Int : a = p.a + y /\ b = p.b - y
    BY <1>0 DEF StablePool
  <2>2. Traded("S4", p, y) = [p EXCEPT !.a = a, !.b = b]
    BY <2>1 DEF Traded
  <2>3. QED
    BY <2>2 DEF StablePool, AnyStable
<1>3. QED
  BY <1>1, <1>2

(* What the contract is left with is a number, whatever has been traded. *)
LEMMA OnChainType ==
  ASSUME NEW s, ScanOK(s), s.strategy \in {"S3", "S4"}, NEW pools \in Later(s)
  PROVE  OnChain(s, pools) \in Int
<1>1. s.x \in Nat
  <2>1. CeilingOf(s) \in Int
    <3>1. CASE s.strategy = "S3"
      BY <3>1, ScansAssumption DEF CeilingOf, Least
    <3>2. CASE s.strategy = "S4"
      <4>1. s.pools[1] \in StablePool /\ s.oracle \in Nat
        BY <3>2, InputsAssumption DEF ScanOK, Carried
      <4>2. Least(s.pools[1].a, s.pools[1].b) \in Nat
        BY <4>1 DEF StablePool, Least
      <4>3. Least(s.pools[1].a, s.pools[1].b) * s.oracle \in Nat
        BY <4>1, <4>2, TimesType
      <4>4. QED
        BY <3>2, <4>3, ScansAssumption DEF CeilingOf, Least
    <3>3. QED
      BY <3>1, <3>2
  <2>2. QED
    BY <2>1 DEF ScanOK, ScanSized, Worked
<1>2. FlashFee \in Nat
  BY ScansAssumption, AmmAssumption
<1>3. CASE s.strategy = "S3"
  <2>1. s.pools \in [1 .. 3 -> AmmPool]
    BY <1>3, InputsAssumption DEF ScanOK, Carried
  <2>2. AmmPool \subseteq AnyPool
    BY DEF AmmPool, AnyPool
  <2>3. pools \in [1 .. 3 -> AnyPool]
    <3>1. CASE pools = s.pools
      BY <2>1, <2>2, <3>1
    <3>2. CASE pools # s.pools
      <4>1. PICK i \in 1 .. 3, y \in Trades : pools = [s.pools EXCEPT ![i] = Traded("S3", s.pools[i], y)]
        BY <1>3, <2>1, <3>2 DEF Later
      <4>2. Traded("S3", s.pools[i], y) \in AnyPool
        <5>1. s.pools[i].in + y > 0
          BY <1>3, InputsAssumption DEF ScanOK, Carried
        <5>2. QED
          BY <2>1, <5>1, TradedType
      <4>3. QED
        BY <2>1, <2>2, <4>1, <4>2
    <3>3. QED
      BY <3>1, <3>2
  <2>4. ThreeLeg(pools[1], pools[2], pools[3], s.x, FlashFee, 0) \in Int
    <3>1. pools[1] \in AnyPool /\ pools[2] \in AnyPool /\ pools[3] \in AnyPool /\ 0 \in Nat
      BY <2>3
    <3>2. QED
      BY <1>1, <1>2, <3>1, ThreeLegType
  <2>5. QED
    BY <1>3, <2>4 DEF OnChain
<1>4. CASE s.strategy = "S4"
  <2>1. s.pools \in [1 .. 2 -> StablePool]
    BY <1>4 DEF ScanOK, Carried
  <2>2. StablePool \subseteq AnyStable
    BY DEF StablePool, AnyStable
  <2>3. pools \in [1 .. 2 -> AnyStable]
    <3>1. CASE pools = s.pools
      BY <2>1, <2>2, <3>1
    <3>2. CASE pools # s.pools
      <4>1. PICK i \in 1 .. 2, y \in Trades : pools = [s.pools EXCEPT ![i] = Traded("S4", s.pools[i], y)]
        BY <1>4, <2>1, <3>2 DEF Later
      <4>2. Traded("S4", s.pools[i], y) \in AnyStable
        BY <2>1, TradedType
      <4>3. QED
        BY <2>1, <2>2, <4>1, <4>2
    <3>3. QED
      BY <3>1, <3>2
  <2>4. DepegOnChain(pools[1], pools[2], s.x, FlashFee) \in Int
    <3>1. pools[1] \in AnyStable /\ pools[2] \in AnyStable
      BY <2>3
    <3>2. QED
      BY <1>1, <1>2, <3>1, DepegOnChainType
  <2>5. QED
    BY <1>4, <2>4 DEF OnChain
<1>5. QED
  BY <1>3, <1>4

(* A phase 1 that is turned down keeps what it was sized with. *)
LEMMA TurnedDown ==
  ASSUME NEW s, ScanOK(s), s.strategy = "S1", s.at = "sized"
  PROVE  ScanOK([s EXCEPT !.at = "rejected"])
<1> DEFINE t == [s EXCEPT !.at = "rejected"]
<1>1. DOMAIN t = DOMAIN s /\ t.at = "rejected" /\ t.strategy = s.strategy
  BY DEF ScanOK
<1>2. \A f \in DOMAIN s \ {"at"} : t[f] = s[f]
  OBVIOUS
<1> HIDE DEF t
<1>3. Carried(t)
  BY <1>1, <1>2 DEF ScanOK, Carried
<1>4. t.pool = s.pool /\ t.gas = s.gas /\ t.x = s.x /\ t.expected = s.expected
  BY <1>2 DEF ScanOK, Carried
<1>5. CeilingOf(t) = CeilingOf(s) /\ EntryReserve(t) = EntryReserve(s)
  BY <1>1, <1>4 DEF CeilingOf, EntryReserve, EntryPool
<1>6. ScanSized(t)
  BY <1>1, <1>4, <1>5 DEF ScanOK, ScanSized, Worked
<1>7. QED
  BY <1>1, <1>3, <1>6 DEF ScanOK, t

(* Where a loan of S3 or S4 is, what its transaction pays and what it has  *)
(* left are all that changes on its way through the block.                 *)
LEMMA MovedOn ==
  ASSUME NEW s, ScanOK(s), s.strategy \in {"S3", "S4"}, s.at \in {"sized", "submitted"},
         NEW t, DOMAIN t = DOMAIN s,
         \A f \in DOMAIN s \ {"at", "paid", "net"} : t[f] = s[f],
         t.at \in {"submitted", "rejected", "reverted", "landed"}, t.paid \in Nat,
         t.at = "landed" => t.net \in Int /\ AssertProfitable(s, t.net)
  PROVE  ScanOK(t)
<1>1. {"strategy", "at", "pools", "gas", "gasNow", "paid", "x", "expected", "net"} \subseteq DOMAIN s
  BY DEF ScanOK, Carried
<1>2. /\ t.strategy = s.strategy /\ t.pools = s.pools /\ t.gasNow = s.gasNow
      /\ t.x = s.x /\ t.expected = s.expected
  BY <1>1
<1>3. s.strategy = "S4" => t.oracle = s.oracle
  BY DEF ScanOK, Carried
<1>4. Carried(t)
  BY <1>1, <1>2, <1>3 DEF ScanOK, Carried
<1>5. CeilingOf(t) = CeilingOf(s) /\ EntryReserve(t) = EntryReserve(s)
  BY <1>2, <1>3 DEF CeilingOf, EntryReserve, EntryPool
<1>6. GateGas(t) = GateGas(s)
  BY <1>2 DEF GateGas
<1>7. ScanSized(t)
  BY <1>2, <1>5, <1>6 DEF ScanOK, ScanSized, Worked
<1>8. t.at = "landed" => AssertProfitable(t, t.net)
  BY <1>2 DEF AssertProfitable, MinProfitWei
<1>9. QED
  BY <1>1, <1>2, <1>4, <1>7, <1>8 DEF ScanOK

-----------------------------------------------------------------------------
(* The guard in the call is of S3's and S4's profit before gas.  It covers *)
(* any gas that is at most 80% of the floor of layer 4, whatever the pools *)
(* hold by the time of the block and whatever base fee and price the gas   *)
(* has been paid at: 80% of a profit above the floor is as much.           *)
LEMMA GuardCoversFloor ==
  ASSUME NEW s, s.expected \in Int, s.gasNow \in Nat, NEW net \in Int, NEW paid \in Nat,
         Layer4ProfitCheck(s.expected, MinProfit, Roi, s.gasNow),
         10 * paid <= 8 * EffectiveMinProfit(MinProfit, Roi, s.gasNow),
         AssertProfitable(s, net)
  PROVE  net >= paid
<1>1. PICK e \in Int, g \in Nat : e = s.expected /\ g = s.gasNow
  OBVIOUS
<1>2. EffectiveMinProfit(MinProfit, Roi, g) \in Int
  <2>1. Roi * g \in Nat
    BY ScansAssumption, TimesType
  <2>2. MinProfit \in Int /\ (Roi * g) \div 100 \in Int
    BY <2>1, ScansAssumption
  <2>3. EffectiveMinProfit(MinProfit, Roi, g) \in {MinProfit, (Roi * g) \div 100}
    BY <2>2, MaxOfTwo, Zenon DEF EffectiveMinProfit
  <2>4. QED
    BY <2>2, <2>3
<1>3. PICK floor \in Int : floor = EffectiveMinProfit(MinProfit, Roi, g)
  BY <1>2
<1>4. e > floor
  BY <1>1, <1>3 DEF Layer4ProfitCheck, Above
<1>5. net >= (8 * e) \div 10
  BY <1>1 DEF AssertProfitable, MinProfitWei
<1>6. 10 * paid <= 8 * floor
  BY <1>1, <1>3
<1>7. QED
  BY <1>4, <1>5, <1>6

(* The invariant the theorems about the scans rest on. *)
ScansInv ==
  /\ ScanOK(scan)
  /\ Phase1CannotRepay

(* Every step of the scans keeps their invariant: one case per action. *)
LEMMA ScansInvKept ==
  ASSUME ScansInv, [ScansNext]_scan
  PROVE  ScansInv'
<1> USE DEF ScansInv
<1>1. CASE SizeRoute
  <2>1. scan'.strategy = "S3"
    BY <1>1 DEF SizeRoute
  <2>2. QED
    BY <1>1, <2>1, RouteCarried DEF Phase1CannotRepay
<1>2. CASE CheckStable
  BY <1>2, DepegCarried DEF Phase1CannotRepay
<1>3. CASE Simulate
  <2>1. scan.at = "sized" /\ scan.strategy \in {"S3", "S4"}
    BY <1>3 DEF Simulate
  <2>2. PICK gas \in GasCosts :
          \/ scan' = [scan EXCEPT !.at = "submitted", !.paid = GasPaid(scan.strategy, gas)]
          \/ scan' = [scan EXCEPT !.at = "rejected"]
    BY <1>3 DEF Simulate
  <2>3. PICK paid \in Nat : paid = GasPaid(scan.strategy, gas)
    <3>1. GasPriceMultiplier[scan.strategy] \in Nat /\ gas \in Nat
      BY <2>1, ScansAssumption
    <3>2. QED
      BY <3>1, TimesType DEF GasPaid
  <2>4. {"strategy", "at", "paid"} \subseteq DOMAIN scan /\ scan.paid \in Nat
    BY <2>1 DEF ScanOK, Carried
  <2>5. /\ DOMAIN scan' = DOMAIN scan /\ scan'.at \in {"submitted", "rejected"} /\ scan'.paid \in Nat
        /\ \A f \in DOMAIN scan \ {"at", "paid", "net"} : scan'[f] = scan[f]
    BY <2>2, <2>3, <2>4
  <2>6. ScanOK(scan')
    BY <2>1, <2>5, MovedOn
  <2>7. scan'.strategy = scan.strategy
    BY <2>4, <2>5
  <2>8. QED
    BY <2>1, <2>6, <2>7 DEF Phase1CannotRepay
<1>4. CASE Land
  <2>1. scan.at = "submitted" /\ scan.strategy \in {"S3", "S4"}
    BY <1>4 DEF Land
  <2>2. PICK pools \in Later(scan) :
          scan' = IF AssertProfitable(scan, OnChain(scan, pools))
                    THEN [scan EXCEPT !.at = "landed", !.net = OnChain(scan, pools)]
                    ELSE [scan EXCEPT !.at = "reverted"]
    BY <1>4 DEF Land
  <2>3. PICK net \in Int : net = OnChain(scan, pools)
    BY <2>1, OnChainType
  <2>4. {"strategy", "at", "paid", "net"} \subseteq DOMAIN scan /\ scan.paid \in Nat
    BY <2>1 DEF ScanOK, Carried
  <2>5. /\ DOMAIN scan' = DOMAIN scan /\ scan'.at \in {"landed", "reverted"} /\ scan'.paid \in Nat
        /\ \A f \in DOMAIN scan \ {"at", "paid", "net"} : scan'[f] = scan[f]
        /\ scan'.at = "landed" => scan'.net = net /\ AssertProfitable(scan, net)
    BY <2>2, <2>3, <2>4
  <2>6. scan'.at = "landed" => scan'.net \in Int /\ AssertProfitable(scan, scan'.net)
    BY <2>3, <2>5
  <2>7. ScanOK(scan')
    BY <2>1, <2>5, <2>6, MovedOn
  <2>8. scan'.strategy = scan.strategy
    BY <2>4, <2>5
  <2>9. QED
    BY <2>1, <2>7, <2>8 DEF Phase1CannotRepay
<1>5. CASE ScanPhase1
  BY <1>5, Phase1Carried DEF Phase1CannotRepay
<1>6. CASE SimulatePhase1
  <2>1. scan.at = "sized" /\ scan.strategy = "S1" /\ scan.pool \in ArbPools /\ scan.x \in Nat
    <3>1. scan.at = "sized" /\ scan.strategy = "S1"
      BY <1>6 DEF SimulatePhase1
    <3>2. scan.pool \in ArbPools /\ scan.x \in 0 .. CeilingOf(scan)
      BY <3>1 DEF ScanOK, Carried, ScanSized, Worked
    <3>3. CeilingOf(scan) \in Int
      BY <3>1, ScansAssumption DEF CeilingOf, Least
    <3>4. QED
      BY <3>1, <3>2, <3>3
  <2>2. PICK p \in LaterPools(scan.pool), wired \in BOOLEAN :
          scan' = [scan EXCEPT !.at =
                     IF wired /\ Phase1Repays(Phase1Pool(p), scan.x) THEN "submitted" ELSE "rejected"]
    BY <1>6 DEF SimulatePhase1
  <2>3. ~Phase1Repays(Phase1Pool(p), scan.x)
    BY <2>1, LaterIsSide, CannotRepay
  <2>4. scan' = [scan EXCEPT !.at = "rejected"]
    BY <2>2, <2>3
  <2>5. ScanOK(scan')
    BY <2>1, <2>4, TurnedDown
  <2>6. QED
    BY <2>1, <2>4, <2>5 DEF Phase1CannotRepay
<1>7. CASE EstimateSlippage
  BY <1>7 DEF EstimateSlippage, ScanOK, Carried, Worked, Phase1CannotRepay
<1>8. CASE ScanPosition
  <2>1. PICK position \in Positions, prices \in PriceMaps, cachedHf \in CachedFactors,
             configRead \in BOOLEAN, gas \in GasCosts, gasNow \in GasCosts :
          scan' = [strategy |-> "S2", position |-> position, prices |-> prices,
                   at |-> TryLiquidate(position, prices,
                            LiquidationParams(position, prices, cachedHf, configRead, Bonus, FlashFee, gas),
                            MinProfit, Roi, gasNow)]
    BY <1>8 DEF ScanPosition
  <2>2. PICK params :
          params = LiquidationParams(position, prices, cachedHf, configRead, Bonus, FlashFee, gas)
    OBVIOUS
  <2>3. PICK at : at = TryLiquidate(position, prices, params, MinProfit, Roi, gasNow) /\ at # "landed"
    <3>1. params.is \in {"none", "error", "sized"}
      BY <2>2 DEF LiquidationParams
    <3>2. QED
      BY <3>1 DEF TryLiquidate
  <2>4. PICK s : s = [strategy |-> "S2", position |-> position, prices |-> prices, at |-> at]
    OBVIOUS
  <2>5. /\ {"strategy", "at", "position", "prices"} \subseteq DOMAIN s /\ s.strategy = "S2"
        /\ s.position = position /\ s.prices = prices /\ s.at = at
    BY <2>4
  <2>6. scan' = s /\ at # "landed"
    BY <2>1, <2>2, <2>3, <2>4
  <2>7. Carried(s)
    BY <2>2, <2>3, <2>5 DEF Carried
  <2>8. ScanOK(s)
    BY <2>5, <2>6, <2>7 DEF ScanOK, Worked
  <2>9. QED
    BY <2>5, <2>6, <2>8 DEF Phase1CannotRepay
<1>9. CASE End
  BY <1>9 DEF End, Rest, ScanOK, Carried, Worked, Phase1CannotRepay
<1>10. CASE UNCHANGED scan
  <2>1. scan' = scan
    BY <1>10
  <2>2. QED
    BY <2>1 DEF Phase1CannotRepay
<1>11. QED
  BY <1>1, <1>2, <1>3, <1>4, <1>5, <1>6, <1>7, <1>8, <1>9, <1>10 DEF ScansNext

(* The invariant of the scans holds of their specification. *)
LEMMA ScansInvHolds == ScansSpec => []ScansInv
<1>1. ScansInit => ScansInv
  BY DEF ScansInit, Rest, ScansInv, ScanOK, Carried, Worked, Phase1CannotRepay
<1>2. ScansInv /\ [ScansNext]_scan => ScansInv'
  BY ScansInvKept
<1>3. QED
  BY <1>1, <1>2, PTL DEF ScansSpec

(* What S1, S3 and S4 size is within the ceiling and 95% of the reserve it *)
(* starts from, and what goes on to a simulation expects a positive number *)
(* of dollars, for any pools, books, oracles, fees and gas.                *)
THEOREM ScansTypeCorrect == ScansSpec => []ScansTypeOK
<1>1. ScansInv => ScansTypeOK
  <2> SUFFICES ASSUME ScansInv, Worked(scan)
               PROVE  /\ scan.x \in 0 .. CeilingOf(scan)
                      /\ scan.x <= (EntryReserve(scan) * 95) \div 100
                      /\ scan.at \in {"sized", "submitted", "landed"} => scan.expected \in Nat \ {0}
                      /\ scan.at = "landed" => scan.net \in Nat \ {0}
    BY DEF ScansTypeOK
  <2>1. ScanSized(scan)
    BY DEF ScansInv, ScanOK
  <2>2. scan.at = "landed" => scan.net \in Nat \ {0}
    <3>1. SUFFICES ASSUME scan.at = "landed"
                   PROVE  scan.net \in Nat \ {0}
      OBVIOUS
    <3>2. PICK net \in Int : net = scan.net /\ net > 0
      BY <3>1 DEF ScansInv, ScanOK, AssertProfitable
    <3>3. QED
      BY <3>2
  <2>3. QED
    BY <2>1, <2>2 DEF ScanSized
<1>2. QED
  BY <1>1, ScansInvHolds, PTL

(* No phase 1 is ever submitted, with whatever pools, prices, fees and     *)
(* trades of others.                                                       *)
THEOREM Phase1NeverRepays == ScansSpec => []Phase1CannotRepay
<1>1. ScansInv => Phase1CannotRepay
  BY DEF ScansInv
<1>2. QED
  BY <1>1, ScansInvHolds, PTL

(* A transaction that lands has earned the gas it pays when that is within *)
(* 80% of the floor of layer 4, for any pools, prices, gas, multipliers    *)
(* and returns asked of the gas, and any trades of others before it.       *)
THEOREM LandingsPay == ScansSpec => []LandedPays
<1>1. ScansInv => LandedPays
  <2> SUFFICES ASSUME ScansInv, scan.at = "landed",
                      10 * scan.paid <= 8 * EffectiveMinProfit(MinProfit, Roi, scan.gasNow)
               PROVE  scan.net >= scan.paid
    BY DEF LandedPays
  <2>1. /\ scan.strategy \in {"S3", "S4"} /\ scan.net \in Int /\ AssertProfitable(scan, scan.net)
        /\ scan.gasNow \in GasCosts /\ scan.paid \in Nat
    BY DEF ScansInv, ScanOK, Carried
  <2>2. scan.expected \in Int /\ Layer4ProfitCheck(scan.expected, MinProfit, Roi, scan.gasNow)
    BY <2>1 DEF ScansInv, ScanOK, ScanSized, Worked, GateGas
  <2>3. scan.gasNow \in Nat
    BY <2>1, ScansAssumption
  <2>4. QED
    BY <2>1, <2>2, <2>3, GuardCoversFloor
<1>2. QED
  BY <1>1, ScansInvHolds, PTL

(* Nothing is bought in phase 1 that could not be sold at the bid for more *)
(* than it cost, for any pool, fee, gas and depth of the proxy, as long as *)
(* the token is worth a dollar: the proxy then gives no more for it than   *)
(* goes in, and a size with a profit gets more than it lent.               *)
THEOREM Phase1BuysCheap == ScansSpec => []Phase1SizesNoLoss
<1>1. ScansInv => Phase1SizesNoLoss
  <2> SUFFICES ASSUME ScansInv, scan.strategy = "S1", scan.at = "sized", scan.quote.bid >= PriceUnit
               PROVE  GetOutput(Phase1Pool(scan.pool), scan.x) * scan.quote.bid > scan.x * PriceUnit
    BY DEF Phase1SizesNoLoss, Phase1Pool
  <2>1. /\ scan.pool \in ArbPools /\ scan.quote \in BookTops /\ scan.gas \in GasCosts
        /\ scan.x \in 0 .. CeilingOf(scan) /\ scan.expected \in Nat \ {0}
        /\ scan.expected = ProfitOf(scan, scan.x)
    BY DEF ScansInv, ScanOK, Carried, ScanSized, Worked
  <2>2. CeilingOf(scan) \in Int
    BY ScansAssumption DEF CeilingOf, Least
  <2>3. /\ scan.quote.bid \in Nat /\ scan.gas \in Nat /\ scan.x \in Nat /\ scan.expected \in Nat
        /\ scan.expected > 0
    <3>1. scan.quote.bid \in Nat /\ scan.gas \in Nat
      BY <2>1, InputsAssumption, ScansAssumption
    <3>2. scan.x \in Nat /\ scan.expected \in Nat /\ scan.expected > 0
      BY <2>1, <2>2
    <3>3. QED
      BY <3>1, <3>2
  <2> DEFINE pool == Phase1Pool(scan.pool)
             x == scan.x
             bid == scan.quote.bid
             gas == scan.gas
             expected == scan.expected
             proxy == SellProxy(bid)
  <2>4. pool \in AnyPool
    <3>1. scan.pool \in LaterPools(scan.pool)
      BY DEF LaterPools
    <3>2. Side \subseteq AnyPool
      BY AmmAssumption DEF Side, AnyPool
    <3>3. QED
      BY <2>1, <3>1, <3>2, LaterIsSide
  <2>5. /\ x \in Nat /\ bid \in Nat /\ gas \in Nat /\ expected \in Nat /\ expected > 0
        /\ bid >= PriceUnit /\ proxy = SellProxy(bid)
    BY <2>3
  <2>6. expected = TwoLeg(pool, proxy, x, FlashFee, gas)
    BY <2>1 DEF ProfitOf
  <2> HIDE DEF pool, x, bid, gas, expected, proxy
  <2>7. /\ proxy \in AnyPool /\ proxy.out <= proxy.in
    <3>1. /\ ProxyDepth \in Nat /\ PriceUnit \in Nat /\ PriceUnit > 0 /\ ProxyDepth * bid \in Nat
          /\ ProxyDepth * PriceUnit <= ProxyDepth * bid
      BY <2>5, EvmArbSignalAssumption, TimesType, TimesMono
    <3>2. PICK i \in Nat : i = (ProxyDepth * bid) \div PriceUnit /\ ProxyDepth <= i
      BY <3>1, DivAtLeast
    <3>3. proxy = [in |-> i, out |-> ProxyDepth, fee |-> 0, amp |-> 0]
      BY <2>5, <3>2 DEF SellProxy
    <3>4. 0 \in 0 .. FeeUnit
      BY AmmAssumption
    <3>5. QED
      BY <3>1, <3>2, <3>3, <3>4 DEF AnyPool
  <2>8. PICK bought \in Nat : bought = GetOutput(pool, x)
    BY <2>4, <2>5, GetOutputType
  <2>9. PICK out \in Nat : out = GetOutput(proxy, bought) /\ out <= bought
    BY <2>7, <2>8, GetOutputType, GivesNoMore
  <2>10. out > x
    <3>1. expected > 0
      BY <2>5
    <3>2. PICK fee \in Nat : fee = (x * FlashFee) \div FeeUnit
      BY <2>5, ScansAssumption, AmmAssumption, TimesType, DivDown
    <3>3. expected = IF out <= 0 THEN NegInfinity ELSE out - x - fee - gas
      BY <2>6, <2>8, <2>9, <3>2 DEF TwoLeg, NetProfit
    <3>4. QED
      BY <2>5, <2>9, <3>1, <3>2, <3>3 DEF NegInfinity
  <2>11. bought * bid > x * PriceUnit
    <3>1. PICK unit \in Nat : unit = PriceUnit /\ unit > 0 /\ unit <= bid
      BY <2>5, EvmArbSignalAssumption
    <3>2. (x + 1) * unit <= bought * unit /\ bought * unit <= bought * bid
      BY <2>5, <2>8, <2>9, <2>10, <3>1, TimesMono
    <3>3. (x + 1) * unit = x * unit + unit
      BY <2>5, <3>1
    <3>4. bought * unit \in Nat /\ bought * bid \in Nat /\ x * unit \in Nat
      BY <2>5, <2>8, <3>1, TimesType
    <3>5. QED
      BY <3>1, <3>2, <3>3, <3>4
  <2>12. QED
    BY <2>8, <2>11 DEF pool, x, bid
<1>2. QED
  BY <1>1, ScansInvHolds, PTL

(* In a constant product pool a swap there and back gains nothing, for any *)
(* reserves, fee and amount: what the code computes never takes from the   *)
(* pool.                                                                   *)
THEOREM SwapsGainNothing == ScansSpec => []ProductConserves
<1>1. ScansInv => ProductConserves
  <2> SUFFICES ASSUME ScansInv, scan.strategy = "S3", NEW i \in DOMAIN scan.pools, NEW x \in Amounts
               PROVE  LET p == scan.pools[i]
                          y == GetOutput(p, x)
                      IN GetOutput(Reversed(p, x, y), y) <= x
    BY DEF ProductConserves
  <2>1. scan.pools \in [1 .. 3 -> AmmPool]
    BY InputsAssumption DEF ScansInv, ScanOK, Carried
  <2>2. AmmPool \subseteq AnyPool
    BY DEF AmmPool, AnyPool
  <2>3. scan.pools[i] \in AnyPool /\ x \in Nat
    BY <2>1, <2>2, InputsAssumption
  <2>4. QED
    BY <2>3, ThereAndBack
<1>2. QED
  BY <1>1, ScansInvHolds, PTL

(* No swap that S3 or S4 may make takes from its pool: there and back      *)
(* gains nothing, and D does not fall, whatever the reserves, the fees,    *)
(* the amplification, the amount and the number of Newton iterations.      *)
THEOREM SwapsNeverTake == ScansSpec => []SwapsConserve
<1>1. ScansInv => StableConserves
  <2> SUFFICES ASSUME ScansInv, scan.strategy = "S4", NEW i \in DOMAIN scan.pools, NEW x \in Amounts
               PROVE  LET p == StableIn(scan.pools[i])
                          y == GetOutputStable(p, x)
                      IN Above(y, 0) => ComputeD(p.amp, p.in, p.out) <= ComputeD(p.amp, p.in + x, p.out - y)
    BY DEF StableConserves
  <2> DEFINE p == StableIn(scan.pools[i])
             y == GetOutputStable(p, x)
  <2>1. scan.pools \in [1 .. 2 -> StablePool]
    BY DEF ScansInv, ScanOK, Carried
  <2>2. scan.pools[i] \in StablePool /\ x \in Nat
    BY <2>1, InputsAssumption
  <2>3. p \in AmmPool
    BY <2>2 DEF StableIn, StablePool, AmmPool
  <2> HIDE DEF p
  <2>4. ASSUME Above(y, 0)
        PROVE  ComputeD(p.amp, p.in, p.out) <= ComputeD(p.amp, p.in + x, p.out - y)
    BY <2>2, <2>3, <2>4, StableSwapKeepsD
  <2>5. QED
    BY <2>4 DEF y, p
<1>2. ScansSpec => []StableConserves
  BY <1>1, ScansInvHolds, PTL
<1>3. ProductConserves /\ StableConserves => SwapsConserve
  BY DEF SwapsConserve
<1>4. QED
  BY <1>2, <1>3, SwapsGainNothing, PTL

(* What S2 simulates is priced and below HF_SUBMIT at the prices the bot   *)
(* was given, for any positions, prices, bonus and gas: the health factor  *)
(* is the quotient of two sums over the whole lists, and its rounding is   *)
(* on the side of the bound.                                               *)
THEOREM OnlyBelowSubmit == ScansSpec => []LiquidatesBelowSubmit
<1>1. ScansInv => LiquidatesBelowSubmit
  <2> SUFFICES ASSUME ScansInv, scan.strategy = "S2", scan.at = "simulate"
               PROVE  LiquidatesBelowSubmit
    BY DEF LiquidatesBelowSubmit
  <2>1. /\ scan.position \in Positions /\ scan.prices \in PriceMaps
        /\ \E cachedHf \in CachedFactors, configRead \in BOOLEAN, gas, gasNow \in GasCosts :
             TryLiquidate(scan.position, scan.prices,
               LiquidationParams(scan.position, scan.prices, cachedHf, configRead, Bonus, FlashFee, gas),
               MinProfit, Roi, gasNow) = "simulate"
    BY DEF ScansInv, ScanOK, Carried
  <2>2. PICK cachedHf \in CachedFactors, configRead \in BOOLEAN, gas \in GasCosts, gasNow \in GasCosts :
          TryLiquidate(scan.position, scan.prices,
            LiquidationParams(scan.position, scan.prices, cachedHf, configRead, Bonus, FlashFee, gas),
            MinProfit, Roi, gasNow) = "simulate"
    BY <2>1
  <2> DEFINE coll == scan.position.collateral
             debt == scan.position.debt
             prices == scan.prices
             Value(i) == debt[i].amount * PriceOf(prices, debt[i].token)
             Worth(i) == coll[i].amount * PriceOf(prices, coll[i].token) * coll[i].lt
             owed == Total([i \in DOMAIN debt |-> Value(i)])
             held == Total([i \in DOMAIN coll |-> Worth(i)])
  <2>3. /\ ~(ComputeHealthFactor(scan.position, prices) >= HfSubmit)
        /\ LiquidationParams(scan.position, prices, cachedHf, configRead, Bonus, FlashFee, gas).is = "sized"
    <3> DEFINE hf == ComputeHealthFactor(scan.position, prices)
               params == LiquidationParams(scan.position, prices, cachedHf, configRead, Bonus, FlashFee, gas)
    <3>1. TryLiquidate(scan.position, prices, params, MinProfit, Roi, gasNow) =
            IF hf >= HfPresimulate THEN "healthy"
            ELSE IF params.is # "sized" THEN params.is
            ELSE IF ~Layer4ProfitCheck(params.profit, MinProfit, Roi, gasNow) THEN "unprofitable"
            ELSE IF hf >= HfSubmit THEN "wait"
            ELSE "simulate"
      BY DEF TryLiquidate
    <3>2. params.is \in {"none", "error", "sized"}
      BY DEF LiquidationParams
    <3>3. TryLiquidate(scan.position, prices, params, MinProfit, Roi, gasNow) = "simulate"
      BY <2>2
    <3> HIDE DEF hf, params
    <3>4. ~(hf >= HfSubmit) /\ params.is = "sized"
      BY <3>1, <3>2, <3>3
    <3>5. QED
      BY <3>4 DEF hf, params
  <2>4. debt # <<>> /\ coll # <<>> /\ Priced(prices, debt[1].token) /\ Priced(prices, coll[1].token)
    BY <2>3 DEF LiquidationParams
  <2>5. ComputeHealthFactor(scan.position, prices) = IF owed = 0 THEN HfMax ELSE held \div owed
    BY DEF ComputeHealthFactor
  <2>6. /\ coll \in Seq([token : DOMAIN Bonus, amount : Nat, lt : Nat])
        /\ debt \in Seq([token : DOMAIN Bonus, amount : Nat])
        /\ \A t \in DOMAIN prices : prices[t] \in Nat
    BY <2>1, InputsAssumption
  <2> HIDE DEF coll, debt, prices
  <2>7. \A token : PriceOf(prices, token) \in Nat
    BY <2>6 DEF PriceOf
  <2>8. owed \in Nat
    <3>1. PICK n \in Nat : DOMAIN debt = 1 .. n /\ \A i \in 1 .. n : debt[i] \in [token : DOMAIN Bonus, amount : Nat]
      BY <2>6, SeqIsFunction
    <3>2. \A i \in 1 .. n : Value(i) \in Nat
      BY <2>7, <3>1, TimesType
    <3> HIDE DEF Value
    <3>3. [i \in DOMAIN debt |-> Value(i)] \in [1 .. n -> Nat]
      BY <3>1, <3>2
    <3>4. QED
      BY <3>3, TotalType
  <2>9. held \in Nat
    <3>1. PICK n \in Nat : /\ DOMAIN coll = 1 .. n
                           /\ \A i \in 1 .. n : coll[i] \in [token : DOMAIN Bonus, amount : Nat, lt : Nat]
      BY <2>6, SeqIsFunction
    <3>2. ASSUME NEW i \in 1 .. n
          PROVE  Worth(i) \in Nat
      <4>1. coll[i].amount \in Nat /\ coll[i].lt \in Nat /\ PriceOf(prices, coll[i].token) \in Nat
        BY <2>7, <3>1
      <4>2. coll[i].amount * PriceOf(prices, coll[i].token) \in Nat
        BY <4>1, TimesType
      <4>3. QED
        BY <4>1, <4>2, TimesType
    <3> HIDE DEF Worth
    <3>3. [i \in DOMAIN coll |-> Worth(i)] \in [1 .. n -> Nat]
      BY <3>1, <3>2
    <3>4. QED
      BY <3>3, TotalType
  <2>10. PriceOf(prices, debt[1].token) > 0 /\ PriceOf(prices, coll[1].token) > 0
    BY <2>4 DEF Priced, PriceOf
  <2>11. LiquidatesBelowSubmit <=>
           /\ PriceOf(prices, debt[1].token) > 0 /\ PriceOf(prices, coll[1].token) > 0
           /\ 100 * held < 105 * 1000 * owed
    BY DEF LiquidatesBelowSubmit, coll, debt, prices
  <2> HIDE DEF owed, held
  <2>12. 100 * held < 105 * 1000 * owed
    <3>1. owed > 0 /\ held \div owed < 1050
      <4>1. PICK hf : hf = ComputeHealthFactor(scan.position, prices)
        OBVIOUS
      <4>2. ~(hf >= 1050) /\ hf = IF owed = 0 THEN HfMax ELSE held \div owed
        BY <2>3, <2>5, <4>1 DEF HfSubmit
      <4>3. owed # 0
        BY <4>2, SMT DEF HfMax
      <4>4. held \div owed \in Nat
        BY <2>8, <2>9, <4>3, DivDown
      <4>5. QED
        BY <2>8, <4>2, <4>3, <4>4
    <3>2. held < 1050 * owed
      <4>1. SUFFICES ASSUME 1050 * owed <= held PROVE FALSE
        BY <2>8, <2>9
      <4>2. 1050 <= held \div owed
        BY <2>8, <2>9, <3>1, <4>1, DivAtLeast
      <4>3. QED
        BY <2>8, <2>9, <3>1, <4>2, DivDown
    <3>3. QED
      BY <2>8, <2>9, <3>2
  <2>13. QED
    BY <2>10, <2>11, <2>12
<1>2. QED
  BY <1>1, ScansInvHolds, PTL

(* The volatility is that of the last prices the window has room for, for  *)
(* any prices, however many, and any window.                               *)
THEOREM WindowKeepsLast == ScansSpec => []WindowIsLast
<1>1. ScansInv => WindowIsLast
  <2> SUFFICES ASSUME ScansInv, scan.strategy = "S1"
               PROVE  Volatility(PushAll(scan.prices)) =
                        Spread(SubSeq(scan.prices, Max({1, Len(scan.prices) - Window + 1}), Len(scan.prices)))
    BY DEF WindowIsLast
  <2>1. scan.prices \in Seq(Nat)
    BY InputsAssumption DEF ScansInv, ScanOK, Carried
  <2>2. PICK n \in Nat : Len(scan.prices) = n /\ scan.prices \in [1 .. n -> Nat]
    BY <2>1, SeqIsFunction
  <2>3. QED
    BY <2>2, WindowSpread
<1>2. QED
  BY <1>1, ScansInvHolds, PTL

(* The estimate is the least slippage at which the book can take the whole *)
(* size, and everything where it cannot, for any sorted book and any size: *)
(* taking the best levels first is never behind another way to sell.       *)
THEOREM SlippageIsExact == ScansSpec => []SlippageExact
<1>1. ScansInv => SlippageExact
  <2> SUFFICES ASSUME ScansInv, scan.strategy = "book"
               PROVE  SlippageExact
    BY DEF SlippageExact
  <2> DEFINE bids == scan.book.bids
             size == scan.book.size
             price == BestBid(bids)
             best == price * size
             Earned(f) == Total([i \in DOMAIN f |-> f[i] * bids[i].price])
             value == {Earned(f) : f \in Fills(scan.book)}
  <2>1. scan.book \in Books /\ scan.slippage = EstimateCoreSellSlippage(bids, size)
    BY DEF ScansInv, ScanOK, Carried
  <2>2. SlippageExact <=>
          scan.slippage = IF best = 0 \/ value = {} THEN 1000 ELSE (1000 * (best - Max(value))) \div best
    BY DEF SlippageExact
  <2>3. bids \in Seq([price : Nat, size : Nat]) /\ size \in Nat
    BY <2>1, InputsAssumption
  <2>4. PICK n \in Nat : DOMAIN bids = 1 .. n /\ Len(bids) = n /\ bids \in [1 .. n -> Level]
    BY <2>3, SeqIsFunction DEF Level
  <2>5. Sorted(bids, n)
    BY <2>1, <2>4, InputsAssumption DEF Sorted
  <2>6. \A f : f \in Fills(scan.book) <=> Sells(f, bids, size, n)
    BY <2>4 DEF Fills, Sells
  <2> HIDE DEF bids, size
  <2>7. PICK at : /\ Eats(at, bids, size, n)
                  /\ EstimateCoreSellSlippage(bids, size) = SlippageOf(bids, size, at[n])
    BY <2>3, <2>4, Estimates
  <2> DEFINE v == at[n].value
  <2>8. ASSUME NEW f \in Fills(scan.book)
        PROVE  at[n].left = 0 /\ Earned(f) \in Nat /\ Earned(f) <= v
    <3>1. Sells(f, bids, size, n)
      BY <2>6
    <3>2. Earned(f) = Proceeds(f, bids, n)
      BY <3>1 DEF Sells, Proceeds
    <3> HIDE DEF Earned
    <3>3. at[n].left = 0 /\ Proceeds(f, bids, n) \in Nat /\ Proceeds(f, bids, n) <= at[n].value
      BY <2>3, <2>4, <2>5, <2>7, <3>1, GreedyBest
    <3>4. QED
      BY <3>2, <3>3
  <2>9. at[n].left = 0 => v \in value
    <3>1. SUFFICES ASSUME at[n].left = 0
                   PROVE  v \in value
      OBVIOUS
    <3>2. PICK f : Sells(f, bids, size, n) /\ Proceeds(f, bids, n) = at[n].value
      BY <2>3, <2>4, <2>5, <2>7, <3>1, GreedyFills
    <3>3. Earned(f) = Proceeds(f, bids, n)
      BY <3>2 DEF Sells, Proceeds
    <3>4. f \in Fills(scan.book) /\ Earned(f) = v
      BY <2>6, <3>2, <3>3
    <3>5. QED
      BY <3>4
  <2>10. at[n].left \in Nat /\ v \in Nat
    <3>1. at[n] \in Eaten
      BY <2>7 DEF Eats
    <3>2. QED
      BY <3>1 DEF Eaten
  <2>11. at[n].left = 0 => Max(value) = v
    <3>1. \A y \in value : y \in Nat /\ y <= v
      BY <2>8
    <3> HIDE DEF value, v
    <3>2. value \subseteq Int /\ \A y \in value : y <= v
      BY <3>1
    <3>3. QED
      BY <2>9, <3>2, MaxIs
  <2>12. at[n].left # 0 => value = {}
    BY <2>8
  <2>13. /\ price \in Nat
         /\ n = 0 => price = 0
         /\ n # 0 => price = bids[1].price
         /\ bids = <<>> <=> n = 0
    BY <2>4 DEF BestBid, Level
  <2>14. v <= best /\ best \in Nat
    <3>1. NoneAbove(bids, n, price)
      <4>1. ASSUME NEW k \in 1 .. n
            PROVE  bids[k].price <= bids[1].price
        <5>1. CASE k = 1
          BY <2>4, <5>1 DEF Level
        <5>2. CASE k > 1
          <6>1. bids[1].price >= bids[k].price
            BY <2>5, <5>2 DEF Sorted
          <6>2. QED
            BY <2>4, <6>1 DEF Level
        <5>3. QED
          BY <5>1, <5>2
      <4>2. QED
        BY <2>13, <4>1 DEF NoneAbove
    <3> HIDE DEF price
    <3>2. at[n].left <= size /\ at[n].value <= price * (size - at[n].left)
      BY <2>3, <2>4, <2>5, <2>7, <2>13, <3>1, GreedyBound
    <3>3. size - at[n].left \in Nat /\ size - at[n].left <= size
      BY <2>3, <2>10, <3>2
    <3>4. price * (size - at[n].left) <= price * size /\ price * size \in Nat
      BY <2>3, <2>13, <3>3, TimesMono, TimesType
    <3>5. price * (size - at[n].left) \in Nat
      BY <2>13, <3>3, TimesType
    <3>6. QED
      BY <2>10, <3>2, <3>4, <3>5
  <2>15. best = 0 <=> size = 0 \/ price = 0
    BY <2>3, <2>13
  <2>16. SlippageOf(bids, size, at[n]) =
           IF bids = <<>> \/ size <= 0 \/ at[n].left > 0 \/ price <= 0 THEN 1000
           ELSE Max({0, (1000 * (best - v)) \div best})
    BY DEF SlippageOf
  <2> HIDE DEF price, best, value, v
  <2>17. CASE best = 0 \/ at[n].left # 0
    <3>1. bids = <<>> \/ size <= 0 \/ at[n].left > 0 \/ price <= 0
      BY <2>3, <2>10, <2>13, <2>15, <2>17
    <3>2. best = 0 \/ value = {}
      BY <2>12, <2>17
    <3>3. QED
      BY <2>1, <2>2, <2>7, <2>16, <3>1, <3>2
  <2>18. CASE best # 0 /\ at[n].left = 0
    <3>1. ~(bids = <<>> \/ size <= 0 \/ at[n].left > 0 \/ price <= 0)
      BY <2>3, <2>13, <2>15, <2>18
    <3>2. ~(best = 0 \/ value = {}) /\ Max(value) = v
      BY <2>9, <2>11, <2>18
    <3>3. PICK q \in Nat : q = (1000 * (best - v)) \div best
      <4>1. 1000 * (best - v) \in Nat /\ best > 0
        BY <2>10, <2>14, <2>18
      <4>2. QED
        BY <2>14, <4>1, DivDown
    <3>4. Max({0, q}) = q
      <4>1. {0, q} \subseteq Int /\ q \in {0, q} /\ \A y \in {0, q} : y <= q
        OBVIOUS
      <4>2. QED
        BY <4>1, MaxIs
    <3>5. QED
      BY <2>1, <2>2, <2>7, <2>16, <3>1, <3>2, <3>3, <3>4
  <2>19. QED
    BY <2>17, <2>18
<1>2. QED
  BY <1>1, ScansInvHolds, PTL

-----------------------------------------------------------------------------
(* S3's search: the depth-first search *)

(* The weight of three hops is their sum. *)
LEMMA TriangleWeight ==
  ASSUME NEW e1, NEW e2, NEW e3, e1.weight \in Int, e2.weight \in Int, e3.weight \in Int
  PROVE  RouteWeight(<<e1, e2, e3>>) = e1.weight + e2.weight + e3.weight
<1> DEFINE hops == <<e1, e2, e3>>
           product[k \in 0 .. Len(hops)] == IF k = 0 THEN 0 ELSE product[k - 1] + hops[k].weight
           f == [k \in 0 .. 3 |-> IF k = 0 THEN 0 ELSE IF k = 1 THEN e1.weight
                                  ELSE IF k = 2 THEN e1.weight + e2.weight
                                  ELSE e1.weight + e2.weight + e3.weight]
<1>1. Len(hops) = 3 /\ hops[1] = e1 /\ hops[2] = e2 /\ hops[3] = e3
  OBVIOUS
<1>2. RouteWeight(hops) = product[3]
  BY <1>1 DEF RouteWeight
<1> HIDE DEF hops
<1>3. f = [k \in 0 .. 3 |-> IF k = 0 THEN 0 ELSE f[k - 1] + hops[k].weight]
  <2>1. \A k \in 0 .. 3 : f[k] = IF k = 0 THEN 0 ELSE f[k - 1] + hops[k].weight
    BY <1>1
  <2>2. QED
    BY <2>1
<1> HIDE DEF f
<1>4. product = [k \in 0 .. 3 |-> IF k = 0 THEN 0 ELSE product[k - 1] + hops[k].weight]
  BY <1>1, <1>3, Zenon
<1> HIDE DEF product
<1>5. product[0] = 0 /\ product[1] = product[0] + hops[1].weight
      /\ product[2] = product[1] + hops[2].weight /\ product[3] = product[2] + hops[3].weight
  BY <1>4
<1>6. product[3] = e1.weight + e2.weight + e3.weight
  BY <1>1, <1>5
<1>7. QED
  BY <1>2, <1>6 DEF hops

(* What one call of dfs_recurse adds, when f is what its own calls add. *)
Explored(G, origin, f, path) ==
  LET current == IF path = <<>> THEN origin ELSE Last(path).to
      visited == {origin} \cup {path[i].to : i \in DOMAIN path}
      remaining == MaxDepth - Len(path)
  IN IF remaining = 0 THEN {} ELSE
     UNION {IF e.to = origin /\ Len(path) >= 2
              THEN {r \in {Append(path, e)} : Profitable(r)}
            ELSE IF e.to \notin visited /\ remaining > 1 THEN f[Append(path, e)]
            ELSE {}
            : e \in Out(G, current)}

(* A call depends on its own calls only, and a path of two makes none. *)
LEMMA CallsOnly ==
  ASSUME NEW G, NEW s, NEW f, NEW g, NEW path \in SeqOf(G, MaxDepth),
         Len(path) < 2 => \A e \in G : f[Append(path, e)] = g[Append(path, e)]
  PROVE  Explored(G, s, f, path) = Explored(G, s, g, path)
<1>1. Len(path) \in Nat
  BY DEF SeqOf, MaxDepth
<1>2. MaxDepth - Len(path) > 1 <=> Len(path) < 2
  BY <1>1 DEF MaxDepth
<1> DEFINE current == IF path = <<>> THEN s ELSE Last(path).to
<1>3. \A e \in Out(G, current) : e \in G
  BY DEF Out
<1>4. CASE Len(path) < 2
  BY <1>2, <1>3, <1>4, Zenon DEF Explored
<1>5. CASE ~ (Len(path) < 2)
  BY <1>2, <1>5, Zenon DEF Explored
<1>6. QED
  BY <1>4, <1>5

(* A path that is not full yet can be extended. *)
LEMMA PathsExtend ==
  ASSUME NEW G, NEW path \in SeqOf(G, MaxDepth)
  PROVE  /\ Len(path) \in Nat
         /\ Len(path) < 2 => \A e \in G : /\ Append(path, e) \in SeqOf(G, MaxDepth)
                                          /\ Len(Append(path, e)) = Len(path) + 1
<1>1. PICK m \in 0 .. 3 : path \in [1 .. m -> G]
  BY DEF SeqOf, MaxDepth
<1>2. path \in Seq(G) /\ Len(path) = m
  BY <1>1
<1>3. ASSUME Len(path) < 2, NEW e \in G
      PROVE  /\ Append(path, e) \in SeqOf(G, MaxDepth)
             /\ Len(Append(path, e)) = Len(path) + 1
  <2>1. Append(path, e) \in Seq(G) /\ Len(Append(path, e)) = m + 1
    BY <1>2
  <2>2. Append(path, e) \in [1 .. m + 1 -> G] /\ m + 1 \in 0 .. 3
    <3>1. PICK n \in Nat : Len(Append(path, e)) = n /\ Append(path, e) \in [1 .. n -> G]
      BY <2>1, SeqIsFunction
    <3>2. QED
      BY <1>2, <1>3, <2>1, <3>1
  <2>3. QED
    BY <1>2, <2>1, <2>2 DEF SeqOf, MaxDepth
<1>4. QED
  BY <1>2, <1>3

(* The recursion of dfs_recurse is well defined. *)
Explores(G, s, f) ==
  \A path \in SeqOf(G, MaxDepth) : f[path] = Explored(G, s, f, path)

(* DfsRecurse is the root value of a function that satisfies its recursive *)
(* equation on every path up to the limit.                                 *)
LEMMA DfsExplores ==
  ASSUME NEW G, NEW s
  PROVE  \E f : Explores(G, s, f) /\ DfsRecurse(G, s) = f[<<>>]
<1> DEFINE P == SeqOf(G, MaxDepth)
           found[path \in P] ==
             LET current == IF path = <<>> THEN s ELSE Last(path).to
                 visited == {s} \cup {path[i].to : i \in DOMAIN path}
                 remaining == MaxDepth - Len(path)
             IN IF remaining = 0 THEN {} ELSE
                UNION {IF e.to = s /\ Len(path) >= 2
                         THEN {r \in {Append(path, e)} : Profitable(r)}
                       ELSE IF e.to \notin visited /\ remaining > 1 THEN found[Append(path, e)]
                       ELSE {}
                       : e \in Out(G, current)}
           Call(f) == [path \in P |-> Explored(G, s, f, path)]
           none == [path \in P |-> {}]
           h1 == Call(none)
           h2 == Call(h1)
           h3 == Call(h2)
<1>1. DfsRecurse(G, s) = found[<<>>]
  BY Zenon DEF DfsRecurse
<1>2. \A path \in P : /\ Len(path) \in Nat
                       /\ Len(path) < 2 => \A e \in G : Append(path, e) \in P /\ Len(Append(path, e)) = Len(path) + 1
  BY PathsExtend
<1>3. h3 = Call(h3)
  <2>1. \A path \in P : Len(path) >= 2 => Explored(G, s, h1, path) = Explored(G, s, none, path)
    <3>1. \A path \in P : Len(path) >= 2 => ~ (Len(path) < 2)
      BY <1>2
    <3> HIDE DEF h1, none
    <3>2. QED
      BY <3>1, CallsOnly
  <2>2. \A path \in P : Len(path) >= 2 => h2[path] = h1[path]
    <3>1. \A path \in P : h1[path] = Explored(G, s, none, path) /\ h2[path] = Explored(G, s, h1, path)
      BY Zenon
    <3>2. QED
      BY <2>1, <3>1, Zenon
  <2>3. \A path \in P : Len(path) >= 1 => Explored(G, s, h2, path) = Explored(G, s, h1, path)
    <3> SUFFICES ASSUME NEW path \in P, Len(path) >= 1
                 PROVE  Explored(G, s, h2, path) = Explored(G, s, h1, path)
      OBVIOUS
    <3>1. Len(path) < 2 => \A e \in G : h2[Append(path, e)] = h1[Append(path, e)]
      <4>1. \A e \in G : Len(path) < 2 => Append(path, e) \in P /\ Len(Append(path, e)) >= 2
        BY <1>2
      <4> HIDE DEF h2, h1, P
      <4>2. QED
        BY <4>1, <2>2
    <3> HIDE DEF h2, h1
    <3>2. QED
      BY <3>1, CallsOnly, Zenon
  <2>4. \A path \in P : Len(path) >= 1 => h3[path] = h2[path]
    <3>1. \A path \in P : h2[path] = Explored(G, s, h1, path) /\ h3[path] = Explored(G, s, h2, path)
      BY Zenon
    <3>2. QED
      BY <2>3, <3>1, Zenon
  <2>5. \A path \in P : Explored(G, s, h3, path) = Explored(G, s, h2, path)
    <3> SUFFICES ASSUME NEW path \in P
                 PROVE  Explored(G, s, h3, path) = Explored(G, s, h2, path)
      OBVIOUS
    <3>1. Len(path) < 2 => \A e \in G : h3[Append(path, e)] = h2[Append(path, e)]
      <4>1. \A e \in G : Len(path) < 2 => Append(path, e) \in P /\ Len(Append(path, e)) >= 1
        BY <1>2
      <4> HIDE DEF h2, h3, P
      <4>2. QED
        BY <4>1, <2>4
    <3> HIDE DEF h2, h3
    <3>2. QED
      BY <3>1, CallsOnly, Zenon
  <2>6. QED
    BY <2>5, Zenon
<1> HIDE DEF h3
<1>4. found = Call(found)
  BY <1>3, Zenon DEF Explored
<1> HIDE DEF found
<1>5. Explores(G, s, found)
  <2>1. \A path \in P : Call(found)[path] = Explored(G, s, found, path)
    BY Zenon
  <2>2. QED
    BY <1>4, <2>1, Zenon DEF Explores
<1>6. QED
  BY <1>1, <1>5, Zenon

(* Three edges there and around, from one token. *)
CycleAt(G, s, e1, e2, e3) ==
  /\ e1 \in G /\ e2 \in G /\ e3 \in G
  /\ e1.from = s /\ e2.from = e1.to /\ e3.from = e2.to /\ e3.to = s
  /\ e1.to # s /\ e2.to # s /\ e2.to # e1.to
  /\ Profitable(<<e1, e2, e3>>)

(* Sequences of two and of three, built one by one. *)
LEMMA AppendIs ==
  ASSUME NEW S, NEW a \in S, NEW b \in S, NEW c \in S
  PROVE  Append(<<a>>, b) = <<a, b>> /\ Append(<<a, b>>, c) = <<a, b, c>>
<1>1. /\ <<a>> \in Seq(S) /\ Len(<<a>>) = 1 /\ <<a>>[1] = a
      /\ <<a, b>> \in Seq(S) /\ Len(<<a, b>>) = 2 /\ <<a, b>>[1] = a /\ <<a, b>>[2] = b
  OBVIOUS
<1>2. Append(<<a>>, b) = [i \in 1 .. 2 |-> IF i = 1 THEN a ELSE b]
  BY <1>1 DEF Append
<1>3. Append(<<a, b>>, c) = [i \in 1 .. 3 |-> IF i = 1 THEN a ELSE IF i = 2 THEN b ELSE c]
  BY <1>1 DEF Append
<1>4. <<a, b>> = [i \in 1 .. 2 |-> IF i = 1 THEN a ELSE b]
  OBVIOUS
<1>5. <<a, b, c>> = [i \in 1 .. 3 |-> IF i = 1 THEN a ELSE IF i = 2 THEN b ELSE c]
  OBVIOUS
<1>6. QED
  BY <1>2, <1>3, <1>4, <1>5

(* dfs_recurse returns the profitable cycles of three edges from its origin. *)
LEMMA DfsFinds ==
  ASSUME NEW G, NEW s, NEW r
  PROVE  r \in DfsRecurse(G, s) <=> \E e1, e2, e3 \in G : CycleAt(G, s, e1, e2, e3) /\ r = <<e1, e2, e3>>
<1>1. PICK f : Explores(G, s, f) /\ DfsRecurse(G, s) = f[<<>>]
  BY DfsExplores
<1>2. /\ <<>> \in SeqOf(G, MaxDepth)
      /\ \A e1 \in G : <<e1>> \in SeqOf(G, MaxDepth)
      /\ \A e1, e2 \in G : <<e1, e2>> \in SeqOf(G, MaxDepth)
  <2>1. <<>> \in [1 .. 0 -> G]
    OBVIOUS
  <2>2. \A e1 \in G : <<e1>> \in [1 .. 1 -> G]
    OBVIOUS
  <2>3. \A e1, e2 \in G : <<e1, e2>> \in [1 .. 2 -> G]
    OBVIOUS
  <2>4. QED
    BY <2>1, <2>2, <2>3 DEF SeqOf, MaxDepth
<1>3. f[<<>>] = UNION {IF e.to # s THEN f[<<e>>] ELSE {} : e \in Out(G, s)}
  <2>1. f[<<>>] = Explored(G, s, f, <<>>)
    BY <1>1, <1>2 DEF Explores
  <2>2. Len(<<>>) = 0 /\ DOMAIN <<>> = {} /\ MaxDepth = 3
    BY DEF MaxDepth
  <2>3. \A e : Append(<<>>, e) = <<e>>
    OBVIOUS
  <2>4. QED
    BY <2>1, <2>2, <2>3 DEF Explored
<1>4. ASSUME NEW e1 \in G
      PROVE  f[<<e1>>] = UNION {IF e.to # s /\ e.to # e1.to THEN f[<<e1, e>>] ELSE {} : e \in Out(G, e1.to)}
  <2>1. f[<<e1>>] = Explored(G, s, f, <<e1>>)
    BY <1>1, <1>2 DEF Explores
  <2>2. Len(<<e1>>) = 1 /\ DOMAIN <<e1>> = {1} /\ MaxDepth = 3 /\ <<e1>> # <<>> /\ <<e1>>[1] = e1
    BY DEF MaxDepth
  <2>3. \A e \in G : Append(<<e1>>, e) = <<e1, e>>
    BY AppendIs
  <2>4. Last(<<e1>>) = e1
    BY <2>2 DEF Last
  <2>5. {s} \cup {<<e1>>[i].to : i \in DOMAIN <<e1>>} = {s, e1.to}
    BY <2>2
  <2>6. \A e \in Out(G, e1.to) : e \in G
    BY DEF Out
  <2>7. f[<<e1>>] = UNION {IF e.to \notin {s, e1.to} THEN f[Append(<<e1>>, e)] ELSE {} : e \in Out(G, e1.to)}
    BY <2>1, <2>2, <2>4, <2>5 DEF Explored
  <2>8. QED
    BY <2>3, <2>6, <2>7
<1>5. ASSUME NEW e1 \in G, NEW e2 \in G
      PROVE  f[<<e1, e2>>] = UNION {IF e.to = s THEN {x \in {<<e1, e2, e>>} : Profitable(x)} ELSE {} : e \in Out(G, e2.to)}
  <2>1. f[<<e1, e2>>] = Explored(G, s, f, <<e1, e2>>)
    BY <1>1, <1>2 DEF Explores
  <2>2. Len(<<e1, e2>>) = 2 /\ MaxDepth = 3 /\ <<e1, e2>> # <<>> /\ <<e1, e2>>[2] = e2
    BY DEF MaxDepth
  <2>3. \A e \in G : Append(<<e1, e2>>, e) = <<e1, e2, e>>
    BY AppendIs
  <2>4. Last(<<e1, e2>>) = e2
    BY <2>2 DEF Last
  <2>5. \A e \in Out(G, e2.to) : e \in G
    BY DEF Out
  <2>6. f[<<e1, e2>>] = UNION {IF e.to = s THEN {x \in {Append(<<e1, e2>>, e)} : Profitable(x)} ELSE {} : e \in Out(G, e2.to)}
    BY <2>1, <2>2, <2>4 DEF Explored
  <2>7. QED
    BY <2>3, <2>5, <2>6
<1>6. r \in f[<<>>] <=> \E e1 \in G : e1.from = s /\ e1.to # s /\ r \in f[<<e1>>]
  BY <1>3 DEF Out
<1>7. ASSUME NEW e1 \in G
      PROVE  r \in f[<<e1>>] <=> \E e2 \in G : e2.from = e1.to /\ e2.to # s /\ e2.to # e1.to /\ r \in f[<<e1, e2>>]
  <2>1. f[<<e1>>] = UNION {IF e.to # s /\ e.to # e1.to THEN f[<<e1, e>>] ELSE {} : e \in Out(G, e1.to)}
    BY <1>4
  <2>2. QED
    BY <2>1 DEF Out
<1>8. ASSUME NEW e1 \in G, NEW e2 \in G
      PROVE  r \in f[<<e1, e2>>] <=>
               \E e3 \in G : e3.from = e2.to /\ e3.to = s /\ Profitable(<<e1, e2, e3>>) /\ r = <<e1, e2, e3>>
  <2>1. f[<<e1, e2>>] = UNION {IF e.to = s THEN {x \in {<<e1, e2, e>>} : Profitable(x)} ELSE {} : e \in Out(G, e2.to)}
    BY <1>5
  <2>2. QED
    BY <2>1 DEF Out
<1>9. QED
  <2>1. r \in f[<<>>] <=> \E e1, e2, e3 \in G : CycleAt(G, s, e1, e2, e3) /\ r = <<e1, e2, e3>>
    <3>1. ASSUME r \in f[<<>>]
          PROVE  \E e1, e2, e3 \in G : CycleAt(G, s, e1, e2, e3) /\ r = <<e1, e2, e3>>
      <4>1. PICK e1 \in G : e1.from = s /\ e1.to # s /\ r \in f[<<e1>>]
        BY <1>6, <3>1
      <4>2. PICK e2 \in G : e2.from = e1.to /\ e2.to # s /\ e2.to # e1.to /\ r \in f[<<e1, e2>>]
        BY <1>7, <4>1
      <4>3. PICK e3 \in G : e3.from = e2.to /\ e3.to = s /\ Profitable(<<e1, e2, e3>>) /\ r = <<e1, e2, e3>>
        BY <1>8, <4>2
      <4>4. QED
        BY <4>1, <4>2, <4>3 DEF CycleAt
    <3>2. ASSUME NEW e1 \in G, NEW e2 \in G, NEW e3 \in G, CycleAt(G, s, e1, e2, e3), r = <<e1, e2, e3>>
          PROVE  r \in f[<<>>]
      <4>1. r \in f[<<e1, e2>>]
        BY <1>8, <3>2 DEF CycleAt
      <4>2. r \in f[<<e1>>]
        BY <1>7, <3>2, <4>1 DEF CycleAt
      <4>3. QED
        BY <1>6, <3>2, <4>2 DEF CycleAt
    <3>3. QED
      BY <3>1, <3>2
  <2>2. QED
    BY <1>1, <2>1

-----------------------------------------------------------------------------
(* The edges of an ArbGraph. *)
IsGraph(G) ==
  /\ IsFiniteSet(G)
  /\ \A e \in G : e.weight \in Int /\ 2 * e.weight > -Dead /\ e.from # e.to

TrianglesOf(G) ==
  {r \in G \X G \X G :
     /\ r[1].to = r[2].from /\ r[2].to = r[3].from /\ r[3].to = r[1].from
     /\ Cardinality({r[1].from, r[2].from, r[3].from}) = 3
     /\ r[1].weight + r[2].weight + r[3].weight < 0}

Distinct(a, b, c) ==
  IF c \in {a, b} THEN IF b = a THEN 1 ELSE 2 ELSE IF b = a THEN 2 ELSE 3

(* How many of three values there are. *)
LEMMA CardinalityOfThree ==
  ASSUME NEW a, NEW b, NEW c
  PROVE  Cardinality({a, b, c}) = Distinct(a, b, c)
<1>1. IsFiniteSet({a}) /\ Cardinality({a}) = 1
  BY FS_Singleton
<1>2. IsFiniteSet({a, b}) /\ Cardinality({a, b}) = IF b = a THEN 1 ELSE 2
  <2>1. {a, b} = {a} \cup {b}
    OBVIOUS
  <2>2. QED
    BY <1>1, <2>1, FS_AddElement
<1>3. Cardinality({a, b, c}) = IF c \in {a, b} THEN Cardinality({a, b}) ELSE Cardinality({a, b}) + 1
  <2>1. {a, b, c} = {a, b} \cup {c}
    OBVIOUS
  <2>2. QED
    BY <1>2, <2>1, FS_AddElement
<1>4. QED
  BY <1>2, <1>3 DEF Distinct

(* A triangle is a profitable cycle from the token it starts at. *)
LEMMA TriangleIsCycle ==
  ASSUME NEW G, IsGraph(G), NEW e1 \in G, NEW e2 \in G, NEW e3 \in G
  PROVE  <<e1, e2, e3>> \in TrianglesOf(G) <=> CycleAt(G, e1.from, e1, e2, e3)
<1> DEFINE r == <<e1, e2, e3>>
<1>1. r \in G \X G \X G /\ r[1] = e1 /\ r[2] = e2 /\ r[3] = e3
  OBVIOUS
<1>2. Profitable(r) <=> e1.weight + e2.weight + e3.weight < 0
  BY TriangleWeight DEF IsGraph, Profitable
<1> HIDE DEF r
<1>3. r \in TrianglesOf(G) <=>
        /\ e1.to = e2.from /\ e2.to = e3.from /\ e3.to = e1.from
        /\ e1.from # e2.from /\ e2.from # e3.from /\ e1.from # e3.from
        /\ Profitable(r)
  <2>1. Cardinality({e1.from, e2.from, e3.from}) = 3 <=> e1.from # e2.from /\ e2.from # e3.from /\ e1.from # e3.from
    <3>1. Cardinality({e1.from, e2.from, e3.from}) = Distinct(e1.from, e2.from, e3.from)
      BY CardinalityOfThree, Zenon
    <3>2. QED
      BY <3>1 DEF Distinct
  <2>2. QED
    BY <1>1, <1>2, <2>1 DEF TrianglesOf
<1>4. e1.from # e1.to /\ e2.from # e2.to /\ e3.from # e3.to
  BY DEF IsGraph
<1>5. QED
  BY <1>3, <1>4 DEF CycleAt, r

(* The search of a graph from all of its tokens finds its triangles. *)
LEMMA DfsCyclesAre ==
  ASSUME NEW G, IsGraph(G)
  PROVE  /\ \A s : DfsRecurse(G, s) \subseteq TrianglesOf(G)
         /\ \A r \in TrianglesOf(G) : r \in DfsRecurse(G, r[1].from)
         /\ DfsCycles(G) = TrianglesOf(G)
<1>1. ASSUME NEW s, NEW r \in DfsRecurse(G, s)
      PROVE  r \in TrianglesOf(G)
  <2>1. PICK e1, e2, e3 \in G : CycleAt(G, s, e1, e2, e3) /\ r = <<e1, e2, e3>>
    BY DfsFinds, <1>1
  <2>2. s = e1.from
    BY <2>1 DEF CycleAt
  <2>3. QED
    BY <2>1, <2>2, TriangleIsCycle
<1>2. ASSUME NEW r \in TrianglesOf(G)
      PROVE  r \in DfsRecurse(G, r[1].from) /\ r[1].from \in GraphTokens(G)
  <2>1. /\ r[1] \in G /\ r[2] \in G /\ r[3] \in G
        /\ r = <<r[1], r[2], r[3]>>
    BY DEF TrianglesOf
  <2>2. CycleAt(G, r[1].from, r[1], r[2], r[3])
    BY <2>1, TriangleIsCycle
  <2>3. QED
    BY <2>1, <2>2, DfsFinds DEF GraphTokens
<1>3. QED
  BY <1>1, <1>2 DEF DfsCycles

-----------------------------------------------------------------------------
(* Bellman-Ford *)

(* Distances from source: the tokens reached so far are its domain. *)
Reached(source, T) ==
  {d \in UNION {[D -> Int] : D \in SUBSET T} : source \in DOMAIN d}

AllTokens(G) == {e.from : e \in G} \cup {e.to : e \in G}

(* Relaxing an edge loses no token that was reached. *)
LEMMA RelaxType ==
  ASSUME NEW G, IsGraph(G), NEW source, NEW d \in Reached(source, AllTokens(G)), NEW e \in G
  PROVE  Relax(d, e) \in Reached(source, AllTokens(G))
<1> DEFINE T == AllTokens(G)
<1>1. PICK D \in SUBSET T : d \in [D -> Int] /\ source \in D
  BY DEF Reached
<1>2. CASE ~ Improves(d, e)
  BY <1>2 DEF Relax
<1>3. CASE Improves(d, e)
  <2>1. e.from \in D /\ e.to \in T /\ e.weight \in Int
    BY <1>1, <1>3 DEF Improves, AllTokens, IsGraph
  <2> DEFINE x == d[e.from] + e.weight
             n == [t \in D \cup {e.to} |-> IF t = e.to THEN x ELSE d[t]]
  <2>2. x \in Int
    BY <1>1, <2>1
  <2>3. Relax(d, e) = n
    BY <1>1, <1>3 DEF Relax
  <2> HIDE DEF x
  <2>4. n \in [D \cup {e.to} -> Int] /\ D \cup {e.to} \in SUBSET T /\ source \in D \cup {e.to}
    BY <1>1, <2>1, <2>2
  <2> HIDE DEF n, T
  <2>5. n \in Reached(source, T)
    BY <2>4 DEF Reached
  <2>6. QED
    BY <2>3, <2>5 DEF T
<1>4. QED
  BY <1>2, <1>3

(* However often and in whichever order the edges are relaxed, the source  *)
(* stays reached.                                                          *)
LEMMA DistancesType ==
  ASSUME NEW G, IsGraph(G), NEW source \in GraphTokens(G), NEW edgeSeq \in Seq(G)
  PROVE  Distances(G, source, edgeSeq) \in Reached(source, AllTokens(G))
<1> DEFINE S == Reached(source, AllTokens(G))
           m == Len(edgeSeq)
           last == (Cardinality(GraphTokens(G)) - 1) * m
           d0 == [t \in {source} |-> 0]
           at == [k \in 1 .. last |-> edgeSeq[((k - 1) % m) + 1]]
           step == [k \in 1 .. last |-> [d \in S |-> Relax(d, at[k])]]
           dist[k \in 0 .. last] ==
             IF k = 0 THEN [t \in {source} |-> 0] ELSE Relax(dist[k - 1], edgeSeq[((k - 1) % Len(edgeSeq)) + 1])
<1>1. Distances(G, source, edgeSeq) = dist[last]
  BY Zenon DEF Distances
<1>2. last \in Nat /\ m \in Nat /\ (m = 0 => last = 0)
  <2>1. IsFiniteSet(GraphTokens(G)) /\ GraphTokens(G) # {}
    <3> DEFINE from == [e \in G |-> e.from]
    <3>1. from \in Surjection(G, GraphTokens(G))
      BY DEF Surjection, GraphTokens
    <3> HIDE DEF from
    <3>2. IsFiniteSet(GraphTokens(G))
      BY <3>1, FS_Surjection DEF IsGraph
    <3>3. QED
      BY <3>2
  <2>2. Cardinality(GraphTokens(G)) \in Nat /\ Cardinality(GraphTokens(G)) # 0
    BY <2>1, FS_CardinalityType, FS_EmptySet
  <2>3. Cardinality(GraphTokens(G)) - 1 \in Nat /\ m \in Nat
    BY <2>2
  <2> HIDE DEF m
  <2>4. QED
    BY <2>3, TimesType
<1>3. d0 \in S
  <2>1. source \in AllTokens(G)
    BY DEF AllTokens, GraphTokens
  <2>2. d0 \in [{source} -> Int] /\ {source} \in SUBSET AllTokens(G)
    BY <2>1
  <2> HIDE DEF d0
  <2>3. QED
    BY <2>2 DEF Reached
<1>4. \A k \in 1 .. last : at[k] \in G
  <2> SUFFICES ASSUME NEW k \in 1 .. last PROVE at[k] \in G
    OBVIOUS
  <2>1. m > 0
    <3> HIDE DEF last, m
    <3>1. QED
      BY <1>2
  <2>2. k \in 1 .. last /\ k - 1 \in Nat
    <3> HIDE DEF last
    <3>1. QED
      BY <1>2
  <2>3. (k - 1) % m \in 0 .. m - 1
    <3> HIDE DEF m, last
    <3>1. QED
      BY <1>2, <2>1, <2>2
  <2>4. at[k] = edgeSeq[((k - 1) % m) + 1]
    <3> HIDE DEF m, last
    <3>1. QED
      BY <2>2
  <2>5. ((k - 1) % m) + 1 \in 1 .. m
    <3> HIDE DEF m, last
    <3>1. QED
      BY <1>2, <2>3
  <2>6. QED
    BY <2>4, <2>5
<1> HIDE DEF last, S, m
<1>5. Steps(step, last, S)
  <2>1. \A k \in 1 .. last, d \in S : step[k][d] = Relax(d, at[k])
    <3> HIDE DEF at
    <3>1. QED
      OBVIOUS
  <2> HIDE DEF step
  <2>2. \A k \in 1 .. last, d \in S : Relax(d, at[k]) \in S
    BY <1>4, RelaxType DEF S
  <2>3. QED
    BY <2>1, <2>2 DEF Steps
<1>6. PICK f : Recursion(f, d0, step, last, S)
  <2> HIDE DEF d0, step
  <2>1. QED
    BY <1>2, <1>3, <1>5, RecursionExists
<1>7. f = [k \in 0 .. last |-> IF k = 0 THEN d0 ELSE Relax(f[k - 1], edgeSeq[((k - 1) % m) + 1])]
  <2>1. f \in [0 .. last -> S] /\ f[0] = d0
    BY <1>6 DEF Recursion
  <2>2. ASSUME NEW k \in 1 .. last
        PROVE  f[k] = Relax(f[k - 1], edgeSeq[((k - 1) % m) + 1])
    <3>1. f[k] = step[k][f[k - 1]] /\ f[k - 1] \in S
      <4> HIDE DEF step
      <4>1. f[k] = step[k][f[k - 1]]
        BY <1>6 DEF Recursion
      <4>2. k - 1 \in 0 .. last
        BY <1>2
      <4>3. QED
        BY <2>1, <4>1, <4>2
    <3>2. step[k][f[k - 1]] = Relax(f[k - 1], at[k])
      <4> HIDE DEF at
      <4>1. QED
        BY <3>1
    <3>3. QED
      BY <3>1, <3>2
  <2> HIDE DEF d0
  <2>3. QED
    BY <1>2, <2>1, <2>2
<1>8. dist = [k \in 0 .. last |-> IF k = 0 THEN d0 ELSE Relax(dist[k - 1], edgeSeq[((k - 1) % m) + 1])]
  BY <1>7, Zenon DEF m
<1> HIDE DEF dist, d0
<1>9. \A k \in 0 .. last : dist[k] \in S
  <2>1. dist[0] \in S
    BY <1>2, <1>3, <1>8
  <2>2. ASSUME NEW k \in 1 .. last, dist[k - 1] \in S
        PROVE  dist[k] \in S
    <3>1. dist[k] = Relax(dist[k - 1], at[k])
      BY <1>2, <1>8
    <3>2. QED
      BY <1>4, <2>2, <3>1, RelaxType DEF S
  <2>3. QED
    BY <1>2, <2>1, <2>2, StaysWithin
<1>10. QED
  BY <1>1, <1>2, <1>9 DEF S

(* Whatever was relaxed in whichever order, once its first token has been  *)
(* reached one edge of a profitable triangle still improves.               *)
LEMMA OneImproves ==
  ASSUME NEW G, IsGraph(G), NEW r \in TrianglesOf(G), NEW d \in Reached(r[1].from, AllTokens(G))
  PROVE  \E i \in 1 .. 3 : Improves(d, r[i])
<1>1. /\ r[1] \in G /\ r[2] \in G /\ r[3] \in G
      /\ r[1].to = r[2].from /\ r[2].to = r[3].from /\ r[3].to = r[1].from
      /\ r[1].weight + r[2].weight + r[3].weight < 0
  BY DEF TrianglesOf
<1>2. PICK D : d \in [D -> Int] /\ r[1].from \in D
  BY DEF Reached
<1>3. /\ r[1].weight \in Int /\ r[2].weight \in Int /\ r[3].weight \in Int
      /\ r[1].weight # Dead /\ r[2].weight # Dead /\ r[3].weight # Dead
  BY <1>1 DEF IsGraph, Dead
<1> SUFFICES ASSUME ~ Improves(d, r[1]), ~ Improves(d, r[2]), ~ Improves(d, r[3])
             PROVE  FALSE
  OBVIOUS
<1>4. r[2].from \in D /\ d[r[1].from] + r[1].weight >= d[r[2].from]
  BY <1>1, <1>2, <1>3 DEF Improves
<1>5. r[3].from \in D /\ d[r[2].from] + r[2].weight >= d[r[3].from]
  BY <1>1, <1>2, <1>3, <1>4 DEF Improves
<1>6. d[r[3].from] + r[3].weight >= d[r[1].from]
  BY <1>1, <1>2, <1>3, <1>5 DEF Improves
<1>7. d[r[1].from] \in Int /\ d[r[2].from] \in Int /\ d[r[3].from] \in Int
  BY <1>2, <1>4, <1>5
<1> DEFINE x == d[r[1].from]
           y == d[r[2].from]
           z == d[r[3].from]
<1>8. x \in Int /\ y \in Int /\ z \in Int /\ x + r[1].weight >= y /\ y + r[2].weight >= z /\ z + r[3].weight >= x
  BY <1>4, <1>5, <1>6, <1>7
<1> HIDE DEF x, y, z
<1>9. QED
  BY <1>1, <1>3, <1>8

-----------------------------------------------------------------------------
(* The order of the edges *)

(* A finite set can be listed. *)
LEMMA SetToSeqType ==
  ASSUME NEW S, IsFiniteSet(S)
  PROVE  SetToSeq(S) \in Seq(S)
<1>1. Cardinality(S) \in Nat /\ ExistsBijection(1 .. Cardinality(S), S)
  BY FS_CardinalityType
<1>2. PICK f : f \in [1 .. Cardinality(S) -> S] /\ IsInjective(f)
  BY <1>1, Zenon DEF ExistsBijection, Bijection, Injection
<1>3. SetToSeq(S) \in [1 .. Cardinality(S) -> S]
  BY <1>2, Zenon DEF SetToSeq
<1>4. QED
  BY <1>1, <1>3

(* Sequences laid end to end are one. *)
LEMMA FlattenSeqType ==
  ASSUME NEW S, NEW n \in Nat, NEW seqs \in [1 .. n -> Seq(S)]
  PROVE  FlattenSeq(seqs) \in Seq(S)
<1>1. Len(seqs) = n
  OBVIOUS
<1>2. CASE n = 0
  <2>1. FlattenSeq(seqs) = seqs
    BY <1>1, <1>2, Zenon DEF FlattenSeq
  <2>2. seqs = <<>>
    BY <1>2
  <2>3. QED
    BY <2>1, <2>2
<1>3. CASE n # 0
  <2> DEFINE last == n - 1
             step == [k \in 1 .. last |-> [s \in Seq(S) |-> s \o seqs[k + 1]]]
             flatten[i \in 1 .. Len(seqs)] == IF i = 1 THEN seqs[i] ELSE flatten[i - 1] \o seqs[i]
  <2>1. FlattenSeq(seqs) = flatten[n]
    BY <1>1, <1>3, Zenon DEF FlattenSeq
  <2>2. last \in Nat /\ seqs[1] \in Seq(S)
    BY <1>3
  <2>3. \A k \in 1 .. last, s \in Seq(S) : step[k][s] = s \o seqs[k + 1] /\ step[k][s] \in Seq(S)
    <3>1. \A k \in 1 .. last : seqs[k + 1] \in Seq(S)
      OBVIOUS
    <3>2. \A k \in 1 .. last, s \in Seq(S) : step[k][s] = s \o seqs[k + 1]
      OBVIOUS
    <3>3. \A k \in 1 .. last, s \in Seq(S) : s \o seqs[k + 1] \in Seq(S)
      BY <3>1
    <3>4. QED
      BY <3>2, <3>3
  <2> HIDE DEF step, last
  <2>4. PICK f : Recursion(f, seqs[1], step, last, Seq(S))
    <3>1. Steps(step, last, Seq(S))
      BY <2>3 DEF Steps
    <3>2. QED
      BY <2>2, <3>1, RecursionExists
  <2> DEFINE g == [i \in 1 .. n |-> f[i - 1]]
  <2>5. g = [i \in 1 .. n |-> IF i = 1 THEN seqs[i] ELSE g[i - 1] \o seqs[i]]
    <3>1. f \in [0 .. last -> Seq(S)] /\ f[0] = seqs[1] /\ \A k \in 1 .. last : f[k] = step[k][f[k - 1]]
      BY <2>4 DEF Recursion
    <3>2. g[1] = seqs[1]
      BY <1>3, <3>1
    <3>3. ASSUME NEW i \in 1 .. n, i # 1
          PROVE  g[i] = g[i - 1] \o seqs[i]
      <4>1. i - 1 \in 1 .. last /\ i - 1 - 1 \in 0 .. last /\ i - 1 \in 1 .. n
        BY <3>3 DEF last
      <4>2. f[i - 1] = step[i - 1][f[i - 1 - 1]] /\ f[i - 1 - 1] \in Seq(S)
        BY <3>1, <4>1
      <4>3. step[i - 1][f[i - 1 - 1]] = f[i - 1 - 1] \o seqs[i - 1 + 1]
        BY <2>3, <4>1, <4>2
      <4>4. i - 1 + 1 = i /\ g[i] = f[i - 1] /\ g[i - 1] = f[i - 1 - 1]
        BY <4>1
      <4>5. QED
        BY <4>2, <4>3, <4>4
    <3>4. \A i \in 1 .. n : g[i] = IF i = 1 THEN seqs[i] ELSE g[i - 1] \o seqs[i]
      BY <3>2, <3>3, Zenon
    <3>5. g = [i \in 1 .. n |-> g[i]]
      OBVIOUS
    <3> HIDE DEF g
    <3>6. QED
      BY <3>4, <3>5
  <2> HIDE DEF g
  <2>6. flatten = [i \in 1 .. n |-> IF i = 1 THEN seqs[i] ELSE flatten[i - 1] \o seqs[i]]
    BY <1>1, <2>5, Zenon
  <2> HIDE DEF flatten
  <2> DEFINE Item(i) == IF i = 1 THEN seqs[i] ELSE flatten[i - 1] \o seqs[i]
  <2>7. \A i \in 1 .. n : flatten[i] = Item(i)
    <3>1. \A i \in 1 .. n : [j \in 1 .. n |-> Item(j)][i] = Item(i)
      BY Zenon
    <3>2. QED
      BY <2>6, <3>1, Zenon
  <2> DEFINE h == [k \in 0 .. last |-> flatten[k + 1]]
  <2>8. \A k \in 0 .. last : h[k] \in Seq(S)
    <3>1. h[0] \in Seq(S)
      BY <1>3, <2>2, <2>6 DEF last
    <3>2. ASSUME NEW k \in 1 .. last, h[k - 1] \in Seq(S)
          PROVE  h[k] \in Seq(S)
      <4>1. k + 1 \in 1 .. n /\ k + 1 # 1 /\ k + 1 - 1 = k /\ k - 1 \in 0 .. last /\ k - 1 + 1 = k /\ k \in 0 .. last
        BY DEF last
      <4>2. flatten[k + 1] = flatten[k] \o seqs[k + 1]
        <5>1. flatten[k + 1] = IF k + 1 = 1 THEN seqs[k + 1] ELSE flatten[k + 1 - 1] \o seqs[k + 1]
          <6>1. k + 1 \in 1 .. n
            BY <4>1
          <6>2. QED
            BY <2>7, <6>1
        <5>2. QED
          BY <4>1, <5>1
      <4>3. flatten[k] \in Seq(S) /\ seqs[k + 1] \in Seq(S)
        BY <3>2, <4>1
      <4>4. flatten[k] \o seqs[k + 1] \in Seq(S)
        BY <4>3
      <4>5. QED
        BY <4>1, <4>2, <4>4, Zenon
    <3> HIDE DEF h
    <3>3. QED
      BY <2>2, <3>1, <3>2, StaysWithin
  <2>9. last \in 0 .. last /\ last + 1 = n
    BY <1>3 DEF last
  <2>10. QED
    BY <2>1, <2>8, <2>9
<1>4. QED
  BY <1>2, <1>3

(* A graph has finitely many tokens. *)
LEMMA TokensFinite ==
  ASSUME NEW G, IsGraph(G)
  PROVE  IsFiniteSet(GraphTokens(G)) /\ Cardinality(GraphTokens(G)) \in Nat
<1> DEFINE from == [e \in G |-> e.from]
<1>1. from \in Surjection(G, GraphTokens(G))
  BY DEF Surjection, GraphTokens
<1> HIDE DEF from
<1>2. IsFiniteSet(GraphTokens(G))
  BY <1>1, FS_Surjection DEF IsGraph
<1>3. QED
  BY <1>2, FS_CardinalityType

(* An order of the edges is a sequence of edges. *)
LEMMA EdgeOrdersType ==
  ASSUME NEW G, IsGraph(G), NEW edgeSeq \in EdgeOrders(G)
  PROVE  edgeSeq \in Seq(G)
<1> DEFINE n == Cardinality(GraphTokens(G))
<1>1. PICK order \in SetToSeqs(GraphTokens(G)) :
        edgeSeq = FlattenSeq([i \in DOMAIN order |-> SetToSeq(Out(G, order[i]))])
  BY DEF EdgeOrders
<1>2. n \in Nat /\ DOMAIN order = 1 .. n
  BY TokensFinite DEF SetToSeqs
<1>3. \A t : SetToSeq(Out(G, t)) \in Seq(G)
  <2> SUFFICES ASSUME NEW t PROVE SetToSeq(Out(G, t)) \in Seq(G)
    OBVIOUS
  <2>1. Out(G, t) \in SUBSET G
    BY DEF Out
  <2>2. IsFiniteSet(Out(G, t))
    BY <2>1, FS_Subset DEF IsGraph
  <2>3. SetToSeq(Out(G, t)) \in Seq(Out(G, t))
    BY <2>2, SetToSeqType
  <2>4. QED
    BY <2>1, <2>3
<1> HIDE DEF n
<1> DEFINE outs == [i \in 1 .. n |-> SetToSeq(Out(G, order[i]))]
<1>4. outs \in [1 .. n -> Seq(G)]
  BY <1>3
<1>5. edgeSeq = FlattenSeq(outs)
  BY <1>1, <1>2
<1> HIDE DEF outs
<1>6. QED
  BY <1>2, <1>4, <1>5, FlattenSeqType

-----------------------------------------------------------------------------
(* The order of the routes *)

Weighed(found) == IsFiniteSet(found) /\ \A r \in found : RouteWeight(r) \in Int

IsLightest(r, rest) == r \in rest /\ \A s \in rest : RouteWeight(r) <= RouteWeight(s)

(* Of finitely many routes one is the best. *)
LEMMA LightestExists ==
  ASSUME NEW rest, Weighed(rest), rest # {}
  PROVE  \E r : IsLightest(r, rest)
<1>1. PICK n \in Nat : ExistsSurjection(1 .. n, rest)
  BY FS_NatSurjection DEF Weighed
<1>2. PICK f : f \in [1 .. n -> rest] /\ \A r \in rest : \E i \in 1 .. n : f[i] = r
  BY <1>1, Zenon DEF ExistsSurjection, Surjection
<1> DEFINE Least1(k) == \E i \in 1 .. k : \A j \in 1 .. k : RouteWeight(f[i]) <= RouteWeight(f[j])
           T == {k \in 0 .. n : k = 0 \/ Least1(k)}
<1>3. \A i \in 1 .. n : RouteWeight(f[i]) \in Int
  BY <1>2 DEF Weighed
<1>4. 0 \in T
  OBVIOUS
<1>5. ASSUME NEW k \in 1 .. n, k - 1 \in T
      PROVE  k \in T
  <2>1. CASE k = 1
    <3>1. RouteWeight(f[1]) <= RouteWeight(f[1])
      BY <1>3, <2>1
    <3>2. Least1(1)
      BY <3>1
    <3>3. QED
      BY <2>1, <3>2
  <2>2. CASE k # 1
    <3>1. PICK i \in 1 .. k - 1 : \A j \in 1 .. k - 1 : RouteWeight(f[i]) <= RouteWeight(f[j])
      BY <1>5, <2>2
    <3>2. /\ i \in 1 .. k /\ RouteWeight(f[i]) \in Int /\ RouteWeight(f[k]) \in Int
          /\ \A j \in 1 .. k : j = k \/ j \in 1 .. k - 1
          /\ \A j \in 1 .. k : RouteWeight(f[j]) \in Int
      BY <1>3
    <3>3. CASE RouteWeight(f[i]) <= RouteWeight(f[k])
      <4>1. Least1(k)
        BY <3>1, <3>2, <3>3
      <4>2. QED
        BY <4>1
    <3>4. CASE RouteWeight(f[k]) < RouteWeight(f[i])
      <4>1. ASSUME NEW j \in 1 .. k
            PROVE  RouteWeight(f[k]) <= RouteWeight(f[j])
        BY <3>1, <3>2, <3>4
      <4>2. Least1(k)
        BY <4>1
      <4>3. QED
        BY <4>2
    <3>5. QED
      BY <3>2, <3>3, <3>4
  <2>3. QED
    BY <2>1, <2>2
<1> HIDE DEF T
<1>6. \A k \in 0 .. n : k \in T
  BY <1>4, <1>5, BoundedInduction, Zenon
<1>7. n # 0
  BY <1>2
<1>8. PICK i \in 1 .. n : \A j \in 1 .. n : RouteWeight(f[i]) <= RouteWeight(f[j])
  BY <1>6, <1>7 DEF T
<1>9. IsLightest(f[i], rest)
  BY <1>2, <1>8 DEF IsLightest
<1>10. QED
  BY <1>9

(* The sorted routes are all of them, and the best comes first. *)
LEMMA BestFirstIs ==
  ASSUME NEW found, Weighed(found)
  PROVE  LET n == Cardinality(found)
         IN /\ n \in Nat /\ BestFirst(found) \in [1 .. n -> found]
            /\ found # {} => n > 0 /\ IsLightest(BestFirst(found)[1], found)
<1> DEFINE Best(rest) == CHOOSE r \in rest : \A s \in rest : RouteWeight(r) <= RouteWeight(s)
           n == Cardinality(found)
           first[k \in 0 .. Cardinality(found)] ==
             IF k = 0 THEN <<>> ELSE Append(first[k - 1], Best(found \ ToSet(first[k - 1])))
           S == Seq(found \cup {Best({})})
           step == [k \in 1 .. n |-> [s \in S |-> Append(s, Best(found \ ToSet(s)))]]
<1>1. BestFirst(found) = first[n]
  BY Zenon DEF BestFirst
<1>2. n \in Nat
  BY FS_CardinalityType DEF Weighed
<1>3. ASSUME NEW rest \in SUBSET found, rest # {}
      PROVE  IsLightest(Best(rest), rest)
  <2>1. Weighed(rest)
    BY FS_Subset DEF Weighed
  <2>2. PICK r : IsLightest(r, rest)
    BY <1>3, <2>1, LightestExists
  <2>3. QED
    BY <2>2, Zenon DEF IsLightest
<1>4. \A rest \in SUBSET found : Best(rest) \in found \cup {Best({})}
  <2> SUFFICES ASSUME NEW rest \in SUBSET found
               PROVE  Best(rest) \in found \cup {Best({})}
    OBVIOUS
  <2>1. CASE rest = {}
    BY <2>1
  <2>2. CASE rest # {}
    <3>1. Best(rest) \in rest
      BY <1>3, <2>2, Zenon DEF IsLightest
    <3> HIDE DEF Best
    <3>2. QED
      BY <3>1
  <2>3. QED
    BY <2>1, <2>2
<1> HIDE DEF Best, n
<1>5. \A k \in 1 .. n, s \in S : step[k][s] = Append(s, Best(found \ ToSet(s)))
  OBVIOUS
<1>6. \A s \in S : Append(s, Best(found \ ToSet(s))) \in S
  BY <1>4
<1> HIDE DEF step
<1>7. PICK f : Recursion(f, <<>>, step, n, S)
  <2>1. Steps(step, n, S)
    BY <1>5, <1>6 DEF Steps
  <2>2. <<>> \in S
    OBVIOUS
  <2> HIDE DEF S
  <2>3. QED
    BY <1>2, <2>1, <2>2, RecursionExists
<1> HIDE DEF S
<1>8. f = [k \in 0 .. n |-> IF k = 0 THEN <<>> ELSE Append(f[k - 1], Best(found \ ToSet(f[k - 1])))]
  <2>1. f \in [0 .. n -> S] /\ f[0] = <<>> /\ \A k \in 1 .. n : f[k] = step[k][f[k - 1]]
    BY <1>7 DEF Recursion
  <2>2. \A k \in 1 .. n : f[k] = Append(f[k - 1], Best(found \ ToSet(f[k - 1])))
    <3> SUFFICES ASSUME NEW k \in 1 .. n
                 PROVE  f[k] = Append(f[k - 1], Best(found \ ToSet(f[k - 1])))
      OBVIOUS
    <3>1. f[k - 1] \in S
      <4>1. k - 1 \in 0 .. n
        BY <1>2
      <4>2. QED
        BY <2>1, <4>1
    <3>2. QED
      BY <1>5, <2>1, <3>1
  <2> DEFINE Item(k) == IF k = 0 THEN <<>> ELSE Append(f[k - 1], Best(found \ ToSet(f[k - 1])))
  <2>3. f = [k \in 0 .. n |-> f[k]]
    BY <2>1
  <2>4. \A k \in 0 .. n : k = 0 \/ k \in 1 .. n
    BY <1>2
  <2>5. \A k \in 0 .. n : f[k] = Item(k)
    BY <1>2, <2>1, <2>2, <2>4
  <2> HIDE DEF Item
  <2>6. f = [k \in 0 .. n |-> Item(k)]
    BY <2>3, <2>5, Zenon
  <2>7. QED
    BY <2>6 DEF Item
<1>9. first = [k \in 0 .. n |-> IF k = 0 THEN <<>> ELSE Append(first[k - 1], Best(found \ ToSet(first[k - 1])))]
  BY <1>8, Zenon DEF n
<1>10. first[0] = <<>> /\ \A k \in 1 .. n : first[k] = Append(first[k - 1], Best(found \ ToSet(first[k - 1])))
  <2> HIDE DEF first
  <2> DEFINE Item(k) == IF k = 0 THEN <<>> ELSE Append(first[k - 1], Best(found \ ToSet(first[k - 1])))
  <2>1. first = [k \in 0 .. n |-> Item(k)]
    BY <1>9, Zenon
  <2> HIDE DEF Item
  <2>2. \A k \in 0 .. n : first[k] = Item(k)
    BY <2>1
  <2>3. 0 \in 0 .. n /\ \A k \in 1 .. n : k \in 0 .. n /\ k # 0
    BY <1>2
  <2>4. QED
    BY <2>2, <2>3 DEF Item
<1> HIDE DEF first
<1> DEFINE T == {k \in 0 .. n : /\ first[k] \in [1 .. k -> found]
                                /\ k > 0 => first[k][1] = Best(found)}
<1>11. 0 \in T
  <2>1. <<>> \in [1 .. 0 -> found] /\ 0 \in 0 .. n /\ ~ (0 > 0)
    BY <1>2
  <2>2. QED
    BY <1>10, <2>1, Zenon
<1>12. ASSUME NEW k \in 1 .. n, k - 1 \in T
       PROVE  k \in T
  <2> DEFINE s == first[k - 1]
             rest == found \ ToSet(s)
  <2>1. s \in [1 .. k - 1 -> found] /\ k - 1 \in Nat
    BY <1>12
  <2>2. s \in Seq(found) /\ Len(s) = k - 1 /\ DOMAIN s = 1 .. k - 1
    BY <2>1
  <2>3. ToSet(s) \subseteq found /\ \A x \in ToSet(s) : \E i \in 1 .. k - 1 : s[i] = x
    BY <2>1, <2>2 DEF ToSet
  <2> HIDE DEF s
  <2>4. rest # {}
    <3> SUFFICES ASSUME found \subseteq ToSet(s)
                 PROVE  FALSE
      OBVIOUS
    <3>1. s \in Surjection(1 .. k - 1, found)
      BY <2>1, <2>3 DEF Surjection
    <3>2. Cardinality(found) <= k - 1
      BY <2>1, <3>1, FS_SurjCardinalityBound DEF ExistsSurjection
    <3>3. QED
      BY <1>2, <3>2 DEF n
  <2>5. Best(rest) \in found
    BY <1>3, <2>4 DEF IsLightest
  <2>6. first[k] = Append(s, Best(rest))
    BY <1>10 DEF s
  <2> DEFINE b == Best(rest)
  <2> HIDE DEF b
  <2>7. Append(s, b) = [i \in 1 .. k |-> IF i = k THEN b ELSE s[i]]
    <3>1. Len(s) + 1 = k
      BY <2>2
    <3>2. \A i \in 1 .. k : i \in 1 .. Len(s) <=> i # k
      BY <3>1
    <3>3. b \in found /\ s \in Seq(found)
      BY <2>2, <2>5 DEF b
    <3>4. Append(s, b) \in Seq(found) /\ Len(Append(s, b)) = k
      BY <3>1, <3>3
    <3>5. Append(s, b)[k] = b /\ \A i \in 1 .. k - 1 : Append(s, b)[i] = s[i]
      BY <3>1, <3>3
    <3> DEFINE t == Append(s, b)
    <3>6. t = [i \in 1 .. k |-> t[i]]
      <4> HIDE DEF t
      <4>1. t \in Seq(found) /\ Len(t) = k
        BY <3>4 DEF t
      <4>2. t \in [1 .. k -> found]
        BY <4>1, SeqIsFunction
      <4>3. QED
        BY <4>2
    <3>7. \A i \in 1 .. k : t[i] = IF i = k THEN b ELSE s[i]
      <4>1. \A i \in 1 .. k : i = k \/ i \in 1 .. k - 1
        BY <1>2
      <4> HIDE DEF t
      <4>2. t[k] = b /\ \A i \in 1 .. k - 1 : t[i] = s[i]
        BY <3>5 DEF t
      <4>3. QED
        BY <4>1, <4>2
    <3> HIDE DEF t
    <3>8. t = [i \in 1 .. k |-> IF i = k THEN b ELSE s[i]]
      BY <3>6, <3>7
    <3>9. QED
      BY <3>8 DEF t
  <2>8. first[k] \in [1 .. k -> found]
    <3>1. \A i \in 1 .. k : i = k \/ i \in 1 .. k - 1
      OBVIOUS
    <3>2. b \in found
      BY <2>5 DEF b
    <3>3. \A i \in 1 .. k : (IF i = k THEN b ELSE s[i]) \in found
      BY <2>1, <3>1, <3>2
    <3>4. first[k] = [i \in 1 .. k |-> IF i = k THEN b ELSE s[i]]
      BY <2>6, <2>7 DEF b
    <3>5. QED
      BY <3>3, <3>4
  <2>9. first[k][1] = Best(found)
    <3>1. CASE k = 1
      <4>1. first[k][1] = b
        BY <2>6, <2>7, <3>1 DEF b
      <4>2. ToSet(s) = {}
        BY <2>2, <3>1 DEF ToSet
      <4>3. QED
        BY <4>1, <4>2 DEF b
    <3>2. CASE k # 1
      <4>1. first[k][1] = s[1]
        BY <2>6, <2>7, <3>2 DEF b
      <4>2. s[1] = Best(found)
        BY <1>12, <3>2 DEF s
      <4>3. QED
        BY <4>1, <4>2
    <3>3. QED
      BY <3>1, <3>2
  <2>10. QED
    BY <2>8, <2>9
<1> HIDE DEF T
<1>13. \A k \in 0 .. n : k \in T
  BY <1>2, <1>11, <1>12, BoundedInduction, Zenon
<1>14. first[n] \in [1 .. n -> found] /\ (n > 0 => first[n][1] = Best(found))
  BY <1>2, <1>13 DEF T
<1>15. found # {} => n > 0 /\ IsLightest(Best(found), found)
  <2>1. found # {} => IsLightest(Best(found), found)
    BY <1>3
  <2>2. found # {} => n # 0
    BY FS_EmptySet DEF n, Weighed
  <2>3. QED
    BY <1>2, <2>1, <2>2
<1>16. QED
  BY <1>1, <1>2, <1>14, <1>15 DEF n

-----------------------------------------------------------------------------
(* What a search returns *)

(* The triangles of a graph are finitely many, and each has a weight. *)
LEMMA TrianglesWeighed ==
  ASSUME NEW G, IsGraph(G), NEW found \in SUBSET TrianglesOf(G)
  PROVE  Weighed(found)
<1>1. ASSUME NEW r \in found
      PROVE  RouteWeight(r) \in Int
  <2>1. /\ r[1] \in G /\ r[2] \in G /\ r[3] \in G
        /\ r = <<r[1], r[2], r[3]>>
    <3>1. r \in TrianglesOf(G)
      OBVIOUS
    <3>2. QED
      BY <3>1 DEF TrianglesOf
  <2>2. r[1].weight \in Int /\ r[2].weight \in Int /\ r[3].weight \in Int
    BY <2>1 DEF IsGraph
  <2>3. RouteWeight(<<r[1], r[2], r[3]>>) = r[1].weight + r[2].weight + r[3].weight
    BY <2>2, TriangleWeight
  <2>4. QED
    BY <2>1, <2>2, <2>3
<1>2. IsFiniteSet(found)
  <2> DEFINE pairs == G \X (G \X G)
             triples == G \X G \X G
             f == [t \in pairs |-> <<t[1], t[2][1], t[2][2]>>]
  <2>1. IsFiniteSet(pairs)
    BY FS_Product DEF IsGraph
  <2>2. f \in Surjection(pairs, triples)
    <3>1. f \in [pairs -> triples]
      OBVIOUS
    <3>2. ASSUME NEW r \in triples
          PROVE  \E t \in pairs : f[t] = r
      <4>1. <<r[1], <<r[2], r[3]>>>> \in pairs /\ r = <<r[1], r[2], r[3]>>
        OBVIOUS
      <4>2. f[<<r[1], <<r[2], r[3]>>>>] = r
        BY <4>1
      <4>3. QED
        BY <4>1, <4>2
    <3> HIDE DEF f, pairs, triples
    <3>3. QED
      BY <3>1, <3>2 DEF Surjection
  <2> HIDE DEF f, pairs
  <2>3. IsFiniteSet(triples)
    BY <2>1, <2>2, FS_Surjection
  <2>4. found \in SUBSET triples
    <3>1. ASSUME NEW r \in TrianglesOf(G)
          PROVE  r \in triples
      BY DEF TrianglesOf
    <3> HIDE DEF triples
    <3>2. QED
      BY <3>1
  <2> HIDE DEF triples
  <2>5. QED
    BY <2>3, <2>4, FS_Subset
<1>3. QED
  BY <1>1, <1>2 DEF Weighed

(* Turned to start at its second or third edge, a triangle stays one. *)
LEMMA Turned ==
  ASSUME NEW G, IsGraph(G), NEW r \in TrianglesOf(G), NEW i \in 1 .. 3
  PROVE  \E t \in TrianglesOf(G) : t[1] = r[i] /\ RouteWeight(t) = RouteWeight(r)
<1>1. /\ r[1] \in G /\ r[2] \in G /\ r[3] \in G /\ r = <<r[1], r[2], r[3]>>
      /\ r[1].to = r[2].from /\ r[2].to = r[3].from /\ r[3].to = r[1].from
      /\ Cardinality({r[1].from, r[2].from, r[3].from}) = 3
      /\ r[1].weight + r[2].weight + r[3].weight < 0
  BY DEF TrianglesOf
<1>2. r[1].weight \in Int /\ r[2].weight \in Int /\ r[3].weight \in Int
  BY <1>1 DEF IsGraph
<1>3. /\ {r[2].from, r[3].from, r[1].from} = {r[1].from, r[2].from, r[3].from}
      /\ {r[3].from, r[1].from, r[2].from} = {r[1].from, r[2].from, r[3].from}
  OBVIOUS
<1> DEFINE second == <<r[2], r[3], r[1]>>
           third == <<r[3], r[1], r[2]>>
<1>4. /\ second \in G \X G \X G /\ second[1] = r[2] /\ second[2] = r[3] /\ second[3] = r[1]
      /\ third \in G \X G \X G /\ third[1] = r[3] /\ third[2] = r[1] /\ third[3] = r[2]
  BY <1>1
<1>5. /\ RouteWeight(second) = r[2].weight + r[3].weight + r[1].weight
      /\ RouteWeight(third) = r[3].weight + r[1].weight + r[2].weight
      /\ RouteWeight(r) = r[1].weight + r[2].weight + r[3].weight
  BY <1>1, <1>2, TriangleWeight
<1> HIDE DEF second, third
<1>6. second \in TrianglesOf(G) /\ third \in TrianglesOf(G)
  <2>1. r[2].weight + r[3].weight + r[1].weight < 0 /\ r[3].weight + r[1].weight + r[2].weight < 0
    BY <1>1, <1>2
  <2>2. /\ Cardinality({r[2].from, r[3].from, r[1].from}) = 3
        /\ Cardinality({r[3].from, r[1].from, r[2].from}) = 3
    BY <1>1, <1>3, Zenon
  <2>3. second \in TrianglesOf(G)
    BY <1>1, <1>4, <2>1, <2>2, Zenon DEF TrianglesOf
  <2>4. third \in TrianglesOf(G)
    BY <1>1, <1>4, <2>1, <2>2, Zenon DEF TrianglesOf
  <2>5. QED
    BY <2>3, <2>4
<1>7. CASE i = 1
  BY <1>7
<1>8. CASE i = 2
  BY <1>2, <1>4, <1>5, <1>6, <1>8
<1>9. CASE i = 3
  BY <1>2, <1>4, <1>5, <1>6, <1>9
<1>10. QED
  BY <1>7, <1>8, <1>9

(* The best triangle is found from the start it has in common with an edge *)
(* that still improves, comes first in the order and stays.                *)
LEMMA BellmanFordKeeps ==
  ASSUME NEW G, IsGraph(G), NEW edgeSeq \in Seq(G)
  PROVE  /\ BellmanFordCycles(G, edgeSeq) \subseteq TrianglesOf(G)
         /\ \A t \in TrianglesOf(G) :
              \E r \in BellmanFordCycles(G, edgeSeq) : RouteWeight(r) <= RouteWeight(t)
<1> DEFINE found == UNION {DfsRecurse(G, start) : start \in CycleStarts(G, edgeSeq)}
           n == Cardinality(found)
           sorted == BestFirst(found)
<1>1. found \subseteq TrianglesOf(G)
  BY DfsCyclesAre
<1>2. BellmanFordCycles(G, edgeSeq) = Dedup(sorted)
  BY DEF BellmanFordCycles
<1> HIDE DEF found
<1>3. Weighed(found)
  BY <1>1, TrianglesWeighed
<1>4. /\ n \in Nat /\ sorted \in [1 .. n -> found]
      /\ found # {} => n > 0 /\ IsLightest(sorted[1], found)
  BY <1>3, BestFirstIs
<1> HIDE DEF n, sorted
<1>5. Dedup(sorted) \subseteq found /\ (n > 0 => sorted[1] \in Dedup(sorted))
  BY <1>4 DEF Dedup
<1>6. ASSUME NEW t \in TrianglesOf(G)
      PROVE  \E r \in Dedup(sorted) : RouteWeight(r) <= RouteWeight(t)
  <2>1. t[1] \in G /\ t[1].from \in GraphTokens(G)
    BY DEF TrianglesOf, GraphTokens
  <2> DEFINE d == Distances(G, t[1].from, edgeSeq)
  <2>2. d \in Reached(t[1].from, AllTokens(G))
    BY <2>1, DistancesType
  <2>3. PICK i \in 1 .. 3 : Improves(d, t[i])
    BY <2>2, OneImproves
  <2>4. PICK u \in TrianglesOf(G) : u[1] = t[i] /\ RouteWeight(u) = RouteWeight(t)
    BY Turned
  <2>5. u[1].from \in CycleStarts(G, edgeSeq)
    <3>1. u[1] \in G
      BY <2>4 DEF TrianglesOf
    <3>2. QED
      BY <2>1, <2>3, <2>4, <3>1 DEF CycleStarts
  <2>6. u \in found
    BY <2>5, DfsCyclesAre DEF found
  <2>7. RouteWeight(sorted[1]) <= RouteWeight(u)
    BY <1>4, <2>6 DEF IsLightest
  <2>8. QED
    BY <1>4, <1>5, <2>4, <2>6, <2>7
<1>7. QED
  BY <1>1, <1>2, <1>5, <1>6

(* Whichever search is chosen, it returns triangles and the best of them. *)
LEMMA CyclesFound ==
  ASSUME NEW G, IsGraph(G), NEW edgeSeq \in EdgeOrders(G)
  PROVE  /\ FindCycles(G, edgeSeq) \subseteq TrianglesOf(G)
         /\ Cardinality(GraphTokens(G)) <= DfsLimit => FindCycles(G, edgeSeq) = TrianglesOf(G)
         /\ \A t \in TrianglesOf(G) : \E r \in FindCycles(G, edgeSeq) : RouteWeight(r) <= RouteWeight(t)
<1>1. CASE Cardinality(GraphTokens(G)) <= DfsLimit
  <2>1. FindCycles(G, edgeSeq) = TrianglesOf(G)
    BY <1>1, DfsCyclesAre DEF FindCycles
  <2>2. \A t \in TrianglesOf(G) : RouteWeight(t) <= RouteWeight(t)
    BY TrianglesWeighed DEF Weighed
  <2>3. QED
    BY <2>1, <2>2
<1>2. CASE ~ (Cardinality(GraphTokens(G)) <= DfsLimit)
  BY <1>2, EdgeOrdersType, BellmanFordKeeps DEF FindCycles
<1>3. QED
  BY <1>1, <1>2

-----------------------------------------------------------------------------
(* The graph that was searched is built from the reserves of the call, and *)
(* nothing outlives the call.                                              *)
GraphInv ==
  /\ \E registered \in SUBSET Pools : poolStates \in [registered -> Quotes]
  /\ graph = {} => routes = {}
  /\ RoutesAreTriangles /\ BestRouteKept

(* ArbGraph::build *)
LEMMA EdgesAre ==
  ASSUME NEW registered \in SUBSET Pools, NEW states \in [registered -> Quotes]
  PROVE  IsGraph(Edges(states))
<1> DEFINE There(p) == [pool |-> p, from |-> p.a, to |-> p.b, weight |-> states[p].ab]
           Back(p) == [pool |-> p, from |-> p.b, to |-> p.a, weight |-> states[p].ba]
           there == [p \in registered |-> There(p)]
           back == [p \in registered |-> Back(p)]
           heres == {There(p) : p \in registered}
           backs == {Back(p) : p \in registered}
<1>1. IsFiniteSet(registered)
  BY GraphAssumption, FS_Subset
<1>2. IsFiniteSet(heres)
  <2>1. there \in Surjection(registered, heres)
    BY DEF Surjection
  <2> HIDE DEF there, heres
  <2>2. QED
    BY <1>1, <2>1, FS_Surjection
<1>3. IsFiniteSet(backs)
  <2>1. back \in Surjection(registered, backs)
    BY DEF Surjection
  <2> HIDE DEF back, backs
  <2>2. QED
    BY <1>1, <2>1, FS_Surjection
<1>4. Edges(states) = heres \cup backs
  BY DEF Edges
<1>5. \A p \in registered : p \in Pools /\ p.a # p.b /\ states[p] \in Quotes
  BY GraphAssumption
<1>6. ASSUME NEW e \in Edges(states)
      PROVE  e.weight \in Int /\ 2 * e.weight > -Dead /\ e.from # e.to
  <2>1. PICK p \in registered : e = There(p) \/ e = Back(p)
    BY <1>4
  <2>2. /\ states[p].ab \in Int /\ states[p].ba \in Int
        /\ 2 * states[p].ab > -Dead /\ 2 * states[p].ba > -Dead
    BY <1>5, GraphAssumption
  <2>3. QED
    BY <1>5, <2>1, <2>2
<1>7. IsFiniteSet(heres \cup backs)
  BY <1>2, <1>3, FS_Union
<1>8. QED
  BY <1>4, <1>6, <1>7 DEF IsGraph

(* The pools change between the calls only. *)
LEMMA GraphInvHolds == GraphSpec => []GraphInv
<1>1. GraphInit => GraphInv
  <2> SUFFICES ASSUME GraphInit PROVE GraphInv
    OBVIOUS
  <2>1. Triangles = {}
    BY DEF GraphInit, Triangles
  <2>2. RoutesAreTriangles
    BY <2>1 DEF GraphInit, RoutesAreTriangles
  <2>3. QED
    BY <2>1, <2>2 DEF GraphInit, GraphInv, BestRouteKept
<1>2. GraphInv /\ [GraphNext]_arbVars => GraphInv'
  <2> SUFFICES ASSUME GraphInv, [GraphNext]_arbVars PROVE GraphInv'
    OBVIOUS
  <2>1. PICK registered \in SUBSET Pools : poolStates \in [registered -> Quotes]
    BY DEF GraphInv
  <2>2. ASSUME graph' = {}, routes' = {}
        PROVE  RoutesAreTriangles' /\ BestRouteKept'
    <3>1. Triangles' = {}
      BY <2>2 DEF Triangles
    <3>2. QED
      BY <2>2, <3>1 DEF RoutesAreTriangles, BestRouteKept
  <2>3. CASE Search
    <3>1. poolStates' = poolStates /\ graph' = Edges(poolStates)
      BY <2>3 DEF Search
    <3>2. CASE graph' = {}
      <4>1. routes' = {}
        BY <2>3, <3>2 DEF Search
      <4>2. QED
        BY <2>1, <2>2, <3>1, <3>2, <4>1 DEF GraphInv
    <3>3. CASE graph' # {}
      <4>1. PICK edgeSeq \in EdgeOrders(graph') : routes' = FindCycles(graph', edgeSeq)
        BY <2>3, <3>3 DEF Search
      <4>2. IsGraph(graph')
        BY <2>1, <3>1, EdgesAre
      <4>3. Triangles' = TrianglesOf(graph')
        BY DEF Triangles, TrianglesOf
      <4>4. RoutesAreTriangles' /\ BestRouteKept'
        BY <4>1, <4>2, <4>3, CyclesFound DEF RoutesAreTriangles, BestRouteKept
      <4>5. QED
        BY <2>1, <3>1, <3>3, <4>4 DEF GraphInv
    <3>4. QED
      BY <3>2, <3>3
  <2>4. CASE Return
    BY <2>1, <2>2, <2>4 DEF Return, GraphInv
  <2>5. ASSUME NEW p \in DOMAIN poolStates, UpdatePool(p)
        PROVE  GraphInv'
    <3>1. PICK q \in Quotes : poolStates' = [poolStates EXCEPT ![p] = q]
      BY <2>5 DEF UpdatePool
    <3>2. poolStates' \in [registered -> Quotes]
      BY <2>1, <3>1
    <3>3. graph' = {} /\ routes' = {}
      BY <2>5 DEF UpdatePool, GraphInv
    <3>4. QED
      BY <2>2, <3>2, <3>3 DEF GraphInv
  <2>6. CASE UNCHANGED arbVars
    BY <2>6 DEF arbVars, GraphInv, RoutesAreTriangles, BestRouteKept, Triangles
  <2>7. QED
    BY <2>3, <2>4, <2>5, <2>6 DEF GraphNext
<1>3. QED
  BY <1>1, <1>2, PTL DEF GraphSpec

(* What S3's search returns are profitable triangles of the graph it was   *)
(* given, and of a graph that is small enough for dfs_cycles all of them,  *)
(* for any pools and reserves.                                             *)
THEOREM TrianglesAreFound == GraphSpec => []RoutesAreTriangles
<1>1. GraphInv => RoutesAreTriangles
  BY DEF GraphInv
<1>2. QED
  BY <1>1, GraphInvHolds, PTL

(* Neither the order the HashMap gives the edges in, nor the rounds of     *)
(* bellman_ford_cycles, nor its deduplication lose the best triangle.      *)
THEOREM BestIsKept == GraphSpec => []BestRouteKept
<1>1. GraphInv => BestRouteKept
  BY DEF GraphInv
<1>2. QED
  BY <1>1, GraphInvHolds, PTL

=============================================================================
