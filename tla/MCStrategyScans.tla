-------------------------- MODULE MCStrategyScans ---------------------------
EXTENDS StrategyScans, ArbGraph

(* The scans and the graph search are synchronous computations that share  *)
(* nothing; the scans are explored beside the graph without a pool.        *)
MCInit == GraphInit /\ ScansInit
MCNext ==
  \/ GraphNext /\ UNCHANGED scan
  \/ poolStates = <<>> /\ ScansNext /\ UNCHANGED arbVars
MCSpec == MCInit /\ [][MCNext]_<<scan, arbVars>>

-----------------------------------------------------------------------------
Edge(a, b, n) == [a |-> a, b |-> b, id |-> n]

(* Two triangles that share an edge, one of them with a second pool. *)
MCPools ==
  {Edge("a", "b", 1), Edge("b", "c", 1), Edge("c", "a", 1), Edge("c", "d", 1),
   Edge("d", "a", 1), Edge("a", "b", 2)}

MCQuotes == {[ab |-> -1, ba |-> 2], [ab |-> 1, ba |-> 0], [ab |-> Dead, ba |-> Dead]}

-----------------------------------------------------------------------------

Pool(in, out, fee) == [in |-> in, out |-> out, fee |-> fee, amp |-> 0]
Stable(a, b, amp) == [a |-> a, b |-> b, first |-> TRUE, fee |-> 0, amp |-> amp]

MCRoutes == {<<Pool(in, out, fee), Pool(500, mid, 3), Pool(400, last, fee)>>
             : in \in {200, 400, 1000}, out \in {250, 500, 1000}, fee \in {0, 3, 30},
               mid \in {500, 800}, last \in {300, 600}}

(* Without amplification or with little, and pools as they are found, as   *)
(* large as the products of Newton's method leave them.                    *)
MCStables ==
  {<<Stable(a, b, amp), Stable(c, 6000, amp2)>>
   : a \in {2000, 6000}, b \in {3000, 6000}, c \in {3000, 5000, 6000},
     amp \in {0, 1, 2}, amp2 \in {0, 1, 2}}
  \cup
  {<<Stable(a, b, amp), Stable(c, 600, amp2)>>
   : a \in {300, 600}, b \in {400, 650}, c \in {350, 600, 620},
     amp \in {20, 200}, amp2 \in {20, 200}}

ArbPool(a, b, first, fee) == [a |-> a, b |-> b, first |-> first, fee |-> fee, amp |-> 0]
MCArbPools == {ArbPool(500, 1000, TRUE, 3), ArbPool(1000, 500, TRUE, 30), ArbPool(1000, 400, FALSE, 3),
               ArbPool(400, 1000, FALSE, 3), ArbPool(400, 4000, TRUE, 0)}

MCMultipliers == [strategy \in {"S3", "S4"} |-> IF strategy = "S3" THEN 5 ELSE 30]

MCBookTops == {[bid |-> bid, ask |-> bid + 1, mid |-> mid] : bid \in {0, 7, 10, 15}, mid \in {8, 20}}

MCTrades == {7 * k : k \in -12 .. 12} \ {0}

(* Up to two turns of a window of three. *)
MCHistories == {<<1>>, <<1, 3>>, <<3, 1, 2>>, <<1, 3, 3, 1>>, <<3, 1, 2, 4, 1>>, <<1, 1, 3, 2, 4, 4, 4>>}

Level(price, size) == [price |-> price, size |-> size]
MCBooks == {[bids |-> bids, size |-> size] :
            bids \in {<<>>, <<Level(10, 2)>>, <<Level(10, 2), Level(8, 1)>>,
                      <<Level(10, 1), Level(9, 2), Level(4, 3)>>, <<Level(0, 4)>>},
            size \in 0 .. 5}

Asset(token, amount) == [token |-> token, amount |-> amount]
Coll(token, amount) == [token |-> token, amount |-> amount, lt |-> 800]
MCPositions == {[collateral |-> coll, debt |-> debt] :
                coll \in {<<>>, <<Coll("t", 20)>>, <<Coll("t", 20), Coll("u", 40)>>},
                debt \in {<<>>, <<Asset("d", 30)>>, <<Asset("d", 10), Asset("t", 5)>>}}
MCPriceMaps == UNION {[known -> {0, 1, 10}] : known \in SUBSET {"d", "t", "u"}}
MCBonus == [t \in {"d", "t", "u"} |-> IF t = "d" THEN 1100 ELSE 1050]
=============================================================================
