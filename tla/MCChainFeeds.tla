---------------------------- MODULE MCChainFeeds ----------------------------
(* Both loops with two pools, the second re-read after the first. *)
EXTENDS ChainFeeds
TwoPools == <<"p1", "p2">>
Swaps == [p1 |-> 1, p2 |-> 2]
=============================================================================
