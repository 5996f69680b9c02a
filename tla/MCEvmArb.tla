------------------------------ MODULE MCEvmArb ------------------------------
(* S1 with three ticks at a time and two wallets. *)
EXTENDS EvmArb
ThreeTicks == {"t1", "t2", "t3"}
=============================================================================
