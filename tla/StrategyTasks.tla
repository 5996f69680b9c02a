--------------------------- MODULE StrategyTasks ---------------------------
(***************************************************************************)
(* The tokio tasks spawn_strategies starts (bot/src/main.rs): each runs    *)
(* one strategy's attempts one after another, all of them concurrently.    *)
(***************************************************************************)
CONSTANT Tasks
=============================================================================
