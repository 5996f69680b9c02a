---- MODULE MCWalletPool ----
(* WalletPool for TLC.  Wallets are not interchangeable, because a scan visits *)
(* them in index order, and the liveness property rules out symmetry of tasks. *)
EXTENDS WalletPool
====
