-------------------------- MODULE WalletOwnership --------------------------
(***************************************************************************)
(* What the wallet pool's calls amount to for its callers: ownership of    *)
(* wallets, handed over in one atomic step.  An acquire gives one free     *)
(* wallet to the caller; the scan of wallet_pool.rs also takes the other   *)
(* free wallets it passed out of service, and they never come back.        *)
(***************************************************************************)
EXTENDS Naturals

CONSTANTS Tasks, NumWallets, Free, Lost

Wallets == 0 .. NumWallets - 1

VARIABLE owner  \* the task a wallet serves, or Free, or Lost

Init == owner = [w \in Wallets |-> Free]

(* The caller gets w; the scan may have taken other free wallets along,    *)
(* and those leave service.                                                *)
Acquire(t, w) ==
  /\ \A x \in Wallets : owner[x] # t
  /\ owner[w] = Free
  /\ owner' \in [Wallets -> Tasks \cup {Free, Lost}]
  /\ owner'[w] = t
  /\ \A x \in Wallets \ {w} :
       owner'[x] = owner[x] \/ (owner[x] = Free /\ owner'[x] = Lost)

Release(t, w) ==
  /\ owner[w] = t
  /\ owner' = [owner EXCEPT ![w] = Free]

(* A caller returns early and forgets the index it was given. *)
Drop(t, w) ==
  /\ owner[w] = t
  /\ owner' = [owner EXCEPT ![w] = Lost]

Next ==
  \E t \in Tasks : \E w \in Wallets : Acquire(t, w) \/ Release(t, w) \/ Drop(t, w)

Spec == Init /\ [][Next]_owner
=============================================================================
