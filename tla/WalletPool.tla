----------------------------- MODULE WalletPool -----------------------------
(***************************************************************************)
(* The pool of hot wallets (executor/src/wallet_pool.rs) under concurrent  *)
(* strategy tasks.  Slots hold atomics only; a task's calls interleave     *)
(* with the others' at every atomic access:                                *)
(*                                                                         *)
(*   acquire      one compare_exchange per slot (ScanSlot), then the pick  *)
(*   next_nonce   one fetch_add (TakeNonce)                                *)
(*   release      two stores: last_used_ms (StampRelease), then in_use     *)
(*                (ClearRelease)                                           *)
(*                                                                         *)
(* Every caller in the four strategies goes acquire, next_nonce, then      *)
(* either release or an early `?` return that drops the index.             *)
(***************************************************************************)
EXTENDS StrategyTasks, Naturals, FiniteSets

CONSTANTS
  NumWallets,  \* slots.len()
  Millis,      \* values SystemTime::now() may show at a release
  MaxNonce,    \* bound: no acquire starts once a nonce has reached it
  NoWallet     \* the None of acquire's Option<usize>

ASSUME PoolAssumption ==
  /\ NumWallets \in Nat \ {0}
  /\ Millis \subseteq Nat /\ Millis # {}
  /\ MaxNonce \in Nat
  /\ NoWallet \notin Nat
  /\ {"free", "lost"} \cap Tasks = {}

Wallets == 0 .. NumWallets - 1

VARIABLES
  inUse,     \* WalletSlot.in_use
  lastUsed,  \* WalletSlot.last_used_ms
  nonce,     \* WalletSlot.nonce, relative to its value at startup
  at,        \* where each task is in its use of the pool
  cursor,    \* next slot of the task's scan
  claimed,   \* slots the task's scan has flipped to in_use
  held,      \* the index acquire returned, until release or an early return
  dropped    \* history: a task has returned without releasing

slotVars == <<inUse, lastUsed, nonce>>
poolVars == <<inUse, lastUsed, nonce, at, cursor, claimed, held, dropped>>

PoolPoints == {"out", "scan", "held", "used", "stamped"}

PoolTypeOK ==
  /\ inUse \in [Wallets -> BOOLEAN]
  /\ lastUsed \in [Wallets -> Nat]
  /\ nonce \in [Wallets -> Nat]
  /\ at \in [Tasks -> PoolPoints]
  /\ cursor \in [Tasks -> 0 .. NumWallets]
  /\ claimed \in [Tasks -> SUBSET Wallets]
  /\ held \in [Tasks -> Wallets \cup {NoWallet}]
  /\ dropped \in BOOLEAN

(* WalletPool::new with the nonces fetched at startup *)
PoolInit ==
  /\ inUse = [w \in Wallets |-> FALSE]
  /\ lastUsed = [w \in Wallets |-> 0]
  /\ nonce = [w \in Wallets |-> 0]
  /\ at = [t \in Tasks |-> "out"]
  /\ cursor = [t \in Tasks |-> 0]
  /\ claimed = [t \in Tasks |-> {}]
  /\ held = [t \in Tasks |-> NoWallet]
  /\ dropped = FALSE

Move(t, from, to) == at[t] = from /\ at' = [at EXCEPT ![t] = to]

-----------------------------------------------------------------------------
(* acquire *)

BeginAcquire(t) ==
  /\ \A w \in Wallets : nonce[w] < MaxNonce
  /\ Move(t, "out", "scan")
  /\ cursor' = [cursor EXCEPT ![t] = 0]
  /\ UNCHANGED <<slotVars, claimed, held, dropped>>

(* Variant for mutation: the result of the compare_exchange is not tested. *)
ScanSlotUnchecked(t) ==
  /\ at[t] = "scan" /\ cursor[t] < NumWallets
  /\ inUse' = [inUse EXCEPT ![cursor[t]] = TRUE]
  /\ claimed' = [claimed EXCEPT ![t] = @ \cup {cursor[t]}]
  /\ cursor' = [cursor EXCEPT ![t] = @ + 1]
  /\ UNCHANGED <<lastUsed, nonce, at, held, dropped>>

(* The filter closure on one slot: a compare_exchange that claims it if it *)
(* is free.  The closure runs for every slot, claimed ones before it or not. *)
ScanSlot(t) ==
  /\ at[t] = "scan" /\ cursor[t] < NumWallets
  /\ inUse' = [inUse EXCEPT ![cursor[t]] = TRUE]
  /\ claimed' = [claimed EXCEPT ![t] =
                   IF inUse[cursor[t]] THEN @ ELSE @ \cup {cursor[t]}]
  /\ cursor' = [cursor EXCEPT ![t] = @ + 1]
  /\ UNCHANGED <<lastUsed, nonce, at, held, dropped>>

(* min_by_key: the first of the slots with the least last_used_ms *)
LeastRecent(w, S) ==
  /\ w \in S
  /\ \A x \in S \ {w} : \/ lastUsed[w] < lastUsed[x]
                        \/ lastUsed[w] = lastUsed[x] /\ w < x

(* Variant for mutation: the position is counted from one. *)
PickWalletFromOne(t) ==
  /\ cursor[t] = NumWallets
  /\ Move(t, "scan", "held")
  /\ \E w \in Wallets : /\ LeastRecent(w, claimed[t])
                        /\ held' = [held EXCEPT ![t] = w + 1]
  /\ claimed' = [claimed EXCEPT ![t] = {}]
  /\ UNCHANGED <<slotVars, cursor, dropped>>

PickWallet(t) ==
  /\ cursor[t] = NumWallets
  /\ Move(t, "scan", "held")
  /\ \E w \in Wallets : /\ LeastRecent(w, claimed[t])
                        /\ held' = [held EXCEPT ![t] = w]
  /\ claimed' = [claimed EXCEPT ![t] = {}]
  /\ UNCHANGED <<slotVars, cursor, dropped>>

NoneFree(t) ==
  /\ cursor[t] = NumWallets /\ claimed[t] = {}
  /\ Move(t, "scan", "out")
  /\ UNCHANGED <<slotVars, cursor, claimed, held, dropped>>

-----------------------------------------------------------------------------
(* next_nonce, release, and a caller that returns without release *)

(* Variant for mutation: next_nonce loads the counter without adding. *)
TakeNonceLoad(t) ==
  /\ Move(t, "held", "used")
  /\ UNCHANGED <<slotVars, cursor, claimed, held, dropped>>

TakeNonce(t) ==
  /\ Move(t, "held", "used")
  /\ nonce' = [nonce EXCEPT ![held[t]] = @ + 1]
  /\ UNCHANGED <<inUse, lastUsed, cursor, claimed, held, dropped>>

(* Variant for mutation: in_use is cleared before last_used_ms is written. *)
StampReleaseEarly(t) ==
  /\ Move(t, "used", "stamped")
  /\ \E now \in Millis : lastUsed' = [lastUsed EXCEPT ![held[t]] = now]
  /\ inUse' = [inUse EXCEPT ![held[t]] = FALSE]
  /\ UNCHANGED <<nonce, cursor, claimed, held, dropped>>

StampRelease(t) ==
  /\ Move(t, "used", "stamped")
  /\ \E now \in Millis : lastUsed' = [lastUsed EXCEPT ![held[t]] = now]
  /\ UNCHANGED <<inUse, nonce, cursor, claimed, held, dropped>>

(* Variant for mutation: release only stamps the slot. *)
ClearReleaseForgotten(t) ==
  /\ Move(t, "stamped", "out")
  /\ held' = [held EXCEPT ![t] = NoWallet]
  /\ UNCHANGED <<slotVars, cursor, claimed, dropped>>

ClearRelease(t) ==
  /\ Move(t, "stamped", "out")
  /\ inUse' = [inUse EXCEPT ![held[t]] = FALSE]
  /\ held' = [held EXCEPT ![t] = NoWallet]
  /\ UNCHANGED <<lastUsed, nonce, cursor, claimed, dropped>>

(* The `?` after build_raw_tx, in all four strategies, and after S1's      *)
(* submit_sync.                                                            *)
DropWallet(t) ==
  /\ Move(t, "used", "out")
  /\ held' = [held EXCEPT ![t] = NoWallet]
  /\ dropped' = TRUE
  /\ UNCHANGED <<slotVars, cursor, claimed>>

-----------------------------------------------------------------------------
PoolFinish(t) ==
  \/ ScanSlot(t) \/ PickWallet(t) \/ NoneFree(t)
  \/ TakeNonce(t) \/ StampRelease(t) \/ ClearRelease(t)

PoolNext == \E t \in Tasks : BeginAcquire(t) \/ PoolFinish(t) \/ DropWallet(t)

PoolSpec == PoolInit /\ [][PoolNext]_poolVars

(* A task that has started is polled to its end by the tokio runtime; that *)
(* a strategy finds another opportunity is promised by nothing.            *)
FairPoolSpec == PoolSpec /\ \A t \in Tasks : WF_poolVars(PoolFinish(t))

-----------------------------------------------------------------------------
(* Slots that can still serve a transaction: free, being scanned, or held. *)
Claimants(w) == {t \in Tasks : w \in claimed[t] \/ held[t] = w}
Usable == {w \in Wallets : ~inUse[w] \/ Claimants(w) # {}}

(* At most one task has a claim on a wallet, counting both the slots a     *)
(* running scan has flipped and the index acquire returned, and a claimed  *)
(* slot is never marked free: acquire is "race-free" (wallet_pool.rs:75).  *)
Exclusive ==
  /\ \A w \in Wallets : \A t, u \in Claimants(w) : t = u
  /\ \A w \in Wallets : Claimants(w) # {} => inUse[w]

(* However the scans interleave, the pool keeps a wallet that can serve,   *)
(* as long as callers have released what they were given.                  *)
NeverEmpty == ~dropped => Usable # {}

(* The key min_by_key compared is the key the slot still has when the pick *)
(* is made: nobody stamps a slot that a running scan has claimed.          *)
KeysStable ==
  [][\A t \in Tasks : \A w \in claimed[t] : lastUsed'[w] = lastUsed[w]]_poolVars

(* A nonce is only advanced by the task that holds the wallet, one at a    *)
(* time, so two transactions of a wallet never carry the same nonce.       *)
NonceByHolder ==
  [][\A w \in Wallets : nonce'[w] # nonce[w] =>
       /\ nonce'[w] = nonce[w] + 1
       /\ \E t \in Tasks : held[t] = w /\ \A u \in Tasks \ {t} : held[u] # w]_poolVars

(* The owner of a wallet as callers see it: a scan takes effect when it    *)
(* picks, so until then the slots it has flipped still count as free.      *)
OwnerOf(w) ==
  IF \E t \in Tasks : held[t] = w
    THEN CHOOSE t \in Tasks : held[t] = w
    ELSE IF w \in Usable THEN "free" ELSE "lost"

Ownership == INSTANCE WalletOwnership WITH
               Free <- "free", Lost <- "lost",
               owner <- [w \in Wallets |-> OwnerOf(w)]

(* The lock-free scan and the two-store release implement an atomic hand-  *)
(* over of ownership: acquire takes effect at its pick, release at its     *)
(* last store, and no other step changes who owns a wallet.                *)
AtomicHandover == Ownership!Spec

(* What "LRU acquire" and "None if all wallets are busy" say of the pool   *)
(* (wallet_pool.rs:72): when no scan is running and no caller has returned *)
(* without releasing, a wallet is marked in use only if a task was given   *)
(* it.                                                                     *)
InUseOnlyIfHeld ==
  ~dropped /\ (\A t \in Tasks : at[t] # "scan") =>
     \A w \in Wallets : inUse[w] => Claimants(w) # {}

(* Callers that release never run the pool dry for good: some wallet is    *)
(* free again and again, unless one has returned without releasing.        *)
PoolRecovers == []<>(dropped \/ \E w \in Wallets : ~inUse[w])
=============================================================================
