-------------------------- MODULE WalletPoolProofs --------------------------
(***************************************************************************)
(* Proofs about WalletPool for any number of tasks and wallets.            *)
(***************************************************************************)
EXTENDS WalletPool, TLAPS

(* The inductive invariant: a scan's claims live only while it scans, an   *)
(* index only between the pick and the release, and no two claims overlap. *)
PhaseInv ==
  \A t \in Tasks :
    /\ claimed[t] # {} => at[t] = "scan"
    /\ held[t] # NoWallet <=> at[t] \in {"held", "used", "stamped"}

ClaimInv ==
  /\ \A t \in Tasks : \A w \in claimed[t] : inUse[w]
  /\ \A t \in Tasks : held[t] # NoWallet => inUse[held[t]]
  /\ \A t, u \in Tasks : t # u =>
       /\ claimed[t] \cap claimed[u] = {}
       /\ held[t] \notin claimed[u]
       /\ held[t] # NoWallet => held[t] # held[u]

PoolInv == PoolTypeOK /\ PhaseInv /\ ClaimInv

-----------------------------------------------------------------------------
(* The initial pool satisfies the invariant. *)
LEMMA PoolInvInit == PoolInit => PoolInv
<1> SUFFICES ASSUME PoolInit
             PROVE  PoolInv
  OBVIOUS
<1>1. PoolTypeOK
  <2>1. dropped \in BOOLEAN
    BY DEF PoolInit
  <2>2. 0 \in 0 .. NumWallets
    BY PoolAssumption
  <2>3. QED
    BY <2>1, <2>2 DEF PoolInit, PoolTypeOK, PoolPoints
<1>2. PhaseInv
  BY PoolAssumption DEF PoolInit, PhaseInv, Wallets
<1>3. ClaimInv
  BY PoolAssumption DEF PoolInit, ClaimInv, Wallets
<1>4. QED
  BY <1>1, <1>2, <1>3 DEF PoolInv

(* Every step of a pool call, as taken by a task, keeps the types. *)
LEMMA PoolTypeStep ==
  ASSUME PoolInv, PoolNext
  PROVE  PoolTypeOK'
<1> SUFFICES ASSUME NEW t \in Tasks,
                    BeginAcquire(t) \/ PoolFinish(t) \/ DropWallet(t)
             PROVE  PoolTypeOK'
  BY DEF PoolNext
<1> USE PoolAssumption DEF PoolTypeOK, PoolPoints, slotVars, Wallets, Move
<1>1. CASE BeginAcquire(t)
  <2>1. 0 \in 0 .. NumWallets
    OBVIOUS
  <2>2. cursor' \in [Tasks -> 0 .. NumWallets]
    BY <1>1, <2>1 DEF BeginAcquire, PoolInv
  <2>3. at' \in [Tasks -> PoolPoints]
    BY <1>1 DEF BeginAcquire, PoolInv
  <2>4. UNCHANGED <<inUse, lastUsed, nonce, claimed, held, dropped>>
    BY <1>1 DEF BeginAcquire
  <2>5. QED
    BY <2>2, <2>3, <2>4 DEF PoolInv
<1>2. CASE ScanSlot(t)
  <2>1. cursor[t] \in Wallets /\ cursor[t] + 1 \in 0 .. NumWallets
    BY <1>2 DEF ScanSlot, PoolInv
  <2>2. inUse' \in [Wallets -> BOOLEAN]
    BY <1>2 DEF ScanSlot, PoolInv
  <2>3. cursor' \in [Tasks -> 0 .. NumWallets]
    BY <1>2, <2>1 DEF ScanSlot, PoolInv
  <2>4. claimed' \in [Tasks -> SUBSET Wallets]
    <3>1. claimed \in [Tasks -> SUBSET Wallets] /\ claimed[t] \cup {cursor[t]} \in SUBSET Wallets
      BY <2>1 DEF PoolInv
    <3>2. QED
      BY <1>2, <3>1 DEF ScanSlot
  <2>5. UNCHANGED <<lastUsed, nonce, at, held, dropped>>
    BY <1>2 DEF ScanSlot
  <2>6. QED
    BY <2>2, <2>3, <2>4, <2>5 DEF PoolInv
<1>3. CASE PickWallet(t)
  BY <1>3 DEF PickWallet, PoolInv
<1>4. CASE NoneFree(t)
  BY <1>4 DEF NoneFree, PoolInv
<1>5. CASE TakeNonce(t)
  <2>1. held[t] \in Wallets
    BY <1>5 DEF TakeNonce, PoolInv, PhaseInv
  <2>2. nonce[held[t]] + 1 \in Nat
    BY <2>1 DEF PoolInv
  <2>3. nonce' \in [Wallets -> Nat]
    BY <1>5, <2>2 DEF TakeNonce, PoolInv
  <2>4. at' \in [Tasks -> PoolPoints]
    BY <1>5 DEF TakeNonce, PoolInv
  <2>5. UNCHANGED <<inUse, lastUsed, cursor, claimed, held, dropped>>
    BY <1>5 DEF TakeNonce
  <2>6. QED
    BY <2>3, <2>4, <2>5 DEF PoolInv
<1>6. CASE StampRelease(t)
  BY <1>6 DEF StampRelease, PoolInv, PhaseInv
<1>7. CASE ClearRelease(t)
  BY <1>7 DEF ClearRelease, PoolInv, PhaseInv
<1>8. CASE DropWallet(t)
  BY <1>8 DEF DropWallet, PoolInv
<1>9. QED
  BY <1>1, <1>2, <1>3, <1>4, <1>5, <1>6, <1>7, <1>8 DEF PoolFinish

(* Every step keeps claims tied to the point their task has reached. *)
LEMMA PoolPhaseStep ==
  ASSUME PoolInv, PoolNext
  PROVE  PhaseInv'
<1> SUFFICES ASSUME NEW t \in Tasks,
                    BeginAcquire(t) \/ PoolFinish(t) \/ DropWallet(t)
             PROVE  PhaseInv'
  BY DEF PoolNext
<1> USE PoolAssumption DEF PoolInv, PoolTypeOK, PhaseInv, PoolPoints, slotVars,
        Wallets, Move
<1>1. CASE BeginAcquire(t)
  BY <1>1 DEF BeginAcquire
<1>2. CASE ScanSlot(t)
  BY <1>2 DEF ScanSlot
<1>3. CASE PickWallet(t)
  BY <1>3 DEF PickWallet, LeastRecent
<1>4. CASE NoneFree(t)
  BY <1>4 DEF NoneFree
<1>5. CASE TakeNonce(t)
  BY <1>5 DEF TakeNonce
<1>6. CASE StampRelease(t)
  BY <1>6 DEF StampRelease
<1>7. CASE ClearRelease(t)
  BY <1>7 DEF ClearRelease
<1>8. CASE DropWallet(t)
  BY <1>8 DEF DropWallet
<1>9. QED
  BY <1>1, <1>2, <1>3, <1>4, <1>5, <1>6, <1>7, <1>8 DEF PoolFinish

(* Every step keeps claims disjoint: the compare_exchange takes only free  *)
(* slots, the pick keeps one of the scan's own, a release frees its own.   *)
LEMMA PoolClaimStep ==
  ASSUME PoolInv, PoolNext
  PROVE  ClaimInv'
<1> SUFFICES ASSUME NEW t \in Tasks,
                    BeginAcquire(t) \/ PoolFinish(t) \/ DropWallet(t)
             PROVE  ClaimInv'
  BY DEF PoolNext
<1> USE PoolAssumption DEF PoolInv, PoolTypeOK, ClaimInv, slotVars, Wallets, Move
<1>1. CASE BeginAcquire(t)
  BY <1>1 DEF BeginAcquire
<1>2. CASE ScanSlot(t)
  BY <1>2 DEF ScanSlot
<1>3. CASE PickWallet(t)
  BY <1>3 DEF PickWallet, LeastRecent, PhaseInv
<1>4. CASE NoneFree(t)
  BY <1>4 DEF NoneFree
<1>5. CASE TakeNonce(t)
  BY <1>5 DEF TakeNonce
<1>6. CASE StampRelease(t)
  BY <1>6 DEF StampRelease
<1>7. CASE ClearRelease(t)
  <2>1. /\ held[t] # NoWallet /\ held[t] \in Wallets
        /\ inUse' = [inUse EXCEPT ![held[t]] = FALSE]
        /\ held' = [held EXCEPT ![t] = NoWallet]
        /\ claimed' = claimed /\ claimed[t] = {}
    BY <1>7 DEF ClearRelease, PhaseInv, PoolPoints
  <2>2. \A u \in Tasks : \A w \in claimed'[u] : inUse'[w]
    BY <2>1
  <2>3. ASSUME NEW u \in Tasks, held'[u] # NoWallet
        PROVE  inUse'[held'[u]]
    <3>1. u # t /\ held'[u] = held[u]
      BY <2>1, <2>3
    <3>2. held[u] # held[t] /\ held[u] \in Wallets /\ inUse[held[u]]
      BY <2>1, <2>3, <3>1
    <3>3. QED
      BY <2>1, <3>1, <3>2
  <2>4. \A u, v \in Tasks : u # v =>
          /\ claimed'[u] \cap claimed'[v] = {}
          /\ held'[u] \notin claimed'[v]
          /\ held'[u] # NoWallet => held'[u] # held'[v]
    BY <2>1
  <2>5. QED
    BY <2>2, <2>3, <2>4
<1>8. CASE DropWallet(t)
  BY <1>8 DEF DropWallet
<1>9. QED
  BY <1>1, <1>2, <1>3, <1>4, <1>5, <1>6, <1>7, <1>8 DEF PoolFinish

(* A step of the pool, or one that leaves it alone, keeps the invariant. *)
LEMMA PoolInvStep == PoolInv /\ [PoolNext]_poolVars => PoolInv'
<1>1. CASE PoolNext
  BY <1>1, PoolTypeStep, PoolPhaseStep, PoolClaimStep DEF PoolInv
<1>2. CASE UNCHANGED poolVars
  BY <1>2 DEF poolVars, PoolInv, PoolTypeOK, PhaseInv, ClaimInv
<1>3. QED
  BY <1>1, <1>2

(* The invariant gives exclusive claims, in the form the runs check. *)
LEMMA PoolInvExclusive == PoolInv => Exclusive
<1> SUFFICES ASSUME PoolInv, NEW w \in Wallets
             PROVE  /\ \A t, u \in Claimants(w) : t = u
                    /\ Claimants(w) # {} => inUse[w]
  BY DEF Exclusive
<1>1. w # NoWallet
  BY PoolAssumption DEF Wallets
<1>2. \A t, u \in Claimants(w) : t = u
  BY <1>1 DEF Claimants, PoolInv, ClaimInv, PhaseInv
<1>3. Claimants(w) # {} => inUse[w]
  BY <1>1 DEF Claimants, PoolInv, ClaimInv
<1>4. QED
  BY <1>2, <1>3

-----------------------------------------------------------------------------
(* The pool's variables keep their types. *)
THEOREM PoolTypeCorrect == PoolSpec => []PoolTypeOK
<1>1. PoolInv => PoolTypeOK
  BY DEF PoolInv
<1>2. QED
  BY <1>1, PoolInvInit, PoolInvStep, PTL DEF PoolSpec

(* No two tasks ever have a claim on one wallet, and a claimed wallet is   *)
(* never marked free: the acquire scan is race-free in this sense.         *)
THEOREM PoolExclusive == PoolSpec => []Exclusive
<1>1. QED
  BY PoolInvInit, PoolInvStep, PoolInvExclusive, PTL DEF PoolSpec

-----------------------------------------------------------------------------
(* While nobody drops an index, each step leaves a usable wallet: a pick   *)
(* keeps one, a release frees one, and no other step takes one away.       *)
LEMMA UsableStep ==
  ASSUME PoolInv, [PoolNext]_poolVars, NeverEmpty
  PROVE  NeverEmpty'
<1> SUFFICES ASSUME ~dropped'
             PROVE  Usable' # {}
  BY DEF NeverEmpty
<1>0. Usable # {}
  <2>1. ASSUME NEW t \in Tasks, BeginAcquire(t) \/ PoolFinish(t)
        PROVE  ~dropped
    BY <2>1 DEF BeginAcquire, PoolFinish, ScanSlot, PickWallet, NoneFree, TakeNonce,
       StampRelease, ClearRelease
  <2>2. ASSUME NEW t \in Tasks, DropWallet(t)
        PROVE  FALSE
    BY <2>2 DEF DropWallet
  <2>3. CASE UNCHANGED poolVars
    BY <2>3 DEF poolVars, NeverEmpty
  <2>4. QED
    BY <2>1, <2>2, <2>3 DEF PoolNext, NeverEmpty
<1>1. ASSUME NEW t \in Tasks, PickWallet(t)
      PROVE  Usable' # {}
  <2>1. PICK w \in Wallets : held' = [held EXCEPT ![t] = w]
    BY <1>1 DEF PickWallet
  <2>2. held'[t] = w
    BY <2>1 DEF PoolInv, PoolTypeOK
  <2>3. QED
    BY <2>2 DEF Usable, Claimants, Wallets
<1>2. ASSUME NEW t \in Tasks, ClearRelease(t)
      PROVE  Usable' # {}
  <2>1. held[t] \in Wallets
    BY <1>2 DEF ClearRelease, Move, PoolInv, PoolTypeOK, PhaseInv
  <2>2. ~inUse'[held[t]]
    BY <1>2, <2>1 DEF ClearRelease, PoolInv, PoolTypeOK
  <2>3. QED
    BY <2>1, <2>2 DEF Usable, Wallets
<1>3. ASSUME NEW t \in Tasks, ScanSlot(t)
      PROVE  Usable' # {}
  <2>1. PICK w \in Wallets : ~inUse[w] \/ Claimants(w) # {}
    BY <1>0 DEF Usable
  <2>2. CASE w = cursor[t] /\ ~inUse[w]
    <3>1. w \in claimed'[t]
      BY <1>3, <2>2 DEF ScanSlot, PoolInv, PoolTypeOK
    <3>2. QED
      BY <2>1, <3>1 DEF Usable, Claimants, Wallets
  <2>3. CASE w # cursor[t] /\ ~inUse[w]
    <3>1. ~inUse'[w]
      BY <1>3, <2>3 DEF ScanSlot, PoolInv, PoolTypeOK
    <3>2. QED
      BY <2>1, <3>1 DEF Usable, Wallets
  <2>4. CASE Claimants(w) # {}
    <3>1. PICK u \in Tasks : w \in claimed[u] \/ held[u] = w
      BY <2>4 DEF Claimants
    <3>2. w \in claimed'[u] \/ held'[u] = w
      BY <1>3, <3>1 DEF ScanSlot, PoolInv, PoolTypeOK
    <3>3. QED
      BY <2>1, <3>2 DEF Usable, Claimants, Wallets
  <2>5. QED
    BY <2>1, <2>2, <2>3, <2>4
<1>4. ASSUME UNCHANGED <<inUse, claimed, held>>
      PROVE  Usable' # {}
  BY <1>0, <1>4 DEF Usable, Claimants, Wallets
<1>5. ASSUME NEW t \in Tasks, \/ BeginAcquire(t) \/ NoneFree(t)
                              \/ TakeNonce(t) \/ StampRelease(t)
      PROVE  UNCHANGED <<inUse, claimed, held>>
  BY <1>5 DEF BeginAcquire, NoneFree, TakeNonce, StampRelease, slotVars
<1>6. ASSUME NEW t \in Tasks, DropWallet(t)
      PROVE  FALSE
  BY <1>6 DEF DropWallet
<1>7. CASE UNCHANGED poolVars
  BY <1>4, <1>7 DEF poolVars
<1>8. QED
  BY <1>1, <1>2, <1>3, <1>4, <1>5, <1>6, <1>7 DEF PoolNext, PoolFinish

(* As long as callers release what they were given, some wallet stays      *)
(* usable, for any number of tasks scanning at once.                       *)
THEOREM PoolNeverEmpty == PoolSpec => []NeverEmpty
<1>1. PoolInit => NeverEmpty
  <2>1. SUFFICES ASSUME PoolInit
                 PROVE  0 \in Usable
    BY DEF NeverEmpty
  <2>2. 0 \in Wallets
    BY PoolAssumption DEF Wallets
  <2>3. QED
    BY <2>1, <2>2 DEF PoolInit, Usable
<1>2. PoolInv /\ NeverEmpty /\ [PoolNext]_poolVars => NeverEmpty'
  BY UsableStep
<1>3. QED
  BY <1>1, <1>2, PoolInvInit, PoolInvStep, PTL DEF PoolSpec

-----------------------------------------------------------------------------
(* No step stamps a slot that a running scan has claimed: only the holder  *)
(* stamps, and what a task holds no scan has claimed.                      *)
THEOREM PoolKeysStable == PoolSpec => KeysStable
<1>1. ASSUME PoolInv, PoolNext, NEW t \in Tasks, NEW w \in claimed[t]
      PROVE  lastUsed'[w] = lastUsed[w]
  <2>1. PICK u \in Tasks : BeginAcquire(u) \/ PoolFinish(u) \/ DropWallet(u)
    BY <1>1 DEF PoolNext
  <2>2. CASE StampRelease(u)
    <3>1. at[u] = "used" /\ held[u] # NoWallet
      BY <2>2, <1>1 DEF StampRelease, Move, PoolInv, PhaseInv
    <3>2. u # t
      BY <3>1, <1>1 DEF PoolInv, PhaseInv
    <3>3. held[u] # w
      BY <3>2, <1>1 DEF PoolInv, ClaimInv
    <3>4. QED
      BY <2>2, <3>3, <1>1 DEF StampRelease, PoolInv, PoolTypeOK
  <2>3. CASE ~StampRelease(u)
    BY <2>1, <2>3 DEF BeginAcquire, PoolFinish, ScanSlot, PickWallet, NoneFree,
       TakeNonce, ClearRelease, DropWallet, slotVars
  <2>4. QED
    BY <2>2, <2>3
<1>2. PoolInv /\ [PoolNext]_poolVars =>
        [\A t \in Tasks : \A w \in claimed[t] : lastUsed'[w] = lastUsed[w]]_poolVars
  BY <1>1
<1>3. QED
  BY <1>2, PoolInvInit, PoolInvStep, PTL DEF PoolSpec, KeysStable

(* A nonce is advanced by one, by the only task that holds the wallet.     *)
THEOREM PoolNonceByHolder == PoolSpec => NonceByHolder
<1> DEFINE ByHolder(w) ==
             nonce'[w] # nonce[w] =>
               /\ nonce'[w] = nonce[w] + 1
               /\ \E t \in Tasks : held[t] = w /\ \A u \in Tasks \ {t} : held[u] # w
<1>1. ASSUME PoolInv, PoolNext, NEW w \in Wallets
      PROVE  ByHolder(w)
  <2>1. PICK t \in Tasks : BeginAcquire(t) \/ PoolFinish(t) \/ DropWallet(t)
    BY <1>1 DEF PoolNext
  <2>2. CASE TakeNonce(t)
    <3>1. held[t] # NoWallet
      BY <2>2, <1>1 DEF TakeNonce, Move, PoolInv, PhaseInv
    <3>2. \A u \in Tasks \ {t} : held[u] # held[t]
      BY <3>1, <1>1 DEF PoolInv, ClaimInv
    <3>3. CASE held[t] = w
      BY <2>2, <3>2, <3>3, <1>1 DEF TakeNonce, PoolInv, PoolTypeOK
    <3>4. CASE held[t] # w
      BY <2>2, <3>4, <1>1 DEF TakeNonce, PoolInv, PoolTypeOK
    <3>5. QED
      BY <3>3, <3>4
  <2>3. CASE ~TakeNonce(t)
    BY <2>1, <2>3 DEF BeginAcquire, PoolFinish, ScanSlot, PickWallet, NoneFree,
       StampRelease, ClearRelease, DropWallet, slotVars
  <2>4. QED
    BY <2>2, <2>3
<1>2. PoolInv /\ [PoolNext]_poolVars => [\A w \in Wallets : ByHolder(w)]_poolVars
  BY <1>1
<1>3. QED
  BY <1>2, PoolInvInit, PoolInvStep, PTL DEF PoolSpec, NonceByHolder

-----------------------------------------------------------------------------
(* The owner function of the refinement mapping. *)
Owners == [w \in Wallets |-> OwnerOf(w)]

OwnersOK ==
  \A w \in Wallets :
    /\ \A t \in Tasks : held[t] = w => OwnerOf(w) = t
    /\ (\A t \in Tasks : held[t] # w) =>
         OwnerOf(w) = IF w \in Usable THEN "free" ELSE "lost"

(* OwnerOf in a state of the invariant: the one holder, or the wallet's    *)
(* usability.                                                              *)
LEMMA OwnerCases == PoolInv => OwnersOK
<1> SUFFICES ASSUME PoolInv, NEW w \in Wallets
             PROVE  /\ \A t \in Tasks : held[t] = w => OwnerOf(w) = t
                    /\ (\A t \in Tasks : held[t] # w) =>
                         OwnerOf(w) = IF w \in Usable THEN "free" ELSE "lost"
  BY DEF OwnersOK
<1>1. w # NoWallet
  BY PoolAssumption DEF Wallets
<1>2. ASSUME NEW t \in Tasks, held[t] = w
      PROVE  OwnerOf(w) = t
  <2>1. \A u \in Tasks : held[u] = w => u = t
    BY <1>1, <1>2 DEF PoolInv, ClaimInv
  <2>2. QED
    BY <1>2, <2>1 DEF OwnerOf
<1>3. (\A t \in Tasks : held[t] # w) =>
         OwnerOf(w) = IF w \in Usable THEN "free" ELSE "lost"
  BY DEF OwnerOf
<1>4. QED
  BY <1>2, <1>3

(* A step that moves no index and changes no wallet's usability changes no *)
(* owner.                                                                  *)
LEMMA OwnersUnchanged ==
  ASSUME PoolInv, PoolInv', held' = held,
         \A w \in Wallets : w \in Usable' <=> w \in Usable
  PROVE  Owners' = Owners
<1>1. ASSUME NEW w \in Wallets
      PROVE  OwnerOf(w)' = OwnerOf(w)
  BY <1>1 DEF OwnerOf
<1>2. QED
  BY <1>1 DEF Owners, Wallets

(* acquire takes effect at its pick. *)
LEMMA PickAcquires ==
  ASSUME PoolInv, PoolInv', NEW t \in Tasks, PickWallet(t)
  PROVE  \E w \in Wallets : Ownership!Acquire(t, w)
<1>1. PICK w \in Wallets : w \in claimed[t] /\ held' = [held EXCEPT ![t] = w]
  BY DEF PickWallet, LeastRecent
<1>2. /\ held[t] = NoWallet /\ inUse' = inUse
      /\ claimed' = [claimed EXCEPT ![t] = {}]
      /\ held'[t] = w
      /\ \A u \in Tasks \ {t} : held'[u] = held[u] /\ claimed'[u] = claimed[u]
  BY <1>1 DEF PickWallet, Move, slotVars, PoolInv, PoolTypeOK, PhaseInv
<1>3. \A x \in Wallets : x # NoWallet
  BY PoolAssumption DEF Wallets
<1>4. OwnersOK
  BY OwnerCases
<1>5. OwnersOK'
  BY OwnerCases, PTL
<1>6. \A x \in Wallets : OwnerOf(x) \in Tasks \cup {"free", "lost"}
  BY <1>4 DEF OwnersOK
<1>7. \A x \in Wallets : OwnerOf(x) # t
  BY <1>2, <1>3, <1>4, PoolAssumption DEF OwnersOK
<1>8. OwnerOf(w) = "free"
  <2>1. \A u \in Tasks : held[u] # w
    BY <1>1, <1>2, <1>3 DEF PoolInv, ClaimInv
  <2>2. w \in Usable
    BY <1>1 DEF Usable, Claimants
  <2>3. QED
    BY <1>4, <2>1, <2>2 DEF OwnersOK
<1>10. OwnerOf(w)' = t
  BY <1>2, <1>5 DEF OwnersOK
<1>11. ASSUME NEW x \in Wallets, x # w
      PROVE  \/ OwnerOf(x)' = OwnerOf(x)
             \/ OwnerOf(x) = "free" /\ OwnerOf(x)' = "lost"
  <2>1. CASE \E u \in Tasks \ {t} : held[u] = x
    BY <1>2, <1>4, <1>5, <2>1 DEF OwnersOK
  <2>2. CASE \A u \in Tasks \ {t} : held[u] # x
    <3>1. \A u \in Tasks : held[u] # x /\ held'[u] # x
      BY <1>2, <1>3, <1>11, <2>2
    <3>2. x \in Usable' => x \in Usable
      BY <1>2, <1>11, <3>1 DEF Usable, Claimants, Wallets
    <3>3. QED
      BY <1>4, <1>5, <3>1, <3>2 DEF OwnersOK
  <2>3. QED
    BY <2>1, <2>2
<1>12. \A x \in Wallets : OwnerOf(x)' \in Tasks \cup {"free", "lost"}
  BY <1>5 DEF OwnersOK
<1>13. Ownership!Acquire(t, w)
  BY <1>7, <1>8, <1>10, <1>11, <1>12 DEF Ownership!Acquire, Ownership!Wallets, Wallets
<1>14. QED
  BY <1>13

(* release takes effect at its last store. *)
LEMMA ClearReleases ==
  ASSUME PoolInv, PoolInv', NEW t \in Tasks, ClearRelease(t)
  PROVE  \E w \in Wallets : Ownership!Release(t, w)
<1>1. PICK w \in Wallets : held[t] = w
  BY DEF ClearRelease, Move, PoolInv, PoolTypeOK, PhaseInv
<1>2. /\ held' = [held EXCEPT ![t] = NoWallet]
      /\ inUse' = [inUse EXCEPT ![w] = FALSE]
      /\ claimed' = claimed
      /\ \A u \in Tasks \ {t} : held'[u] = held[u]
      /\ held'[t] = NoWallet
  BY <1>1 DEF ClearRelease, PoolInv, PoolTypeOK
<1>3. \A x \in Wallets : x # NoWallet
  BY PoolAssumption DEF Wallets
<1>4. OwnersOK
  BY OwnerCases
<1>5. OwnersOK'
  BY OwnerCases, PTL
<1>6. OwnerOf(w) = t
  BY <1>1, <1>4 DEF OwnersOK
<1>7. OwnerOf(w)' = "free"
  <2>1. \A u \in Tasks : held'[u] # w
    BY <1>1, <1>2, <1>3 DEF PoolInv, ClaimInv
  <2>2. w \in Usable'
    BY <1>1, <1>2 DEF Usable, PoolInv, PoolTypeOK, Wallets
  <2>3. QED
    BY <1>5, <2>1, <2>2 DEF OwnersOK
<1>8. ASSUME NEW x \in Wallets, x # w
      PROVE  OwnerOf(x)' = OwnerOf(x)
  <2>1. CASE \E u \in Tasks \ {t} : held[u] = x
    BY <1>2, <1>4, <1>5, <2>1 DEF OwnersOK
  <2>2. CASE \A u \in Tasks \ {t} : held[u] # x
    <3>1. \A u \in Tasks : held[u] # x /\ held'[u] # x
      BY <1>1, <1>2, <1>3, <1>8, <2>2
    <3>2. x \in Usable' <=> x \in Usable
      BY <1>1, <1>2, <1>8, <3>1 DEF Usable, Claimants, Wallets, PoolInv, PoolTypeOK
    <3>3. QED
      BY <1>4, <1>5, <3>1, <3>2 DEF OwnersOK
  <2>3. QED
    BY <2>1, <2>2
<1>9. Owners' = [Owners EXCEPT ![w] = "free"]
  BY <1>7, <1>8 DEF Owners, Wallets
<1>10. QED
  BY <1>1, <1>6, <1>9 DEF Ownership!Release, Owners, Wallets

(* An early return loses the wallet. *)
LEMMA DropLoses ==
  ASSUME PoolInv, PoolInv', NEW t \in Tasks, DropWallet(t)
  PROVE  \E w \in Wallets : Ownership!Drop(t, w)
<1>1. PICK w \in Wallets : held[t] = w
  BY DEF DropWallet, Move, PoolInv, PoolTypeOK, PhaseInv
<1>2. /\ held' = [held EXCEPT ![t] = NoWallet]
      /\ inUse' = inUse /\ claimed' = claimed
      /\ \A u \in Tasks \ {t} : held'[u] = held[u]
      /\ held'[t] = NoWallet
  BY <1>1 DEF DropWallet, slotVars, PoolInv, PoolTypeOK
<1>3. \A x \in Wallets : x # NoWallet
  BY PoolAssumption DEF Wallets
<1>4. OwnersOK
  BY OwnerCases
<1>5. OwnersOK'
  BY OwnerCases, PTL
<1>6. OwnerOf(w) = t
  BY <1>1, <1>4 DEF OwnersOK
<1>7. OwnerOf(w)' = "lost"
  <2>1. \A u \in Tasks : held'[u] # w
    BY <1>1, <1>2, <1>3 DEF PoolInv, ClaimInv
  <2>2. \A u \in Tasks : w \notin claimed[u]
    BY <1>1, <1>3 DEF PoolInv, ClaimInv, PhaseInv
  <2>3. inUse[w]
    BY <1>1, <1>3 DEF PoolInv, ClaimInv
  <2>4. w \notin Usable'
    BY <1>2, <2>1, <2>2, <2>3 DEF Usable, Claimants
  <2>5. QED
    BY <1>5, <2>1, <2>4 DEF OwnersOK
<1>8. ASSUME NEW x \in Wallets, x # w
      PROVE  OwnerOf(x)' = OwnerOf(x)
  <2>1. CASE \E u \in Tasks \ {t} : held[u] = x
    BY <1>2, <1>4, <1>5, <2>1 DEF OwnersOK
  <2>2. CASE \A u \in Tasks \ {t} : held[u] # x
    <3>1. \A u \in Tasks : held[u] # x /\ held'[u] # x
      BY <1>1, <1>2, <1>3, <1>8, <2>2
    <3>2. x \in Usable' <=> x \in Usable
      BY <1>2, <1>8, <3>1 DEF Usable, Claimants, Wallets
    <3>3. QED
      BY <1>4, <1>5, <3>1, <3>2 DEF OwnersOK
  <2>3. QED
    BY <2>1, <2>2
<1>9. Owners' = [Owners EXCEPT ![w] = "lost"]
  BY <1>7, <1>8 DEF Owners, Wallets
<1>10. QED
  BY <1>1, <1>2, <1>6, <1>9 DEF Ownership!Drop, Owners, Wallets

(* The other steps change no owner. *)
LEMMA QuietSteps ==
  ASSUME PoolInv, PoolInv', NEW t \in Tasks,
         \/ BeginAcquire(t) \/ ScanSlot(t) \/ NoneFree(t)
         \/ TakeNonce(t) \/ StampRelease(t)
  PROVE  Owners' = Owners
<1>1. CASE ScanSlot(t)
  <2>1. held' = held
    BY <1>1 DEF ScanSlot
  <2>2. ASSUME NEW w \in Wallets
        PROVE  w \in Usable' <=> w \in Usable
    <3>1. CASE w = cursor[t] /\ ~inUse[w]
      <4>1. w \in claimed'[t]
        BY <1>1, <3>1 DEF ScanSlot, PoolInv, PoolTypeOK
      <4>2. QED
        BY <3>1, <4>1 DEF Usable, Claimants, Wallets
    <3>2. CASE ~(w = cursor[t] /\ ~inUse[w])
      <4>1. inUse'[w] = inUse[w]
        BY <1>1, <3>2 DEF ScanSlot, PoolInv, PoolTypeOK
      <4>2. \A u \in Tasks : w \in claimed'[u] <=> w \in claimed[u]
        BY <1>1, <3>2 DEF ScanSlot, PoolInv, PoolTypeOK
      <4>3. QED
        BY <2>1, <4>1, <4>2 DEF Usable, Claimants, Wallets
    <3>3. QED
      BY <3>1, <3>2
  <2>3. QED
    BY <2>1, <2>2, OwnersUnchanged
<1>2. CASE BeginAcquire(t) \/ NoneFree(t) \/ TakeNonce(t) \/ StampRelease(t)
  <2>1. UNCHANGED <<inUse, claimed, held>>
    BY <1>2 DEF BeginAcquire, NoneFree, TakeNonce, StampRelease, slotVars
  <2>2. QED
    BY <2>1, OwnersUnchanged DEF Usable, Claimants, Wallets
<1>3. QED
  BY <1>1, <1>2

(* Each step of the pool is a step of the ownership specification or       *)
(* leaves the owners as they are.                                          *)
LEMMA HandoverStep ==
  PoolInv /\ PoolInv' /\ [PoolNext]_poolVars => [Ownership!Next]_Owners
<1> SUFFICES ASSUME PoolInv, PoolInv', [PoolNext]_poolVars
             PROVE  Ownership!Next \/ Owners' = Owners
  OBVIOUS
<1>1. CASE UNCHANGED poolVars
  BY <1>1, OwnersUnchanged DEF poolVars, Usable, Claimants, Wallets
<1>2. ASSUME NEW t \in Tasks,
             BeginAcquire(t) \/ PoolFinish(t) \/ DropWallet(t)
      PROVE  Ownership!Next \/ Owners' = Owners
  <2>1. Ownership!Wallets = Wallets
    BY DEF Ownership!Wallets, Wallets
  <2>2. CASE PickWallet(t)
    BY <2>1, <2>2, PickAcquires DEF Ownership!Next
  <2>3. CASE ClearRelease(t)
    BY <2>1, <2>3, ClearReleases DEF Ownership!Next
  <2>4. CASE DropWallet(t)
    BY <2>1, <2>4, DropLoses DEF Ownership!Next
  <2>5. CASE \/ BeginAcquire(t) \/ ScanSlot(t) \/ NoneFree(t)
             \/ TakeNonce(t) \/ StampRelease(t)
    BY <2>5, QuietSteps
  <2>6. QED
    BY <1>2, <2>2, <2>3, <2>4, <2>5 DEF PoolFinish
<1>3. QED
  BY <1>1, <1>2 DEF PoolNext

(* The pool implements atomic hand-over of ownership: acquire at its pick, *)
(* release at its last store, an early return as a loss.                   *)
THEOREM PoolImplementsOwnership == PoolSpec => AtomicHandover
<1>1. PoolInit => Ownership!Init
  BY PoolAssumption DEF PoolInit, Ownership!Init, Ownership!Wallets, OwnerOf,
     Usable, Claimants, Wallets
<1>2. PoolInv /\ PoolInv' /\ [PoolNext]_poolVars => [Ownership!Next]_Owners
  BY HandoverStep
<1>3. QED
  BY <1>1, <1>2, PoolInvInit, PoolInvStep, PTL
     DEF PoolSpec, AtomicHandover, Ownership!Spec, Owners

-----------------------------------------------------------------------------
(* What PoolRecovers rests on besides fairness *)

(* At most so many steps of its own until a task has left the pool. *)
StepsLeft(t) ==
  CASE at[t] = "scan" -> (NumWallets - cursor[t]) + 4
    [] at[t] = "held" -> 3 [] at[t] = "used" -> 2 [] at[t] = "stamped" -> 1 [] at[t] = "out" -> 0

(* A step is the step of one task, on its way out unless it comes in, and  *)
(* keeps no other task in the pool any longer.                             *)
WaitFree ==
  \E t \in Tasks :
    /\ at[t] # "out" => StepsLeft(t)' < StepsLeft(t)
    /\ at[t] = "out" => at'[t] = "scan"
    /\ \A u \in Tasks \ {t} : at'[u] = at[u] /\ cursor'[u] = cursor[u]

(* No call waits for another task: acquire, next_nonce and release end     *)
(* within NumWallets + 4 atomic steps of the task that calls, whatever the *)
(* others do in between.                                                   *)
THEOREM PoolWaitFree == PoolSpec => [][WaitFree]_poolVars
<1>1. ASSUME PoolInv, PoolNext
      PROVE  WaitFree
  <2>1. PICK t \in Tasks : BeginAcquire(t) \/ PoolFinish(t) \/ DropWallet(t)
    BY <1>1 DEF PoolNext
  <2>2. at \in [Tasks -> PoolPoints] /\ cursor \in [Tasks -> 0 .. NumWallets] /\ NumWallets \in Nat
        /\ cursor[t] \in Nat /\ cursor[t] <= NumWallets
    BY <1>1, PoolAssumption DEF PoolInv, PoolTypeOK
  <2>3. \A u \in Tasks \ {t} : at'[u] = at[u] /\ cursor'[u] = cursor[u]
    BY <2>1, <2>2 DEF BeginAcquire, PoolFinish, ScanSlot, PickWallet, NoneFree, TakeNonce,
       StampRelease, ClearRelease, DropWallet, Move
  <2>4. CASE BeginAcquire(t)
    <3>1. at[t] = "out" /\ at'[t] = "scan"
      BY <2>2, <2>4 DEF BeginAcquire, Move
    <3>2. QED
      BY <2>3, <3>1 DEF WaitFree
  <2>5. CASE ScanSlot(t)
    <3>1. at[t] = "scan" /\ at'[t] = "scan" /\ cursor'[t] = cursor[t] + 1
      BY <2>2, <2>5 DEF ScanSlot
    <3>2. StepsLeft(t)' = (NumWallets - (cursor[t] + 1)) + 4 /\ StepsLeft(t) = (NumWallets - cursor[t]) + 4
      BY <3>1 DEF StepsLeft
    <3>3. StepsLeft(t)' < StepsLeft(t)
      BY <2>2, <3>2
    <3>4. QED
      BY <2>3, <3>1, <3>3 DEF WaitFree
  <2>6. CASE PickWallet(t) \/ NoneFree(t)
    <3>1. at[t] = "scan" /\ at'[t] \in {"held", "out"}
      BY <2>2, <2>6 DEF PickWallet, NoneFree, Move
    <3>2. StepsLeft(t)' \in {0, 3} /\ StepsLeft(t) = (NumWallets - cursor[t]) + 4
      BY <3>1 DEF StepsLeft
    <3>3. StepsLeft(t)' < StepsLeft(t)
      BY <2>2, <3>2
    <3>4. QED
      BY <2>3, <3>1, <3>3 DEF WaitFree
  <2>7. CASE TakeNonce(t) \/ StampRelease(t) \/ ClearRelease(t) \/ DropWallet(t)
    <3>1. \/ at[t] = "held" /\ at'[t] = "used"
          \/ at[t] = "used" /\ at'[t] \in {"stamped", "out"}
          \/ at[t] = "stamped" /\ at'[t] = "out"
      BY <2>2, <2>7 DEF TakeNonce, StampRelease, ClearRelease, DropWallet, Move
    <3>2. StepsLeft(t)' < StepsLeft(t) /\ at[t] # "out"
      BY <3>1 DEF StepsLeft
    <3>3. QED
      BY <2>3, <3>2 DEF WaitFree
  <2>8. QED
    BY <2>1, <2>4, <2>5, <2>6, <2>7 DEF PoolFinish
<1>2. PoolInv /\ [PoolNext]_poolVars => [WaitFree]_poolVars
  BY <1>1
<1>3. QED
  BY <1>2, PoolInvInit, PoolInvStep, PTL DEF PoolSpec
=============================================================================
