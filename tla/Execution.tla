----------------------------- MODULE Execution -----------------------------
(***************************************************************************)
(* The tail every strategy executor shares, from the wallet acquire after  *)
(* a passed simulation to the release after the receipt: WalletPool and    *)
(* Submission driven by the same tasks, with the chain's view of each      *)
(* wallet's nonces.  Every strategy leaves through `?` when build_raw_tx   *)
(* fails, S1 (evm_arb) also when submit_sync does; S2, S3 and S4 release   *)
(* the wallet in that case.                                                *)
(***************************************************************************)
EXTENDS WalletPool, Submission

CONSTANT S1Tasks  \* the tasks that run strategy S1

ASSUME ExecutionAssumption == S1Tasks \subseteq Tasks

VARIABLES
  txNonce,     \* the nonce in the transaction a task has signed
  chainNonce,  \* external: the nonce the chain expects next from a wallet
  mempool,     \* external: <<wallet, nonce>> the node holds, not yet mined
  burned       \* history: wallets some attempt of which ended without receipt

chainVars == <<chainNonce, mempool>>
execVars == <<poolVars, submitVars, txNonce, chainVars, burned>>

ExecTypeOK ==
  /\ PoolTypeOK /\ SubmitTypeOK
  /\ txNonce \in [Tasks -> Nat]
  /\ chainNonce \in [Wallets -> Nat]
  /\ mempool \subseteq Wallets \X Nat
  /\ burned \subseteq Wallets

ExecInit ==
  /\ PoolInit /\ SubmitInit
  /\ txNonce = [t \in Tasks |-> 0]
  /\ chainNonce = [w \in Wallets |-> 0]
  /\ mempool = {}
  /\ burned = {}

-----------------------------------------------------------------------------
(* acquire, and build_raw_tx with next_nonce among its arguments *)

AcquireStep(t) ==
  /\ BeginAcquire(t) \/ ScanSlot(t) \/ PickWallet(t) \/ NoneFree(t)
  /\ UNCHANGED <<submitVars, txNonce, chainVars, burned>>

(* Variant for mutation: the transaction takes the incremented value. *)
SignIncremented(t) ==
  /\ TakeNonce(t)
  /\ txNonce' = [txNonce EXCEPT ![t] = nonce[held[t]] + 1]
  /\ UNCHANGED <<submitVars, chainVars, burned>>

Sign(t) ==
  /\ TakeNonce(t)
  /\ txNonce' = [txNonce EXCEPT ![t] = nonce[held[t]]]
  /\ UNCHANGED <<submitVars, chainVars, burned>>

(* build_raw_tx fails, its arguments evaluated: neither the nonce nor the  *)
(* wallet comes back.                                                      *)
SignFails(t) ==
  /\ step[t] = "out"
  /\ DropWallet(t)
  /\ burned' = burned \cup {held[t]}
  /\ UNCHANGED <<submitVars, txNonce, chainVars>>

-----------------------------------------------------------------------------
(* submit_sync *)

Submit(t) ==
  /\ at[t] = "used"
  /\ CallSubmit(t)
  /\ UNCHANGED <<poolVars, txNonce, chainVars, burned>>

SubmitStep(t) ==
  /\ SubmitInternal(t)
  /\ UNCHANGED <<poolVars, txNonce, chainVars, burned>>

(* The node keeps a transaction whose nonce has not been used. *)
SendTx(t) ==
  /\ Send(t)
  /\ mempool' = IF txNonce[t] < chainNonce[held[t]] THEN mempool
                ELSE mempool \cup {<<held[t], txNonce[t]>>}
  /\ UNCHANGED <<poolVars, txNonce, chainNonce, burned>>

(* The chain executes a wallet's transactions in nonce order, none after a *)
(* missing one.  The task that sent this one may still be waiting, and     *)
(* then may get its receipt; the transaction counts either way.            *)
Mine(w) ==
  /\ <<w, chainNonce[w]>> \in mempool
  /\ mempool' = mempool \ {<<w, chainNonce[w]>>}
  /\ chainNonce' = [chainNonce EXCEPT ![w] = @ + 1]
  /\ \/ \E t \in Tasks : /\ held[t] = w /\ txNonce[t] = chainNonce[w]
                         /\ \E outcome \in {"success", "revert"} :
                              Receipt(t, outcome)
     \/ UNCHANGED submitVars
  /\ UNCHANGED <<poolVars, txNonce, burned>>

RequestErrs(t) ==
  /\ RequestFails(t)
  /\ UNCHANGED <<poolVars, txNonce, chainVars, burned>>

-----------------------------------------------------------------------------
(* What the executors do with submit_sync's Result *)

FinishOk(t) ==
  /\ Return(t, "ok")
  /\ StampRelease(t)
  /\ UNCHANGED <<txNonce, chainVars, burned>>

FinishErr(t) ==
  /\ Return(t, "err")
  /\ IF t \in S1Tasks THEN DropWallet(t) ELSE StampRelease(t)
  /\ burned' = burned \cup {held[t]}
  /\ UNCHANGED <<txNonce, chainVars>>

FinishRelease(t) ==
  /\ ClearRelease(t)
  /\ txNonce' = [txNonce EXCEPT ![t] = 0]
  /\ UNCHANGED <<submitVars, chainVars, burned>>

HandlerStep ==
  /\ Handlers
  /\ UNCHANGED <<poolVars, txNonce, chainVars, burned>>

-----------------------------------------------------------------------------
ExecTask(t) ==
  \/ AcquireStep(t) \/ Sign(t) \/ SignFails(t)
  \/ Submit(t) \/ SubmitStep(t) \/ SendTx(t) \/ RequestErrs(t)
  \/ FinishOk(t) \/ FinishErr(t) \/ FinishRelease(t)

ExecNext ==
  \/ \E t \in Tasks : ExecTask(t)
  \/ \E w \in Wallets : Mine(w)
  \/ HandlerStep

ExecSpec == ExecInit /\ [][ExecNext]_execVars

-----------------------------------------------------------------------------
Flying == {t \in Tasks : step[t] \in InFlight}

(* The breaker reads the count before a transaction is sent and raises it  *)
(* after the receipt, so transactions overlap its decision; but each has   *)
(* a wallet to itself, so the count can never pass the threshold by more   *)
(* than the other wallets: max_consecutive_reverts - 1 + pool size.  With  *)
(* the > of README.md:127 in place of the code's >= it would be one more.  *)
OverrunBound ==
  reverts + Cardinality(Flying) <= MaxReverts - 1 + NumWallets

(* A transaction about to be sent carries a nonce its wallet has not used: *)
(* not executed yet, not waiting in the node, not signed by another task.  *)
FreshNonce ==
  \A t \in Tasks : step[t] \in {"checkKill", "checkReverts", "send"} =>
    /\ txNonce[t] >= chainNonce[held[t]]
    /\ <<held[t], txNonce[t]>> \notin mempool
    /\ \A u \in Tasks \ {t} : at[u] = "used" => held[u] # held[t]

(* As long as every attempt of a wallet got its receipt, the local counter *)
(* and the chain agree: the transaction about to be sent is the next one.  *)
NonceInStep ==
  \A t \in Tasks : step[t] = "send" /\ held[t] \notin burned =>
                     txNonce[t] = chainNonce[held[t]]

(* wallet_pool.rs:90, "the PREVIOUS value, which is the correct nonce for  *)
(* this tx": a transaction is sent with the nonce the chain will accept    *)
(* once the wallet's earlier ones, if any, are mined.                      *)
NonceCorrect ==
  \A t \in Tasks : step[t] = "send" =>
    \A n \in chainNonce[held[t]] .. txNonce[t] - 1 : <<held[t], n>> \in mempool
=============================================================================
