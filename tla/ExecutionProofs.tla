-------------------------- MODULE ExecutionProofs --------------------------
(***************************************************************************)
(* Proofs about Submission and about Execution, for any number of tasks,   *)
(* wallets and requests, any thresholds and any gas costs: the breaker, on *)
(* its own; then the composition implements its two components, the        *)
(* overrun past the breaker's threshold is bounded by the pool, and nonces *)
(* are never reused.                                                       *)
(***************************************************************************)
EXTENDS Execution, WalletPoolProofs, FiniteSetTheorems

-----------------------------------------------------------------------------
(* Submission *)

(* The initial state has the right types. *)
LEMMA SubmitTypeInit == SubmitInit => SubmitTypeOK
<1> SUFFICES ASSUME SubmitInit
             PROVE  SubmitTypeOK
  OBVIOUS
<1>1. killSwitch \in BOOLEAN /\ quiet \in BOOLEAN
  BY Zenon DEF SubmitInit
<1>2. step \in [Tasks -> SubmitSteps]
  BY DEF SubmitInit, SubmitSteps
<1>3. newCount \in [Tasks -> Nat]
  BY DEF SubmitInit
<1>4. resume \in [Operators -> BOOLEAN]
  BY DEF SubmitInit
<1>5. reverts \in Nat /\ gasSpent \in 0 .. GasKill
  <2>1. 0 \in Nat /\ 0 \in 0 .. GasKill
    BY SubmitAssumption
  <2>2. reverts = 0 /\ gasSpent = 0
    BY DEF SubmitInit
  <2>3. QED
    BY <2>1, <2>2
<1>6. QED
  BY <1>1, <1>2, <1>3, <1>4, <1>5 DEF SubmitTypeOK

(* Every step of submit_sync and of the handlers keeps the types. *)
LEMMA SubmitTypeStep == SubmitTypeOK /\ [SubmitNext]_submitVars => SubmitTypeOK'
<1> SUFFICES ASSUME SubmitTypeOK, [SubmitNext]_submitVars
             PROVE  SubmitTypeOK'
  OBVIOUS
<1> USE SubmitAssumption DEF SubmitTypeOK, breakerVars
<1> USE DEF SubmitSteps, Checking, InFlight, Recording, Results, Go
<1>1. CASE UNCHANGED submitVars
  BY <1>1 DEF submitVars
<1>2. CASE Kill
  BY <1>2 DEF Kill
<1>3. ASSUME NEW o \in Operators, ResumeKill(o)
      PROVE  SubmitTypeOK'
  BY <1>3 DEF ResumeKill
<1>4. ASSUME NEW o \in Operators, ResumeReverts(o)
      PROVE  SubmitTypeOK'
  BY <1>4 DEF ResumeReverts
<1>5. ASSUME NEW t \in Tasks, SubmitInternal(t)
      PROVE  SubmitTypeOK'
  <2>1. CASE CheckKill(t)
    BY <2>1 DEF CheckKill
  <2>2. CASE CheckReverts(t)
    BY <2>2 DEF CheckReverts
  <2>3. CASE Trip(t)
    BY <2>3 DEF Trip
  <2>4. CASE RecordSuccess(t)
    BY <2>4 DEF RecordSuccess
  <2>5. CASE CountRevert(t)
    <3>1. reverts + 1 \in Nat
      OBVIOUS
    <3>2. reverts' \in Nat /\ newCount' \in [Tasks -> Nat]
      BY <2>5, <3>1 DEF CountRevert
    <3>3. step' \in [Tasks -> SubmitSteps]
      BY <2>5 DEF CountRevert
    <3>4. UNCHANGED <<killSwitch, gasSpent, resume>> /\ quiet' = FALSE
      BY <2>5 DEF CountRevert
    <3>5. QED
      BY <3>2, <3>3, <3>4
  <2>6. CASE AddGas(t)
    <3>1. PICK g \in GasCosts : gasSpent' = IF gasSpent + g >= GasKill
                                             THEN GasKill ELSE gasSpent + g
      BY <2>6 DEF AddGas
    <3>2. gasSpent' \in 0 .. GasKill
      <4>1. g \in Nat /\ gasSpent \in Nat /\ GasKill \in Nat
        OBVIOUS
      <4>2. QED
        BY <3>1, <4>1
    <3>3. step' \in [Tasks -> SubmitSteps]
      BY <2>6 DEF AddGas
    <3>4. QED
      BY <2>6, <3>2, <3>3 DEF AddGas
  <2>7. CASE CheckGas(t)
    BY <2>7 DEF CheckGas
  <2>8. CASE CheckCount(t)
    BY <2>8 DEF CheckCount
  <2>9. QED
    BY <1>5, <2>1, <2>2, <2>3, <2>4, <2>5, <2>6, <2>7, <2>8 DEF SubmitInternal
<1>6. ASSUME NEW t \in Tasks, CallSubmit(t) \/ SubmitRequest(t)
      PROVE  SubmitTypeOK'
  BY <1>6 DEF CallSubmit, SubmitRequest, Send, RequestFails, Receipt
<1>7. ASSUME NEW t \in Tasks, NEW result \in Results, Return(t, result)
      PROVE  SubmitTypeOK'
  BY <1>7 DEF Return
<1>8. QED
  BY <1>1, <1>2, <1>3, <1>4, <1>5, <1>6, <1>7 DEF SubmitNext, Handlers, SubmitTask

-----------------------------------------------------------------------------
(* A step that leaves the count alone, lifts no halt and takes no task out *)
(* of its bookkeeping keeps the breaker armed.                             *)
LEMMA ArmedStep ==
  SubmitTypeOK /\ BreakerArmed /\ [SubmitNext]_submitVars => BreakerArmed'
<1> SUFFICES ASSUME SubmitTypeOK, BreakerArmed, [SubmitNext]_submitVars,
                    reverts' >= MaxReverts, ~killSwitch',
                    \A o \in Operators : ~resume'[o]
             PROVE  \E t \in Tasks : step'[t] \in Recording /\ newCount'[t] >= MaxReverts
  BY DEF BreakerArmed
<1> USE SubmitAssumption DEF SubmitTypeOK, breakerVars, Go, Recording
<1>1. CASE UNCHANGED submitVars
  BY <1>1 DEF submitVars, BreakerArmed
<1>2. CASE Kill
  BY <1>2 DEF Kill
<1>3. ASSUME NEW o \in Operators, ResumeKill(o) \/ ResumeReverts(o)
      PROVE  FALSE
  BY <1>3 DEF ResumeKill, ResumeReverts
<1>4. ASSUME NEW t \in Tasks, CountRevert(t)
      PROVE  step'[t] \in Recording /\ newCount'[t] >= MaxReverts
  BY <1>4 DEF CountRevert
<1>5. ASSUME NEW t \in Tasks, RecordSuccess(t)
      PROVE  FALSE
  BY <1>5 DEF RecordSuccess
<1>6. ASSUME NEW t \in Tasks,
             \/ CallSubmit(t) \/ SubmitRequest(t) \/ CheckKill(t)
             \/ CheckReverts(t) \/ Trip(t) \/ AddGas(t) \/ CheckGas(t)
             \/ CheckCount(t) \/ \E result \in Results : Return(t, result)
      PROVE  \E u \in Tasks : step'[u] \in Recording /\ newCount'[u] >= MaxReverts
  <2>1. /\ reverts' = reverts /\ resume' = resume
        /\ killSwitch => killSwitch'
    BY <1>6 DEF CallSubmit, SubmitRequest, Send, RequestFails, Receipt,
       CheckKill, CheckReverts, Trip, AddGas, CheckGas, CheckCount, Return
  <2>2. PICK u \in Tasks : step[u] \in Recording /\ newCount[u] >= MaxReverts
    BY <2>1 DEF BreakerArmed
  <2>3. CASE u # t
    <3>1. step'[u] = step[u] /\ newCount'[u] = newCount[u]
      BY <1>6, <2>3 DEF CallSubmit, SubmitRequest, Send, RequestFails, Receipt,
         CheckKill, CheckReverts, Trip, AddGas, CheckGas, CheckCount, Return
    <3>2. QED
      BY <2>2, <3>1
  <2>4. CASE u = t
    <3>1. AddGas(t) \/ CheckGas(t) \/ CheckCount(t)
      BY <1>6, <2>2, <2>4 DEF CallSubmit, SubmitRequest, Send, RequestFails,
         Receipt, CheckKill, CheckReverts, Trip, Return, Results
    <3>2. ~CheckCount(t)
      BY <2>2, <2>4 DEF CheckCount
    <3>3. step'[t] \in Recording /\ newCount'[t] = newCount[t]
      BY <3>1, <3>2 DEF AddGas, CheckGas
    <3>4. QED
      BY <2>2, <2>4, <3>3
  <2>5. QED
    BY <2>3, <2>4
<1>7. QED
  BY <1>1, <1>2, <1>3, <1>4, <1>5, <1>6 DEF SubmitNext, Handlers, SubmitTask,
     SubmitInternal

-----------------------------------------------------------------------------
(* The breaker's variables and the tasks' program points keep their types. *)
THEOREM SubmitTypeCorrect == SubmitSpec => []SubmitTypeOK
  BY SubmitTypeInit, SubmitTypeStep, PTL DEF SubmitSpec

(* A count at the threshold is never unnoticed, whatever the interleaving  *)
(* of submissions, receipts, kills and resumes.                            *)
THEOREM BreakerStaysArmed == SubmitSpec => []BreakerArmed
<1>1. SubmitInit => BreakerArmed
  BY SubmitAssumption DEF SubmitInit, BreakerArmed
<1>2. QED
  BY <1>1, ArmedStep, SubmitTypeInit, SubmitTypeStep, PTL DEF SubmitSpec
-----------------------------------------------------------------------------
(* While the bot is halted no task gets past the kill-switch check: the    *)
(* check itself turns it away, and only tasks past it move on to the send. *)
THEOREM HaltIsAGate == SubmitSpec => HaltClosesGate
<1> DEFINE Past == {"checkReverts"} \cup InFlight
           Gate == killSwitch /\ killSwitch' =>
                     \A t \in Tasks : step'[t] \in Past => step[t] \in Past
<1>1. ASSUME SubmitTypeOK, SubmitNext, killSwitch, NEW t \in Tasks, step'[t] \in Past
      PROVE  step[t] \in Past
  <2>1. CASE Handlers
    BY <1>1, <2>1 DEF Handlers, Kill, ResumeKill, ResumeReverts
  <2>2. ASSUME NEW u \in Tasks, SubmitTask(u)
        PROVE  step[t] \in Past
    <3>1. CASE u # t
      <4>1. step'[t] = step[t]
        BY <1>1, <2>2, <3>1 DEF SubmitTypeOK, SubmitTask, SubmitInternal, SubmitRequest,
           CallSubmit, CheckKill, CheckReverts, Trip, RecordSuccess, CountRevert, AddGas,
           CheckGas, CheckCount, Send, RequestFails, Receipt, Return, Go
      <4>2. QED
        BY <1>1, <4>1
    <3>2. CASE u = t
      <4>1. CASE SubmitInternal(t)
        BY <1>1, <4>1 DEF SubmitTypeOK, SubmitInternal, CheckKill, CheckReverts, Trip,
           RecordSuccess, CountRevert, AddGas, CheckGas, CheckCount, Go, InFlight
      <4>2. CASE SubmitRequest(t)
        BY <1>1, <4>2 DEF SubmitTypeOK, SubmitRequest, Send, RequestFails, Receipt, Go,
           InFlight
      <4>3. CASE CallSubmit(t) \/ \E result \in Results : Return(t, result)
        BY <1>1, <4>3 DEF SubmitTypeOK, CallSubmit, Return, Go, InFlight
      <4>4. QED
        BY <2>2, <3>2, <4>1, <4>2, <4>3 DEF SubmitTask
    <3>3. QED
      BY <3>1, <3>2
  <2>3. QED
    BY <1>1, <2>1, <2>2 DEF SubmitNext
<1>2. SubmitTypeOK /\ [SubmitNext]_submitVars => [Gate]_submitVars
  BY <1>1
<1>3. QED
  BY <1>2, SubmitTypeInit, SubmitTypeStep, PTL DEF SubmitSpec, HaltClosesGate

-----------------------------------------------------------------------------
(* Execution *)

(* A task is inside submit_sync only between next_nonce and release. *)
Link == \A t \in Tasks : step[t] # "out" => at[t] = "used"

(* What keeps nonces fresh: the pool's counter is ahead of the chain, of   *)
(* the node and of every transaction signed with the wallet.               *)
Pending == {"out", "checkKill", "checkReverts", "send"}

NonceInv ==
  /\ txNonce \in [Tasks -> Nat]
  /\ chainNonce \in [Wallets -> Nat]
  /\ \A w \in Wallets : chainNonce[w] <= nonce[w]
  /\ \A w \in Wallets : \A n \in Nat : <<w, n>> \in mempool => n < nonce[w]
  /\ \A t \in Tasks : at[t] = "used" => txNonce[t] < nonce[held[t]]
  /\ \A t \in Tasks : at[t] = "used" /\ step[t] \in Pending =>
       /\ txNonce[t] >= chainNonce[held[t]]
       /\ <<held[t], txNonce[t]>> \notin mempool

ExecInv == PoolInv /\ SubmitTypeOK /\ Link

-----------------------------------------------------------------------------
(* Every step of the composition is a step of the pool or leaves it alone. *)
LEMMA ExecPoolStep == [ExecNext]_execVars => [PoolNext]_poolVars
<1> SUFFICES ASSUME [ExecNext]_execVars
             PROVE  PoolNext \/ UNCHANGED poolVars
  OBVIOUS
<1>1. CASE UNCHANGED execVars
  BY <1>1 DEF execVars
<1>2. CASE HandlerStep
  BY <1>2 DEF HandlerStep
<1>3. ASSUME NEW w \in Wallets, Mine(w)
      PROVE  UNCHANGED poolVars
  BY <1>3 DEF Mine
<1>4. ASSUME NEW t \in Tasks, ExecTask(t)
      PROVE  PoolNext \/ UNCHANGED poolVars
  <2>1. CASE AcquireStep(t) \/ Sign(t) \/ SignFails(t)
    BY <2>1 DEF AcquireStep, Sign, SignFails, PoolNext, PoolFinish
  <2>2. CASE Submit(t) \/ SubmitStep(t) \/ SendTx(t) \/ RequestErrs(t)
    BY <2>2 DEF Submit, SubmitStep, SendTx, RequestErrs
  <2>3. CASE FinishOk(t) \/ FinishErr(t) \/ FinishRelease(t)
    BY <2>3 DEF FinishOk, FinishErr, FinishRelease, PoolNext, PoolFinish
  <2>4. QED
    BY <1>4, <2>1, <2>2, <2>3 DEF ExecTask
<1>5. QED
  BY <1>1, <1>2, <1>3, <1>4 DEF ExecNext

(* Every step of the composition is a step of submit_sync or of a handler, *)
(* or leaves the breaker and the tasks' place in submit_sync alone.        *)
LEMMA ExecSubmitStep == [ExecNext]_execVars => [SubmitNext]_submitVars
<1> SUFFICES ASSUME [ExecNext]_execVars
             PROVE  SubmitNext \/ UNCHANGED submitVars
  OBVIOUS
<1>1. CASE UNCHANGED execVars
  BY <1>1 DEF execVars
<1>2. CASE HandlerStep
  BY <1>2 DEF HandlerStep, SubmitNext
<1>3. ASSUME NEW w \in Wallets, Mine(w)
      PROVE  SubmitNext \/ UNCHANGED submitVars
  BY <1>3 DEF Mine, SubmitNext, SubmitTask, SubmitRequest
<1>4. ASSUME NEW t \in Tasks, ExecTask(t)
      PROVE  SubmitNext \/ UNCHANGED submitVars
  <2>1. CASE AcquireStep(t) \/ Sign(t) \/ SignFails(t) \/ FinishRelease(t)
    BY <2>1 DEF AcquireStep, Sign, SignFails, FinishRelease
  <2>2. CASE Submit(t) \/ SubmitStep(t) \/ SendTx(t) \/ RequestErrs(t)
    BY <2>2 DEF Submit, SubmitStep, SendTx, RequestErrs, SubmitNext, SubmitTask,
       SubmitRequest
  <2>3. CASE FinishOk(t) \/ FinishErr(t)
    BY <2>3 DEF FinishOk, FinishErr, SubmitNext, SubmitTask, Results
  <2>4. QED
    BY <1>4, <2>1, <2>2, <2>3 DEF ExecTask
<1>5. QED
  BY <1>1, <1>2, <1>3, <1>4 DEF ExecNext

(* A task enters submit_sync holding a nonce, and leaves it as it gives up *)
(* its wallet.                                                             *)
LEMMA LinkStep == ExecInv /\ [ExecNext]_execVars => Link'
<1> SUFFICES ASSUME ExecInv, [ExecNext]_execVars, NEW u \in Tasks,
                    step'[u] # "out"
             PROVE  at'[u] = "used"
  BY DEF Link
<1> USE DEF ExecInv, PoolInv, PoolTypeOK, SubmitTypeOK, Link, Go, Move
<1>1. CASE UNCHANGED execVars
  BY <1>1 DEF execVars, poolVars, submitVars
<1>2. CASE HandlerStep
  BY <1>2 DEF HandlerStep, Handlers, Kill, ResumeKill, ResumeReverts, poolVars
<1>3. ASSUME NEW w \in Wallets, Mine(w)
      PROVE  at'[u] = "used"
  BY <1>3 DEF Mine, Receipt, poolVars, submitVars
<1>4. ASSUME NEW t \in Tasks, ExecTask(t)
      PROVE  at'[u] = "used"
  <2>1. CASE AcquireStep(t)
    BY <2>1 DEF AcquireStep, BeginAcquire, ScanSlot, PickWallet, NoneFree,
       submitVars
  <2>2. CASE Sign(t)
    BY <2>2 DEF Sign, TakeNonce, submitVars
  <2>3. CASE SignFails(t)
    BY <2>3 DEF SignFails, DropWallet, submitVars
  <2>4. CASE Submit(t)
    BY <2>4 DEF Submit, CallSubmit, poolVars
  <2>5. CASE SubmitStep(t)
    BY <2>5 DEF SubmitStep, SubmitInternal, CheckKill, CheckReverts, Trip,
       RecordSuccess, CountRevert, AddGas, CheckGas, CheckCount, poolVars
  <2>6. CASE SendTx(t) \/ RequestErrs(t)
    BY <2>6 DEF SendTx, RequestErrs, Send, RequestFails, poolVars
  <2>7. CASE FinishOk(t)
    BY <2>7 DEF FinishOk, Return, StampRelease
  <2>8. CASE FinishErr(t)
    BY <2>8 DEF FinishErr, Return, StampRelease, DropWallet
  <2>9. CASE FinishRelease(t)
    BY <2>9 DEF FinishRelease, ClearRelease, submitVars
  <2>10. QED
    BY <1>4, <2>1, <2>2, <2>3, <2>4, <2>5, <2>6, <2>7, <2>8, <2>9 DEF ExecTask
<1>5. QED
  BY <1>1, <1>2, <1>3, <1>4 DEF ExecNext

(* The invariant of the composition holds initially and is kept. *)
LEMMA ExecInvInit == ExecInit => ExecInv
  BY PoolInvInit, SubmitTypeInit DEF ExecInit, ExecInv, Link, SubmitInit

(* One step of the composed executor keeps the invariants of its parts and *)
(* the link between them.                                                  *)
LEMMA ExecInvStep == ExecInv /\ [ExecNext]_execVars => ExecInv'
  BY ExecPoolStep, ExecSubmitStep, LinkStep, PoolInvStep, SubmitTypeStep
     DEF ExecInv

-----------------------------------------------------------------------------
FlightsInv ==
  /\ IsFiniteSet(Flying)
  /\ Cardinality(Flying) \in Nat
  /\ Cardinality(Flying) <= NumWallets

(* Transactions in flight hold different wallets, so there are no more of  *)
(* them than wallets.                                                      *)
LEMMA FlightsFit == ExecInv => FlightsInv
<1> SUFFICES ASSUME ExecInv
             PROVE  FlightsInv
  OBVIOUS
<1> DEFINE f == [t \in Flying |-> held[t]]
<1>1. \A t \in Flying : t \in Tasks /\ at[t] = "used"
  BY DEF ExecInv, Link, Flying, InFlight
<1>2. \A t \in Flying : held[t] \in Wallets /\ held[t] # NoWallet
  BY <1>1 DEF ExecInv, PoolInv, PhaseInv, PoolTypeOK
<1>3. \A t, u \in Flying : held[t] = held[u] => t = u
  BY <1>1, <1>2 DEF ExecInv, PoolInv, ClaimInv
<1>4. f \in Injection(Flying, Wallets)
  BY <1>2, <1>3 DEF Injection, IsInjective
<1>5. IsFiniteSet(Wallets) /\ Cardinality(Wallets) = NumWallets
  <2>1. 0 \in Int /\ NumWallets - 1 \in Int /\ ~(0 > NumWallets - 1)
    BY PoolAssumption
  <2>2. /\ IsFiniteSet(0 .. NumWallets - 1)
        /\ Cardinality(0 .. NumWallets - 1) = NumWallets - 1 - 0 + 1
    BY <2>1, FS_Interval
  <2>3. QED
    BY <2>2, PoolAssumption DEF Wallets
<1>6. IsFiniteSet(Flying) /\ Cardinality(Flying) <= NumWallets
  BY <1>4, <1>5, FS_Injection
<1>7. QED
  BY <1>6, FS_CardinalityType DEF FlightsInv

(* The bound is kept: a transaction that takes off saw the count below the *)
(* threshold and has a wallet, a revert is counted as its flight ends, and *)
(* no other step raises the count or starts a flight.                      *)
LEMMA OverrunStep ==
  ExecInv /\ ExecInv' /\ OverrunBound /\ [ExecNext]_execVars => OverrunBound'
<1> SUFFICES ASSUME ExecInv, ExecInv', OverrunBound, [SubmitNext]_submitVars
             PROVE  OverrunBound'
  BY ExecSubmitStep
<1> DEFINE size == Cardinality(Flying)
<1>1. /\ IsFiniteSet(Flying) /\ size \in Nat /\ size <= NumWallets
      /\ size' \in Nat /\ size' <= NumWallets
  <2>1. FlightsInv /\ FlightsInv'
    BY FlightsFit, PTL
  <2>2. QED
    BY <2>1 DEF FlightsInv
<1>2. /\ MaxReverts \in Nat /\ NumWallets \in Nat
      /\ reverts \in Nat /\ reverts' \in Nat
  BY SubmitAssumption, PoolAssumption DEF ExecInv, SubmitTypeOK
<1>3. ASSUME reverts' <= MaxReverts - 1
      PROVE  OverrunBound'
  BY <1>1, <1>2, <1>3 DEF OverrunBound
<1>4. ASSUME reverts' = reverts, Flying' \subseteq Flying
      PROVE  OverrunBound'
  <2>1. size' <= size
    BY <1>1, <1>4, FS_Subset
  <2>2. QED
    BY <1>1, <1>2, <1>4, <2>1 DEF OverrunBound
<1> USE DEF ExecInv, SubmitTypeOK, Go, Flying, InFlight, breakerVars
<1>5. CASE UNCHANGED submitVars
  BY <1>4, <1>5 DEF submitVars
<1>6. CASE Kill
  BY <1>4, <1>6 DEF Kill
<1>7. ASSUME NEW o \in Operators, ResumeKill(o)
      PROVE  OverrunBound'
  BY <1>4, <1>7 DEF ResumeKill
<1>8. ASSUME NEW o \in Operators, ResumeReverts(o)
      PROVE  OverrunBound'
  <2>1. reverts' = 0
    BY <1>8 DEF ResumeReverts
  <2>2. reverts' <= MaxReverts - 1
    BY <2>1, SubmitAssumption
  <2>3. QED
    BY <1>3, <2>2
<1>9. ASSUME NEW t \in Tasks, SubmitTask(t)
      PROVE  OverrunBound'
  <2>1. CASE \/ CallSubmit(t) \/ CheckKill(t) \/ Trip(t) \/ SubmitRequest(t)
             \/ AddGas(t) \/ CheckGas(t) \/ CheckCount(t)
             \/ \E result \in Results : Return(t, result)
    <3>1. reverts' = reverts /\ Flying' \subseteq Flying
      BY <2>1 DEF CallSubmit, CheckKill, Trip, SubmitRequest, Send,
         RequestFails, Receipt, AddGas, CheckGas, CheckCount, Return, Results
    <3>2. QED
      BY <1>4, <3>1
  <2>2. CASE CheckReverts(t)
    <3>1. CASE reverts >= MaxReverts
      <4>1. reverts' = reverts /\ Flying' \subseteq Flying
        BY <1>2, <2>2, <3>1 DEF CheckReverts
      <4>2. QED
        BY <1>4, <4>1
    <3>2. CASE ~(reverts >= MaxReverts)
      <4>1. reverts' = reverts
        BY <2>2 DEF CheckReverts
      <4>2. reverts' <= MaxReverts - 1
        BY <1>2, <3>2, <4>1
      <4>3. QED
        BY <1>3, <4>2
    <3>3. QED
      BY <3>1, <3>2
  <2>3. CASE RecordSuccess(t)
    <3>1. reverts' = 0
      BY <2>3 DEF RecordSuccess
    <3>2. reverts' <= MaxReverts - 1
      BY <3>1, SubmitAssumption
    <3>3. QED
      BY <1>3, <3>2
  <2>4. CASE CountRevert(t)
    <3>1. t \in Flying /\ Flying' = Flying \ {t} /\ reverts' = reverts + 1
      BY <2>4 DEF CountRevert
    <3>2. Cardinality(Flying \ {t}) = Cardinality(Flying) - 1
      <4>1. IsFiniteSet(Flying) /\ t \in Flying
        BY <1>1, <3>1
      <4> HIDE DEF Flying
      <4>2. QED
        BY <4>1, FS_RemoveElement
    <3> HIDE DEF Flying
    <3>3. QED
      BY <1>1, <1>2, <3>1, <3>2 DEF OverrunBound
  <2>5. QED
    BY <1>9, <2>1, <2>2, <2>3, <2>4 DEF SubmitTask, SubmitInternal
<1>10. QED
  BY <1>5, <1>6, <1>7, <1>8, <1>9 DEF SubmitNext, Handlers

-----------------------------------------------------------------------------
(* Nonces start in step with the chain. *)
LEMMA NonceInvInit == ExecInit => NonceInv
  BY DEF ExecInit, PoolInit, NonceInv

(* Every step keeps the counter of a wallet ahead of the chain, and what a *)
(* task has signed but not sent unknown to the node.                       *)
LEMMA NonceInvStep == ExecInv /\ NonceInv /\ [ExecNext]_execVars => NonceInv'
<1> SUFFICES ASSUME ExecInv, NonceInv, [ExecNext]_execVars
             PROVE  NonceInv'
  OBVIOUS
<1> USE DEF ExecInv, PoolInv, PoolTypeOK, SubmitTypeOK, Go, Move
<1>1. ASSUME UNCHANGED <<txNonce, chainVars, nonce, held>>,
             \A t \in Tasks : at'[t] = "used" => at[t] = "used",
             \A t \in Tasks : at'[t] = "used" /\ step'[t] \in Pending
                               => step[t] \in Pending
      PROVE  NonceInv'
  BY <1>1 DEF NonceInv, chainVars
<1>2. CASE UNCHANGED execVars
  BY <1>1, <1>2 DEF execVars, poolVars, submitVars
<1>3. CASE HandlerStep
  BY <1>1, <1>3 DEF HandlerStep, Handlers, Kill, ResumeKill, ResumeReverts,
     poolVars
<1>4. ASSUME NEW w \in Wallets, Mine(w)
      PROVE  NonceInv'
  <2>1. /\ UNCHANGED <<txNonce, nonce, at, held>>
        /\ chainNonce' = [chainNonce EXCEPT ![w] = @ + 1]
        /\ <<w, chainNonce[w]>> \in mempool
        /\ mempool' = mempool \ {<<w, chainNonce[w]>>}
    BY <1>4 DEF Mine, poolVars
  <2>2. \A t \in Tasks : step'[t] \in Pending => step[t] \in Pending
    BY <1>4 DEF Mine, Receipt, submitVars, Pending
  <2>3. chainNonce[w] + 1 <= nonce[w]
    BY <2>1 DEF NonceInv
  <2>4. /\ chainNonce[w] \in Nat /\ chainNonce' \in [Wallets -> Nat]
        /\ \A x \in Wallets : chainNonce'[x] <= nonce[x]
    BY <2>1, <2>3 DEF NonceInv
  <2>5. ASSUME NEW t \in Tasks, at[t] = "used", step'[t] \in Pending
        PROVE  /\ txNonce[t] >= chainNonce'[held[t]]
               /\ <<held[t], txNonce[t]>> \notin mempool'
    <3>1. /\ txNonce[t] >= chainNonce[held[t]]
          /\ <<held[t], txNonce[t]>> \notin mempool
          /\ txNonce[t] \in Nat /\ held[t] \in Wallets
      BY <2>2, <2>5 DEF NonceInv, PhaseInv
    <3>2. held[t] = w => txNonce[t] # chainNonce[w]
      BY <2>1, <3>1
    <3>3. txNonce[t] >= chainNonce'[held[t]]
      <4>1. chainNonce'[held[t]] = IF held[t] = w THEN chainNonce[w] + 1
                                                  ELSE chainNonce[held[t]]
        BY <2>1, <3>1 DEF NonceInv
      <4>2. QED
        BY <2>4, <3>1, <3>2, <4>1
    <3>4. QED
      BY <2>1, <3>1, <3>3
  <2>6. QED
    BY <2>1, <2>4, <2>5 DEF NonceInv
<1>5. ASSUME NEW t \in Tasks, ExecTask(t)
      PROVE  NonceInv'
  <2>1. CASE AcquireStep(t)
    BY <1>1, <2>1 DEF AcquireStep, BeginAcquire, ScanSlot, PickWallet, NoneFree,
       submitVars, slotVars, NonceInv, chainVars, PhaseInv
  <2>2. CASE Sign(t)
    <3>1. /\ held[t] \in Wallets
          /\ nonce' = [nonce EXCEPT ![held[t]] = @ + 1]
          /\ txNonce' = [txNonce EXCEPT ![t] = nonce[held[t]]]
          /\ at' = [at EXCEPT ![t] = "used"]
          /\ UNCHANGED <<held, step, chainNonce, mempool>>
      BY <2>2 DEF Sign, TakeNonce, submitVars, chainVars, PhaseInv
    <3>2. \A u \in Tasks \ {t} : at[u] = "used" => held[u] # held[t]
      BY <3>1 DEF ClaimInv, PhaseInv
    <3>3. <<held[t], nonce[held[t]]>> \notin mempool
      BY <3>1 DEF NonceInv
    <3>4. QED
      BY <3>1, <3>2, <3>3 DEF NonceInv, PhaseInv
  <2>3. CASE SignFails(t)
    BY <1>1, <2>3 DEF SignFails, DropWallet, submitVars, slotVars, NonceInv,
       chainVars
  <2>4. CASE Submit(t) \/ SubmitStep(t) \/ RequestErrs(t)
    BY <1>1, <2>4 DEF Submit, CallSubmit, SubmitStep, SubmitInternal, CheckKill,
       CheckReverts, Trip, RecordSuccess, CountRevert, AddGas, CheckGas,
       CheckCount, RequestErrs, RequestFails, poolVars, Pending
  <2>5. CASE SendTx(t)
    <3>1. /\ at[t] = "used" /\ step'[t] = "wait"
          /\ \A u \in Tasks \ {t} : step'[u] = step[u]
          /\ mempool' \subseteq mempool \cup {<<held[t], txNonce[t]>>}
          /\ UNCHANGED <<nonce, at, held, txNonce, chainNonce>>
      BY <2>5 DEF SendTx, Send, poolVars, Link
    <3>2. \A u \in Tasks \ {t} : at[u] = "used" => held[u] # held[t]
      BY <3>1 DEF ClaimInv, PhaseInv
    <3>3. QED
      BY <3>1, <3>2 DEF NonceInv, PhaseInv, Pending
  <2>6. CASE FinishOk(t) \/ FinishErr(t) \/ FinishRelease(t)
    <3>0. CASE FinishRelease(t)
      BY <3>0 DEF FinishRelease, ClearRelease, submitVars, chainVars, NonceInv
    <3>1. CASE FinishOk(t)
      BY <3>1 DEF FinishOk, Return, StampRelease, chainVars, NonceInv
    <3>2. CASE FinishErr(t) /\ DropWallet(t)
      BY <3>2 DEF FinishErr, Return, DropWallet, chainVars, slotVars, NonceInv
    <3>3. CASE FinishErr(t) /\ StampRelease(t)
      BY <3>3 DEF FinishErr, Return, StampRelease, chainVars, slotVars, NonceInv
    <3>4. QED
      BY <2>6, <3>0, <3>1, <3>2, <3>3 DEF FinishErr
  <2>7. QED
    BY <1>5, <2>1, <2>2, <2>3, <2>4, <2>5, <2>6 DEF ExecTask
<1>6. QED
  BY <1>2, <1>3, <1>4, <1>5 DEF ExecNext

(* The invariant gives freshness, in the form the runs check. *)
LEMMA NonceInvFresh == ExecInv /\ NonceInv => FreshNonce
<1> SUFFICES ASSUME ExecInv, NonceInv, NEW t \in Tasks,
                    step[t] \in {"checkKill", "checkReverts", "send"}
             PROVE  /\ txNonce[t] >= chainNonce[held[t]]
                    /\ <<held[t], txNonce[t]>> \notin mempool
                    /\ \A u \in Tasks \ {t} : at[u] = "used" => held[u] # held[t]
  BY DEF FreshNonce
<1>1. at[t] = "used" /\ step[t] \in Pending
  BY DEF ExecInv, Link, Pending
<1>2. QED
  BY <1>1 DEF ExecInv, NonceInv, PoolInv, PhaseInv, ClaimInv

-----------------------------------------------------------------------------
(* As long as every attempt of a wallet got its receipt: the counter and   *)
(* the chain agree while no task has taken a nonce, the one that has is at *)
(* the counter's last value, and the chain has moved past it by the time   *)
(* the receipt is there.                                                   *)
Answered == {"success", "revert", "addGas", "checkGas", "checkCount", "ok"}
Signed(t, w) == at[t] = "used" /\ held[t] = w

InStepInv ==
  \A w \in Wallets \ burned :
    /\ (\A t \in Tasks : ~Signed(t, w)) => chainNonce[w] = nonce[w]
    /\ \A t \in Tasks : Signed(t, w) =>
         /\ nonce[w] = txNonce[t] + 1
         /\ step[t] \in Pending => chainNonce[w] = txNonce[t]
         /\ step[t] \in Answered => chainNonce[w] = nonce[w]

(* At the start no wallet has sent anything, so every counter is in step *)
(* with the chain.                                                       *)
LEMMA InStepInit == ExecInit => InStepInv
  BY DEF ExecInit, PoolInit, SubmitInit, InStepInv, Signed

(* Attempts that end without a receipt burn their wallet; every other step *)
(* keeps the counter in step.                                              *)
LEMMA InStepStep == ExecInv /\ NonceInv /\ InStepInv /\ [ExecNext]_execVars => InStepInv'
<1> SUFFICES ASSUME ExecInv, NonceInv, InStepInv, [ExecNext]_execVars
             PROVE  InStepInv'
  OBVIOUS
<1> USE DEF ExecInv, PoolInv, PoolTypeOK, SubmitTypeOK, Go, Move
<1>1. ASSUME UNCHANGED <<txNonce, chainNonce, nonce>>, burned \subseteq burned',
             \A t \in Tasks, w \in Wallets : Signed(t, w)' <=> Signed(t, w),
             \A t \in Tasks : at[t] = "used" /\ step'[t] \in Pending => step[t] \in Pending,
             \A t \in Tasks : at[t] = "used" /\ step'[t] \in Answered => step[t] \in Answered
      PROVE  InStepInv'
  BY <1>1 DEF InStepInv, Signed
<1>2. CASE UNCHANGED execVars
  BY <1>1, <1>2 DEF execVars, poolVars, submitVars, chainVars, Signed
<1>3. CASE HandlerStep
  BY <1>1, <1>3 DEF HandlerStep, Handlers, Kill, ResumeKill, ResumeReverts,
     poolVars, chainVars, Signed
<1>4. ASSUME NEW w \in Wallets, Mine(w)
      PROVE  InStepInv'
  <2>1. /\ UNCHANGED <<txNonce, nonce, at, held, burned>>
        /\ chainNonce' = [chainNonce EXCEPT ![w] = @ + 1]
        /\ <<w, chainNonce[w]>> \in mempool
    BY <1>4 DEF Mine, poolVars
  <2>2. \A t \in Tasks : step'[t] # step[t] =>
          /\ at[t] = "used" /\ held[t] = w /\ txNonce[t] = chainNonce[w]
          /\ step'[t] \in {"success", "revert"}
    BY <1>4 DEF Mine, Receipt, submitVars, Link
  <2>3. /\ chainNonce[w] \in Nat /\ chainNonce[w] < nonce[w] /\ nonce[w] \in Nat
        /\ chainNonce'[w] = chainNonce[w] + 1
        /\ \A x \in Wallets \ {w} : chainNonce'[x] = chainNonce[x]
    BY <2>1 DEF NonceInv
  <2>4. SUFFICES ASSUME NEW x \in Wallets \ burned
                 PROVE  /\ (\A t \in Tasks : ~Signed(t, x)) => chainNonce'[x] = nonce[x]
                        /\ \A t \in Tasks : Signed(t, x) =>
                             /\ nonce[x] = txNonce[t] + 1
                             /\ step'[t] \in Pending => chainNonce'[x] = txNonce[t]
                             /\ step'[t] \in Answered => chainNonce'[x] = nonce[x]
    BY <2>1 DEF InStepInv, Signed
  <2>5. CASE x # w
    <3>1. \A t \in Tasks : Signed(t, x) => step'[t] = step[t]
      BY <2>2, <2>5 DEF Signed
    <3>2. QED
      BY <2>3, <2>5, <3>1 DEF InStepInv
  <2>6. CASE x = w
    <3>1. PICK t \in Tasks : Signed(t, w)
      BY <2>3, <2>6 DEF InStepInv
    <3>2. \A u \in Tasks : Signed(u, w) => u = t
      BY <3>1 DEF Signed, ClaimInv, PhaseInv
    <3>3. nonce[w] = txNonce[t] + 1 /\ txNonce[t] \in Nat
      BY <2>6, <3>1 DEF InStepInv, NonceInv
    <3>4. step[t] \notin Pending /\ step[t] \notin Answered
      BY <2>1, <2>3, <2>6, <3>1 DEF InStepInv, NonceInv, Signed
    <3>5. step'[t] \notin Pending
      BY <2>2, <3>4 DEF Pending
    <3>6. step'[t] \in Answered => chainNonce'[w] = nonce[w]
      BY <2>2, <2>3, <3>3, <3>4
    <3>7. QED
      BY <2>6, <3>1, <3>2, <3>3, <3>5, <3>6
  <2>7. QED
    BY <2>5, <2>6
<1>5. ASSUME NEW t \in Tasks, ExecTask(t)
      PROVE  InStepInv'
  <2>1. CASE AcquireStep(t)
    BY <1>1, <2>1 DEF AcquireStep, BeginAcquire, ScanSlot, PickWallet, NoneFree,
       submitVars, slotVars, chainVars, PhaseInv, Signed
  <2>2. CASE Sign(t)
    <3>1. /\ held[t] \in Wallets /\ at[t] = "held"
          /\ nonce' = [nonce EXCEPT ![held[t]] = @ + 1]
          /\ txNonce' = [txNonce EXCEPT ![t] = nonce[held[t]]]
          /\ at' = [at EXCEPT ![t] = "used"]
          /\ UNCHANGED <<held, step, chainNonce, burned>>
      BY <2>2 DEF Sign, TakeNonce, submitVars, chainVars, PhaseInv
    <3>2. \A u \in Tasks \ {t} : held[u] # held[t]
      BY <3>1 DEF ClaimInv, PhaseInv
    <3>3. step[t] = "out"
      BY <3>1 DEF Link
    <3>4. PICK v \in Wallets : v = held[t]
      BY <3>1
    <3>5. /\ nonce'[v] = nonce[v] + 1 /\ nonce[v] \in Nat /\ txNonce'[t] = nonce[v]
          /\ \A x \in Wallets \ {v} : nonce'[x] = nonce[x]
          /\ \A u \in Tasks \ {t} : txNonce'[u] = txNonce[u]
      BY <3>1, <3>4 DEF NonceInv
    <3>6. \A u \in Tasks, x \in Wallets :
            Signed(u, x)' <=> (Signed(u, x) \/ (u = t /\ x = v))
      BY <3>1, <3>4 DEF Signed
    <3>7. \A u \in Tasks : ~Signed(u, v)
      BY <3>1, <3>2, <3>4 DEF Signed
    <3>8. SUFFICES ASSUME NEW x \in Wallets \ burned
                   PROVE  /\ (\A u \in Tasks : ~Signed(u, x)') => chainNonce[x] = nonce'[x]
                          /\ \A u \in Tasks : Signed(u, x)' =>
                               /\ nonce'[x] = txNonce'[u] + 1
                               /\ step[u] \in Pending => chainNonce[x] = txNonce'[u]
                               /\ step[u] \in Answered => chainNonce[x] = nonce'[x]
      BY <3>1 DEF InStepInv
    <3>9. CASE x = v
      <4>1. chainNonce[x] = nonce[x]
        BY <3>7, <3>9 DEF InStepInv
      <4>2. \A u \in Tasks : Signed(u, x)' <=> u = t
        BY <3>6, <3>7, <3>9
      <4>3. step[t] \notin Answered
        BY <3>3 DEF Answered
      <4>4. QED
        BY <3>5, <3>9, <4>1, <4>2, <4>3
    <3>10. CASE x # v
      <4>1. \A u \in Tasks : Signed(u, x)' <=> Signed(u, x)
        BY <3>6, <3>10
      <4>2. \A u \in Tasks : Signed(u, x) => u # t
        BY <3>1 DEF Signed
      <4>3. QED
        BY <3>5, <3>10, <4>1, <4>2 DEF InStepInv
    <3>11. QED
      BY <3>9, <3>10
  <2>3. CASE SignFails(t) \/ FinishErr(t)
    <3>1. /\ burned' = burned \cup {held[t]} /\ UNCHANGED <<txNonce, chainNonce, nonce>>
          /\ \A u \in Tasks \ {t} : at'[u] = at[u] /\ held'[u] = held[u] /\ step'[u] = step[u]
          /\ at'[t] # "used"
      BY <2>3 DEF SignFails, FinishErr, Return, DropWallet, StampRelease, submitVars,
         slotVars, chainVars
    <3>2. \A u \in Tasks, w \in Wallets \ burned' :
            Signed(u, w)' <=> Signed(u, w)
      BY <3>1 DEF Signed
    <3>3. \A w \in Wallets \ burned' : ~Signed(t, w)
      BY <3>1 DEF Signed
    <3>4. QED
      BY <3>1, <3>2, <3>3 DEF InStepInv
  <2>4. CASE Submit(t) \/ SubmitStep(t) \/ RequestErrs(t)
    BY <1>1, <2>4 DEF Submit, CallSubmit, SubmitStep, SubmitInternal, CheckKill,
       CheckReverts, Trip, RecordSuccess, CountRevert, AddGas, CheckGas,
       CheckCount, RequestErrs, RequestFails, poolVars, chainVars, Pending, Answered, Signed
  <2>5. CASE SendTx(t)
    BY <1>1, <2>5 DEF SendTx, Send, poolVars, Pending, Answered, Signed
  <2>6. CASE FinishOk(t)
    <3>1. /\ at[t] = "used" /\ at' = [at EXCEPT ![t] = "stamped"] /\ step[t] = "ok"
          /\ UNCHANGED <<txNonce, chainNonce, nonce, held, burned>>
          /\ \A u \in Tasks \ {t} : step'[u] = step[u]
      BY <2>6 DEF FinishOk, Return, StampRelease, chainVars
    <3>2. \A u \in Tasks, w \in Wallets : Signed(u, w)' <=> u # t /\ Signed(u, w)
      BY <3>1 DEF Signed
    <3>3. PICK v \in Wallets : v = held[t]
      BY <3>1 DEF PhaseInv
    <3>4. v \notin burned => chainNonce[v] = nonce[v]
      BY <3>1, <3>3 DEF InStepInv, Signed, Answered
    <3>5. \A w \in Wallets \ {v} : ~Signed(t, w)
      BY <3>3 DEF Signed
    <3>6. QED
      BY <3>1, <3>2, <3>4, <3>5 DEF InStepInv
  <2>7. CASE FinishRelease(t)
    <3>1. /\ at[t] = "stamped" /\ at' = [at EXCEPT ![t] = "out"]
          /\ UNCHANGED <<chainNonce, nonce, burned, step>>
          /\ \A u \in Tasks \ {t} : held'[u] = held[u] /\ txNonce'[u] = txNonce[u]
      BY <2>7 DEF FinishRelease, ClearRelease, chainVars, submitVars, NonceInv
    <3>2. \A u \in Tasks, w \in Wallets : Signed(u, w)' <=> Signed(u, w)
      BY <3>1 DEF Signed
    <3>3. \A w \in Wallets : ~Signed(t, w)
      BY <3>1 DEF Signed
    <3>4. QED
      BY <3>1, <3>2, <3>3 DEF InStepInv
  <2>8. QED
    BY <1>5, <2>1, <2>2, <2>3, <2>4, <2>5, <2>6, <2>7 DEF ExecTask
<1>6. QED
  BY <1>2, <1>3, <1>4, <1>5 DEF ExecNext

(* A task about to send for a wallet whose attempts all got receipts has *)
(* signed the nonce the chain expects.                                   *)
LEMMA InStepSends == ExecInv /\ InStepInv => NonceInStep
<1> SUFFICES ASSUME ExecInv, InStepInv, NEW t \in Tasks, step[t] = "send", held[t] \notin burned
             PROVE  txNonce[t] = chainNonce[held[t]]
  BY DEF NonceInStep
<1>1. at[t] = "used" /\ held[t] \in Wallets
  BY DEF ExecInv, Link, PoolInv, PhaseInv, PoolTypeOK
<1>2. QED
  BY <1>1 DEF InStepInv, Signed, Pending

-----------------------------------------------------------------------------
(* The node's transactions and the burned wallets keep their types.        *)
RecordsType == mempool \subseteq Wallets \X Nat /\ burned \subseteq Wallets

(* One step keeps the types of the records of nonces, pending transactions *)
(* and burned wallets.                                                     *)
LEMMA RecordsTypeStep == ExecInv /\ NonceInv /\ RecordsType /\ [ExecNext]_execVars => RecordsType'
<1> SUFFICES ASSUME ExecInv, NonceInv, RecordsType, [ExecNext]_execVars
             PROVE  RecordsType'
  OBVIOUS
<1> USE DEF RecordsType, chainVars
<1>1. CASE UNCHANGED execVars
  BY <1>1 DEF execVars
<1>2. CASE HandlerStep
  BY <1>2 DEF HandlerStep
<1>3. ASSUME NEW w \in Wallets, Mine(w)
      PROVE  RecordsType'
  BY <1>3 DEF Mine
<1>4. ASSUME NEW t \in Tasks, ExecTask(t)
      PROVE  RecordsType'
  <2>1. at[t] = "used" => held[t] \in Wallets /\ txNonce[t] \in Nat
    BY DEF ExecInv, PoolInv, PoolTypeOK, PhaseInv, NonceInv
  <2>2. SignFails(t) \/ FinishErr(t) \/ SendTx(t) => at[t] = "used"
    BY DEF SignFails, DropWallet, FinishErr, StampRelease, Move, SendTx, Send, Go, ExecInv, Link
  <2>3. CASE SignFails(t) \/ FinishErr(t) \/ SendTx(t)
    BY <2>1, <2>2, <2>3 DEF SignFails, FinishErr, SendTx
  <2>4. CASE \/ AcquireStep(t) \/ Sign(t) \/ Submit(t) \/ SubmitStep(t) \/ RequestErrs(t)
             \/ FinishOk(t) \/ FinishRelease(t)
    BY <2>4 DEF AcquireStep, Sign, Submit, SubmitStep, RequestErrs, FinishOk, FinishRelease
  <2>5. QED
    BY <1>4, <2>3, <2>4 DEF ExecTask
<1>5. QED
  BY <1>1, <1>2, <1>3, <1>4 DEF ExecNext

(* The pool, the breaker, the nonces and the node's transactions keep their *)
(* types, for any tasks, wallets and requests.                             *)
THEOREM ExecTypeCorrect == ExecSpec => []ExecTypeOK
<1>1. ExecInit => RecordsType
  BY DEF ExecInit, RecordsType
<1>2. ExecInv /\ NonceInv /\ RecordsType => ExecTypeOK
  BY DEF ExecInv, PoolInv, NonceInv, RecordsType, ExecTypeOK
<1>3. QED
  BY <1>1, <1>2, ExecInvInit, ExecInvStep, NonceInvInit, NonceInvStep, RecordsTypeStep, PTL
     DEF ExecSpec

-----------------------------------------------------------------------------
(* The composition implements the pool and the breaker specified alone:    *)
(* what is proved of either holds with the other attached.                 *)
THEOREM ExecImplementsParts == ExecSpec => PoolSpec /\ SubmitSpec
<1>1. ExecInit => PoolInit /\ SubmitInit
  BY DEF ExecInit
<1>2. QED
  BY <1>1, ExecPoolStep, ExecSubmitStep, PTL DEF ExecSpec, PoolSpec, SubmitSpec

(* Exclusive ownership and an armed breaker hold of whole attempts.        *)
THEOREM ExecSafe == ExecSpec => [](Exclusive /\ BreakerArmed)
  BY ExecImplementsParts, PoolExclusive, BreakerStaysArmed, PTL

(* The count of consecutive reverts, with every transaction in flight      *)
(* about to revert, exceeds the last permitted value by no more than the   *)
(* number of wallets, for any number of tasks and any interleaving of      *)
(* submissions, receipts, kills and resumes.                               *)
THEOREM OverrunIsBounded == ExecSpec => []OverrunBound
<1>1. ExecInit => OverrunBound
  <2> SUFFICES ASSUME ExecInit
               PROVE  OverrunBound
    OBVIOUS
  <2>1. Flying = {} /\ reverts = 0
    BY DEF ExecInit, SubmitInit, Flying, InFlight
  <2>2. Cardinality(Flying) = 0
    BY <2>1, FS_EmptySet
  <2>3. QED
    BY <2>1, <2>2, SubmitAssumption, PoolAssumption DEF OverrunBound
<1>2. QED
  BY <1>1, ExecInvInit, ExecInvStep, OverrunStep, PTL DEF ExecSpec

(* No transaction is sent with a nonce its wallet has already used, though *)
(* attempts overlap, fail half-way and drop wallets.                       *)
THEOREM NoncesAreFresh == ExecSpec => []FreshNonce
<1>1. QED
  BY ExecInvInit, ExecInvStep, NonceInvInit, NonceInvStep, NonceInvFresh, PTL
     DEF ExecSpec

(* A wallet whose every attempt got its receipt sends exactly the nonce    *)
(* the chain expects next, whatever the other wallets and tasks do.        *)
THEOREM NoncesAreInStep == ExecSpec => []NonceInStep
  BY ExecInvInit, ExecInvStep, NonceInvInit, NonceInvStep, InStepInit, InStepStep,
     InStepSends, PTL DEF ExecSpec
=============================================================================
