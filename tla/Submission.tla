----------------------------- MODULE Submission -----------------------------
(***************************************************************************)
(* submit_sync (executor/src/submit.rs) and the circuit breaker it reads   *)
(* and drives (BotState in core/src/state.rs), together with the HTTP      *)
(* handlers that set and clear it (api/src/lib.rs).  The three breaker     *)
(* variables are independent atomics: every load and store is a step, and  *)
(* other tasks and the handlers run between any two of them.               *)
(***************************************************************************)
EXTENDS StrategyTasks, Naturals, FiniteSets

CONSTANTS
  Operators,   \* concurrently running /kill and /resume requests
  MaxReverts,  \* config.max_consecutive_reverts
  GasKill,     \* config.gas_kill_threshold_hype, in units of GasCosts
  GasCosts     \* what gas_cost_hype_scaled may return for a reverted tx

ASSUME SubmitAssumption ==
  /\ MaxReverts \in Nat \ {0}
  /\ GasKill \in Nat \ {0}
  /\ GasCosts \subseteq Nat

VARIABLES
  killSwitch,  \* BotState.kill_switch
  reverts,     \* BotState.consecutive_reverts
  gasSpent,    \* BotState.gas_spent_window, no further than GasKill
  step,        \* where each task is in submit_sync
  newCount,    \* record_revert's result, the local new_count
  resume,      \* is this request between the two stores of resume_handler
  quiet        \* history: since the last resume's first store, no kill
               \* request has arrived and no revert has been counted

breakerVars == <<killSwitch, reverts, gasSpent>>
submitVars == <<killSwitch, reverts, gasSpent, step, newCount, resume, quiet>>

Checking == {"checkReverts", "trip"}
InFlight == {"send", "wait", "success", "revert"}
Recording == {"addGas", "checkGas", "checkCount"}
Results == {"ok", "err"}
SubmitSteps == {"out", "checkKill"} \cup Checking \cup InFlight
                 \cup Recording \cup Results

SubmitTypeOK ==
  /\ killSwitch \in BOOLEAN
  /\ reverts \in Nat
  /\ gasSpent \in 0 .. GasKill
  /\ step \in [Tasks -> SubmitSteps]
  /\ newCount \in [Tasks -> Nat]
  /\ resume \in [Operators -> BOOLEAN]
  /\ quiet \in BOOLEAN

SubmitInit ==
  /\ killSwitch = FALSE
  /\ reverts = 0
  /\ gasSpent = 0
  /\ step = [t \in Tasks |-> "out"]
  /\ newCount = [t \in Tasks |-> 0]
  /\ resume = [o \in Operators |-> FALSE]
  /\ quiet = FALSE

Go(t, from, to) == step[t] = from /\ step' = [step EXCEPT ![t] = to]

-----------------------------------------------------------------------------
(* submit_sync up to the request *)

CallSubmit(t) ==
  /\ Go(t, "out", "checkKill")
  /\ UNCHANGED <<breakerVars, newCount, resume, quiet>>

CheckKill(t) ==
  /\ \/ killSwitch /\ Go(t, "checkKill", "err")
     \/ ~killSwitch /\ Go(t, "checkKill", "checkReverts")
  /\ UNCHANGED <<breakerVars, newCount, resume, quiet>>

(* >= here and in CheckCount, as in the code: README.md:127 and            *)
(* state.rs:120 say >, AUDIT_REPORT.md:340 says that three reverts do.     *)
CheckReverts(t) ==
  /\ \/ reverts >= MaxReverts /\ Go(t, "checkReverts", "trip")
     \/ reverts < MaxReverts /\ Go(t, "checkReverts", "send")
  /\ UNCHANGED <<breakerVars, newCount, resume, quiet>>

Trip(t) ==
  /\ Go(t, "trip", "err")
  /\ killSwitch' = TRUE
  /\ UNCHANGED <<reverts, gasSpent, newCount, resume, quiet>>

(* raw_request: the transaction leaves the bot, ... *)
Send(t) ==
  /\ Go(t, "send", "wait")
  /\ UNCHANGED <<breakerVars, newCount, resume, quiet>>

(* ... and the await ends with a receipt, or with a transport, node or     *)
(* deserialization error, before or after the transaction reached the node *)
Receipt(t, outcome) ==
  /\ outcome \in {"success", "revert"}
  /\ Go(t, "wait", outcome)
  /\ UNCHANGED <<breakerVars, newCount, resume, quiet>>

RequestFails(t) ==
  /\ Go(t, "send", "err") \/ Go(t, "wait", "err")
  /\ UNCHANGED <<breakerVars, newCount, resume, quiet>>

-----------------------------------------------------------------------------
(* submit_sync after the receipt *)

(* Variant for mutation: a success also lifts the halt. *)
RecordSuccessLifts(t) ==
  /\ Go(t, "success", "ok")
  /\ reverts' = 0
  /\ killSwitch' = FALSE
  /\ UNCHANGED <<gasSpent, newCount, resume, quiet>>

RecordSuccess(t) ==
  /\ Go(t, "success", "ok")
  /\ reverts' = 0
  /\ UNCHANGED <<killSwitch, gasSpent, newCount, resume, quiet>>

(* Variant for mutation: the caller counts the revert once more. *)
CountRevertTwice(t) ==
  /\ Go(t, "revert", "addGas")
  /\ reverts' = reverts + 2
  /\ newCount' = [newCount EXCEPT ![t] = reverts + 2]
  /\ quiet' = FALSE
  /\ UNCHANGED <<killSwitch, gasSpent, resume>>

(* record_revert: two fetch_adds; the first one's result is returned *)
CountRevert(t) ==
  /\ Go(t, "revert", "addGas")
  /\ reverts' = reverts + 1
  /\ newCount' = [newCount EXCEPT ![t] = reverts + 1]
  /\ quiet' = FALSE
  /\ UNCHANGED <<killSwitch, gasSpent, resume>>

(* The window only grows, and is only ever compared with GasKill, so the   *)
(* model stops counting there.                                             *)
AddGas(t) ==
  /\ Go(t, "addGas", "checkGas")
  /\ \E g \in GasCosts :
       gasSpent' = IF gasSpent + g >= GasKill THEN GasKill ELSE gasSpent + g
  /\ UNCHANGED <<killSwitch, reverts, newCount, resume, quiet>>

CheckGas(t) ==
  /\ Go(t, "checkGas", "checkCount")
  /\ killSwitch' = (killSwitch \/ gasSpent >= GasKill)
  /\ UNCHANGED <<reverts, gasSpent, newCount, resume, quiet>>

(* Variant for mutation: the outcome of the comparison is stored, whatever *)
(* another task has stored before.                                         *)
CheckCountStored(t) ==
  /\ Go(t, "checkCount", "ok")
  /\ killSwitch' = (newCount[t] >= MaxReverts)
  /\ UNCHANGED <<reverts, gasSpent, newCount, resume, quiet>>

CheckCount(t) ==
  /\ Go(t, "checkCount", "ok")
  /\ killSwitch' = (killSwitch \/ newCount[t] >= MaxReverts)
  /\ UNCHANGED <<reverts, gasSpent, newCount, resume, quiet>>

(* The caller takes the Result. *)
Return(t, result) ==
  /\ result \in Results
  /\ Go(t, result, "out")
  /\ newCount' = [newCount EXCEPT ![t] = 0]
  /\ UNCHANGED <<breakerVars, resume, quiet>>

-----------------------------------------------------------------------------
(* kill_handler and resume_handler *)

Kill ==
  /\ killSwitch' = TRUE
  /\ quiet' = FALSE
  /\ UNCHANGED <<reverts, gasSpent, step, newCount, resume>>

ResumeKill(o) ==
  /\ ~resume[o]
  /\ resume' = [resume EXCEPT ![o] = TRUE]
  /\ killSwitch' = FALSE
  /\ quiet' = TRUE
  /\ UNCHANGED <<reverts, gasSpent, step, newCount>>

ResumeReverts(o) ==
  /\ resume[o]
  /\ resume' = [resume EXCEPT ![o] = FALSE]
  /\ reverts' = 0
  /\ UNCHANGED <<killSwitch, gasSpent, step, newCount, quiet>>

-----------------------------------------------------------------------------
SubmitInternal(t) ==
  \/ CheckKill(t) \/ CheckReverts(t) \/ Trip(t)
  \/ RecordSuccess(t) \/ CountRevert(t)
  \/ AddGas(t) \/ CheckGas(t) \/ CheckCount(t)

SubmitRequest(t) ==
  \/ Send(t) \/ RequestFails(t)
  \/ \E outcome \in {"success", "revert"} : Receipt(t, outcome)

SubmitTask(t) ==
  \/ CallSubmit(t) \/ SubmitInternal(t) \/ SubmitRequest(t)
  \/ \E result \in Results : Return(t, result)

Handlers == Kill \/ \E o \in Operators : ResumeKill(o) \/ ResumeReverts(o)

SubmitNext == Handlers \/ \E t \in Tasks : SubmitTask(t)

SubmitSpec == SubmitInit /\ [][SubmitNext]_submitVars

(* Tasks keep running to their next await, and a handler that has begun    *)
(* returns.  The node's answers are under no fairness: raw_request is      *)
(* called without a timeout.                                               *)
FairSubmitSpec ==
  /\ SubmitSpec
  /\ \A t \in Tasks : WF_submitVars(SubmitInternal(t))
  /\ \A o \in Operators : WF_submitVars(ResumeReverts(o))

-----------------------------------------------------------------------------
(* A revert count at the threshold never goes unnoticed: the bot is        *)
(* halted, or the task that counted up to it has yet to reach its halt, or *)
(* a resume is about to zero the count.  "At" is the code's boundary       *)
(* (submit.rs:60, :100, state.rs:170); README.md:127 and state.rs:120 put  *)
(* it one revert later.  That no halt is overtaken or undone by another    *)
(* task is what is at stake here, on either boundary.                      *)
BreakerArmed ==
  reverts >= MaxReverts =>
    \/ killSwitch
    \/ \E t \in Tasks : step[t] \in Recording /\ newCount[t] >= MaxReverts
    \/ \E o \in Operators : resume[o]

(* From the moment the bot is halted until a resume, no task gets past the *)
(* kill-switch check: the set of submissions still to come only shrinks.   *)
HaltClosesGate ==
  [][killSwitch /\ killSwitch' =>
       \A t \in Tasks : step'[t] \in {"checkReverts"} \cup InFlight =>
                          step[t] \in {"checkReverts"} \cup InFlight]_submitVars

(* A revert count that has reached the threshold halts the bot for good,   *)
(* whatever successes of transactions still in flight do to the count,     *)
(* unless somebody resumes ("Manual resume required", README.md:131).  The *)
(* threshold is the code's, as in BreakerArmed.                            *)
StaysHalted ==
  (reverts >= MaxReverts) ~> ([]killSwitch \/ \E o \in Operators : resume[o])

(* README.md:117, /resume will "clear kill switch + revert counter": when  *)
(* the request has returned, and no revert was counted and no kill asked   *)
(* for since it began, the bot is not halted.                              *)
ResumeHolds ==
  quiet /\ (\A o \in Operators : ~resume[o]) => ~killSwitch
=============================================================================
