------------------------------- MODULE EvmArb -------------------------------
(***************************************************************************)
(* strategies/evm_arb: the two-phase machine of S1 (S1Executor::tick,      *)
(* phase.rs) and the escrow it drives (EvmArbExecutor.sol).  main spawns a *)
(* tick per event; ticks overlap, each copies the phase before its awaits  *)
(* and writes it after them.  The phase Phase2Complete is written nowhere. *)
(* Time is counted in steps of the granularity of the two timeouts.        *)
(***************************************************************************)
EXTENDS Integers, FiniteSets

CONSTANTS
  Ticks,        \* bound: ticks that may be running at a time
  NumWallets,   \* wallets in the pool
  Timeout       \* PHASE2_TIMEOUT, 30 seconds in phase.rs and in the contract

ASSUME EvmArbAssumption ==
  /\ IsFiniteSet(Ticks)
  /\ NumWallets \in Nat
  /\ Timeout \in Nat \ {0}

VARIABLES
  deployment,  \* "as written": the contract at this commit, whose flash
               \* callback finds the lock taken and whose swaps are missing;
               \* "wired": the contract its comments announce
  escrow,      \* phase = 1 in the contract, and the age of phase1Timestamp
  phase,       \* S1Executor.state_machine, and the age of its Instant
  tick,        \* the place and the locals of each tick
  free,        \* wallets acquire can return
  lost,        \* wallets a `?` left without a release
  orders,      \* history: phase 2 orders landed since phase 1 was last recorded
  clean        \* history: ticks did not overlap, every call was answered, every
               \* exit worked, the operator did not sweep

evmArbVars == <<deployment, escrow, phase, tick, free, lost, orders, clean>>

Places == {"off", "simulate", "order", "exit", "reset", "send", "limbo", "landed"}
Kinds == {"none", "phase1", "order", "exit"}
Off == [at |-> "off", kind |-> "none", ok |-> FALSE]

EvmArbTypeOK ==
  /\ deployment \in {"as written", "wired"}
  /\ escrow \in [full : BOOLEAN, age : 0 .. Timeout]
  /\ phase \in [at : {"idle", "held", "placed", "exited"}, age : 0 .. Timeout]
  /\ tick \in [Ticks -> [at : Places, kind : Kinds, ok : BOOLEAN]]
  /\ free \in 0 .. NumWallets /\ lost \in 0 .. NumWallets
  /\ orders \in Nat
  /\ clean \in BOOLEAN

EvmArbInit ==
  /\ deployment \in {"as written", "wired"}
  /\ escrow = [full |-> FALSE, age |-> 0]
  /\ phase = [at |-> "idle", age |-> 0]
  /\ tick = [i \in Ticks |-> Off]
  /\ free = NumWallets /\ lost = 0 /\ orders = 0 /\ clean = TRUE

-----------------------------------------------------------------------------
(* tick *)

Becomes(i, place, kind, ok) ==
  tick' = [tick EXCEPT ![i] = [at |-> place, kind |-> kind, ok |-> ok]]

Enters(i, place, kind) == Becomes(i, place, kind, FALSE)
Leaves(i) == Becomes(i, "off", "none", FALSE)

Alone(i) == \A j \in Ticks \ {i} : tick[j].at = "off"

(* Variant for mutation: an order that timed out waits for its fill. *)
StartWaits(i) ==
  /\ tick[i].at = "off"
  /\ \/ phase.at = "idle" /\ Enters(i, "simulate", "phase1")
     \/ phase.at = "held" /\ Enters(i, "exit", "exit")
     \/ phase.at = "held" /\ phase.age < Timeout /\ Enters(i, "order", "order")
     \/ phase.at = "exited" /\ Enters(i, "reset", "none")
  /\ clean' = (clean /\ Alone(i))
  /\ UNCHANGED <<deployment, escrow, phase, free, lost, orders>>

(* A tick copies the phase and branches on it.  In Idle it goes on when a  *)
(* signal has been sized and passed its checks; with tokens held it exits  *)
(* on the timeout or when the price falls, and sells while there is a bid. *)
Start(i) ==
  /\ tick[i].at = "off"
  /\ \/ phase.at = "idle" /\ Enters(i, "simulate", "phase1")
     \/ phase.at = "held" /\ Enters(i, "exit", "exit")
     \/ phase.at = "held" /\ phase.age < Timeout /\ Enters(i, "order", "order")
     \/ phase.at = "placed" /\ phase.age = Timeout /\ Enters(i, "exit", "exit")
     \/ phase.at = "exited" /\ Enters(i, "reset", "none")
  /\ clean' = (clean /\ Alone(i))
  /\ UNCHANGED <<deployment, escrow, phase, free, lost, orders>>

(* The lock of the branch on EmergencyExited is not the lock of the copy. *)
Reset(i) ==
  /\ tick[i].at = "reset"
  /\ phase' = [at |-> "idle", age |-> 0]
  /\ Leaves(i)
  /\ UNCHANGED <<deployment, escrow, free, lost, orders, clean>>

(* nonReentrant: revert when the transient lock is taken. *)
Guarded(taken) == deployment = "wired" \/ ~taken

(* Variant for mutation: the contract's lock is not looked at. *)
AcceptsUnlocked == ~escrow.full

(* What executePhase1 needs to succeed, in an eth_call or on chain: the    *)
(* entry point takes the lock, and receiveFlashLoan, which the vault calls *)
(* before the entry point returns, is guarded by the same one.             *)
Accepts == ~escrow.full /\ Guarded(FALSE) /\ Guarded(TRUE)

(* The calls before the transaction are answered, and acquire claims every *)
(* free slot it finds (WalletPool) and returns one.                        *)
Proceed(i) ==
  /\ tick[i].at \in {"simulate", "order", "exit"}
  /\ tick[i].at = "simulate" => Accepts
  /\ \E rest \in 0 .. free - 1 : free' = rest
  /\ Enters(i, "send", tick[i].kind)
  /\ UNCHANGED <<deployment, escrow, phase, lost, orders, clean>>

(* The simulation rejects, or no wallet is free: Ok(()) *)
GiveUp(i) ==
  /\ \/ tick[i].at = "simulate"
     \/ tick[i].at \in {"order", "exit"} /\ free = 0
  /\ Leaves(i)
  /\ UNCHANGED <<deployment, escrow, phase, free, lost, orders, clean>>

(* build_raw_tx or submit_sync returns an error and `?` leaves the tick    *)
(* without a release; the request may have reached the node all the same.  *)
SubmitFails(i) ==
  /\ tick[i].at = "send"
  /\ \/ Leaves(i)
     \/ Enters(i, "limbo", tick[i].kind)
  /\ lost' = lost + 1
  /\ clean' = FALSE
  /\ UNCHANGED <<deployment, escrow, phase, free, orders>>

-----------------------------------------------------------------------------
(* On chain *)

(* executePhase1 and its callback: require(phase == 0), and it is set. *)
Phase1Runs(ok) ==
  /\ ok => Accepts
  /\ escrow' = IF ok THEN [full |-> TRUE, age |-> 0] ELSE escrow
  /\ UNCHANGED <<orders, clean>>

(* CoreWriter takes an order whether or not anything is held. *)
OrderRuns(ok) ==
  /\ orders' = IF ok THEN orders + 1 ELSE orders
  /\ UNCHANGED <<escrow, clean>>

(* emergencyExit: phase 1, its timeout reached, and the swap works. *)
ExitRuns(ok) ==
  /\ ok => escrow.full /\ escrow.age = Timeout
  /\ escrow' = IF ok THEN [full |-> FALSE, age |-> 0] ELSE escrow
  /\ clean' = (clean /\ ok)
  /\ UNCHANGED orders

(* The transaction is executed; any of them may revert. *)
Executes(i) ==
  /\ tick[i].at \in {"send", "limbo"}
  /\ \E ok \in BOOLEAN :
       /\ \/ tick[i].kind = "phase1" /\ Phase1Runs(ok)
          \/ tick[i].kind = "order" /\ OrderRuns(ok)
          \/ tick[i].kind = "exit" /\ ExitRuns(ok)
       /\ IF tick[i].at = "limbo" THEN Leaves(i)
          ELSE Becomes(i, "landed", tick[i].kind, ok)
  /\ UNCHANGED <<deployment, phase, free, lost>>

(* The node forgets a transaction whose request had failed. *)
Forgotten(i) ==
  /\ tick[i].at = "limbo"
  /\ Leaves(i)
  /\ UNCHANGED <<deployment, escrow, phase, free, lost, orders, clean>>

(* sweepPhase2Proceeds has no caller in the bot: the operator calls it. *)
Sweep ==
  /\ escrow.full
  /\ escrow' = [full |-> FALSE, age |-> 0]
  /\ clean' = FALSE
  /\ UNCHANGED <<deployment, phase, tick, free, lost, orders>>

Older(age) == IF age < Timeout THEN age + 1 ELSE age

Elapse ==
  /\ escrow' = IF escrow.full THEN [escrow EXCEPT !.age = Older(@)] ELSE escrow
  /\ phase' = IF phase.at \in {"held", "placed"} THEN [phase EXCEPT !.age = Older(@)] ELSE phase
  /\ UNCHANGED <<deployment, tick, free, lost, orders, clean>>

-----------------------------------------------------------------------------
(* The receipt *)

(* Variant for mutation: phase 1 is recorded whatever the receipt says. *)
RecordedAlways(i) ==
  CASE tick[i].kind = "phase1" -> [at |-> "held", age |-> 0]
    [] tick[i].kind = "order" -> [at |-> "placed", age |-> 0]
    [] OTHER -> [at |-> "exited", age |-> 0]

(* Variant for mutation: the order is sent, the phase is not written. *)
RecordedNoOrder(i) ==
  CASE tick[i].kind = "phase1" -> IF tick[i].ok THEN [at |-> "held", age |-> 0] ELSE phase
    [] tick[i].kind = "order" -> phase
    [] OTHER -> [at |-> "exited", age |-> 0]

(* Only phase 1 looks at receipt.status(). *)
Recorded(i) ==
  CASE tick[i].kind = "phase1" -> IF tick[i].ok THEN [at |-> "held", age |-> 0] ELSE phase
    [] tick[i].kind = "order" -> [at |-> "placed", age |-> 0]
    [] OTHER -> [at |-> "exited", age |-> 0]

(* Variant for mutation: release is called before and after the write. *)
AnsweredTwice(i) ==
  /\ tick[i].at = "landed"
  /\ phase' = Recorded(i)
  /\ orders' = IF tick[i].kind = "phase1" /\ tick[i].ok THEN 0 ELSE orders
  /\ free' = free + 2
  /\ Leaves(i)
  /\ UNCHANGED <<deployment, escrow, lost, clean>>

(* The receipt arrives: release, then the phase is written. *)
Answered(i) ==
  /\ tick[i].at = "landed"
  /\ phase' = Recorded(i)
  /\ orders' = IF tick[i].kind = "phase1" /\ tick[i].ok THEN 0 ELSE orders
  /\ free' = free + 1
  /\ Leaves(i)
  /\ UNCHANGED <<deployment, escrow, lost, clean>>

(* The transaction is on chain, its receipt does not arrive. *)
AnswerLost(i) ==
  /\ tick[i].at = "landed"
  /\ Leaves(i)
  /\ lost' = lost + 1
  /\ clean' = FALSE
  /\ UNCHANGED <<deployment, escrow, phase, free, orders>>

-----------------------------------------------------------------------------
TickStep(i) ==
  \/ Start(i) \/ Reset(i) \/ Proceed(i) \/ GiveUp(i) \/ SubmitFails(i)
  \/ Executes(i) \/ Forgotten(i) \/ Answered(i) \/ AnswerLost(i)

EvmArbNext == Sweep \/ Elapse \/ \E i \in Ticks : TickStep(i)

EvmArbSpec == EvmArbInit /\ [][EvmArbNext]_evmArbVars

(* Ticks are spawned as long as blocks come and S1 is enabled, a started   *)
(* tick is polled, and a call ends in an answer or an error.               *)
FairEvmArbSpec ==
  /\ EvmArbSpec
  /\ WF_evmArbVars(Elapse)
  /\ \A i \in Ticks :
       /\ WF_evmArbVars((phase.at = "exited" \/ phase.age = Timeout) /\ Start(i))
       /\ WF_evmArbVars(Reset(i))
       /\ WF_evmArbVars(Proceed(i) \/ GiveUp(i))
       /\ WF_evmArbVars(SubmitFails(i) \/ Executes(i) \/ Forgotten(i))
       /\ WF_evmArbVars(Answered(i) \/ AnswerLost(i))

-----------------------------------------------------------------------------
(* Against the contract of this commit every simulation of phase 1 is      *)
(* rejected (SkuaBase.sol:111: the callback meets the lock of the entry    *)
(* point that waits for it), and no wallet is ever taken for S1.           *)
AsWrittenIdle ==
  deployment = "as written" =>
    /\ phase.at = "idle" /\ ~escrow.full /\ free = NumWallets
    /\ \A i \in Ticks : tick[i].at \in {"off", "simulate"}

(* Between ticks the machine says that tokens are held or being sold       *)
(* exactly when the escrow holds them, and its clock is not ahead of the   *)
(* contract's, so that no exit on the timeout comes too early; unless      *)
(* ticks overlapped, a call was not answered, an exit reverted or the      *)
(* operator swept.                                                         *)
EscrowTracked ==
  clean /\ (\A i \in Ticks : tick[i].at = "off") =>
    /\ escrow.full <=> phase.at \in {"held", "placed"}
    /\ escrow.full => phase.age <= escrow.age

(* Ticks that copied the same phase each place an order for the whole      *)
(* amount, and none has a client id: one recorded position is sold at most *)
(* once per tick that can run at a time, and once more per lost wallet.    *)
OrdersBound == orders <= Cardinality(Ticks) + lost

(* Whatever a stale tick writes, the machine comes back to Idle, where it  *)
(* takes new signals, unless every wallet is gone.                         *)
MachineReturns ==
  []<>(\/ phase.at = "idle"
       \/ free = 0 /\ \A i \in Ticks : tick[i].at \notin {"send", "landed"})
=============================================================================
