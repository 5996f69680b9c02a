----------------------------- MODULE FeeRefresh -----------------------------
(***************************************************************************)
(* chain/src/fee_refresh.rs: the flash-loan fees of HyperLend and Balancer *)
(* are set by their governance; the loop looks at current_block once a     *)
(* second and, when a refresh is due, reads and stores one fee and then    *)
(* the other.  A failed call ends the cycle between the two.               *)
(***************************************************************************)
EXTENDS Integers

CONSTANTS
  FeeInterval,  \* blocks between refreshes; 1,000 in the code
  WadPerBp,     \* Balancer's fee units in a basis point; 10^14 in the code
  MaxSettings   \* bound: changes of the fees by governance

ASSUME FeeRefreshAssumption ==
  /\ FeeInterval \in Nat \ {0}
  /\ WadPerBp \in Nat \ {0}
  /\ MaxSettings \in Nat

VARIABLES
  fees,       \* external: the fees on chain, HyperLend's in basis points,
              \* Balancer's in its own unit
  settings,   \* external: how many times governance has changed a fee
  feeBps,     \* BotState.hyperlend_fee_bps and balancer_fee_bps
  feeLoop,    \* where the loop is
  atZero,     \* current_block is still 0
  refreshed,  \* last_refresh_block # 0
  age,        \* current_block - last_refresh_block, up to FeeInterval
  begun,      \* the block this cycle loaded: how long ago, and was it 0
  torn        \* history: the stored fees are of different refreshes

feeVars == <<fees, settings, feeBps, feeLoop, atZero, refreshed, age, begun, torn>>

(* Whole basis points, HyperLend's as they come (fee_refresh.rs:93-110).   *)
(* state.rs:97 and :99 say of both fields "Stored as bps x 10^4"; nothing  *)
(* multiplies by 10^4 on the way in, nor divides by it on the way out:     *)
(* the profit functions take them for basis points (profit.rs:37).         *)
Bps(wad) == wad \div WadPerBp
OnChain == [hyperLend |-> fees.hyperLend, balancer |-> Bps(fees.balancer)]
Due == age >= FeeInterval \/ ~refreshed
Asleep == [ago |-> 0, zero |-> FALSE]

FeeTypeOK ==
  /\ fees \in [hyperLend : Nat, balancer : Nat] /\ settings \in 0 .. MaxSettings
  /\ feeBps \in [hyperLend : Nat, balancer : Nat]
  /\ feeLoop \in {"sleep", "ask HyperLend", "ask Balancer"}
  /\ atZero \in BOOLEAN /\ refreshed \in BOOLEAN /\ torn \in BOOLEAN
  /\ age \in 0 .. FeeInterval
  /\ begun \in [ago : 0 .. FeeInterval, zero : BOOLEAN]

(* fee_refresh_once has read both fees before the loop is spawned. *)
FeeInit ==
  /\ fees = [hyperLend |-> 1, balancer |-> WadPerBp]
  /\ settings = 0
  /\ feeBps = OnChain
  /\ feeLoop = "sleep"
  /\ atZero \in BOOLEAN /\ refreshed = FALSE /\ torn = FALSE
  /\ age = 0 /\ begun = Asleep

-----------------------------------------------------------------------------
(* The chain *)

(* A fee is raised or dropped; Balancer's need not be whole basis points. *)
Governance ==
  /\ settings < MaxSettings
  /\ \/ fees' = [fees EXCEPT !.hyperLend = @ + 1]
     \/ \E fee \in {0, WadPerBp + 1} : fees' = [fees EXCEPT !.balancer = fee]
  /\ settings' = settings + 1
  /\ UNCHANGED <<feeBps, feeLoop, atZero, refreshed, age, begun, torn>>

Later(n, blocks) == IF n + blocks < FeeInterval THEN n + blocks ELSE FeeInterval

(* current_block moves on by so many blocks. *)
BlocksPass(blocks) ==
  /\ atZero' = FALSE
  /\ age' = Later(age, blocks)
  /\ begun' = IF feeLoop = "sleep" THEN begun ELSE [begun EXCEPT !.ago = Later(@, blocks)]
  /\ UNCHANGED <<fees, settings, feeBps, feeLoop, refreshed, torn>>

-----------------------------------------------------------------------------
(* fee_refresh_loop and refresh_fees *)

FeeGoes(from, to) == feeLoop = from /\ feeLoop' = to

(* Variant for mutation: only the refresh at startup is ever due. *)
WakeOnce ==
  /\ ~refreshed
  /\ FeeGoes("sleep", "ask HyperLend")
  /\ begun' = [ago |-> 0, zero |-> atZero]
  /\ UNCHANGED <<fees, settings, feeBps, atZero, refreshed, age, torn>>

(* A second has passed and a refresh is due; current_block is loaded. *)
Wake ==
  /\ Due
  /\ FeeGoes("sleep", "ask HyperLend")
  /\ begun' = [ago |-> 0, zero |-> atZero]
  /\ UNCHANGED <<fees, settings, feeBps, atZero, refreshed, age, torn>>

(* The answer is stored before the other fee is asked for. *)
AskHyperLend ==
  /\ FeeGoes("ask HyperLend", "ask Balancer")
  /\ feeBps' = [feeBps EXCEPT !.hyperLend = fees.hyperLend]
  /\ torn' = TRUE
  /\ UNCHANGED <<fees, settings, atZero, refreshed, age, begun>>

(* Variant for mutation: last_refresh_block advances by FeeInterval. *)
AskBalancerInStep ==
  /\ FeeGoes("ask Balancer", "sleep")
  /\ feeBps' = [feeBps EXCEPT !.balancer = Bps(fees.balancer)]
  /\ torn' = FALSE
  /\ refreshed' = TRUE
  /\ age' = age - FeeInterval
  /\ begun' = Asleep
  /\ UNCHANGED <<fees, settings, atZero>>

(* last_refresh_block becomes the block loaded before the calls. *)
AskBalancer ==
  /\ FeeGoes("ask Balancer", "sleep")
  /\ feeBps' = [feeBps EXCEPT !.balancer = Bps(fees.balancer)]
  /\ torn' = FALSE
  /\ refreshed' = ~begun.zero
  /\ age' = begun.ago
  /\ begun' = Asleep
  /\ UNCHANGED <<fees, settings, atZero>>

(* Variant for mutation: last_refresh_block is assigned after the match. *)
AskFailsCounted ==
  /\ feeLoop # "sleep" /\ feeLoop' = "sleep"
  /\ refreshed' = ~begun.zero
  /\ age' = begun.ago
  /\ begun' = Asleep
  /\ UNCHANGED <<fees, settings, feeBps, atZero, torn>>

(* A call fails: the cycle ends, with what it has stored. *)
AskFails ==
  /\ feeLoop # "sleep" /\ feeLoop' = "sleep"
  /\ begun' = Asleep
  /\ UNCHANGED <<fees, settings, feeBps, atZero, refreshed, age, torn>>

-----------------------------------------------------------------------------
FeeLoopNext == Wake \/ AskHyperLend \/ AskBalancer \/ AskFails

FeeNext == Governance \/ FeeLoopNext \/ \E blocks \in 1 .. FeeInterval : BlocksPass(blocks)

FeeSpec == FeeInit /\ [][FeeNext]_feeVars

(* The task is polled, and the node answers each call again and again. *)
FairFees ==
  /\ WF_feeVars(Wake)
  /\ SF_feeVars(AskHyperLend) /\ SF_feeVars(AskBalancer)

-----------------------------------------------------------------------------
(* The pair of fees that S1..S4 size their loans with is of one refresh,   *)
(* except while the next one is being read or is due: a cycle that failed  *)
(* between its two stores is not put off by FeeInterval blocks.            *)
TornRetried == torn /\ feeLoop = "sleep" => Due

(* "Refresh every 1,000 blocks.  Never hardcode either fee." When          *)
(* governance is done the stored fees are for good those on chain, in      *)
(* basis points and a part of one left out.  That is the unit of the code, *)
(* which the comments on the two fields (state.rs:97, :99) contradict.     *)
FeesConverge == <>[](feeBps = OnChain)
=============================================================================
