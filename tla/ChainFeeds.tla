----------------------------- MODULE ChainFeeds -----------------------------
(***************************************************************************)
(* The two loops of the chain crate that keep a copy of on-chain data,     *)
(* PoolMonitor and FeeRefresh, as tasks of one process: they interleave    *)
(* freely and share current_block, which the block loop moves.             *)
(***************************************************************************)
EXTENDS PoolMonitor, FeeRefresh

feedVars == <<poolVars, feeVars>>

FeedsInit == MonitorInit /\ FeeInit

(* One or more headers: both loops see current_block at its new height. *)
HeaderSeen ==
  \E blocks \in 1 .. FeeInterval :
    /\ BlocksPass(blocks)
    /\ IF elapsed < Interval
         THEN BlockSeen /\ elapsed' = (IF elapsed + blocks < Interval THEN elapsed + blocks ELSE Interval)
         ELSE UNCHANGED poolVars

PoolSide == MonitorStep \/ ReadFails \/ StreamEnds \/ \E p \in Pools : Sync(p) \/ ReadReserves(p)

FeeSide == Governance \/ FeeLoopNext

FeedsNext ==
  \/ HeaderSeen
  \/ PoolSide /\ UNCHANGED feeVars
  \/ FeeSide /\ UNCHANGED poolVars

FeedsSpec == FeedsInit /\ [][FeedsNext]_feedVars

(* The fairness of both loops; headers go on. *)
FairFeedsSpec ==
  /\ FeedsSpec
  /\ WF_feedVars(HeaderSeen)
  /\ WF_poolVars(MonitorStep)
  /\ \A p \in Pools : SF_poolVars(ReadReserves(p))
  /\ FairFees

(* Both loops stay where their code can be, the stored reserves and fees   *)
(* are amounts, and a refresh is never put off by more than FeeInterval.   *)
FeedsTypeOK == MonitorTypeOK /\ FeeTypeOK
=============================================================================
