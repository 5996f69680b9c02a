-------------------------- MODULE ChainFeedsProofs --------------------------
(***************************************************************************)
(* Proofs about PoolMonitor, about FeeRefresh and about ChainFeeds, for    *)
(* any pools, intervals, swaps and fees: each of the two loops alone, and  *)
(* that the two together are each of them alone.                           *)
(***************************************************************************)
EXTENDS ChainFeeds, SequenceTheorems, TLAPS

NoLogOf(p) == \A i \in DOMAIN logs : logs[i].pool # p

(* Of a pool no event of which was missed, the last log in the stream has  *)
(* the current reserves; with no log left, what is stored and what is      *)
(* about to be stored are current.                                         *)
LogInv ==
  \A p \in Pools \ missed :
    /\ \A i \in DOMAIN logs :
         logs[i].pool = p /\ (\A j \in DOMAIN logs : j > i => logs[j].pool # p)
           => logs[i].number = reserves[p]
    /\ NoLogOf(p) => /\ stored[p] = reserves[p]
                     /\ loop = "write" /\ Head(todo) = p => answer = reserves[p]

-----------------------------------------------------------------------------
(* The stored reserves, the stream and the loop keep their types. *)
THEOREM MonitorTypeCorrect == MonitorSpec => []MonitorTypeOK
<1>1. MonitorInit => MonitorTypeOK
  BY PoolMonitorAssumption DEF MonitorInit, MonitorTypeOK
<1>2. MonitorTypeOK /\ [MonitorNext]_poolVars => MonitorTypeOK'
  <2> SUFFICES ASSUME MonitorTypeOK, [MonitorNext]_poolVars
               PROVE  MonitorTypeOK'
    OBVIOUS
  <2> USE PoolMonitorAssumption DEF MonitorTypeOK, monitorVars, SyncLog, Goes
  <2>1. ASSUME NEW p \in Pools, Sync(p)
        PROVE  MonitorTypeOK'
    <3> DEFINE log == [pool |-> p, number |-> reserves[p] + 1]
    <3>1. log \in SyncLog
      OBVIOUS
    <3>2. logs' \in Seq(SyncLog)
      <4>1. logs' = Append(logs, log) \/ logs' = logs
        BY <2>1 DEF Sync
      <4> HIDE DEF log
      <4>2. Append(logs, log) \in Seq(SyncLog)
        BY <3>1, AppendProperties
      <4>3. QED
        BY <4>1, <4>2
    <3>3. reserves' \in [Pools -> Nat] /\ missed' \subseteq Pools
      BY <2>1 DEF Sync
    <3>4. QED
      BY <2>1, <3>2, <3>3 DEF Sync
  <2>2. CASE BlockSeen
    BY <2>2 DEF BlockSeen
  <2>3. CASE Iterate
    BY <2>3 DEF Iterate
  <2>4. ASSUME NEW p \in Pools, ReadReserves(p)
        PROVE  MonitorTypeOK'
    BY <2>4 DEF ReadReserves
  <2>5. CASE ReadFails \/ WriteReserves
    <3>1. todo # <<>> /\ Head(todo) \in Pools /\ Tail(todo) \in Seq(Pools)
      BY <2>5, HeadTailProperties DEF ReadFails, WriteReserves
    <3>2. QED
      BY <2>5, <3>1 DEF ReadFails, WriteReserves, NoAnswer
  <2>6. CASE Reconciled \/ NoLog \/ StreamEnds
    BY <2>6 DEF Reconciled, NoLog, StreamEnds
  <2>7. CASE HandleLog \/ LogUndecoded
    <3>1. Head(logs) \in SyncLog /\ Tail(logs) \in Seq(SyncLog)
      BY <2>7, HeadTailProperties DEF HandleLog, LogUndecoded
    <3>2. Head(logs).pool \in Pools /\ Head(logs).number \in Nat
      BY <3>1 DEF SyncLog
    <3>3. stored' \in [Pools -> Nat] /\ missed' \subseteq Pools
      BY <2>7, <3>2 DEF HandleLog, LogUndecoded
    <3>4. QED
      BY <2>7, <3>1, <3>3 DEF HandleLog, LogUndecoded
  <2>8. CASE UNCHANGED poolVars
    BY <2>8 DEF poolVars
  <2>9. QED
    BY <2>1, <2>2, <2>3, <2>4, <2>5, <2>6, <2>7, <2>8 DEF MonitorNext, MonitorStep
<1>3. QED
  BY <1>1, <1>2, PTL DEF MonitorSpec
-----------------------------------------------------------------------------
(* The first state: a pool whose event was not missed is stored as it is. *)
LEMMA LogInvInit == MonitorInit => LogInv
  BY DEF MonitorInit, LogInv

(* A swap's log becomes the last of its pool, unless the pool is missed. *)
LEMMA LogInvSync ==
  ASSUME MonitorTypeOK, LogInv, NEW q \in Pools, Sync(q)
  PROVE  LogInv'
<1> DEFINE log == [pool |-> q, number |-> reserves[q] + 1]
<1> SUFFICES ASSUME NEW p \in Pools \ missed'
             PROVE  /\ \A i \in DOMAIN logs' :
                         logs'[i].pool = p /\ (\A j \in DOMAIN logs' : j > i => logs'[j].pool # p)
                           => logs'[i].number = reserves'[p]
                    /\ NoLogOf(p)' => /\ stored'[p] = reserves'[p]
                                      /\ loop' = "write" /\ Head(todo') = p =>
                                           answer' = reserves'[p]
  BY DEF LogInv
<1>1. /\ log.pool = q /\ log.number = reserves[q] + 1 /\ log \in SyncLog
      /\ reserves'[q] = reserves[q] + 1
      /\ \A x \in Pools \ {q} : reserves'[x] = reserves[x]
      /\ UNCHANGED <<stored, loop, todo, answer>>
      /\ missed \subseteq missed'
  BY DEF Sync, monitorVars, SyncLog, MonitorTypeOK
<1>2. CASE missed' = missed \cup {q} /\ logs' = logs
  BY <1>1, <1>2 DEF LogInv, NoLogOf
<1>3. CASE missed' = missed /\ logs' = Append(logs, log)
  <2> HIDE DEF log
  <2>1. /\ DOMAIN logs' = 1 .. Len(logs) + 1 /\ DOMAIN logs = 1 .. Len(logs)
        /\ Len(logs) \in Nat
        /\ logs'[Len(logs) + 1] = log
        /\ \A i \in DOMAIN logs : logs'[i] = logs[i]
    BY <1>1, <1>3, AppendProperties DEF MonitorTypeOK
  <2>2. CASE p = q
    <3>1. ASSUME NEW i \in DOMAIN logs',
                 \A j \in DOMAIN logs' : j > i => logs'[j].pool # p
          PROVE  i = Len(logs) + 1
      BY <1>1, <2>1, <2>2, <3>1
    <3>2. ~NoLogOf(p)'
      BY <1>1, <2>1, <2>2 DEF NoLogOf
    <3>3. QED
      BY <1>1, <2>1, <2>2, <3>1, <3>2
  <2>3. CASE p # q
    <3>1. ASSUME NEW i \in DOMAIN logs', logs'[i].pool = p,
                 \A j \in DOMAIN logs' : j > i => logs'[j].pool # p
          PROVE  logs'[i].number = reserves'[p]
      <4>1. i \in DOMAIN logs /\ logs[i].pool = p
        BY <1>1, <2>1, <2>3, <3>1
      <4>2. \A j \in DOMAIN logs : j > i => logs[j].pool # p
        BY <2>1, <3>1
      <4>3. logs[i].number = reserves[p]
        BY <1>3, <4>1, <4>2 DEF LogInv
      <4>4. QED
        BY <1>1, <2>1, <2>3, <4>1, <4>3
    <3>2. NoLogOf(p)' => NoLogOf(p)
      BY <2>1 DEF NoLogOf
    <3>3. QED
      BY <1>1, <1>3, <2>3, <3>1, <3>2 DEF LogInv
  <2>4. QED
    BY <2>2, <2>3
<1>4. QED
  BY <1>2, <1>3 DEF Sync
(* Handling a log: if it is the last of its pool it has the current        *)
(* reserves, and they are stored; other pools keep their logs.  The pool   *)
(* of a log that does not decode counts as missed from then on.            *)
LEMMA LogInvHandle ==
  ASSUME MonitorTypeOK, LogInv, HandleLog \/ LogUndecoded
  PROVE  LogInv'
<1> SUFFICES ASSUME NEW p \in Pools \ missed'
             PROVE  /\ \A i \in DOMAIN logs' :
                         logs'[i].pool = p /\ (\A j \in DOMAIN logs' : j > i => logs'[j].pool # p)
                           => logs'[i].number = reserves[p]
                    /\ NoLogOf(p)' => stored'[p] = reserves[p] /\ loop' # "write"
  BY DEF LogInv, HandleLog, LogUndecoded
<1>0. logs # <<>> /\ logs' = Tail(logs) /\ missed \subseteq missed'
  BY DEF HandleLog, LogUndecoded
<1>1. /\ DOMAIN logs = 1 .. Len(logs) /\ Len(logs) \in Nat \ {0}
      /\ DOMAIN logs' = 1 .. Len(logs) - 1
      /\ \A i \in DOMAIN logs' : logs'[i] = logs[i + 1]
      /\ Head(logs) = logs[1] /\ logs[1] \in SyncLog
  BY <1>0, HeadTailProperties DEF MonitorTypeOK
<1>2. /\ \/ stored' = [stored EXCEPT ![logs[1].pool] = logs[1].number]
         \/ stored' = stored /\ logs[1].pool # p
      /\ logs[1].pool \in Pools /\ loop' = "top" /\ p \in Pools \ missed
  BY <1>0, <1>1 DEF HandleLog, LogUndecoded, Goes, SyncLog
<1>3. ASSUME NEW i \in DOMAIN logs', logs'[i].pool = p,
             \A j \in DOMAIN logs' : j > i => logs'[j].pool # p
      PROVE  logs'[i].number = reserves[p]
  <2>1. i + 1 \in DOMAIN logs /\ logs[i + 1].pool = p /\ logs'[i] = logs[i + 1]
    BY <1>1, <1>3
  <2>2. ASSUME NEW j \in DOMAIN logs, j > i + 1
        PROVE  logs[j].pool # p
    <3>1. j - 1 \in DOMAIN logs' /\ j - 1 > i
      BY <1>1, <1>3, <2>2
    <3>2. logs'[j - 1] = logs[j]
      BY <1>1, <3>1
    <3>3. QED
      BY <1>3, <3>1, <3>2
  <2>3. QED
    BY <1>2, <2>1, <2>2 DEF LogInv
<1>4. ASSUME NoLogOf(p)'
      PROVE  stored'[p] = reserves[p]
  <2>1. \A j \in DOMAIN logs : j > 1 => logs[j].pool # p
    <3>1. SUFFICES ASSUME NEW j \in DOMAIN logs, j > 1
                   PROVE  logs[j].pool # p
      OBVIOUS
    <3>2. j - 1 \in DOMAIN logs' /\ logs'[j - 1] = logs[j]
      BY <1>1, <3>1
    <3>3. QED
      BY <1>4, <3>2 DEF NoLogOf
  <2>2. CASE logs[1].pool = p
    <3>1. logs[1].number = reserves[p]
      BY <1>1, <1>2, <2>1, <2>2 DEF LogInv
    <3>2. QED
      BY <1>2, <2>2, <3>1 DEF MonitorTypeOK
  <2>3. CASE logs[1].pool # p
    <3>1. NoLogOf(p)
      BY <1>1, <2>1, <2>3 DEF NoLogOf
    <3>2. QED
      BY <1>2, <2>3, <3>1 DEF LogInv, MonitorTypeOK
  <2>4. QED
    BY <2>2, <2>3
<1>5. QED
  BY <1>2, <1>3, <1>4

(* A re-read keeps the invariant: an answer is current as long as no log   *)
(* of the pool has arrived since.                                          *)
LEMMA LogInvStep == MonitorTypeOK /\ LogInv /\ [MonitorNext]_poolVars => LogInv'
<1> SUFFICES ASSUME MonitorTypeOK, LogInv, [MonitorNext]_poolVars
             PROVE  LogInv'
  OBVIOUS
<1>1. ASSUME NEW p \in Pools, Sync(p)
      PROVE  LogInv'
  BY <1>1, LogInvSync
<1>2. CASE HandleLog \/ LogUndecoded
  BY <1>2, LogInvHandle
<1>3. ASSUME NEW p \in Pools, ReadReserves(p)
      PROVE  LogInv'
  BY <1>3 DEF ReadReserves, LogInv, NoLogOf
<1>4. CASE WriteReserves
  <2>1. /\ loop = "write" /\ loop' = "read" /\ Head(todo) \in Pools
        /\ stored' = [stored EXCEPT ![Head(todo)] = answer]
        /\ UNCHANGED <<reserves, logs, missed>>
    BY <1>4, HeadTailProperties DEF WriteReserves, Goes, MonitorTypeOK
  <2>2. ASSUME NEW p \in Pools \ missed, NoLogOf(p)
        PROVE  stored'[p] = reserves[p]
    BY <2>1, <2>2 DEF LogInv, MonitorTypeOK
  <2>3. QED
    BY <2>1, <2>2 DEF LogInv, NoLogOf
<1>5. CASE \/ BlockSeen \/ Iterate \/ ReadFails \/ Reconciled \/ NoLog \/ StreamEnds
           \/ UNCHANGED poolVars
  <2>1. /\ UNCHANGED <<reserves, logs, missed, stored>>
        /\ loop' = "write" => UNCHANGED <<loop, todo, answer>>
    BY <1>5 DEF BlockSeen, Iterate, ReadFails, Reconciled, NoLog, StreamEnds, Goes, poolVars,
       monitorVars
  <2>2. QED
    BY <2>1 DEF LogInv, NoLogOf
<1>6. QED
  BY <1>1, <1>2, <1>3, <1>4, <1>5 DEF MonitorNext, MonitorStep

(* A pool of which no event was missed is stored as it is once its logs    *)
(* are handled, however re-reads and swaps interleave.                     *)
THEOREM ReservesFollow == MonitorSpec => []Drained
<1>1. LogInv => Drained
  BY DEF LogInv, Drained, NoLogOf
<1>2. QED
  BY <1>1, LogInvInit, LogInvStep, MonitorTypeCorrect, PTL DEF MonitorSpec

-----------------------------------------------------------------------------
(* Balancer's fee in basis points is an amount. *)
LEMMA BpsType ==
  ASSUME NEW wad \in Nat
  PROVE  Bps(wad) \in Nat
<1>1. WadPerBp \in Nat /\ WadPerBp > 0
  BY FeeRefreshAssumption
<1>2. QED
  BY <1>1 DEF Bps

(* Block counts stop at FeeInterval and never go back. *)
LEMMA LaterType ==
  ASSUME NEW n \in 0 .. FeeInterval, NEW blocks \in 1 .. FeeInterval
  PROVE  Later(n, blocks) \in 0 .. FeeInterval /\ Later(n, blocks) >= n
BY FeeRefreshAssumption DEF Later

(* The types of the fees, and those of the loop's counters. *)
FeesType ==
  /\ fees \in [hyperLend : Nat, balancer : Nat]
  /\ feeBps \in [hyperLend : Nat, balancer : Nat]
CountersType ==
  /\ settings \in 0 .. MaxSettings
  /\ feeLoop \in {"sleep", "ask HyperLend", "ask Balancer"}
  /\ age \in 0 .. FeeInterval
FlagsType == atZero \in BOOLEAN /\ refreshed \in BOOLEAN /\ torn \in BOOLEAN
BegunType == begun \in [ago : 0 .. FeeInterval, zero : BOOLEAN]

(* The type invariant of the fee refresh, cut into the parts its steps *)
(* disturb.                                                            *)
LEMMA FeeTypeParts == FeeTypeOK <=> FeesType /\ CountersType /\ FlagsType /\ BegunType
BY Zenon DEF FeeTypeOK, FeesType, CountersType, FlagsType, BegunType

(* The first state: the fees of fee_refresh_once, and a loop asleep. *)
LEMMA FeeTypeInit == FeeInit => FeeTypeOK
<1> SUFFICES ASSUME FeeInit
             PROVE  FeesType /\ CountersType /\ FlagsType /\ BegunType
  BY FeeTypeParts
<1>1. FeesType
  <2>1. fees = [hyperLend |-> 1, balancer |-> WadPerBp]
    BY Zenon DEF FeeInit
  <2>2. feeBps = [hyperLend |-> fees.hyperLend, balancer |-> Bps(fees.balancer)]
    BY Zenon DEF FeeInit, OnChain
  <2>3. Bps(WadPerBp) \in Nat
    BY BpsType, FeeRefreshAssumption
  <2>4. QED
    BY <2>1, <2>2, <2>3, FeeRefreshAssumption DEF FeesType
<1>2. CountersType
  <2>1. settings = 0 /\ feeLoop = "sleep" /\ age = 0
    BY Zenon DEF FeeInit
  <2>2. QED
    BY <2>1, FeeRefreshAssumption DEF CountersType
<1>3. FlagsType
  BY Zenon DEF FeeInit, FlagsType
<1>4. BegunType
  <2>1. begun = [ago |-> 0, zero |-> FALSE]
    BY Zenon DEF FeeInit, Asleep
  <2>2. QED
    BY <2>1, FeeRefreshAssumption DEF BegunType
<1>5. QED
  BY <1>1, <1>2, <1>3, <1>4

(* Governance, the blocks and the loop keep the types. *)
LEMMA FeeTypeStep ==
  ASSUME FeeTypeOK, [FeeNext]_feeVars
  PROVE  FeeTypeOK'
<1>1. FeesType /\ CountersType /\ FlagsType /\ BegunType
  BY FeeTypeParts
<1>2. FeesType'
  <2>1. CASE fees' = fees /\ feeBps' = feeBps
    BY <1>1, <2>1 DEF FeesType
  <2>2. CASE Governance
    BY <1>1, <2>2, FeeRefreshAssumption DEF Governance, FeesType
  <2>3. CASE AskHyperLend
    BY <1>1, <2>3 DEF AskHyperLend, FeesType
  <2>4. CASE AskBalancer
    <3>1. Bps(fees.balancer) \in Nat
      BY <1>1, BpsType DEF FeesType
    <3>2. QED
      BY <1>1, <2>4, <3>1 DEF AskBalancer, FeesType
  <2>5. QED
    BY <2>1, <2>2, <2>3, <2>4 DEF FeeNext, FeeLoopNext, feeVars, BlocksPass, Wake, AskFails
<1>3. CountersType'
  <2>1. settings' \in 0 .. MaxSettings
    <3>1. \/ settings' = settings
          \/ settings < MaxSettings /\ settings' = settings + 1
      BY DEF FeeNext, FeeLoopNext, feeVars, Governance, BlocksPass, Wake, AskHyperLend,
         AskBalancer, AskFails
    <3>2. settings \in 0 .. MaxSettings
      BY <1>1 DEF CountersType
    <3>3. QED
      BY <3>1, <3>2, FeeRefreshAssumption
  <2>2. feeLoop' \in {"sleep", "ask HyperLend", "ask Balancer"}
    BY <1>1 DEF CountersType, FeeNext, FeeLoopNext, feeVars, Governance, BlocksPass, Wake,
       AskHyperLend, AskBalancer, AskFails, FeeGoes
  <2>3. age' \in 0 .. FeeInterval
    <3>1. begun.ago \in 0 .. FeeInterval
      BY <1>1 DEF BegunType
    <3>2. QED
      BY <1>1, <3>1, LaterType DEF CountersType, FeeNext, FeeLoopNext, feeVars, Governance,
         BlocksPass, Wake, AskHyperLend, AskBalancer, AskFails
  <2>4. QED
    BY <2>1, <2>2, <2>3 DEF CountersType
<1>4. FlagsType'
  <2>1. begun.zero \in BOOLEAN
    BY <1>1 DEF BegunType
  <2>2. QED
    BY <1>1, <2>1, Zenon DEF FlagsType, FeeNext, FeeLoopNext, feeVars, Governance, BlocksPass,
       Wake, AskHyperLend, AskBalancer, AskFails
<1>5. BegunType'
  <2>1. CASE begun' = begun
    BY <1>1, <2>1 DEF BegunType
  <2>2. CASE begun' = [ago |-> 0, zero |-> FALSE] \/ begun' = [ago |-> 0, zero |-> atZero]
    <3>1. 0 \in 0 .. FeeInterval
      BY FeeRefreshAssumption
    <3>2. FALSE \in BOOLEAN /\ atZero \in BOOLEAN
      BY <1>1, Zenon DEF FlagsType
    <3>3. \A b \in BOOLEAN : [ago |-> 0, zero |-> b] \in [ago : 0 .. FeeInterval, zero : BOOLEAN]
      BY <3>1
    <3>4. QED
      BY <2>2, <3>2, <3>3, Zenon DEF BegunType
  <2>3. ASSUME NEW blocks \in 1 .. FeeInterval, BlocksPass(blocks)
        PROVE  BegunType'
    <3>1. begun.ago \in 0 .. FeeInterval
      BY <1>1 DEF BegunType
    <3>2. Later(begun.ago, blocks) \in 0 .. FeeInterval
      BY <3>1, LaterType
    <3>3. QED
      BY <1>1, <2>3, <3>2 DEF BlocksPass, BegunType
  <2>4. QED
    BY <2>1, <2>2, <2>3 DEF FeeNext, FeeLoopNext, feeVars, Governance, Wake, AskHyperLend,
       AskBalancer, AskFails, Asleep
<1>6. QED
  <2>1. (FeeTypeOK <=> FeesType /\ CountersType /\ FlagsType /\ BegunType)'
    BY Zenon DEF FeeTypeOK, FeesType, CountersType, FlagsType, BegunType
  <2>2. QED
    BY <1>2, <1>3, <1>4, <1>5, <2>1

(* The fees and the refresh loop keep their types, whatever governance     *)
(* sets, however many blocks a header jumps and wherever a cycle fails.    *)
THEOREM FeeTypeCorrect == FeeSpec => []FeeTypeOK
<1>1. FeeTypeOK /\ [FeeNext]_feeVars => FeeTypeOK'
  BY FeeTypeStep
<1>2. QED
  BY FeeTypeInit, <1>1, PTL DEF FeeSpec

-----------------------------------------------------------------------------
(* What is due stays due until both fees have been read in one cycle: a    *)
(* cycle starts when a refresh is due, and blocks only make it later.      *)
DueInv == feeLoop # "sleep" \/ torn => Due

(* A refresh cycle that failed between its two stores is due at once: *)
(* FeeRefresh never waits out the interval with two fees of different *)
(* cycles.                                                            *)
THEOREM TornIsRetried == FeeSpec => []TornRetried
<1>1. FeeInit => DueInv
  BY Zenon DEF FeeInit, DueInv
<1>2. FeeTypeOK /\ DueInv /\ [FeeNext]_feeVars => DueInv'
  <2> SUFFICES ASSUME FeeTypeOK, DueInv, [FeeNext]_feeVars, feeLoop' # "sleep" \/ torn'
               PROVE  Due'
    BY DEF DueInv
  <2>1. CASE AskBalancer
    BY <2>1 DEF AskBalancer, FeeGoes
  <2>2. CASE Wake
    BY <2>2 DEF Wake, Due
  <2>3. CASE AskHyperLend \/ AskFails
    BY <2>3 DEF AskHyperLend, AskFails, FeeGoes, DueInv, Due
  <2>4. CASE Governance \/ UNCHANGED feeVars
    BY <2>4 DEF Governance, feeVars, DueInv, Due
  <2>5. ASSUME NEW blocks \in 1 .. FeeInterval, BlocksPass(blocks)
        PROVE  Due'
    <3>1. Due
      BY <2>5 DEF BlocksPass, DueInv
    <3>2. age \in 0 .. FeeInterval
      BY Zenon DEF FeeTypeOK
    <3>3. age' \in 0 .. FeeInterval /\ age' >= age
      BY <2>5, <3>2, LaterType DEF BlocksPass
    <3>4. refreshed' = refreshed
      BY <2>5 DEF BlocksPass
    <3>5. QED
      BY <3>1, <3>2, <3>3, <3>4, FeeRefreshAssumption DEF Due
  <2>6. QED
    BY <2>1, <2>2, <2>3, <2>4, <2>5 DEF FeeNext, FeeLoopNext
<1>3. DueInv => TornRetried
  BY DEF DueInv, TornRetried
<1>4. QED
  BY <1>1, <1>2, <1>3, FeeTypeCorrect, PTL DEF FeeSpec

-----------------------------------------------------------------------------
(* A step of the two loops is a step of each or leaves it alone. *)
LEMMA FeedsStep ==
  ASSUME [FeedsNext]_feedVars
  PROVE  [MonitorNext]_poolVars /\ [FeeNext]_feeVars
<1>1. CASE HeaderSeen
  BY <1>1 DEF HeaderSeen, MonitorNext, FeeNext
<1>2. CASE PoolSide /\ UNCHANGED feeVars
  BY <1>2 DEF PoolSide, MonitorNext
<1>3. CASE FeeSide /\ UNCHANGED poolVars
  BY <1>3 DEF FeeSide, FeeNext
<1>4. CASE UNCHANGED feedVars
  BY <1>4 DEF feedVars
<1>5. QED
  BY <1>1, <1>2, <1>3, <1>4 DEF FeedsNext

(* Sharing current_block and the process changes neither loop: what holds  *)
(* of PoolMonitor and of FeeRefresh alone holds of them together.          *)
THEOREM FeedsImplement == FeedsSpec => MonitorSpec /\ FeeSpec
<1>1. FeedsInit => MonitorInit /\ FeeInit
  BY DEF FeedsInit
<1>2. [FeedsNext]_feedVars => [MonitorNext]_poolVars /\ [FeeNext]_feeVars
  BY FeedsStep
<1>3. QED
  BY <1>1, <1>2, PTL DEF FeedsSpec, MonitorSpec, FeeSpec

(* Both loops keep their types when they share the process. *)
THEOREM FeedsTypeCorrect == FeedsSpec => []FeedsTypeOK
<1>1. MonitorTypeOK /\ FeeTypeOK => FeedsTypeOK
  BY DEF FeedsTypeOK
<1>2. QED
  BY <1>1, FeedsImplement, MonitorTypeCorrect, FeeTypeCorrect, PTL

(* A pool whose events were all seen is current, and a torn pair of fees   *)
(* is due for a refresh, also when both loops run.                         *)
THEOREM FeedsAreSafe == FeedsSpec => [](Drained /\ TornRetried)
BY FeedsImplement, ReservesFollow, TornIsRetried, PTL
=============================================================================
