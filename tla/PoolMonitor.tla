---------------------------- MODULE PoolMonitor ----------------------------
(***************************************************************************)
(* chain/src/pool_monitor.rs: BotState.pool_states follows the Sync logs   *)
(* of the registered pools, and every few blocks re-reads the reserves of  *)
(* each pool from the node, one call after another.  Reserves are numbered *)
(* by the Sync event that set them; a log carries its event's number.      *)
(* One task runs the whole loop: no log is handled during a re-read.       *)
(***************************************************************************)
EXTENDS Integers, Sequences

CONSTANTS
  PoolAddrs,   \* the registered pools, as the sequence the loop re-reads
  Interval,    \* blocks between reconciliations; 10 in the code
  MaxSync      \* bound: Sync events of each pool

Pools == {PoolAddrs[i] : i \in DOMAIN PoolAddrs}
NoAnswer == -1

ASSUME PoolMonitorAssumption ==
  /\ PoolAddrs \in Seq(Pools)
  /\ Interval \in Nat \ {0}
  /\ MaxSync \in [Pools -> Nat]

VARIABLES
  reserves,   \* external: the number of each pool's last Sync event
  logs,       \* the log stream: events delivered, not yet handled
  missed,     \* history: pools of which an event was not delivered or decoded
  stored,     \* BotState.pool_states
  elapsed,    \* current_block - last_reconcile_block, up to Interval
  loop,       \* where the monitor loop is
  todo,       \* reconcile_pools: pools yet to be re-read
  answer      \* what getReserves returned for the head of todo

monitorVars == <<stored, elapsed, loop, todo, answer>>
poolVars == <<reserves, logs, missed, monitorVars>>

SyncLog == [pool : Pools, number : Nat]

MonitorTypeOK ==
  /\ reserves \in [Pools -> Nat] /\ stored \in [Pools -> Nat]
  /\ logs \in Seq(SyncLog) /\ missed \subseteq Pools
  /\ elapsed \in 0 .. Interval
  /\ loop \in {"top", "read", "write", "next", "ended"}
  /\ todo \in Seq(Pools) /\ answer \in Nat \cup {NoAnswer}
  /\ loop = "write" => todo # <<>> /\ answer \in Nat

(* register_pool has stored what it read; the subscription starts after    *)
(* it, so the events in between are missed.                                *)
MonitorInit ==
  /\ stored = [p \in Pools |-> 0]
  /\ reserves \in [Pools -> {0, 1}]
  /\ missed = {p \in Pools : reserves[p] # stored[p]}
  /\ logs = <<>> /\ elapsed = 0 /\ loop = "top" /\ todo = <<>> /\ answer = NoAnswer

-----------------------------------------------------------------------------
(* The chain and the node *)

(* A swap sets a pool's reserves; its log is delivered in order, or lost.  *)
Sync(p) ==
  /\ reserves[p] < MaxSync[p]
  /\ reserves' = [reserves EXCEPT ![p] = @ + 1]
  /\ \/ /\ logs' = Append(logs, [pool |-> p, number |-> reserves[p] + 1])
        /\ UNCHANGED missed
     \/ missed' = missed \cup {p} /\ UNCHANGED logs
  /\ UNCHANGED monitorVars

(* current_block moves on, by more than one when headers were lost *)
BlockSeen ==
  /\ elapsed' \in elapsed + 1 .. Interval
  /\ UNCHANGED <<reserves, logs, missed, stored, loop, todo, answer>>

-----------------------------------------------------------------------------
(* pool_monitor_loop and reconcile_pools *)

Goes(from, to) == loop = from /\ loop' = to

(* Variant for mutation: last_reconcile_block is assigned every time. *)
IterateForgets ==
  /\ loop = "top"
  /\ IF elapsed >= Interval
       THEN loop' = "read" /\ todo' = PoolAddrs
       ELSE loop' = "next" /\ UNCHANGED todo
  /\ elapsed' = 0
  /\ UNCHANGED <<reserves, logs, missed, stored, answer>>

(* The top of the loop.  last_reconcile_block is assigned later, but to    *)
(* the block number loaded here.                                           *)
Iterate ==
  /\ loop = "top"
  /\ IF elapsed >= Interval
       THEN loop' = "read" /\ todo' = PoolAddrs /\ elapsed' = 0
       ELSE loop' = "next" /\ UNCHANGED <<todo, elapsed>>
  /\ UNCHANGED <<reserves, logs, missed, stored, answer>>

ReadReserves(p) ==
  /\ todo # <<>> /\ Head(todo) = p
  /\ Goes("read", "write")
  /\ answer' = reserves[p]
  /\ UNCHANGED <<reserves, logs, missed, stored, elapsed, todo>>

(* The call failed: a warning, and on to the next pool. *)
ReadFails ==
  /\ todo # <<>> /\ loop = "read"
  /\ todo' = Tail(todo)
  /\ UNCHANGED <<reserves, logs, missed, stored, elapsed, loop, answer>>

WriteReserves ==
  /\ Goes("write", "read")
  /\ stored' = [stored EXCEPT ![Head(todo)] = answer]
  /\ todo' = Tail(todo)
  /\ answer' = NoAnswer
  /\ UNCHANGED <<reserves, logs, missed, elapsed>>

Reconciled ==
  /\ todo = <<>>
  /\ Goes("read", "next")
  /\ UNCHANGED <<reserves, logs, missed, stored, elapsed, todo, answer>>

(* handle_sync_log: whatever is stored, the log's reserves replace it. *)
HandleLog ==
  /\ logs # <<>>
  /\ Goes("next", "top")
  /\ stored' = [stored EXCEPT ![Head(logs).pool] = Head(logs).number]
  /\ logs' = Tail(logs)
  /\ UNCHANGED <<reserves, missed, elapsed, todo, answer>>

(* The log does not decode: a warning, and its reserves are passed over. *)
LogUndecoded ==
  /\ logs # <<>>
  /\ Goes("next", "top")
  /\ logs' = Tail(logs)
  /\ missed' = missed \cup {Head(logs).pool}
  /\ UNCHANGED <<reserves, stored, elapsed, todo, answer>>

(* Variant for mutation: the timeout cancels a read that has an item. *)
NoLogCancels ==
  /\ Goes("next", "top")
  /\ logs' = IF logs = <<>> THEN <<>> ELSE Tail(logs)
  /\ UNCHANGED <<reserves, missed, stored, elapsed, todo, answer>>

(* Five seconds without a log. *)
NoLog ==
  /\ logs = <<>>
  /\ Goes("next", "top")
  /\ UNCHANGED <<reserves, logs, missed, stored, elapsed, todo, answer>>

(* The stream has ended: the loop returns an error. *)
StreamEnds ==
  /\ logs = <<>>
  /\ Goes("next", "ended")
  /\ UNCHANGED <<reserves, logs, missed, stored, elapsed, todo, answer>>

-----------------------------------------------------------------------------
MonitorStep ==
  \/ Iterate \/ WriteReserves \/ Reconciled \/ HandleLog \/ LogUndecoded \/ NoLog

MonitorNext ==
  \/ BlockSeen \/ MonitorStep \/ ReadFails \/ StreamEnds
  \/ \E p \in Pools : Sync(p) \/ ReadReserves(p)

MonitorSpec == MonitorInit /\ [][MonitorNext]_poolVars

(* Blocks go on, the task is polled, and the node answers the call for any *)
(* one pool again and again, though it may fail in between.                *)
FairMonitorSpec ==
  /\ MonitorSpec
  /\ WF_poolVars(BlockSeen) /\ WF_poolVars(MonitorStep)
  /\ \A p \in Pools : SF_poolVars(ReadReserves(p))

-----------------------------------------------------------------------------
(* As long as no event of a pool was missed, the stored reserves are the   *)
(* pool's once its logs are handled: a re-read whose answer was overtaken  *)
(* by a swap does no harm, its log is still in the stream.                 *)
Drained ==
  \A p \in Pools \ missed :
    (\A i \in DOMAIN logs : logs[i].pool # p) => stored[p] = reserves[p]

(* "Reconciliation ... to correct event drift" (pool_monitor.rs:4): when   *)
(* swaps end, the stored reserves are the pools' again for good, whatever  *)
(* was missed, unless the stream ends and the loop with it.                *)
Converges == <>[](loop = "ended" \/ stored = reserves)
=============================================================================
