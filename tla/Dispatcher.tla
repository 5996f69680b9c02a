----------------------------- MODULE Dispatcher -----------------------------
(***************************************************************************)
(* From block headers to strategy tasks: the block subscription and its    *)
(* supervisor (chain/src/block_loop.rs, bot/src/main.rs) put block events  *)
(* in a bounded channel; the evaluation loop of main takes them out, looks *)
(* at the breaker, refreshes the HYPE price and spawns the strategies.     *)
(* The two loops are separate tokio tasks.  A spawned task appears only up *)
(* to the point where it reads the price.                                  *)
(***************************************************************************)
EXTENDS Integers, Sequences

CONSTANTS
  Capacity,    \* of the mpsc channel; 256 in main
  Strategies,
  DefaultOn,   \* those main enables at startup: s2 and s3
  WhenDue,     \* those spawned only if there is work: s2 has borrowers, s4 stables
  MaxBlock     \* bound: the chain stops there

ASSUME DispatcherAssumption ==
  /\ Capacity \in Nat \ {0}
  /\ DefaultOn \subseteq Strategies /\ WhenDue \subseteq Strategies
  /\ MaxBlock \in Nat

VARIABLES
  head,        \* external: the newest block; 0 is the one at startup
  oracleUp,    \* external: does the oracle precompile return a price
  link,        \* external: is the block subscription up
  stream,      \* headers received, not yet processed
  sending,     \* the header stored in BotState but not yet sent, or 0
  seen,        \* BotState.current_block
  channel,     \* the block events between block_tx and block_rx
  loop,        \* where the evaluation loop is
  event,       \* the block event it took last
  priceBlock,  \* the block whose price BotState.hype_price_usd is
  killSwitch,  \* BotState.kill_switch
  tripped,     \* BotState.consecutive_reverts >= max_consecutive_reverts
  enabled,     \* strategies whose flag is set
  tasks,       \* spawned tasks of each strategy that have yet to start
  burst,       \* history: rounds of spawns since seen was last stored
  afterKill    \* history: rounds of spawns since the kill switch was set

feedVars == <<head, oracleUp, link, stream, sending, seen>>
breakerVars == <<killSwitch, tripped, enabled>>
dispatchVars == <<feedVars, channel, loop, event, priceBlock, breakerVars, tasks,
                  burst, afterKill>>

Blocks == 1 .. MaxBlock
LoopSteps == {"recv", "checkKill", "checkReverts", "sleep", "refresh", "spawn"}

DispatchTypeOK ==
  /\ head \in Nat /\ oracleUp \in BOOLEAN /\ link \in BOOLEAN
  /\ stream \in Seq(Nat) /\ sending \in Nat /\ seen \in Nat
  /\ channel \in Seq(Nat) /\ Len(channel) <= Capacity
  /\ loop \in LoopSteps /\ event \in Nat /\ priceBlock \in Int
  /\ killSwitch \in BOOLEAN /\ tripped \in BOOLEAN /\ enabled \subseteq Strategies
  /\ tasks \in [Strategies -> Nat]
  /\ burst \in Nat /\ afterKill \in Nat

(* main has read the price once and set the strategies' default flags. *)
DispatchInit ==
  /\ head = 0 /\ oracleUp = TRUE /\ link = FALSE
  /\ stream = <<>> /\ sending = 0 /\ seen = 0
  /\ channel = <<>> /\ loop = "recv" /\ event = 0 /\ priceBlock = -1
  /\ killSwitch = FALSE /\ tripped = FALSE /\ enabled = DefaultOn
  /\ tasks = [s \in Strategies |-> 0]
  /\ burst = 0 /\ afterKill = 0

-----------------------------------------------------------------------------
(* The chain and the subscription *)

(* HyperEVM makes a block; block numbers only grow. *)
MakeBlock ==
  /\ head < MaxBlock
  /\ head' = head + 1
  /\ stream' = IF link THEN Append(stream, head + 1) ELSE stream
  /\ UNCHANGED <<oracleUp, link, sending, seen, channel, loop, event, priceBlock,
                 breakerVars, tasks, burst, afterKill>>

OracleChanges ==
  /\ oracleUp' = ~oracleUp
  /\ UNCHANGED <<head, link, stream, sending, seen, channel, loop, event,
                 priceBlock, breakerVars, tasks, burst, afterKill>>

(* The connection breaks; headers already received may be lost with it. *)
Disconnect ==
  /\ link
  /\ link' = FALSE
  /\ stream' \in {stream, <<>>}
  /\ UNCHANGED <<head, oracleUp, sending, seen, channel, loop, event, priceBlock,
                 breakerVars, tasks, burst, afterKill>>

(* The loop has returned Err at the end of its stream; the supervisor      *)
(* connects and subscribes again.                                          *)
Reconnect ==
  /\ ~link /\ stream = <<>> /\ sending = 0
  /\ link' = TRUE
  /\ UNCHANGED <<head, oracleUp, stream, sending, seen, channel, loop, event,
                 priceBlock, breakerVars, tasks, burst, afterKill>>

-----------------------------------------------------------------------------
(* process_block_header *)

(* Variant for mutation: the newest header is handled first, the rest later. *)
StoreNewestHeader ==
  /\ stream # <<>> /\ sending = 0
  /\ seen' = stream[Len(stream)]
  /\ sending' = stream[Len(stream)]
  /\ stream' = SubSeq(stream, 1, Len(stream) - 1)
  /\ burst' = 0
  /\ UNCHANGED <<head, oracleUp, link, channel, loop, event, priceBlock,
                 breakerVars, tasks, afterKill>>

StoreHeader ==
  /\ stream # <<>> /\ sending = 0
  /\ seen' = Head(stream)
  /\ sending' = Head(stream)
  /\ stream' = Tail(stream)
  /\ burst' = 0
  /\ UNCHANGED <<head, oracleUp, link, channel, loop, event, priceBlock,
                 breakerVars, tasks, afterKill>>

(* Variant for mutation: the channel is not bounded. *)
SendEventAlways ==
  /\ sending # 0
  /\ channel' = Append(channel, sending)
  /\ sending' = 0
  /\ UNCHANGED <<head, oracleUp, link, stream, seen, loop, event, priceBlock,
                 breakerVars, tasks, burst, afterKill>>

(* try_send: the event is dropped when the channel is full. *)
SendEvent ==
  /\ sending # 0
  /\ channel' = IF Len(channel) < Capacity THEN Append(channel, sending) ELSE channel
  /\ sending' = 0
  /\ UNCHANGED <<head, oracleUp, link, stream, seen, loop, event, priceBlock,
                 breakerVars, tasks, burst, afterKill>>

-----------------------------------------------------------------------------
(* The evaluation loop of main *)

LoopGoes(from, to) == loop = from /\ loop' = to

Receive ==
  /\ channel # <<>>
  /\ LoopGoes("recv", "checkKill")
  /\ event' = Head(channel)
  /\ channel' = Tail(channel)
  /\ UNCHANGED <<feedVars, priceBlock, breakerVars, tasks, burst, afterKill>>

(* Variant for mutation: only the revert count is looked at. *)
LookAtKillSkipped ==
  /\ LoopGoes("checkKill", "checkReverts")
  /\ UNCHANGED <<feedVars, channel, event, priceBlock, breakerVars, tasks, burst,
                 afterKill>>

(* is_halted: two loads, the second only if the first found no kill switch *)
LookAtKill ==
  /\ \/ killSwitch /\ LoopGoes("checkKill", "sleep")
     \/ ~killSwitch /\ LoopGoes("checkKill", "checkReverts")
  /\ UNCHANGED <<feedVars, channel, event, priceBlock, breakerVars, tasks, burst,
                 afterKill>>

LookAtReverts ==
  /\ \/ tripped /\ LoopGoes("checkReverts", "sleep")
     \/ ~tripped /\ LoopGoes("checkReverts", "refresh")
  /\ UNCHANGED <<feedVars, channel, event, priceBlock, breakerVars, tasks, burst,
                 afterKill>>

(* Variant for mutation: the loop waits until the halt is lifted. *)
SleepUntilResumed ==
  /\ ~killSwitch
  /\ LoopGoes("sleep", "recv")
  /\ UNCHANGED <<feedVars, channel, event, priceBlock, breakerVars, tasks, burst,
                 afterKill>>

(* The five seconds are over, halted or not; the event is gone. *)
SleepOver ==
  /\ LoopGoes("sleep", "recv")
  /\ UNCHANGED <<feedVars, channel, event, priceBlock, breakerVars, tasks, burst,
                 afterKill>>

(* refresh_hype_price: the call is answered at the newest block, and the   *)
(* precompile reads the state of the block before (precompile.rs:5, :25).  *)
RefreshOk ==
  /\ oracleUp
  /\ LoopGoes("refresh", "spawn")
  /\ priceBlock' = head - 1
  /\ UNCHANGED <<feedVars, channel, event, breakerVars, tasks, burst, afterKill>>

(* Variant for mutation: the error is logged and the old price is used. *)
RefreshFailsIgnored ==
  /\ LoopGoes("refresh", "spawn")
  /\ UNCHANGED <<feedVars, channel, event, priceBlock, breakerVars, tasks, burst,
                 afterKill>>

(* The price is zero, or the call failed: alert, and skip this event. *)
RefreshFails ==
  /\ LoopGoes("refresh", "recv")
  /\ UNCHANGED <<feedVars, channel, event, priceBlock, breakerVars, tasks, burst,
                 afterKill>>

(* spawn_strategies: a task for each enabled strategy, if it has work *)
SpawnStrategies ==
  /\ LoopGoes("spawn", "recv")
  /\ \E idle \in SUBSET WhenDue :
       tasks' = [s \in Strategies |-> IF s \in enabled \ idle THEN tasks[s] + 1
                                                            ELSE tasks[s]]
  /\ burst' = burst + 1
  /\ afterKill' = IF killSwitch THEN afterKill + 1 ELSE 0
  /\ UNCHANGED <<feedVars, channel, event, priceBlock, breakerVars>>

-----------------------------------------------------------------------------
(* The other tasks *)

(* submit_sync halts the bot and counts reverts, the HTTP handlers halt    *)
(* and resume it; see Submission for the order of their stores.            *)
SetKill(value) ==
  /\ killSwitch # value
  /\ killSwitch' = value
  /\ afterKill' = 0
  /\ UNCHANGED <<feedVars, channel, loop, event, priceBlock, tripped, enabled,
                 tasks, burst>>

SetTripped(value) ==
  /\ tripped # value
  /\ tripped' = value
  /\ UNCHANGED <<feedVars, channel, loop, event, priceBlock, killSwitch, enabled,
                 tasks, burst, afterKill>>

(* strategy_toggle_handler *)
Toggle(s) ==
  /\ enabled' = IF s \in enabled THEN enabled \ {s} ELSE enabled \cup {s}
  /\ UNCHANGED <<feedVars, channel, loop, event, priceBlock, killSwitch, tripped,
                 tasks, burst, afterKill>>

(* A spawned task starts and reads the price BotState has by then: before  *)
(* it looks at its enable flag, if it looks at all.                        *)
StartTask(s) ==
  /\ tasks[s] > 0
  /\ tasks' = [tasks EXCEPT ![s] = @ - 1]
  /\ UNCHANGED <<feedVars, channel, loop, event, priceBlock, breakerVars, burst,
                 afterKill>>

-----------------------------------------------------------------------------
BlockLoop == StoreHeader \/ SendEvent

LoopStep ==
  \/ Receive \/ LookAtKill \/ LookAtReverts \/ SleepOver \/ SpawnStrategies

DispatchNext ==
  \/ MakeBlock \/ OracleChanges \/ Disconnect \/ Reconnect
  \/ BlockLoop \/ LoopStep \/ RefreshOk \/ RefreshFails
  \/ \E value \in BOOLEAN : SetKill(value) \/ SetTripped(value)
  \/ \E s \in Strategies : Toggle(s) \/ StartTask(s)

DispatchSpec == DispatchInit /\ [][DispatchNext]_dispatchVars

(* The loops are polled whenever they can run.  The price call is under no *)
(* fairness: the HTTP provider is built without a timeout.                 *)
FairDispatchSpec ==
  DispatchSpec /\ WF_dispatchVars(BlockLoop) /\ WF_dispatchVars(LoopStep)

-----------------------------------------------------------------------------
(* Events pile up while the loop sleeps or waits for a price, and are then *)
(* evaluated one after another against the same state.  A round more than  *)
(* the channel holds can come from the event in the loop's hands, and one  *)
(* from a header stored while the channel was full but sent after a drain. *)
BurstBound == burst <= Capacity + 2

(* A round of spawns runs on the state of its event: current_block is that *)
(* block or a later one, and the HYPE price, which the precompile has from *)
(* the block before, is of no block older than the one before the event,   *)
(* however late the event is taken and whatever call failed before.        *)
StateOfEvent == loop = "spawn" => event <= seen /\ event - 1 <= priceBlock

(* Once the kill switch is set, the loop spawns at most the round it had   *)
(* already decided on, for as long as the switch stays set.                *)
OneRoundAfterKill == afterKill <= 1

(* Whatever is dropped or lost, the loop takes block events in the order   *)
(* of the chain and none of them twice.                                    *)
NewerEvents == [][event' # event => event' > event]_dispatchVars

(* "Bot stays running for monitoring" (README.md:131): halted or not, the  *)
(* loop takes every event in the channel, unless a price call is not       *)
(* answered.                                                               *)
EventsTaken ==
  \A n \in Blocks : (\E i \in DOMAIN channel : channel[i] = n)
                      ~> (event = n \/ loop = "refresh")
=============================================================================
