-------------------------- MODULE DispatcherProofs --------------------------
(***************************************************************************)
(* Proofs about Dispatcher, for any channel capacity, set of strategies    *)
(* and length of the chain.  The inductive invariant is the type invariant *)
(* and three parts: what an event still in flight can add to a burst, the  *)
(* order of block numbers from the event in the loop's hands back to the   *)
(* chain's head, and where the loop can be after a round on a killed bot.  *)
(***************************************************************************)
EXTENDS Dispatcher, SequenceTheorems, TLAPS

Deciding == loop \in {"checkKill", "checkReverts", "refresh", "spawn"}

(* Every event between process_block_header and the spawns is a round that *)
(* may still be added to the burst.                                        *)
BurstInv ==
  burst + Len(channel) + (IF Deciding THEN 1 ELSE 0) + (IF sending # 0 THEN 1 ELSE 0)
    <= Capacity + 2

Ascending(s) == \A i, j \in DOMAIN s : i < j => s[i] < s[j]

(* event < channel < sending = seen < stream <= head *)
OrderInv ==
  /\ event <= seen /\ seen <= head
  /\ sending # 0 => sending = seen /\ event < sending
  /\ Ascending(channel) /\ Ascending(stream)
  /\ \A i \in DOMAIN channel : /\ event < channel[i] /\ channel[i] <= seen
                               /\ sending # 0 => channel[i] < sending
  /\ \A i \in DOMAIN stream : seen < stream[i] /\ stream[i] <= head
  /\ loop = "spawn" => event - 1 <= priceBlock

KillInv ==
  /\ afterKill <= 1
  /\ afterKill = 1 => killSwitch /\ loop \in {"recv", "checkKill", "sleep"}

-----------------------------------------------------------------------------
(* What Append and Tail do to an ascending sequence of block numbers.      *)
LEMMA AscendingAppend ==
  ASSUME NEW s \in Seq(Nat), NEW n \in Nat, Ascending(s),
         \A i \in DOMAIN s : s[i] < n
  PROVE  Ascending(Append(s, n))
  BY DEF Ascending

(* Taking the head off an ascending queue leaves an ascending queue whose *)
(* entries are all newer.                                                 *)
LEMMA AscendingTail ==
  ASSUME NEW s \in Seq(Nat), s # <<>>, Ascending(s)
  PROVE  /\ Ascending(Tail(s))
         /\ \A i \in DOMAIN Tail(s) : /\ i + 1 \in DOMAIN s
                                      /\ Tail(s)[i] = s[i + 1]
                                      /\ Head(s) < Tail(s)[i]
  <1>1. \A i \in DOMAIN Tail(s) : i + 1 \in DOMAIN s /\ Tail(s)[i] = s[i + 1]
    BY HeadTailProperties
  <1>2. 1 \in DOMAIN s /\ Head(s) = s[1]
    BY EmptySeq
  <1>3. \A i \in DOMAIN Tail(s) : i \in Nat /\ 1 <= i
    BY HeadTailProperties
  <1> QED BY <1>1, <1>2, <1>3 DEF Ascending

-----------------------------------------------------------------------------
(* The loops' places, the channel and the history counters keep their      *)
(* types; the channel never holds more than its capacity.                  *)
THEOREM DispatchTypeCorrect == DispatchSpec => []DispatchTypeOK
<1>1. DispatchInit => DispatchTypeOK
  <2> SUFFICES ASSUME DispatchInit
               PROVE  DispatchTypeOK
    OBVIOUS
  <2>1. oracleUp \in BOOLEAN /\ link \in BOOLEAN /\ killSwitch \in BOOLEAN
        /\ tripped \in BOOLEAN
    BY Zenon DEF DispatchInit
  <2>2. stream \in Seq(Nat) /\ channel \in Seq(Nat) /\ Len(channel) = 0
    BY DEF DispatchInit
  <2>3. tasks \in [Strategies -> Nat]
    BY DEF DispatchInit
  <2> QED
    BY <2>1, <2>2, <2>3, DispatcherAssumption DEF DispatchInit, DispatchTypeOK, LoopSteps
<1>2. DispatchTypeOK /\ [DispatchNext]_dispatchVars => DispatchTypeOK'
  <2> SUFFICES ASSUME DispatchTypeOK, [DispatchNext]_dispatchVars
               PROVE  DispatchTypeOK'
    OBVIOUS
  <2> USE DispatcherAssumption DEF DispatchTypeOK, LoopSteps, feedVars, breakerVars
  <2>1. CASE MakeBlock \/ OracleChanges \/ Disconnect \/ Reconnect
    <3>1. oracleUp' \in BOOLEAN /\ link' \in BOOLEAN
      BY <2>1, Zenon DEF MakeBlock, OracleChanges, Disconnect, Reconnect
    <3>2. stream' \in Seq(Nat) /\ head' \in Nat
      <4>1. CASE MakeBlock
        BY <4>1 DEF MakeBlock
      <4>2. \/ stream' \in {stream, <<>>} /\ head' = head
            \/ MakeBlock
        BY <2>1, Zenon DEF OracleChanges, Disconnect, Reconnect
      <4>3. <<>> \in Seq(Nat)
        OBVIOUS
      <4>4. CASE stream' \in {stream, <<>>} /\ head' = head
        BY <4>3, <4>4, Zenon
      <4> QED BY <4>1, <4>2, <4>4, Zenon
    <3>3. UNCHANGED <<sending, seen, channel, loop, event, priceBlock, enabled, tasks,
                      burst, afterKill>>
      BY <2>1 DEF MakeBlock, OracleChanges, Disconnect, Reconnect
    <3>4. killSwitch' \in BOOLEAN /\ tripped' \in BOOLEAN
      BY <2>1, Zenon DEF MakeBlock, OracleChanges, Disconnect, Reconnect
    <3>5. /\ sending' \in Nat /\ seen' \in Nat /\ channel' \in Seq(Nat)
          /\ Len(channel') <= Capacity /\ loop' \in LoopSteps /\ event' \in Nat
          /\ priceBlock' \in Int /\ enabled' \subseteq Strategies
          /\ tasks' \in [Strategies -> Nat] /\ burst' \in Nat /\ afterKill' \in Nat
      BY <3>3
    <3> QED BY <3>1, <3>2, <3>4, <3>5, Zenon
  <2>2. CASE StoreHeader
    BY <2>2, HeadTailProperties DEF StoreHeader
  <2>3. CASE SendEvent
    BY <2>3 DEF SendEvent
  <2>4. CASE Receive
    BY <2>4, HeadTailProperties DEF Receive, LoopGoes
  <2>5. CASE LookAtKill \/ LookAtReverts \/ SleepOver \/ RefreshOk \/ RefreshFails
    BY <2>5 DEF LookAtKill, LookAtReverts, SleepOver, RefreshOk, RefreshFails, LoopGoes
  <2>6. CASE SpawnStrategies
    BY <2>6 DEF SpawnStrategies, LoopGoes
  <2>7. CASE \E value \in BOOLEAN : SetKill(value) \/ SetTripped(value)
    BY <2>7 DEF SetKill, SetTripped
  <2>8. CASE \E s \in Strategies : Toggle(s) \/ StartTask(s)
    <3>1. PICK s \in Strategies : Toggle(s) \/ StartTask(s)
      BY <2>8
    <3>2. CASE Toggle(s)
      BY <3>2 DEF Toggle
    <3>3. CASE StartTask(s)
      BY <3>3 DEF StartTask
    <3> QED BY <3>1, <3>2, <3>3
  <2>9. CASE UNCHANGED dispatchVars
    BY <2>9 DEF dispatchVars
  <2> QED
    BY <2>1, <2>2, <2>3, <2>4, <2>5, <2>6, <2>7, <2>8, <2>9
    DEF DispatchNext, BlockLoop, LoopStep
<1> QED BY <1>1, <1>2, PTL DEF DispatchSpec

-----------------------------------------------------------------------------
(* Events that piled up behind a sleep or a slow price call are evaluated  *)
(* against one state at most Capacity + 2 times in a row.                  *)
THEOREM BurstsAreBounded == DispatchSpec => []BurstBound
<1>1. DispatchInit => BurstInv
  BY DispatcherAssumption DEF DispatchInit, BurstInv, Deciding
<1>2. DispatchTypeOK /\ BurstInv /\ [DispatchNext]_dispatchVars => BurstInv'
  <2> SUFFICES ASSUME DispatchTypeOK, BurstInv, [DispatchNext]_dispatchVars
               PROVE  BurstInv'
    OBVIOUS
  <2> USE DispatcherAssumption DEF DispatchTypeOK, BurstInv, Deciding, feedVars
  <2>1. CASE MakeBlock \/ OracleChanges \/ Disconnect \/ Reconnect
    BY <2>1 DEF MakeBlock, OracleChanges, Disconnect, Reconnect
  <2>2. CASE StoreHeader
    <3>1. burst' = 0 /\ channel' = channel /\ loop' = loop
      BY <2>2 DEF StoreHeader
    <3>2. Len(channel) \in Nat
      OBVIOUS
    <3> DEFINE busy == IF Deciding' THEN 1 ELSE 0
               held == IF sending' # 0 THEN 1 ELSE 0
    <3>3. busy \in {0, 1} /\ held \in {0, 1}
      OBVIOUS
    <3>4. Len(channel') <= Capacity /\ Len(channel') \in Nat /\ burst' = 0
      BY <3>1, <3>2
    <3>5. burst' + Len(channel') + busy + held <= Capacity + 2
      <4> HIDE DEF busy, held
      <4> QED BY <3>3, <3>4
    <3> QED BY <3>5 DEF busy, held
  <2>3. CASE SendEvent
    <3>1. /\ sending # 0 /\ sending' = 0 /\ UNCHANGED <<loop, burst>>
          /\ channel' = channel \/ channel' = Append(channel, sending)
      BY <2>3 DEF SendEvent
    <3>2. Len(channel') <= Len(channel) + 1 /\ Len(channel') \in Nat
      BY <3>1
    <3>3. Deciding' <=> Deciding
      BY <3>1
    <3> QED BY <3>1, <3>2, <3>3
  <2>4. CASE Receive
    <3>1. Len(channel') = Len(channel) - 1 /\ burst' = burst
      BY <2>4, HeadTailProperties DEF Receive
    <3> QED BY <2>4, <3>1 DEF Receive, LoopGoes
  <2>5. CASE LookAtKill \/ LookAtReverts \/ SleepOver \/ RefreshOk \/ RefreshFails
    <3>1. UNCHANGED <<sending, channel, burst>>
      BY <2>5 DEF LookAtKill, LookAtReverts, SleepOver, RefreshOk, RefreshFails
    <3>2. Deciding' => Deciding
      BY <2>5 DEF LookAtKill, LookAtReverts, SleepOver, RefreshOk, RefreshFails, LoopGoes
    <3>3. (IF Deciding' THEN 1 ELSE 0) <= (IF Deciding THEN 1 ELSE 0)
      BY <3>2
    <3>4. Len(channel) \in Nat /\ burst \in Nat /\ Len(channel') = Len(channel)
      BY <3>1
    <3> QED BY <3>1, <3>3, <3>4
  <2>6. CASE SpawnStrategies
    BY <2>6 DEF SpawnStrategies, LoopGoes
  <2>7. CASE \E value \in BOOLEAN : SetKill(value) \/ SetTripped(value)
    BY <2>7 DEF SetKill, SetTripped
  <2>8. CASE \E s \in Strategies : Toggle(s) \/ StartTask(s)
    BY <2>8 DEF Toggle, StartTask
  <2>9. CASE UNCHANGED dispatchVars
    BY <2>9 DEF dispatchVars
  <2> QED
    BY <2>1, <2>2, <2>3, <2>4, <2>5, <2>6, <2>7, <2>8, <2>9
    DEF DispatchNext, BlockLoop, LoopStep
<1>3. DispatchTypeOK /\ BurstInv => BurstBound
  BY DispatcherAssumption DEF DispatchTypeOK, BurstInv, BurstBound
<1> QED BY <1>1, <1>2, <1>3, DispatchTypeCorrect, PTL DEF DispatchSpec

-----------------------------------------------------------------------------
(* However the kill switch moves under the loop's two loads, at most the   *)
(* round already decided on is spawned while it stays set.                 *)
THEOREM OneRoundAtMost == DispatchSpec => []OneRoundAfterKill
<1>1. DispatchInit => KillInv
  BY DEF DispatchInit, KillInv
<1>2. DispatchTypeOK /\ KillInv /\ [DispatchNext]_dispatchVars => KillInv'
  <2> SUFFICES ASSUME DispatchTypeOK, KillInv, [DispatchNext]_dispatchVars
               PROVE  KillInv'
    OBVIOUS
  <2> USE DEF DispatchTypeOK, KillInv, feedVars, breakerVars
  <2>1. CASE MakeBlock \/ OracleChanges \/ Disconnect \/ Reconnect \/ StoreHeader \/ SendEvent
    BY <2>1 DEF MakeBlock, OracleChanges, Disconnect, Reconnect, StoreHeader, SendEvent
  <2>2. CASE Receive \/ LookAtKill \/ LookAtReverts \/ SleepOver
    BY <2>2 DEF Receive, LookAtKill, LookAtReverts, SleepOver, LoopGoes
  <2>3. CASE RefreshOk \/ RefreshFails \/ SpawnStrategies
    BY <2>3 DEF RefreshOk, RefreshFails, SpawnStrategies, LoopGoes
  <2>4. CASE \E value \in BOOLEAN : SetKill(value) \/ SetTripped(value)
    BY <2>4 DEF SetKill, SetTripped
  <2>5. CASE \E s \in Strategies : Toggle(s) \/ StartTask(s)
    BY <2>5 DEF Toggle, StartTask
  <2>6. CASE UNCHANGED dispatchVars
    BY <2>6 DEF dispatchVars
  <2> QED
    BY <2>1, <2>2, <2>3, <2>4, <2>5, <2>6 DEF DispatchNext, BlockLoop, LoopStep
<1>3. KillInv => OneRoundAfterKill
  BY DEF KillInv, OneRoundAfterKill
<1> QED BY <1>1, <1>2, <1>3, DispatchTypeCorrect, PTL DEF DispatchSpec

-----------------------------------------------------------------------------
(* Block numbers are in order along the whole path, through lost headers,  *)
(* reconnections and dropped events.                                       *)
LEMMA OrderIsKept == DispatchSpec => []OrderInv
<1>1. DispatchInit => OrderInv
  BY DEF DispatchInit, OrderInv, Ascending
<1>2. DispatchTypeOK /\ OrderInv /\ [DispatchNext]_dispatchVars => OrderInv'
  <2> SUFFICES ASSUME DispatchTypeOK, OrderInv, [DispatchNext]_dispatchVars
               PROVE  OrderInv'
    OBVIOUS
  <2> USE DEF DispatchTypeOK, OrderInv, feedVars, breakerVars
  <2>1. CASE MakeBlock
    <3>1. CASE link
      <4>1. stream' = Append(stream, head + 1) /\ head' = head + 1
        BY <2>1, <3>1 DEF MakeBlock
      <4>2. Ascending(stream')
        <5>1. \A i \in DOMAIN stream : stream[i] < head + 1
          OBVIOUS
        <5> QED BY <4>1, <5>1, AscendingAppend
      <4>3. \A i \in DOMAIN stream' : seen < stream'[i] /\ stream'[i] <= head'
        BY <4>1
      <4> QED BY <2>1, <4>1, <4>2, <4>3 DEF MakeBlock
    <3>2. CASE ~link
      BY <2>1, <3>2 DEF MakeBlock
    <3> QED BY <3>1, <3>2
  <2>2. CASE OracleChanges \/ Disconnect \/ Reconnect
    BY <2>2 DEF OracleChanges, Disconnect, Reconnect, Ascending
  <2>3. CASE StoreHeader
    <3>1. /\ stream # <<>> /\ seen' = Head(stream) /\ sending' = Head(stream)
          /\ stream' = Tail(stream)
          /\ UNCHANGED <<head, channel, loop, event, priceBlock>>
      BY <2>3 DEF StoreHeader
    <3>2. 1 \in DOMAIN stream /\ Head(stream) = stream[1]
      BY <3>1, EmptySeq
    <3>3. seen < seen' /\ seen' <= head
      BY <3>1, <3>2
    <3>4. /\ Ascending(stream')
          /\ \A i \in DOMAIN stream' : seen' < stream'[i] /\ stream'[i] <= head
      BY <3>1, AscendingTail
    <3>5. \A i \in DOMAIN channel : channel[i] < seen'
      BY <3>3, <3>1, <3>2
    <3> QED BY <3>1, <3>2, <3>3, <3>4, <3>5
  <2>4. CASE SendEvent
    <3>1. CASE Len(channel) < Capacity
      <4>1. /\ sending # 0 /\ channel' = Append(channel, sending) /\ sending' = 0
            /\ UNCHANGED <<head, stream, seen, loop, event, priceBlock>>
        BY <2>4, <3>1 DEF SendEvent
      <4>2. Ascending(channel')
        BY <4>1, AscendingAppend
      <4>3. \A i \in DOMAIN channel' : event < channel'[i] /\ channel'[i] <= seen
        BY <4>1
      <4> QED BY <4>1, <4>2, <4>3
    <3>2. CASE ~(Len(channel) < Capacity)
      BY <2>4, <3>2 DEF SendEvent
    <3> QED BY <3>1, <3>2
  <2>5. CASE Receive
    <3>1. /\ channel # <<>> /\ event' = Head(channel) /\ channel' = Tail(channel)
          /\ loop' = "checkKill" /\ UNCHANGED <<head, stream, sending, seen, priceBlock>>
      BY <2>5 DEF Receive, LoopGoes
    <3>2. 1 \in DOMAIN channel /\ Head(channel) = channel[1]
      BY <3>1, EmptySeq
    <3>3. /\ Ascending(channel')
          /\ \A i \in DOMAIN channel' : /\ event' < channel'[i] /\ channel'[i] <= seen
                                        /\ sending # 0 => channel'[i] < sending
      BY <3>1, AscendingTail
    <3> QED BY <3>1, <3>2, <3>3
  <2>6. CASE LookAtKill \/ LookAtReverts \/ SleepOver \/ RefreshOk \/ RefreshFails
    BY <2>6 DEF LookAtKill, LookAtReverts, SleepOver, RefreshOk, RefreshFails, LoopGoes
  <2>7. CASE SpawnStrategies
    BY <2>7 DEF SpawnStrategies, LoopGoes
  <2>8. CASE \E value \in BOOLEAN : SetKill(value) \/ SetTripped(value)
    BY <2>8 DEF SetKill, SetTripped
  <2>9. CASE \E s \in Strategies : Toggle(s) \/ StartTask(s)
    BY <2>9 DEF Toggle, StartTask
  <2>10. CASE UNCHANGED dispatchVars
    BY <2>10 DEF dispatchVars
  <2> QED
    BY <2>1, <2>2, <2>3, <2>4, <2>5, <2>6, <2>7, <2>8, <2>9, <2>10
    DEF DispatchNext, BlockLoop, LoopStep
<1> QED BY <1>1, <1>2, DispatchTypeCorrect, PTL DEF DispatchSpec

(* A round of spawns never runs on a block older than its event, nor on a  *)
(* price older than the one the precompile has at the event's block: that  *)
(* of the block before.                                                    *)
THEOREM StateIsOfEvent == DispatchSpec => []StateOfEvent
<1>1. OrderInv => StateOfEvent
  BY DEF OrderInv, StateOfEvent
<1> QED BY <1>1, OrderIsKept, PTL

(* The loop takes block events in the order of the chain and none twice.   *)
THEOREM EventsAscend == DispatchSpec => NewerEvents
<1>1. DispatchTypeOK /\ OrderInv /\ [DispatchNext]_dispatchVars
        => [event' # event => event' > event]_dispatchVars
  <2> SUFFICES ASSUME DispatchTypeOK, OrderInv, DispatchNext, event' # event
               PROVE  event' > event
    OBVIOUS
  <2>1. Receive
    BY DEF DispatchNext, MakeBlock, OracleChanges, Disconnect, Reconnect, BlockLoop,
           StoreHeader, SendEvent, LoopStep, LookAtKill, LookAtReverts, SleepOver,
           RefreshOk, RefreshFails, SpawnStrategies, SetKill, SetTripped, Toggle,
           StartTask
  <2>2. channel # <<>> /\ event' = Head(channel)
    BY <2>1 DEF Receive
  <2>3. 1 \in DOMAIN channel /\ Head(channel) = channel[1]
    BY <2>2, EmptySeq DEF DispatchTypeOK
  <2> QED BY <2>2, <2>3 DEF DispatchTypeOK, OrderInv
<1> QED BY <1>1, DispatchTypeCorrect, OrderIsKept, PTL DEF DispatchSpec, NewerEvents

-----------------------------------------------------------------------------
(* What EventsTaken rests on besides fairness *)

(* Steps of the loop until it is at the receive again. *)
StepsLeft(place) ==
  CASE place = "recv" -> 0 [] place \in {"spawn", "sleep"} -> 1 [] place = "refresh" -> 2
    [] place = "checkReverts" -> 3 [] place = "checkKill" -> 4

(* At most so many steps of the loop until it has the i-th event. *)
StepsTo(i, place) == 5 * i + StepsLeft(place)

(* An event in the channel is taken, or it stays where it is, or the loop  *)
(* has come nearer to it; it is never passed over or lost.                 *)
DrawsNear ==
  \A i \in DOMAIN channel :
    \/ event' = channel[i]
    \/ \E j \in DOMAIN channel' :
         /\ channel'[j] = channel[i]
         /\ (loop' = loop /\ j = i) \/ StepsTo(j, loop') < StepsTo(i, loop)

(* Every step of the loop brings it nearer to every event in the channel,  *)
(* halted or not, and no other step takes it away from one.                *)
THEOREM EventsDrawNear == DispatchSpec => [][DrawsNear]_dispatchVars
<1>1. DispatchTypeOK /\ [DispatchNext]_dispatchVars => [DrawsNear]_dispatchVars
  <2> SUFFICES ASSUME DispatchTypeOK, DispatchNext, NEW i \in DOMAIN channel
               PROVE  \/ event' = channel[i]
                      \/ \E j \in DOMAIN channel' :
                           /\ channel'[j] = channel[i]
                           /\ (loop' = loop /\ j = i) \/ StepsTo(j, loop') < StepsTo(i, loop)
    BY DEF DrawsNear
  <2>0. channel \in Seq(Nat) /\ i \in Nat /\ i \in 1 .. Len(channel)
    BY DEF DispatchTypeOK
  <2>1. CASE UNCHANGED <<loop, channel>>
    BY <2>1
  <2>2. CASE SendEvent
    <3>1. loop' = loop /\ (channel' = channel \/ channel' = Append(channel, sending))
      BY <2>2 DEF SendEvent
    <3>2. i \in DOMAIN channel' /\ channel'[i] = channel[i]
      BY <2>0, <3>1
    <3> QED BY <3>1, <3>2
  <2>3. CASE Receive
    <3>1. /\ channel # <<>> /\ event' = Head(channel) /\ channel' = Tail(channel)
          /\ loop = "recv" /\ loop' = "checkKill"
      BY <2>3 DEF Receive, LoopGoes
    <3>2. CASE i = 1
      BY <3>1, <3>2, <2>0
    <3>3. CASE i # 1
      <4>1. i - 1 \in DOMAIN channel' /\ channel'[i - 1] = channel[i]
        BY <2>0, <3>1, <3>3
      <4>2. StepsLeft(loop') = 4 /\ StepsLeft(loop) = 0
        BY <3>1 DEF StepsLeft
      <4>3. StepsTo(i - 1, loop') < StepsTo(i, loop)
        BY <2>0, <4>2 DEF StepsTo
      <4> QED BY <4>1, <4>3
    <3> QED BY <3>2, <3>3
  <2>4. CASE LookAtKill \/ LookAtReverts \/ SleepOver \/ SpawnStrategies \/ RefreshOk \/ RefreshFails
    <3>1. /\ channel' = channel
          /\ \/ loop = "checkKill" /\ loop' \in {"sleep", "checkReverts"}
             \/ loop = "checkReverts" /\ loop' \in {"sleep", "refresh"}
             \/ loop \in {"sleep", "spawn"} /\ loop' = "recv"
             \/ loop = "refresh" /\ loop' \in {"spawn", "recv"}
      BY <2>4 DEF LookAtKill, LookAtReverts, SleepOver, SpawnStrategies, RefreshOk, RefreshFails, LoopGoes
    <3>2. /\ StepsLeft(loop) \in Nat /\ StepsLeft(loop') \in Nat
          /\ StepsLeft(loop') < StepsLeft(loop)
      <4>1. CASE loop = "checkKill" /\ loop' \in {"sleep", "checkReverts"}
        BY <4>1 DEF StepsLeft
      <4>2. CASE loop = "checkReverts" /\ loop' \in {"sleep", "refresh"}
        BY <4>2 DEF StepsLeft
      <4>3. CASE loop \in {"sleep", "spawn"} /\ loop' = "recv"
        BY <4>3 DEF StepsLeft
      <4>4. CASE loop = "refresh" /\ loop' \in {"spawn", "recv"}
        BY <4>4 DEF StepsLeft
      <4> QED BY <3>1, <4>1, <4>2, <4>3, <4>4
    <3>3. StepsTo(i, loop') < StepsTo(i, loop)
      BY <2>0, <3>2 DEF StepsTo
    <3> QED BY <3>1, <3>3
  <2> QED
    BY <2>1, <2>2, <2>3, <2>4
    DEF DispatchNext, BlockLoop, LoopStep, MakeBlock, OracleChanges, Disconnect, Reconnect,
        StoreHeader, SetKill, SetTripped, Toggle, StartTask, feedVars
<1> QED BY <1>1, DispatchTypeCorrect, PTL DEF DispatchSpec
=============================================================================
