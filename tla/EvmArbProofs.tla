---------------------------- MODULE EvmArbProofs ----------------------------
(***************************************************************************)
(* Proofs about EvmArb for any number of ticks and wallets and any         *)
(* timeout.                                                                *)
(***************************************************************************)
EXTENDS EvmArb, FiniteSetTheorems, TLAPS

(* The wallets of the ticks that will release or lose one. *)
Holders == {i \in Ticks : tick[i].at \in {"send", "landed"}}
WalletsInv == free + lost + Cardinality(Holders) <= NumWallets

-----------------------------------------------------------------------------
(* Subsets of Ticks are counted one element at a time. *)
LEMMA TicksCount ==
  ASSUME NEW S \in SUBSET Ticks
  PROVE  /\ Cardinality(S) \in Nat
         /\ \A T \in SUBSET S : Cardinality(T) <= Cardinality(S)
         /\ \A i \in Ticks, T \in SUBSET Ticks :
              /\ T \subseteq S \cup {i} => Cardinality(T) <= Cardinality(S) + 1
              /\ i \in S /\ T \subseteq S \ {i} => Cardinality(T) <= Cardinality(S) - 1
<1>1. IsFiniteSet(S)
  BY EvmArbAssumption, FS_Subset
<1>2. Cardinality(S) \in Nat
  BY <1>1, FS_CardinalityType
<1>3. \A T \in SUBSET S : Cardinality(T) <= Cardinality(S)
  BY <1>1, FS_Subset
<1>4. ASSUME NEW i \in Ticks, NEW T \in SUBSET Ticks
      PROVE  /\ T \subseteq S \cup {i} => Cardinality(T) <= Cardinality(S) + 1
             /\ i \in S /\ T \subseteq S \ {i} => Cardinality(T) <= Cardinality(S) - 1
  <2>1. /\ IsFiniteSet(S \cup {i}) /\ IsFiniteSet(S \ {i})
        /\ Cardinality(S \cup {i}) \in {Cardinality(S), Cardinality(S) + 1}
        /\ i \in S => Cardinality(S \ {i}) = Cardinality(S) - 1
    BY <1>1, FS_AddElement, FS_RemoveElement
  <2>2. T \subseteq S \cup {i} => IsFiniteSet(T) /\ Cardinality(T) <= Cardinality(S \cup {i})
    BY <2>1, FS_Subset
  <2>3. T \subseteq S \ {i} => IsFiniteSet(T) /\ Cardinality(T) <= Cardinality(S \ {i})
    BY <2>1, FS_Subset
  <2>4. T \subseteq S \cup {i} => Cardinality(T) \in Nat
    BY <2>2, FS_CardinalityType
  <2>5. QED
    BY <1>2, <2>1, <2>2, <2>3, <2>4
<1>5. QED
  BY <1>2, <1>3, <1>4

-----------------------------------------------------------------------------
(* The ages stay within the timeout. *)
LEMMA OlderType ==
  ASSUME NEW age \in 0 .. Timeout
  PROVE  Older(age) \in 0 .. Timeout
BY EvmArbAssumption DEF Older

(* A tick that moves leaves the others where they are. *)
LEMMA BecomesType ==
  ASSUME EvmArbTypeOK, NEW i \in Ticks, NEW place \in Places, NEW kind \in Kinds,
         NEW ok \in BOOLEAN, Becomes(i, place, kind, ok)
  PROVE  /\ tick' \in [Ticks -> [at : Places, kind : Kinds, ok : BOOLEAN]]
         /\ tick'[i].at = place /\ tick'[i].kind = kind /\ tick'[i].ok = ok
         /\ \A j \in Ticks : j # i => tick'[j] = tick[j]
<1> DEFINE v == [at |-> place, kind |-> kind, ok |-> ok]
           R == [at : Places, kind : Kinds, ok : BOOLEAN]
<1>1. v \in R /\ v.at = place /\ v.kind = kind /\ v.ok = ok
  OBVIOUS
<1>2. tick \in [Ticks -> R] /\ tick' = [tick EXCEPT ![i] = v]
  BY DEF EvmArbTypeOK, Becomes
<1> HIDE DEF v, R
<1>3. tick' \in [Ticks -> R] /\ tick'[i] = v /\ \A j \in Ticks : j # i => tick'[j] = tick[j]
  BY <1>1, <1>2
<1>4. QED
  BY <1>1, <1>3 DEF R

(* What a step of a tick does to the tick: one fact per action. *)
Moved(i, place, kind, ok) ==
  /\ tick' \in [Ticks -> [at : Places, kind : Kinds, ok : BOOLEAN]]
  /\ tick'[i].at = place /\ tick'[i].kind = kind /\ tick'[i].ok = ok
  /\ \A j \in Ticks : j # i => tick'[j] = tick[j]

(* Every action of S1 on one tick is a move from one of few places to one *)
(* of few places; what the types need to know of it.                      *)
LEMMA Moves ==
  ASSUME EvmArbTypeOK, NEW i \in Ticks
  PROVE  /\ Start(i) =>
              \/ phase.at = "idle" /\ Moved(i, "simulate", "phase1", FALSE)
              \/ phase.at = "held" /\ Moved(i, "exit", "exit", FALSE)
              \/ phase.at = "held" /\ Moved(i, "order", "order", FALSE)
              \/ phase.at = "placed" /\ Moved(i, "exit", "exit", FALSE)
              \/ phase.at = "exited" /\ Moved(i, "reset", "none", FALSE)
         /\ Reset(i) \/ GiveUp(i) \/ Forgotten(i) \/ Answered(i) \/ AnswerLost(i)
              => Moved(i, "off", "none", FALSE)
         /\ Proceed(i) => Moved(i, "send", tick[i].kind, FALSE)
         /\ SubmitFails(i) =>
              \/ Moved(i, "off", "none", FALSE)
              \/ Moved(i, "limbo", tick[i].kind, FALSE)
         /\ Executes(i) =>
              \/ tick[i].at = "limbo" /\ Moved(i, "off", "none", FALSE)
              \/ tick[i].at = "send" /\ \E ok \in BOOLEAN : Moved(i, "landed", tick[i].kind, ok)
<1>1. \A place \in Places, kind \in Kinds, ok \in BOOLEAN :
        Becomes(i, place, kind, ok) => Moved(i, place, kind, ok)
  BY BecomesType DEF Moved
<1>2. tick[i].kind \in Kinds
  BY DEF EvmArbTypeOK
<1>3. /\ {"off", "simulate", "order", "exit", "reset", "send", "limbo", "landed"} \subseteq Places
      /\ {"none", "phase1", "order", "exit"} \subseteq Kinds
      /\ FALSE \in BOOLEAN
  BY DEF Places, Kinds
<1>4. \A place \in Places, kind \in Kinds : Enters(i, place, kind) => Moved(i, place, kind, FALSE)
  BY <1>1, <1>3 DEF Enters
<1>5. Leaves(i) => Moved(i, "off", "none", FALSE)
  BY <1>1, <1>3 DEF Leaves
<1>6. Start(i) => \/ phase.at = "idle" /\ Moved(i, "simulate", "phase1", FALSE)
                  \/ phase.at = "held" /\ Moved(i, "exit", "exit", FALSE)
                  \/ phase.at = "held" /\ Moved(i, "order", "order", FALSE)
                  \/ phase.at = "placed" /\ Moved(i, "exit", "exit", FALSE)
                  \/ phase.at = "exited" /\ Moved(i, "reset", "none", FALSE)
  BY <1>3, <1>4 DEF Start
<1>7. Reset(i) \/ GiveUp(i) \/ Forgotten(i) \/ Answered(i) \/ AnswerLost(i)
        => Moved(i, "off", "none", FALSE)
  BY <1>5 DEF Reset, GiveUp, Forgotten, Answered, AnswerLost
<1>8. Proceed(i) => Moved(i, "send", tick[i].kind, FALSE)
  BY <1>2, <1>3, <1>4 DEF Proceed
<1>9. SubmitFails(i) => \/ Moved(i, "off", "none", FALSE)
                        \/ Moved(i, "limbo", tick[i].kind, FALSE)
  BY <1>2, <1>3, <1>4, <1>5 DEF SubmitFails
<1>10. Executes(i) => \/ tick[i].at = "limbo" /\ Moved(i, "off", "none", FALSE)
                      \/ tick[i].at = "send" /\ \E ok \in BOOLEAN : Moved(i, "landed", tick[i].kind, ok)
  BY <1>1, <1>2, <1>3, <1>5 DEF Executes
<1>11. QED
  BY <1>6, <1>7, <1>8, <1>9, <1>10

-----------------------------------------------------------------------------
(* A tick, the operator and time keep the types, the wallets aside. *)
TickType == tick \in [Ticks -> [at : Places, kind : Kinds, ok : BOOLEAN]]
EscrowType == escrow \in [full : BOOLEAN, age : 0 .. Timeout]
PhaseType == phase \in [at : {"idle", "held", "placed", "exited"}, age : 0 .. Timeout]

(* One step of S1 keeps the types of ticks, escrow, phase, deployment, *)
(* orders and the clean flag.                                          *)
LEMMA TypesStep ==
  ASSUME EvmArbTypeOK, [EvmArbNext]_evmArbVars
  PROVE  /\ TickType' /\ EscrowType' /\ PhaseType'
         /\ deployment' \in {"as written", "wired"} /\ orders' \in Nat /\ clean' \in BOOLEAN
<1>1. TickType'
  <2>1. TickType
    BY DEF EvmArbTypeOK, TickType
  <2>2. ASSUME NEW i \in Ticks, TickStep(i)
        PROVE  TickType'
    BY <2>2, Moves DEF TickStep, Moved, TickType
  <2>3. CASE tick' = tick
    BY <2>1, <2>3 DEF TickType
  <2>4. QED
    BY <2>2, <2>3 DEF EvmArbNext, evmArbVars, Sweep, Elapse
<1>2. EscrowType'
  <2>1. EscrowType
    BY DEF EvmArbTypeOK, EscrowType
  <2> 0 \in 0 .. Timeout
    BY EvmArbAssumption
  <2>2. CASE escrow' = escrow
    BY <2>1, <2>2 DEF EscrowType
  <2>3. CASE \E b \in BOOLEAN : escrow' = [full |-> b, age |-> 0]
    BY <2>1, <2>3 DEF EscrowType
  <2>4. CASE Elapse
    BY <2>1, <2>4, OlderType DEF Elapse, EscrowType
  <2>5. QED
    BY <2>2, <2>3, <2>4
       DEF EvmArbNext, evmArbVars, Sweep, TickStep, Start, Reset, Proceed, GiveUp, SubmitFails,
           Executes, Phase1Runs, OrderRuns, ExitRuns, Forgotten, Answered, AnswerLost
<1>3. PhaseType'
  <2>1. PhaseType
    BY DEF EvmArbTypeOK, PhaseType
  <2> 0 \in 0 .. Timeout
    BY EvmArbAssumption
  <2>2. CASE phase' = phase
    BY <2>1, <2>2 DEF PhaseType
  <2>3. CASE \E at \in {"idle", "held", "placed", "exited"} : phase' = [at |-> at, age |-> 0]
    BY <2>1, <2>3 DEF PhaseType
  <2>4. CASE Elapse
    BY <2>1, <2>4, OlderType DEF Elapse, PhaseType
  <2>5. QED
    BY <2>2, <2>3, <2>4
       DEF EvmArbNext, evmArbVars, Sweep, TickStep, Start, Reset, Proceed, GiveUp, SubmitFails,
           Executes, Forgotten, Answered, Recorded, AnswerLost
<1>4. deployment' \in {"as written", "wired"}
  BY DEF EvmArbTypeOK, EvmArbNext, evmArbVars, Sweep, Elapse, TickStep, Start, Reset, Proceed,
         GiveUp, SubmitFails, Executes, Forgotten, Answered, AnswerLost
<1>5. orders' \in Nat
  <2>1. orders \in Nat
    BY DEF EvmArbTypeOK
  <2>2. orders' \in {orders, orders + 1, 0}
    BY DEF EvmArbNext, evmArbVars, Sweep, Elapse, TickStep, Start, Reset, Proceed,
           GiveUp, SubmitFails, Executes, Phase1Runs, OrderRuns, ExitRuns, Forgotten, Answered,
           AnswerLost
  <2>3. QED
    BY <2>1, <2>2
<1>6. clean' \in BOOLEAN
  BY Zenon DEF EvmArbTypeOK, EvmArbNext, evmArbVars, Sweep, Elapse, TickStep, Start, Reset,
         Proceed, GiveUp, SubmitFails, Executes, Phase1Runs, OrderRuns, ExitRuns, Forgotten,
         Answered, AnswerLost
<1>7. QED
  BY <1>1, <1>2, <1>3, <1>4, <1>5, <1>6

(* What is free and what is lost come from what there is. *)
LEMMA WalletsStep ==
  ASSUME EvmArbTypeOK, WalletsInv, [EvmArbNext]_evmArbVars
  PROVE  /\ free' \in 0 .. NumWallets /\ lost' \in 0 .. NumWallets
         /\ WalletsInv'
<1>1. free \in Nat /\ lost \in Nat /\ NumWallets \in Nat
  <2>1. free \in 0 .. NumWallets /\ lost \in 0 .. NumWallets
    BY DEF EvmArbTypeOK
  <2>2. QED
    BY <2>1, EvmArbAssumption
<1>2. /\ Holders \in SUBSET Ticks /\ Holders' \in SUBSET Ticks
      /\ Cardinality(Holders) \in Nat /\ Cardinality(Holders') \in Nat
  <2>1. Holders \in SUBSET Ticks /\ Holders' \in SUBSET Ticks
    BY DEF Holders
  <2>2. QED
    BY <2>1, TicksCount
<1>3. SUFFICES free' + lost' + Cardinality(Holders') <= NumWallets /\ free' \in Nat /\ lost' \in Nat
  BY <1>1, <1>2 DEF WalletsInv
<1>4. Holders' \subseteq Holders => Cardinality(Holders') <= Cardinality(Holders)
  BY <1>2, TicksCount
<1>5. \A i \in Ticks :
        /\ Holders' \subseteq Holders \cup {i} => Cardinality(Holders') <= Cardinality(Holders) + 1
        /\ i \in Holders /\ Holders' \subseteq Holders \ {i}
             => Cardinality(Holders') <= Cardinality(Holders) - 1
  BY <1>2, TicksCount
<1>6. ASSUME free' = free, lost' = lost, Holders' \subseteq Holders
      PROVE  free' + lost' + Cardinality(Holders') <= NumWallets /\ free' \in Nat /\ lost' \in Nat
  BY <1>1, <1>2, <1>4, <1>6 DEF WalletsInv
<1>7. CASE Sweep \/ Elapse \/ UNCHANGED evmArbVars
  <2>1. free' = free /\ lost' = lost /\ tick' = tick
    BY <1>7 DEF Sweep, Elapse, evmArbVars
  <2>2. QED
    BY <1>6, <2>1 DEF Holders
<1>8. ASSUME NEW i \in Ticks, Start(i) \/ Reset(i) \/ GiveUp(i) \/ Forgotten(i) \/ Executes(i)
      PROVE  free' + lost' + Cardinality(Holders') <= NumWallets /\ free' \in Nat /\ lost' \in Nat
  <2>1. Holders' \subseteq Holders
    BY <1>8, Moves DEF Moved, Holders, Executes
  <2>2. free' = free /\ lost' = lost
    BY <1>8 DEF Start, Reset, GiveUp, Forgotten, Executes
  <2>3. QED
    BY <1>6, <2>1, <2>2
<1>9. ASSUME NEW i \in Ticks, Proceed(i)
      PROVE  free' + lost' + Cardinality(Holders') <= NumWallets /\ free' \in Nat /\ lost' \in Nat
  <2>1. Holders' \subseteq Holders \cup {i}
    BY <1>9, Moves DEF Moved, Holders
  <2>2. free' \in 0 .. free - 1 /\ lost' = lost
    BY <1>9 DEF Proceed
  <2>3. QED
    BY <1>1, <1>2, <1>5, <2>1, <2>2 DEF WalletsInv
<1>10. ASSUME NEW i \in Ticks, SubmitFails(i) \/ Answered(i) \/ AnswerLost(i)
       PROVE  free' + lost' + Cardinality(Holders') <= NumWallets /\ free' \in Nat /\ lost' \in Nat
  <2>1. i \in Holders /\ Holders' \subseteq Holders \ {i}
    BY <1>10, Moves DEF Moved, Holders, SubmitFails, Answered, AnswerLost
  <2>2. \/ free' = free /\ lost' = lost + 1
        \/ free' = free + 1 /\ lost' = lost
    <3>1. SubmitFails(i) => free' = free /\ lost' = lost + 1
      BY DEF SubmitFails
    <3>2. Answered(i) => free' = free + 1 /\ lost' = lost
      BY DEF Answered
    <3>3. AnswerLost(i) => free' = free /\ lost' = lost + 1
      BY DEF AnswerLost
    <3>4. QED
      BY <1>10, <3>1, <3>2, <3>3
  <2>3. QED
    BY <1>1, <1>2, <1>5, <2>1, <2>2 DEF WalletsInv
<1>11. QED
  BY <1>7, <1>8, <1>9, <1>10 DEF EvmArbNext, TickStep

(* At the start nothing is claimed. *)
LEMMA WalletsInit == EvmArbInit => EvmArbTypeOK /\ WalletsInv
<1> SUFFICES ASSUME EvmArbInit
             PROVE  EvmArbTypeOK /\ WalletsInv
  OBVIOUS
<1>1. Cardinality(Holders) = 0
  <2>1. Holders = {}
    BY DEF EvmArbInit, Holders, Off
  <2>2. QED
    BY <2>1, FS_EmptySet
<1>2. 0 \in 0 .. Timeout /\ 0 \in 0 .. NumWallets /\ NumWallets \in 0 .. NumWallets
  BY EvmArbAssumption
<1>3. tick \in [Ticks -> [at : Places, kind : Kinds, ok : BOOLEAN]]
  BY DEF EvmArbInit, Off, Places, Kinds
<1>4. /\ deployment \in {"as written", "wired"}
      /\ escrow \in [full : BOOLEAN, age : 0 .. Timeout]
      /\ phase \in [at : {"idle", "held", "placed", "exited"}, age : 0 .. Timeout]
  BY <1>2 DEF EvmArbInit
<1>5. clean \in BOOLEAN
  BY Zenon DEF EvmArbInit
<1>6. free = NumWallets /\ lost = 0 /\ orders = 0
  BY DEF EvmArbInit
<1>7. free \in 0 .. NumWallets /\ lost \in 0 .. NumWallets /\ orders \in Nat
  BY <1>2, <1>6
<1>8. EvmArbTypeOK
  BY <1>3, <1>4, <1>5, <1>7 DEF EvmArbTypeOK
<1>9. WalletsInv
  BY <1>1, <1>6, EvmArbAssumption DEF WalletsInv
<1>10. QED
  BY <1>8, <1>9

(* No wallet of the pool is handed out twice or comes back twice: what is  *)
(* free, what the ticks hold and what `?` lost is never more than there    *)
(* are, and the machine, the escrow and the ticks keep their types.        *)
THEOREM EvmArbTypeCorrect == EvmArbSpec => [](EvmArbTypeOK /\ WalletsInv)
<1>1. EvmArbTypeOK /\ WalletsInv /\ [EvmArbNext]_evmArbVars => (EvmArbTypeOK /\ WalletsInv)'
  BY TypesStep, WalletsStep DEF EvmArbTypeOK, TickType, EscrowType, PhaseType
<1>2. QED
  BY WalletsInit, <1>1, PTL DEF EvmArbSpec

-----------------------------------------------------------------------------
(* At the start nothing is held and no tick runs. *)
LEMMA NothingYet ==
  EvmArbInit => /\ phase.at = "idle" /\ ~escrow.full /\ free = NumWallets
                /\ \A i \in Ticks : tick[i].at = "off"
<1> SUFFICES ASSUME EvmArbInit
             PROVE  /\ phase.at = "idle" /\ ~escrow.full /\ free = NumWallets
                    /\ \A i \in Ticks : tick[i].at = "off"
  OBVIOUS
<1>1. /\ escrow = [full |-> FALSE, age |-> 0] /\ phase = [at |-> "idle", age |-> 0]
      /\ free = NumWallets /\ tick = [i \in Ticks |-> Off]
  BY Zenon DEF EvmArbInit
<1>2. QED
  BY <1>1 DEF Off

(* Against the contract of this commit no call of executePhase1 succeeds,  *)
(* so that S1 never takes a wallet: for any number of ticks and wallets.   *)
THEOREM AsWrittenNeverTrades == EvmArbSpec => []AsWrittenIdle
<1>1. EvmArbInit => AsWrittenIdle
  BY NothingYet DEF AsWrittenIdle
<1>2. EvmArbTypeOK /\ AsWrittenIdle /\ [EvmArbNext]_evmArbVars => AsWrittenIdle'
  <2> SUFFICES ASSUME EvmArbTypeOK, AsWrittenIdle, [EvmArbNext]_evmArbVars,
                      deployment' = "as written"
               PROVE  AsWrittenIdle'
    BY DEF AsWrittenIdle
  <2>1. deployment = "as written"
    BY DEF EvmArbNext, evmArbVars, Sweep, Elapse, TickStep, Start, Reset, Proceed, GiveUp,
           SubmitFails, Executes, Forgotten, Answered, AnswerLost
  <2>2. /\ phase.at = "idle" /\ ~escrow.full /\ free = NumWallets
        /\ \A i \in Ticks : tick[i].at \in {"off", "simulate"}
    BY <2>1 DEF AsWrittenIdle
  <2>3. ~Accepts
    BY <2>1 DEF Accepts, Guarded
  <2>4. SUFFICES /\ phase' = phase /\ escrow' = escrow /\ free' = free
                 /\ \A i \in Ticks : tick'[i].at \in {"off", "simulate"}
    BY <2>2 DEF AsWrittenIdle
  <2>5. CASE Sweep \/ Elapse \/ UNCHANGED evmArbVars
    BY <2>2, <2>5 DEF Sweep, Elapse, evmArbVars
  <2>6. ASSUME NEW i \in Ticks, TickStep(i)
        PROVE  /\ phase' = phase /\ escrow' = escrow /\ free' = free
               /\ \A j \in Ticks : tick'[j].at \in {"off", "simulate"}
    <3>1. Start(i) \/ GiveUp(i)
      BY <2>2, <2>3, <2>6 DEF TickStep, Reset, Proceed, SubmitFails, Executes, Forgotten,
                              Answered, AnswerLost
    <3>2. tick'[i].at \in {"off", "simulate"} /\ \A j \in Ticks : j # i => tick'[j] = tick[j]
      BY <2>2, <3>1, Moves DEF Moved
    <3>3. QED
      BY <2>2, <3>1, <3>2 DEF Start, GiveUp
  <2>7. QED
    BY <2>5, <2>6 DEF EvmArbNext
<1>3. QED
  BY <1>1, <1>2, EvmArbTypeCorrect, PTL DEF EvmArbSpec

-----------------------------------------------------------------------------
(* What the machine says of the escrow, and how far their clocks are. *)
Tracked ==
  /\ escrow.full <=> phase.at \in {"held", "placed"}
  /\ escrow.full => phase.age <= escrow.age

(* The state a tick that runs alone has found and left. *)
Fits(i) ==
  \/ tick[i].at = "off"
  \/ /\ tick[i].at \in {"simulate", "send"} /\ tick[i].kind = "phase1"
     /\ phase.at = "idle" /\ ~escrow.full
  \/ /\ tick[i].at = "landed" /\ tick[i].kind = "phase1"
     /\ phase.at = "idle" /\ (escrow.full <=> tick[i].ok)
  \/ /\ tick[i].at \in {"order", "send", "landed"} /\ tick[i].kind = "order"
     /\ phase.at = "held" /\ Tracked
  \/ /\ tick[i].at \in {"exit", "send"} /\ tick[i].kind = "exit"
     /\ phase.at \in {"held", "placed"} /\ Tracked
  \/ tick[i].at = "landed" /\ tick[i].kind = "exit" /\ ~escrow.full
  \/ tick[i].at = "reset" /\ phase.at = "exited" /\ ~escrow.full

TrackInv ==
  clean =>
    /\ \A i, j \in Ticks : tick[i].at # "off" /\ tick[j].at # "off" => i = j
    /\ \A i \in Ticks : Fits(i)
    /\ (\A i \in Ticks : tick[i].at = "off") => Tracked

(* One tick after the other keeps the machine and the escrow together. *)
LEMMA TrackStep ==
  ASSUME EvmArbTypeOK, TrackInv, [EvmArbNext]_evmArbVars
  PROVE  TrackInv'
<1> SUFFICES ASSUME clean'
             PROVE  /\ \A i, j \in Ticks : tick'[i].at # "off" /\ tick'[j].at # "off" => i = j
                    /\ \A i \in Ticks : Fits(i)'
                    /\ (\A i \in Ticks : tick'[i].at = "off") => Tracked'
  BY DEF TrackInv
<1>1. clean
  BY DEF EvmArbNext, evmArbVars, Sweep, Elapse, TickStep, Start, Reset, Proceed,
         GiveUp, SubmitFails, Executes, Phase1Runs, OrderRuns, ExitRuns, Forgotten, Answered,
         AnswerLost
<1>2. /\ \A i, j \in Ticks : tick[i].at # "off" /\ tick[j].at # "off" => i = j
      /\ \A i \in Ticks : Fits(i)
      /\ (\A i \in Ticks : tick[i].at = "off") => Tracked
  BY <1>1 DEF TrackInv
<1>3. CASE UNCHANGED evmArbVars
  BY <1>2, <1>3 DEF evmArbVars, Fits, Tracked
<1>4. CASE Sweep
  BY <1>4 DEF Sweep
<1>5. CASE Elapse
  <2>1. escrow'.full = escrow.full /\ phase'.at = phase.at /\ tick' = tick
    BY <1>5 DEF Elapse, EvmArbTypeOK
  <2>2. Tracked => Tracked'
    <3>1. escrow.age \in 0 .. Timeout /\ phase.age \in 0 .. Timeout
      BY DEF EvmArbTypeOK
    <3>2. escrow.full => escrow'.age = Older(escrow.age)
      BY <1>5 DEF Elapse, EvmArbTypeOK
    <3>3. phase.at \in {"held", "placed"} => phase'.age = Older(phase.age)
      BY <1>5 DEF Elapse, EvmArbTypeOK
    <3>4. phase.age <= escrow.age => Older(phase.age) <= Older(escrow.age)
      BY <3>1, EvmArbAssumption DEF Older
    <3>5. QED
      BY <2>1, <3>2, <3>3, <3>4 DEF Tracked
  <2>3. QED
    BY <1>2, <2>1, <2>2 DEF Fits
<1>6. ASSUME NEW i \in Ticks, TickStep(i)
      PROVE  /\ \A j, k \in Ticks : tick'[j].at # "off" /\ tick'[k].at # "off" => j = k
             /\ \A j \in Ticks : Fits(j)'
             /\ (\A j \in Ticks : tick'[j].at = "off") => Tracked'
  <2>1. \A j \in Ticks : j # i => tick'[j] = tick[j]
    BY <1>6, Moves DEF TickStep, Moved
  <2>2. \A j \in Ticks : j # i => tick[j].at = "off"
    <3>1. CASE Start(i)
      BY <3>1 DEF Start, Alone
    <3>2. CASE ~Start(i)
      <4>1. tick[i].at # "off"
        BY <1>6, <3>2 DEF TickStep, Reset, Proceed, GiveUp, SubmitFails, Executes,
                          Forgotten, Answered, AnswerLost
      <4>2. QED
        BY <1>2, <4>1
    <3>3. QED
      BY <3>1, <3>2
  <2>3. SUFFICES Fits(i)' /\ (tick'[i].at = "off" => Tracked')
    BY <2>1, <2>2 DEF Fits
  <2>4. Fits(i) /\ (tick[i].at = "off" => Tracked)
    BY <1>2, <2>2
  <2>5. CASE Start(i)
    <3>1. tick[i].at = "off" /\ escrow' = escrow /\ phase' = phase
      BY <2>5 DEF Start
    <3>2. Tracked /\ Tracked'
      BY <2>4, <3>1 DEF Tracked
    <3>3. QED
      BY <2>5, <3>1, <3>2, Moves DEF Moved, Fits, Tracked
  <2>6. CASE Reset(i)
    <3>1. Moved(i, "off", "none", FALSE) /\ escrow' = escrow /\ phase' = [at |-> "idle", age |-> 0]
      BY <2>6, Moves DEF Reset
    <3>2. tick[i].at = "reset"
      BY <2>6 DEF Reset
    <3>3. ~escrow.full
      BY <2>4, <3>2 DEF Fits
    <3>4. QED
      BY <3>1, <3>3 DEF Moved, Fits, Tracked
  <2>7. CASE Proceed(i)
    <3>1. Moved(i, "send", tick[i].kind, FALSE) /\ escrow' = escrow /\ phase' = phase
      BY <2>7, Moves DEF Proceed
    <3>2. tick[i].at \in {"simulate", "order", "exit"}
      BY <2>7 DEF Proceed
    <3>3. QED
      BY <2>4, <3>1, <3>2 DEF Moved, Fits, Tracked
  <2>8. CASE GiveUp(i) \/ Forgotten(i)
    <3>1. Moved(i, "off", "none", FALSE) /\ escrow' = escrow /\ phase' = phase
      BY <2>8, Moves DEF GiveUp, Forgotten
    <3>2. tick[i].at \in {"simulate", "order", "exit", "limbo"}
      BY <2>8 DEF GiveUp, Forgotten
    <3>3. QED
      BY <2>4, <3>1, <3>2 DEF Moved, Fits, Tracked
  <2>9. CASE SubmitFails(i) \/ AnswerLost(i)
    BY <2>9 DEF SubmitFails, AnswerLost
  <2>10. CASE Executes(i)
    <3>1. tick[i].at = "send"
      BY <2>4, <2>10 DEF Executes, Fits
    <3>2. PICK ok \in BOOLEAN :
            /\ \/ tick[i].kind = "phase1" /\ Phase1Runs(ok)
               \/ tick[i].kind = "order" /\ OrderRuns(ok)
               \/ tick[i].kind = "exit" /\ ExitRuns(ok)
            /\ Becomes(i, "landed", tick[i].kind, ok)
      BY <2>10, <3>1 DEF Executes
    <3>3. tick'[i].at = "landed" /\ tick'[i].kind = tick[i].kind /\ tick'[i].ok = ok
      <4>1. tick[i].kind \in Kinds /\ "landed" \in Places
        BY DEF EvmArbTypeOK, Places
      <4>2. QED
        BY <3>2, <4>1, BecomesType
    <3>4. phase' = phase
      BY <2>10 DEF Executes
    <3>5. CASE tick[i].kind = "phase1" /\ Phase1Runs(ok)
      <4>1. phase.at = "idle" /\ ~escrow.full
        BY <2>4, <3>1, <3>5 DEF Fits
      <4>2. escrow'.full <=> ok
        BY <3>5, <4>1 DEF Phase1Runs
      <4>3. QED
        BY <3>3, <3>4, <3>5, <4>1, <4>2 DEF Fits
    <3>6. CASE tick[i].kind = "order" /\ OrderRuns(ok)
      <4>1. phase.at = "held" /\ Tracked
        BY <2>4, <3>1, <3>6 DEF Fits
      <4>2. escrow' = escrow
        BY <3>6 DEF OrderRuns
      <4>3. QED
        BY <3>3, <3>4, <3>6, <4>1, <4>2 DEF Fits, Tracked
    <3>7. CASE tick[i].kind = "exit" /\ ExitRuns(ok)
      <4>1. ok
        BY <3>7 DEF ExitRuns
      <4>2. ~escrow'.full
        BY <3>7, <4>1 DEF ExitRuns
      <4>3. QED
        BY <3>3, <3>7, <4>2 DEF Fits
    <3>8. QED
      BY <3>2, <3>5, <3>6, <3>7
  <2>11. CASE Answered(i)
    <3>1. Moved(i, "off", "none", FALSE) /\ phase' = Recorded(i) /\ escrow' = escrow
      BY <2>11, Moves DEF Answered
    <3>2. tick[i].at = "landed"
      BY <2>11 DEF Answered
    <3>3. escrow.age >= 0
      <4>1. escrow.age \in 0 .. Timeout
        BY DEF EvmArbTypeOK
      <4>2. QED
        BY <4>1, EvmArbAssumption
    <3>4. CASE tick[i].kind = "phase1"
      BY <2>4, <3>1, <3>2, <3>3, <3>4 DEF Recorded, Moved, Fits, Tracked
    <3>5. CASE tick[i].kind = "order"
      BY <2>4, <3>1, <3>2, <3>3, <3>5 DEF Recorded, Moved, Fits, Tracked
    <3>6. CASE tick[i].kind = "exit"
      BY <2>4, <3>1, <3>2, <3>3, <3>6 DEF Recorded, Moved, Fits, Tracked
    <3>7. QED
      BY <2>4, <3>2, <3>4, <3>5, <3>6 DEF Fits
  <2>12. QED
    BY <1>6, <2>5, <2>6, <2>7, <2>8, <2>9, <2>10, <2>11 DEF TickStep
<1>7. QED
  BY <1>3, <1>4, <1>5, <1>6 DEF EvmArbNext

(* Between ticks that do not overlap the machine holds tokens exactly when *)
(* the escrow does, whatever the receipts of phase 2 say.                  *)
THEOREM EscrowIsTracked == EvmArbSpec => []EscrowTracked
<1>1. EvmArbInit => TrackInv
  BY NothingYet DEF TrackInv, Fits, Tracked
<1>2. EvmArbTypeOK /\ TrackInv /\ [EvmArbNext]_evmArbVars => TrackInv'
  BY TrackStep
<1>3. TrackInv => EscrowTracked
  BY DEF TrackInv, EscrowTracked, Tracked
<1>4. QED
  BY <1>1, <1>2, <1>3, EvmArbTypeCorrect, PTL DEF EvmArbSpec

-----------------------------------------------------------------------------
(* The ticks with an order on its way, in doubt, and landed. *)
Waiting == {i \in Ticks : tick[i].kind = "order" /\ tick[i].at \in {"order", "send"}}
InDoubt == {i \in Ticks : tick[i].kind = "order" /\ tick[i].at = "limbo"}
Landed == {i \in Ticks : tick[i].kind = "order" /\ tick[i].at = "landed"}

(* Every order that landed since phase 1 was recorded belongs to a tick of *)
(* its own, that waits for the receipt, or to a wallet that was lost.      *)
OrdersInv ==
  /\ orders + Cardinality(Waiting) + Cardinality(InDoubt) <= Cardinality(Ticks) + lost
  /\ phase.at = "held" => orders + Cardinality(InDoubt) <= Cardinality(Landed) + lost
  /\ Cardinality(InDoubt) <= lost

KindsInv ==
  \A i \in Ticks : /\ tick[i].at = "simulate" => tick[i].kind = "phase1"
                   /\ tick[i].at = "exit" => tick[i].kind = "exit"

(* Two parts of Ticks that share no tick, and leave one out. *)
LEMMA TicksApart ==
  ASSUME NEW S \in SUBSET Ticks, NEW T \in SUBSET Ticks, S \cap T = {}
  PROVE  /\ Cardinality(S) + Cardinality(T) <= Cardinality(Ticks)
         /\ \A i \in Ticks : i \notin S \cup T
              => Cardinality(S) + Cardinality(T) <= Cardinality(Ticks) - 1
<1>1. /\ IsFiniteSet(S) /\ IsFiniteSet(T) /\ IsFiniteSet(S \cap T) /\ Cardinality(S \cap T) = 0
  BY EvmArbAssumption, FS_Subset, FS_EmptySet
<1>2. Cardinality(S \cup T) = Cardinality(S) + Cardinality(T) - Cardinality(S \cap T)
  BY <1>1, FS_Union
<1>3. Cardinality(S) \in Nat /\ Cardinality(T) \in Nat
  BY TicksCount
<1>4. Cardinality(S) + Cardinality(T) = Cardinality(S \cup T)
  BY <1>1, <1>2, <1>3
<1>5. /\ Ticks \in SUBSET Ticks /\ S \cup T \in SUBSET Ticks
      /\ \A i \in Ticks : i \notin S \cup T => S \cup T \subseteq Ticks \ {i}
  OBVIOUS
<1>6. /\ Cardinality(S \cup T) <= Cardinality(Ticks)
      /\ \A i \in Ticks : i \notin S \cup T => Cardinality(S \cup T) <= Cardinality(Ticks) - 1
  BY <1>5, TicksCount
<1>7. QED
  BY <1>4, <1>6

(* A tick keeps the kind of the transaction it prepares. *)
LEMMA KindsStep ==
  ASSUME EvmArbTypeOK, KindsInv, [EvmArbNext]_evmArbVars
  PROVE  KindsInv'
<1>1. CASE tick' = tick
  BY <1>1 DEF KindsInv
<1>2. ASSUME NEW i \in Ticks, TickStep(i)
      PROVE  KindsInv'
  BY <1>2, Moves DEF TickStep, Moved, KindsInv
<1>3. QED
  BY <1>1, <1>2 DEF EvmArbNext, Sweep, Elapse, evmArbVars

(* Every step keeps the count of the orders. *)
LEMMA OrdersStep ==
  ASSUME EvmArbTypeOK, KindsInv, OrdersInv, [EvmArbNext]_evmArbVars
  PROVE  OrdersInv'
<1> DEFINE W == Cardinality(Waiting)
           D == Cardinality(InDoubt)
           L == Cardinality(Landed)
           N == Cardinality(Ticks)
<1>1. /\ Waiting \in SUBSET Ticks /\ InDoubt \in SUBSET Ticks /\ Landed \in SUBSET Ticks
      /\ Waiting' \in SUBSET Ticks /\ InDoubt' \in SUBSET Ticks /\ Landed' \in SUBSET Ticks
      /\ Ticks \in SUBSET Ticks
  BY DEF Waiting, InDoubt, Landed
<1>2. W \in Nat /\ D \in Nat /\ L \in Nat /\ N \in Nat
  BY <1>1, TicksCount
<1>3. lost \in Nat /\ orders \in Nat
  <2>1. lost \in 0 .. NumWallets /\ orders \in Nat
    BY DEF EvmArbTypeOK
  <2>2. QED
    BY <2>1, EvmArbAssumption
<1>w. PICK w \in Nat : w = W'
  BY <1>1, TicksCount
<1>d. PICK d \in Nat : d = D'
  BY <1>1, TicksCount
<1>l. PICK l \in Nat : l = L'
  BY <1>1, TicksCount
<1>o. PICK o \in Nat : o = orders'
  BY TypesStep
<1>n. PICK n \in {lost, lost + 1} : n = lost'
  BY DEF EvmArbNext, evmArbVars, Sweep, Elapse, TickStep, Start, Reset, Proceed, GiveUp,
         SubmitFails, Executes, Forgotten, Answered, AnswerLost
<1>4. /\ orders + W + D <= N + lost
      /\ phase.at = "held" => orders + D <= L + lost
      /\ D <= lost
  BY DEF OrdersInv
<1>5. SUFFICES /\ o + w + d <= N + n
               /\ phase'.at = "held" => o + d <= l + n
               /\ d <= n
   BY <1>w, <1>d, <1>l, <1>o, <1>n DEF OrdersInv
<1>6. \A i \in Ticks :
        /\ Waiting' \subseteq Waiting \cup {i} => w <= W + 1
        /\ i \in Waiting /\ Waiting' \subseteq Waiting \ {i} => w <= W - 1
        /\ InDoubt' \subseteq InDoubt \cup {i} => d <= D + 1
        /\ i \in InDoubt /\ InDoubt' \subseteq InDoubt \ {i} => d <= D - 1
        /\ Landed \subseteq Landed' \cup {i} => L <= l + 1
        /\ i \in Landed' /\ Landed \subseteq Landed' \ {i} => L <= l - 1
  BY <1>1, <1>w, <1>d, <1>l, TicksCount
<1>7. /\ Waiting' \subseteq Waiting => w <= W
      /\ InDoubt' \subseteq InDoubt => d <= D
      /\ Landed \subseteq Landed' => L <= l
  BY <1>1, <1>w, <1>d, <1>l, TicksCount
<1> HIDE DEF W, D, L, N
<1>8. CASE UNCHANGED <<tick, orders, lost>> /\ phase'.at = phase.at
  <2>2. o = orders /\ n = lost
    BY <1>8, <1>o, <1>n
  <2>1. w = W /\ d = D /\ l = L
    BY <1>8, <1>w, <1>d, <1>l DEF W, D, L, Waiting, InDoubt, Landed
  <2>3. QED
    BY <1>4, <1>8, <2>1, <2>2
<1>9. CASE Sweep \/ Elapse \/ UNCHANGED evmArbVars
  <2>1. phase'.at = phase.at
    BY <1>9 DEF Sweep, Elapse, evmArbVars, EvmArbTypeOK
  <2>2. QED
    BY <1>8, <1>9, <2>1 DEF Sweep, Elapse, evmArbVars
<1>10. ASSUME NEW i \in Ticks, Start(i)
       PROVE  /\ o + w + d <= N + n
              /\ phase'.at = "held" => o + d <= l + n
              /\ d <= n
  <2>1. tick[i].at = "off" /\ o = orders /\ n = lost /\ phase' = phase
    BY <1>10, <1>o, <1>n DEF Start
  <2>2. InDoubt' \subseteq InDoubt /\ Landed \subseteq Landed'
    BY <1>10, <2>1, Moves DEF Moved, InDoubt, Landed
  <2>3. \/ Waiting' \subseteq Waiting
        \/ phase.at = "held" /\ Waiting' \subseteq Waiting \cup {i}
    BY <1>10, <2>1, Moves DEF Moved, Waiting
  <2>4. CASE Waiting' \subseteq Waiting
    <3>1. w <= W /\ d <= D /\ L <= l
      BY <1>7, <2>2, <2>4
    <3>2. QED
      BY <1>2, <1>3, <1>4, <2>1, <3>1
  <2>5. CASE phase.at = "held" /\ Waiting' \subseteq Waiting \cup {i}
    <3>1. Waiting \cap Landed = {} /\ i \notin Waiting \cup Landed
      BY <2>1 DEF Waiting, Landed
    <3>2. W + L <= N - 1
      BY <1>1, <3>1, TicksApart DEF W, L, N
    <3>3. w <= W + 1 /\ d <= D /\ L <= l
      BY <1>6, <1>7, <2>2, <2>5
    <3>4. QED
      BY <1>2, <1>3, <1>4, <2>1, <2>5, <3>2, <3>3
  <2>6. QED
    BY <2>3, <2>4, <2>5
<1>11. ASSUME NEW i \in Ticks, Reset(i) \/ GiveUp(i) \/ Forgotten(i) \/ Proceed(i)
       PROVE  /\ o + w + d <= N + n
              /\ phase'.at = "held" => o + d <= l + n
              /\ d <= n
  <2>1. o = orders /\ n = lost
    BY <1>11, <1>o, <1>n DEF Reset, GiveUp, Forgotten, Proceed
  <2>2. phase' = phase \/ phase'.at = "idle"
    BY <1>11, <1>o, <1>n DEF Reset, GiveUp, Forgotten, Proceed
  <2>3. tick[i].at \in {"reset", "simulate", "order", "exit", "limbo"}
    BY <1>11, <1>o, <1>n DEF Reset, GiveUp, Forgotten, Proceed
  <2>4. \/ Moved(i, "off", "none", FALSE)
        \/ tick[i].at # "limbo" /\ tick[i].at # "reset" /\ Moved(i, "send", tick[i].kind, FALSE)
    BY <1>11, Moves DEF Proceed
  <2>5. /\ Waiting' \subseteq Waiting /\ InDoubt' \subseteq InDoubt /\ Landed \subseteq Landed'
       
    BY <2>3, <2>4 DEF KindsInv, Moved, Waiting, InDoubt, Landed
  <2>6. w <= W /\ d <= D /\ L <= l
    BY <1>7, <2>5
  <2>7. QED
    BY <1>2, <1>3, <1>4, <2>1, <2>2, <2>6
<1>12. ASSUME NEW i \in Ticks, SubmitFails(i)
       PROVE  /\ o + w + d <= N + n
              /\ phase'.at = "held" => o + d <= l + n
              /\ d <= n
  <2>1. tick[i].at = "send" /\ o = orders /\ n = lost + 1 /\ phase' = phase
    BY <1>12, <1>o, <1>n DEF SubmitFails
  <2>2. /\ Waiting' \subseteq Waiting /\ InDoubt' \subseteq InDoubt \cup {i}
        /\ Landed \subseteq Landed'
    BY <1>12, <2>1, Moves DEF Moved, Waiting, InDoubt, Landed
  <2>3. w <= W /\ d <= D + 1 /\ L <= l
    BY <1>6, <1>7, <2>2
  <2>4. QED
    BY <1>2, <1>3, <1>4, <2>1, <2>3
<1>13. ASSUME NEW i \in Ticks, Executes(i)
       PROVE  /\ o + w + d <= N + n
              /\ phase'.at = "held" => o + d <= l + n
              /\ d <= n
  <2>1. n = lost /\ phase' = phase
    BY <1>13, <1>o, <1>n DEF Executes
  <2>2. \/ tick[i].kind = "order" /\ o \in {orders, orders + 1}
        \/ tick[i].kind \in {"phase1", "exit"} /\ o = orders
    BY <1>13, <1>o, <1>n DEF Executes, Phase1Runs, OrderRuns, ExitRuns
  <2>3. \/ tick[i].at = "limbo" /\ Moved(i, "off", "none", FALSE)
        \/ tick[i].at = "send" /\ \E ok \in BOOLEAN : Moved(i, "landed", tick[i].kind, ok)
    BY <1>13, Moves
  <2>5. CASE tick[i].at = "limbo" /\ tick[i].kind = "order"
    <3>1. /\ Waiting' \subseteq Waiting /\ Landed \subseteq Landed'
          /\ i \in InDoubt /\ InDoubt' \subseteq InDoubt \ {i}
      BY <2>3, <2>5 DEF Moved, Waiting, InDoubt, Landed
    <3>2. w <= W /\ d <= D - 1 /\ L <= l
      BY <1>6, <1>7, <3>1
    <3>3. QED
      BY <1>2, <1>3, <1>4, <2>1, <2>2, <2>5, <3>2
  <2>6. CASE tick[i].at = "send" /\ tick[i].kind = "order"
    <3>1. /\ i \in Waiting /\ Waiting' \subseteq Waiting \ {i}
          /\ i \in Landed' /\ Landed \subseteq Landed' \ {i}
          /\ InDoubt' \subseteq InDoubt
      BY <2>3, <2>6 DEF Moved, Waiting, InDoubt, Landed
    <3>2. w <= W - 1 /\ d <= D /\ L <= l - 1
      BY <1>6, <1>7, <3>1
    <3>3. QED
      BY <1>2, <1>3, <1>4, <2>1, <2>2, <2>6, <3>2
  <2>7. CASE tick[i].kind # "order"
    <3>1. Waiting' \subseteq Waiting /\ InDoubt' \subseteq InDoubt /\ Landed \subseteq Landed'
      BY <2>3, <2>7 DEF Moved, Waiting, InDoubt, Landed
    <3>2. o = orders
      BY <2>2, <2>7
    <3>3. w <= W /\ d <= D /\ L <= l
      BY <1>7, <3>1
    <3>4. QED
      BY <1>2, <1>3, <1>4, <2>1, <3>2, <3>3
  <2>8. QED
    BY <2>3, <2>5, <2>6, <2>7
<1>14. ASSUME NEW i \in Ticks, Answered(i)
       PROVE  /\ o + w + d <= N + n
              /\ phase'.at = "held" => o + d <= l + n
              /\ d <= n
  <2>1. /\ tick[i].at = "landed" /\ n = lost /\ phase' = Recorded(i)
        /\ o = IF tick[i].kind = "phase1" /\ tick[i].ok THEN 0 ELSE orders
    BY <1>14, <1>o, <1>n DEF Answered
  <2>2. Moved(i, "off", "none", FALSE)
    BY <1>14, Moves
  <2>3. /\ Waiting' \subseteq Waiting /\ InDoubt' \subseteq InDoubt
        /\ tick[i].kind = "phase1" => Landed \subseteq Landed'
    BY <2>1, <2>2 DEF Moved, Waiting, InDoubt, Landed
  <2>4. CASE tick[i].kind = "phase1" /\ tick[i].ok
    <3>1. Waiting \cap InDoubt = {}
      BY DEF Waiting, InDoubt
    <3>2. W + D <= N
      BY <1>1, <3>1, TicksApart DEF W, D, N
    <3>3. o = 0
      BY <2>1, <2>4
    <3>4. w <= W /\ d <= D /\ L <= l
      BY <1>7, <2>3, <2>4
    <3>5. QED
      BY <1>2, <1>3, <1>4, <2>1, <3>2, <3>3, <3>4
  <2>5. CASE tick[i].kind = "phase1" /\ ~tick[i].ok
    <3>1. o = orders /\ phase' = phase
      BY <2>1, <2>5 DEF Recorded
    <3>2. w <= W /\ d <= D /\ L <= l
      BY <1>7, <2>3, <2>5
    <3>3. QED
      BY <1>2, <1>3, <1>4, <2>1, <3>1, <3>2
  <2>6. CASE tick[i].kind # "phase1"
    <3>1. o = orders /\ phase'.at # "held"
      BY <2>1, <2>6 DEF Recorded
    <3>2. w <= W /\ d <= D
      BY <1>7, <2>3
    <3>3. QED
      BY <1>2, <1>3, <1>4, <2>1, <3>1, <3>2
  <2>7. QED
    BY <2>4, <2>5, <2>6
<1>15. ASSUME NEW i \in Ticks, AnswerLost(i)
       PROVE  /\ o + w + d <= N + n
              /\ phase'.at = "held" => o + d <= l + n
              /\ d <= n
  <2>1. tick[i].at = "landed" /\ o = orders /\ n = lost + 1 /\ phase' = phase
    BY <1>15, <1>o, <1>n DEF AnswerLost
  <2>2. /\ Waiting' \subseteq Waiting /\ InDoubt' \subseteq InDoubt
        /\ Landed \subseteq Landed' \cup {i}
    BY <1>15, <2>1, Moves DEF Moved, Waiting, InDoubt, Landed
  <2>3. w <= W /\ d <= D /\ L <= l + 1
    BY <1>6, <1>7, <2>2
  <2>4. QED
    BY <1>2, <1>3, <1>4, <2>1, <2>3
<1>16. QED
  BY <1>9, <1>10, <1>11, <1>12, <1>13, <1>14, <1>15 DEF EvmArbNext, TickStep

(* One recorded position is sold at most once per tick that can run at a   *)
(* time, and once more per lost wallet.                                    *)
THEOREM OrdersAreBounded == EvmArbSpec => []OrdersBound
<1>1. EvmArbInit => KindsInv /\ OrdersInv
  <2> SUFFICES ASSUME EvmArbInit
               PROVE  KindsInv /\ OrdersInv
    OBVIOUS
  <2>1. Waiting = {} /\ InDoubt = {} /\ Landed = {}
    BY NothingYet DEF Waiting, InDoubt, Landed
  <2>2. Cardinality(Waiting) = 0 /\ Cardinality(InDoubt) = 0 /\ Cardinality(Landed) = 0
    BY <2>1, FS_EmptySet
  <2>3. orders = 0 /\ lost = 0
    BY Zenon DEF EvmArbInit
  <2>4. Cardinality(Ticks) \in Nat
    BY TicksCount
  <2>5. QED
    BY <2>2, <2>3, <2>4, NothingYet DEF KindsInv, OrdersInv
<1>2. EvmArbTypeOK /\ KindsInv /\ OrdersInv /\ [EvmArbNext]_evmArbVars => (KindsInv /\ OrdersInv)'
  BY KindsStep, OrdersStep
<1>3. EvmArbTypeOK /\ OrdersInv => OrdersBound
  <2> SUFFICES ASSUME EvmArbTypeOK, OrdersInv
               PROVE  orders <= Cardinality(Ticks) + lost
    BY DEF OrdersBound
  <2>1. Waiting \in SUBSET Ticks /\ InDoubt \in SUBSET Ticks /\ Ticks \in SUBSET Ticks
    BY DEF Waiting, InDoubt
  <2>2. /\ Cardinality(Waiting) \in Nat /\ Cardinality(InDoubt) \in Nat
        /\ Cardinality(Ticks) \in Nat
    BY <2>1, TicksCount
  <2>3. orders \in Nat /\ lost \in 0 .. NumWallets
    BY DEF EvmArbTypeOK
  <2>4. orders + Cardinality(Waiting) + Cardinality(InDoubt) <= Cardinality(Ticks) + lost
    BY DEF OrdersInv
  <2>5. QED
    BY <2>2, <2>3, <2>4, EvmArbAssumption
<1>4. QED
  BY <1>1, <1>2, <1>3, EvmArbTypeCorrect, PTL DEF EvmArbSpec
=============================================================================
