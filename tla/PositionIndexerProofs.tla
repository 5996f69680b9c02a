----------------------- MODULE PositionIndexerProofs ------------------------
(***************************************************************************)
(* Proofs about PositionIndexer for any borrowers, assets and interval.    *)
(***************************************************************************)
EXTENDS PositionIndexer, SequenceTheorems, TLAPS

(* The parts of IndexerTypeOK that the steps change apart. *)
AccountType == account \in [Addresses -> Position]
LogsType == logs \in Seq(Log)
RefreshType == IF loop = "read" THEN refresh \in Refreshes ELSE refresh = NoRefresh
IndexType == DOMAIN index \subseteq Addresses /\ index \in [DOMAIN index -> Position]
PlaceType ==
  /\ loop \in {"top", "reconcile", "read", "next", "ended"}
  /\ changes \in Nat /\ untold \subseteq Borrowers
  /\ elapsed \in 0 .. Interval
  /\ atRisk \subseteq Addresses

(* The type invariant of the position indexer, cut into the parts its steps *)
(* disturb.                                                                 *)
LEMMA IndexerTypeParts ==
  IndexerTypeOK <=> AccountType /\ LogsType /\ RefreshType /\ IndexType /\ PlaceType
BY Zenon DEF IndexerTypeOK, AccountType, LogsType, RefreshType, IndexType, PlaceType

-----------------------------------------------------------------------------
(* The accounts change one at a time, within the assets. *)
LEMMA AccountStep ==
  ASSUME AccountType, [IndexerNext]_positionVars
  PROVE  AccountType'
<1>1. CASE account' = account
  BY <1>1 DEF AccountType
<1>2. CASE \E b \in Borrowers, position \in Position : Changes(b, position)
  BY <1>2 DEF Changes, AccountType
<1>3. ASSUME NEW b \in Borrowers, NEW a \in Assets, BorrowOrRepay(b, a) \/ SupplyOrWithdraw(b, a)
      PROVE  \E position \in Position : Changes(b, position)
  <2>1. account[b] \in Position
    BY DEF AccountType, Addresses
  <2>2. /\ [account[b] EXCEPT !.debt = Toggled(@, a)] \in Position
        /\ [account[b] EXCEPT !.coll = Toggled(@, a)] \in Position
    BY <2>1 DEF Position, Toggled
  <2>3. QED
    BY <1>3, <2>2 DEF BorrowOrRepay, SupplyOrWithdraw
<1>4. ASSUME NEW b \in Borrowers, NEW c \in Assets, NEW d \in Assets, Liquidate(b, c, d)
      PROVE  \E position \in Position : Changes(b, position)
  <2>1. account[b].coll \subseteq Assets /\ account[b].debt \subseteq Assets
    BY DEF AccountType, Addresses, Position
  <2>2. \A coll \in {account[b].coll, account[b].coll \ {c}},
           debt \in {account[b].debt, account[b].debt \ {d}} :
          [coll |-> coll, debt |-> debt] \in Position
    BY <2>1 DEF Position
  <2>3. QED
    BY <1>4, <2>2 DEF Liquidate
<1>5. QED
  BY <1>1, <1>2, <1>3, <1>4
     DEF IndexerNext, IndexerStep, positionVars, chainVars, BlockSeen, Iterate, Reconcile,
         Reconciled, HandleLog, NoLog, StreamEnds, Restart, ReadAsset, ReadFails, InsertPosition

(* The stream keeps its type. *)
LEMMA LogsStep ==
  ASSUME LogsType, [IndexerNext]_positionVars
  PROVE  LogsType'
<1>1. CASE logs' = logs
  BY <1>1 DEF LogsType
<1>2. CASE \E log \in Log : logs' = Append(logs, log)
  BY <1>2, AppendProperties DEF LogsType
<1>3. CASE HandleLog
  BY <1>3, HeadTailProperties DEF HandleLog, LogsType
<1>4. ASSUME NEW b \in Borrowers, NEW a \in Assets, BorrowOrRepay(b, a)
      PROVE  logs' = logs \/ \E log \in Log : logs' = Append(logs, log)
  <2>1. [topic2 |-> b, user |-> b] \in Log
    BY DEF Log, Addresses
  <2>2. QED
    BY <1>4, <2>1 DEF BorrowOrRepay
<1>5. ASSUME NEW b \in Borrowers, NEW c \in Assets, NEW d \in Assets, Liquidate(b, c, d)
      PROVE  logs' = logs \/ \E log \in Log : logs' = Append(logs, log)
  <2>1. [topic2 |-> d, user |-> b] \in Log
    BY DEF Log, Addresses
  <2>2. QED
    BY <1>5, <2>1 DEF Liquidate
<1>6. QED
  BY <1>1, <1>2, <1>3, <1>4, <1>5
     DEF IndexerNext, IndexerStep, positionVars, chainVars, BlockSeen, Iterate, Reconcile,
         Reconciled, NoLog, StreamEnds, Restart, ReadAsset, ReadFails, InsertPosition,
         SupplyOrWithdraw

-----------------------------------------------------------------------------
(* A refresh starts with the first asset and nothing found. *)
LEMMA RefreshStarts ==
  ASSUME NEW addr \in Addresses, NEW then \in {"reconcile", "top"}
  PROVE  [who |-> addr, next |-> 1, found |-> NoPosition, then |-> then] \in Refreshes
<1>1. NoPosition \in Position
  BY DEF NoPosition, Position
<1>2. 1 \in 1 .. Len(AssetList) + 1
  BY PositionAssumption, LenProperties
<1>3. QED
  BY <1>1, <1>2 DEF Refreshes

(* What reading one asset leaves of a refresh. *)
LEMMA RefreshReads ==
  ASSUME AccountType, RefreshType, NEW addr \in Addresses, NEW i \in DOMAIN AssetList,
         ReadAsset(addr, i)
  PROVE  /\ refresh' \in Refreshes
         /\ refresh'.who = addr /\ refresh'.then = refresh.then /\ refresh'.next = i + 1
         /\ refresh'.found.debt = refresh.found.debt \cup (account[addr].debt \cap {AssetList[i]})
<1>1. refresh \in Refreshes /\ refresh.who = addr /\ refresh.next = i
  BY DEF ReadAsset, RefreshType
<1>2. /\ refresh.found \in Position /\ account[addr] \in Position /\ AssetList[i] \in Assets
  BY <1>1 DEF Refreshes, AccountType, Assets
<1> DEFINE coll == refresh.found.coll \cup (account[addr].coll \cap {AssetList[i]})
           debt == refresh.found.debt \cup (account[addr].debt \cap {AssetList[i]})
<1>3. [coll |-> coll, debt |-> debt] \in Position
  BY <1>2 DEF Position
<1>4. i + 1 \in 1 .. Len(AssetList) + 1
  BY PositionAssumption, LenProperties DEF ReadAsset
<1>5. refresh' = [refresh EXCEPT !.next = i + 1, !.found = [coll |-> coll, debt |-> debt]]
  BY <1>1 DEF ReadAsset
<1> HIDE DEF coll, debt
<1>6. /\ refresh' \in Refreshes
      /\ refresh'.who = addr /\ refresh'.then = refresh.then /\ refresh'.next = i + 1
      /\ refresh'.found = [coll |-> coll, debt |-> debt]
  BY <1>1, <1>3, <1>4, <1>5 DEF Refreshes
<1>7. QED
  BY <1>6 DEF debt

(* The loop has a refresh exactly while it reads. *)
LEMMA RefreshStep ==
  ASSUME AccountType, LogsType, PlaceType, RefreshType, [IndexerNext]_positionVars
  PROVE  RefreshType'
<1>1. CASE loop' = loop /\ refresh' = refresh
  BY <1>1 DEF RefreshType
<1>2. CASE loop # "read" /\ loop' # "read" /\ refresh' = refresh
  BY <1>2 DEF RefreshType
<1>3. CASE HandleLog
  <2>1. Head(logs) \in Log
    BY <1>3, HeadTailProperties DEF HandleLog, LogsType
  <2>2. Head(logs).topic2 \in Addresses
    BY <2>1 DEF Log
  <2>3. QED
    BY <1>3, <2>2, RefreshStarts DEF HandleLog, Goes, StartRefresh, RefreshType
<1>4. ASSUME NEW addr \in Addresses, Reconcile(addr)
      PROVE  RefreshType'
  BY <1>4, RefreshStarts DEF Reconcile, Goes, StartRefresh, RefreshType
<1>5. ASSUME NEW addr \in Addresses, NEW i \in DOMAIN AssetList, ReadAsset(addr, i)
      PROVE  RefreshType'
  <2>1. loop' = "read"
    BY <1>5 DEF ReadAsset
  <2>2. QED
    BY <1>5, <2>1, RefreshReads DEF RefreshType
<1>6. CASE ReadFails \/ InsertPosition
  <2>1. refresh \in Refreshes
    BY <1>6 DEF ReadFails, InsertPosition, RefreshType
  <2>2. refresh.then \in {"reconcile", "top"}
    BY <2>1 DEF Refreshes
  <2>3. loop' # "read" /\ refresh' = NoRefresh
    BY <1>6, <2>2 DEF ReadFails, InsertPosition
  <2>4. QED
    BY <2>3 DEF RefreshType
<1>7. CASE \E b \in Borrowers : \E position : Changes(b, position)
  BY <1>1, <1>7 DEF Changes, indexerVars
<1>8. CASE Iterate \/ Reconciled \/ NoLog \/ StreamEnds \/ Restart
  BY <1>2, <1>8 DEF Iterate, Reconciled, NoLog, StreamEnds, Restart, Goes
<1>9. CASE BlockSeen \/ UNCHANGED positionVars
  BY <1>1, <1>9 DEF BlockSeen, positionVars, indexerVars
<1>10. QED
  BY <1>3, <1>4, <1>5, <1>6, <1>7, <1>8, <1>9
     DEF IndexerNext, IndexerStep, BorrowOrRepay, SupplyOrWithdraw, Liquidate

(* Only a finished refresh writes the index. *)
LEMMA IndexStep ==
  ASSUME RefreshType, IndexType, [IndexerNext]_positionVars
  PROVE  IndexType'
<1>1. CASE index' = index
  BY <1>1 DEF IndexType
<1>2. CASE InsertPosition
  <2>1. refresh.who \in Addresses /\ refresh.found \in Position
    BY <1>2 DEF InsertPosition, RefreshType, Refreshes
  <2>2. QED
    BY <1>2, <2>1 DEF InsertPosition, IndexType
<1>3. QED
  BY <1>1, <1>2
     DEF IndexerNext, IndexerStep, positionVars, chainVars, indexerVars, Changes, BorrowOrRepay,
         SupplyOrWithdraw, Liquidate, BlockSeen, Iterate, Reconcile, Reconciled, HandleLog, NoLog,
         StreamEnds, Restart, ReadAsset, ReadFails

(* The loop is somewhere, and its clock stops at Interval. *)
LEMMA PlaceStep ==
  ASSUME RefreshType, PlaceType, [IndexerNext]_positionVars
  PROVE  PlaceType'
<1>1. loop' \in {"top", "reconcile", "read", "next", "ended"}
  <2>1. ReadFails \/ InsertPosition => loop' \in {"reconcile", "top"}
    BY DEF ReadFails, InsertPosition, RefreshType, Refreshes
  <2>2. QED
    BY <2>1
       DEF PlaceType, IndexerNext, IndexerStep, positionVars, indexerVars, Changes, BorrowOrRepay,
           SupplyOrWithdraw, Liquidate, BlockSeen, Iterate, Reconcile, Reconciled, HandleLog,
           NoLog, StreamEnds, Restart, ReadAsset, Goes
<1>2. changes' \in Nat
  <2>1. changes \in Nat
    BY DEF PlaceType
  <2>2. changes' = changes \/ changes' = changes + 1
    BY DEF IndexerNext, IndexerStep, positionVars, chainVars, Changes, BorrowOrRepay,
           SupplyOrWithdraw, Liquidate, BlockSeen, Iterate, Reconcile, Reconciled, HandleLog,
           NoLog, StreamEnds, Restart, ReadAsset, ReadFails, InsertPosition
  <2>3. QED
    BY <2>1, <2>2
<1>3. untold' \subseteq Borrowers
  BY DEF PlaceType, IndexerNext, IndexerStep, positionVars, chainVars, BorrowOrRepay,
         SupplyOrWithdraw, Liquidate, BlockSeen, Iterate, Reconcile, Reconciled, HandleLog,
         NoLog, StreamEnds, Restart, ReadAsset, ReadFails, InsertPosition
<1>4. elapsed' \in 0 .. Interval
  <2>1. elapsed \in 0 .. Interval
    BY DEF PlaceType
  <2>2. elapsed' \in {elapsed, 0, Interval} \cup (elapsed + 1 .. Interval)
    BY DEF IndexerNext, IndexerStep, positionVars, indexerVars, Changes, BorrowOrRepay,
           SupplyOrWithdraw, Liquidate, BlockSeen, Iterate, Reconcile, Reconciled, HandleLog,
           NoLog, StreamEnds, Restart, ReadAsset, ReadFails, InsertPosition
  <2>3. QED
    BY <2>1, <2>2, PositionAssumption
<1>5. atRisk' \subseteq Addresses
  BY DEF PlaceType, IndexerNext, IndexerStep, positionVars, indexerVars, Changes, BorrowOrRepay,
         SupplyOrWithdraw, Liquidate, BlockSeen, Iterate, Reconcile, Reconciled, HandleLog,
         NoLog, StreamEnds, Restart, ReadAsset, ReadFails, InsertPosition
<1>6. QED
  BY <1>1, <1>2, <1>3, <1>4, <1>5 DEF PlaceType

(* The empty index and the loop at its top. *)
LEMMA IndexerTypeInit == IndexerInit => IndexerTypeOK
<1> SUFFICES ASSUME IndexerInit
             PROVE  AccountType /\ LogsType /\ RefreshType /\ IndexType /\ PlaceType
  BY IndexerTypeParts
<1>1. AccountType
  BY DEF IndexerInit, AccountType
<1>2. LogsType
  BY DEF IndexerInit, LogsType
<1>3. RefreshType
  BY DEF IndexerInit, RefreshType
<1>4. IndexType
  BY DEF IndexerInit, IndexType
<1>5. PlaceType
  BY PositionAssumption DEF IndexerInit, PlaceType
<1>6. QED
  BY <1>1, <1>2, <1>3, <1>4, <1>5

(* The index, the stream and the refresh under way keep their types. *)
THEOREM IndexerTypeCorrect == IndexerSpec => []IndexerTypeOK
<1>1. IndexerTypeOK /\ [IndexerNext]_positionVars => IndexerTypeOK'
  <2> SUFFICES ASSUME IndexerTypeOK, [IndexerNext]_positionVars
               PROVE  IndexerTypeOK'
    OBVIOUS
  <2>1. AccountType /\ LogsType /\ RefreshType /\ IndexType /\ PlaceType
    BY IndexerTypeParts
  <2>2. AccountType' /\ LogsType' /\ RefreshType' /\ IndexType' /\ PlaceType'
    BY <2>1, AccountStep, LogsStep, RefreshStep, IndexStep, PlaceStep
  <2>3. (IndexerTypeOK <=> AccountType /\ LogsType /\ RefreshType /\ IndexType /\ PlaceType)'
    BY Zenon DEF IndexerTypeOK, AccountType, LogsType, RefreshType, IndexType, PlaceType
  <2>4. QED
    BY <2>2, <2>3
<1>2. QED
  BY IndexerTypeInit, <1>1, PTL DEF IndexerSpec

-----------------------------------------------------------------------------
ReadSoFar(n) == {AssetList[i] : i \in {j \in DOMAIN AssetList : j < n}}

(* Of a borrower none of whose events was lost or failed to be followed:   *)
(* with no log of it in the stream, what a refresh of it has read so far   *)
(* is what it owes, for an event during the refresh has left a log; and    *)
(* the index has what it owes, unless the refresh that its last log asked  *)
(* for is still reading.                                                   *)
FoundInv ==
  \A b \in Borrowers \ untold :
    ~Pending(b) /\ Reading(b) =>
      refresh.found.debt = account[b].debt \cap ReadSoFar(refresh.next)

AskedByLog(b) == Reading(b) /\ refresh.then = "top"

DebtInv ==
  \A b \in Borrowers \ untold :
    ~Pending(b) /\ ~AskedByLog(b) /\ Known(b) => index[b].debt = account[b].debt

(* A log that arrives is not handled yet. *)
LEMMA AppendPends ==
  ASSUME LogsType, NEW log \in Log, logs' = Append(logs, log)
  PROVE  /\ Pending(log.topic2)'
         /\ \A b : Pending(b) => Pending(b)'
<1>1. /\ DOMAIN logs = 1 .. Len(logs) /\ DOMAIN logs' = 1 .. Len(logs) + 1 /\ Len(logs) \in Nat
      /\ logs'[Len(logs) + 1] = log
      /\ \A i \in 1 .. Len(logs) : logs'[i] = logs[i]
  BY AppendProperties, LenProperties DEF LogsType
<1>2. QED
  BY <1>1 DEF Pending

(* The log that is handled is the only one that leaves the stream. *)
LEMMA HandledLeaves ==
  ASSUME LogsType, HandleLog, NEW b, Pending(b)
  PROVE  Pending(b)' \/ b = Head(logs).topic2
<1>1. logs \in Seq(Log) /\ logs # <<>> /\ logs' = Tail(logs)
  BY DEF HandleLog, LogsType
<1>2. /\ DOMAIN logs = 1 .. Len(logs) /\ DOMAIN logs' = 1 .. Len(logs) - 1 /\ Len(logs) \in Nat
      /\ \A i \in 1 .. Len(logs) - 1 : logs'[i] = logs[i + 1]
      /\ Head(logs) = logs[1]
  BY <1>1, HeadTailProperties, LenProperties
<1>3. PICK i \in 1 .. Len(logs) : logs[i].topic2 = b
  BY <1>2 DEF Pending
<1>4. CASE i = 1
  BY <1>2, <1>3, <1>4
<1>5. CASE i # 1
  <2>1. i - 1 \in 1 .. Len(logs) - 1 /\ logs'[i - 1] = logs[i]
    BY <1>2, <1>5
  <2>2. QED
    BY <1>2, <1>3, <2>1 DEF Pending
<1>6. QED
  BY <1>4, <1>5

(* Every step keeps what the refreshes found and what the index says. *)
LEMMA DebtsStep ==
  ASSUME AccountType, LogsType, PlaceType, RefreshType, FoundInv, DebtInv,
         [IndexerNext]_positionVars
  PROVE  FoundInv' /\ DebtInv'
<1> USE DEF FoundInv, DebtInv, Known, Reading, AskedByLog
<1>1. CASE UNCHANGED <<account, logs, untold, index, loop, refresh>>
  BY <1>1 DEF Pending
<1>2. CASE BlockSeen \/ UNCHANGED positionVars
  BY <1>1, <1>2 DEF BlockSeen, positionVars, chainVars, indexerVars
<1>3. CASE Iterate \/ Reconciled \/ NoLog \/ StreamEnds \/ Restart
  BY <1>3 DEF Iterate, Reconciled, NoLog, StreamEnds, Restart, Goes, chainVars, Pending
<1>4. CASE HandleLog
  <2>1. \A b : Pending(b) => Pending(b)' \/ b = Head(logs).topic2
    BY <1>4, HandledLeaves
  <2>2. /\ loop = "next" /\ loop' = "read"
        /\ refresh' = [who |-> Head(logs).topic2, next |-> 1, found |-> NoPosition, then |-> "top"]
        /\ UNCHANGED <<account, untold, index>>
    BY <1>4 DEF HandleLog, Goes, StartRefresh
  <2>3. refresh'.found.debt = {} /\ refresh'.who = Head(logs).topic2 /\ refresh'.then = "top"
        /\ ReadSoFar(refresh'.next) = {}
    BY <2>2, PositionAssumption, LenProperties DEF NoPosition, ReadSoFar
  <2>4. QED
    BY <2>1, <2>2, <2>3
<1>5. ASSUME NEW addr \in Addresses, Reconcile(addr)
      PROVE  FoundInv' /\ DebtInv'
  <2>1. /\ loop = "reconcile" /\ loop' = "read"
        /\ refresh' = [who |-> addr, next |-> 1, found |-> NoPosition, then |-> "reconcile"]
        /\ UNCHANGED <<account, untold, index, logs>>
    BY <1>5 DEF Reconcile, Goes, StartRefresh, chainVars
  <2>2. refresh'.found.debt = {} /\ refresh'.then = "reconcile"
        /\ ReadSoFar(refresh'.next) = {}
    BY <2>1, PositionAssumption, LenProperties DEF NoPosition, ReadSoFar
  <2>3. QED
    BY <2>1, <2>2 DEF Pending
<1>6. ASSUME NEW addr \in Addresses, NEW i \in DOMAIN AssetList, ReadAsset(addr, i)
      PROVE  FoundInv' /\ DebtInv'
  <2>1. /\ refresh'.who = addr /\ refresh'.then = refresh.then /\ refresh'.next = i + 1
        /\ refresh'.found.debt = refresh.found.debt \cup (account[addr].debt \cap {AssetList[i]})
    BY <1>6, RefreshReads
  <2>2. /\ loop = "read" /\ refresh.who = addr /\ refresh.next = i
        /\ UNCHANGED <<account, logs, untold, index, loop>>
    BY <1>6 DEF ReadAsset, chainVars
  <2>3. ReadSoFar(i + 1) = ReadSoFar(i) \cup {AssetList[i]}
    <3>1. DOMAIN AssetList = 1 .. Len(AssetList) /\ Len(AssetList) \in Nat
      BY PositionAssumption, LenProperties
    <3>2. {j \in DOMAIN AssetList : j < i + 1} = {j \in DOMAIN AssetList : j < i} \cup {i}
      BY <3>1
    <3>3. QED
      BY <3>2 DEF ReadSoFar
  <2>4. QED
    BY <2>1, <2>2, <2>3 DEF Pending
<1>7. CASE ReadFails
  <2>1. refresh.then \in {"reconcile", "top"} /\ refresh.who \in Addresses
    BY <1>7 DEF ReadFails, RefreshType, Refreshes
  <2>2. /\ loop = "read" /\ loop' = refresh.then
        /\ UNCHANGED <<account, logs, index>>
        /\ untold' = IF refresh.then = "top" THEN untold \cup ({refresh.who} \cap Borrowers)
                                             ELSE untold
    BY <1>7 DEF ReadFails
  <2>3. QED
    BY <2>1, <2>2 DEF Pending
<1>8. CASE InsertPosition
  <2>1. /\ refresh.then \in {"reconcile", "top"} /\ refresh.next > Len(AssetList)
        /\ refresh.next \in Nat
    BY <1>8, PositionAssumption, LenProperties DEF InsertPosition, RefreshType, Refreshes
  <2>2. /\ loop = "read" /\ loop' = refresh.then
        /\ UNCHANGED <<account, logs, untold>>
        /\ index' = [addr \in DOMAIN index \cup {refresh.who} |->
                       IF addr = refresh.who THEN refresh.found ELSE index[addr]]
    BY <1>8 DEF InsertPosition, chainVars
  <2>3. ReadSoFar(refresh.next) = Assets
    BY <2>1, PositionAssumption, LenProperties DEF ReadSoFar, Assets
  <2>4. \A b \in Borrowers : account[b].debt \cap Assets = account[b].debt
    BY DEF AccountType, Addresses, Position
  <2>5. QED
    BY <2>1, <2>2, <2>3, <2>4 DEF Pending
<1>9. ASSUME NEW b \in Borrowers, NEW position, Changes(b, position),
             \/ b \in untold' \/ Pending(b)' \/ position.debt = account[b].debt,
             untold \subseteq untold', \A x : Pending(x) => Pending(x)'
      PROVE  FoundInv' /\ DebtInv'
  <2>1. /\ \A x \in Borrowers : x # b => account'[x] = account[x]
        /\ account'[b] = position
        /\ UNCHANGED <<index, loop, refresh>>
    BY <1>9 DEF Changes, indexerVars, AccountType, Addresses
  <2>2. QED
    BY <1>9, <2>1
<1>10. ASSUME NEW b \in Borrowers, NEW a \in Assets, BorrowOrRepay(b, a)
       PROVE  FoundInv' /\ DebtInv'
  <2>1. [topic2 |-> b, user |-> b] \in Log
    BY DEF Log, Addresses
  <2>2. CASE logs' = Append(logs, [topic2 |-> b, user |-> b]) /\ untold' = untold
    <3>1. Pending(b)' /\ \A x : Pending(x) => Pending(x)'
      BY <2>1, <2>2, AppendPends
    <3>2. QED
      BY <1>9, <1>10, <2>2, <3>1 DEF BorrowOrRepay
  <2>3. CASE untold' = untold \cup {b} /\ logs' = logs
    BY <1>9, <1>10, <2>3 DEF BorrowOrRepay, Pending
  <2>4. QED
    BY <1>10, <2>2, <2>3 DEF BorrowOrRepay
<1>11. ASSUME NEW b \in Borrowers, NEW a \in Assets, SupplyOrWithdraw(b, a)
       PROVE  FoundInv' /\ DebtInv'
  <2>1. account[b] \in Position
    BY DEF AccountType, Addresses
  <2>2. [account[b] EXCEPT !.coll = Toggled(@, a)].debt = account[b].debt
    BY <2>1 DEF Position
  <2>3. QED
    BY <1>9, <1>11, <2>2 DEF SupplyOrWithdraw, Pending
<1>12. ASSUME NEW b \in Borrowers, NEW c \in Assets, NEW d \in Assets, Liquidate(b, c, d)
       PROVE  FoundInv' /\ DebtInv'
  <2>1. [topic2 |-> d, user |-> b] \in Log
    BY DEF Log, Addresses
  <2>2. \A x : Pending(x) => Pending(x)'
    <3>1. CASE logs' = logs
      BY <3>1 DEF Pending
    <3>2. CASE logs' = Append(logs, [topic2 |-> d, user |-> b])
      BY <2>1, <3>2, AppendPends
    <3>3. QED
      BY <1>12, <3>1, <3>2 DEF Liquidate
  <2>3. PICK position : Changes(b, position)
    BY <1>12 DEF Liquidate
  <2>4. untold' = untold \cup {b}
    BY <1>12 DEF Liquidate
  <2>5. QED
    BY <1>9, <2>2, <2>3, <2>4
<1>13. QED
  BY <1>2, <1>3, <1>4, <1>5, <1>6, <1>7, <1>8, <1>10, <1>11, <1>12 DEF IndexerNext, IndexerStep

(* Although a refresh reads asset by asset while the account changes, the  *)
(* index has exactly the debts of a borrower whose events were all         *)
(* followed, once none of its logs is left: for any borrowers and assets.  *)
THEOREM DebtsAreFollowed == IndexerSpec => []DebtsFollow
<1>1. IndexerInit => FoundInv /\ DebtInv
  BY DEF IndexerInit, FoundInv, DebtInv, Reading, Known
<1>2. IndexerTypeOK /\ FoundInv /\ DebtInv /\ [IndexerNext]_positionVars => (FoundInv /\ DebtInv)'
  BY DebtsStep, IndexerTypeParts
<1>3. DebtInv => DebtsFollow
  BY DEF DebtInv, DebtsFollow, AskedByLog
<1>4. QED
  BY <1>1, <1>2, <1>3, IndexerTypeCorrect, PTL DEF IndexerSpec
=============================================================================
