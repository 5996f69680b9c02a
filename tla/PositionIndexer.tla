-------------------------- MODULE PositionIndexer ---------------------------
(***************************************************************************)
(* strategies/liquidation/src/monitor.rs: the index of HyperLend positions *)
(* S2 chooses borrowers from.  A log names an address whose position is    *)
(* then read, one asset after another; every few blocks the positions with *)
(* debt are read again.  An amount is abstracted to whether it is zero.    *)
(* One task runs the whole loop; main starts it again when it returns.     *)
(***************************************************************************)
EXTENDS Integers, Sequences

CONSTANTS
  Borrowers,
  AssetList,   \* registered_assets, in the order they are read
  Interval,    \* blocks between reconciliations; 10 in the code
  MaxChanges   \* bound: changes of the borrowers' accounts

Assets == {AssetList[i] : i \in DOMAIN AssetList}
Addresses == Borrowers \cup Assets

ASSUME PositionAssumption ==
  /\ AssetList \in Seq(Assets)
  /\ Borrowers \cap Assets = {}
  /\ Interval \in Nat \ {0} /\ MaxChanges \in Nat

VARIABLES
  account,   \* external: what each address has supplied and owes
  changes,   \* external: how often an account has changed
  logs,      \* the log stream: delivered, not yet handled
  untold,    \* history: borrowers with a debt event that no refresh followed
  index,     \* BotState.hyperlend_positions
  elapsed,   \* current_block - last_reconcile, up to Interval
  loop,      \* where the indexer loop is
  atRisk,    \* reconcile_at_risk_positions: addresses yet to be refreshed
  refresh    \* refresh_borrower_position: whose, the next asset, what it has

chainVars == <<account, changes, logs, untold>>
indexerVars == <<index, elapsed, loop, atRisk, refresh>>
positionVars == <<chainVars, indexerVars>>

Position == [coll : SUBSET Assets, debt : SUBSET Assets]
NoPosition == [coll |-> {}, debt |-> {}]
Known(addr) == addr \in DOMAIN index

(* Of a log the code looks at topic 2 only; user is whose debt has changed. *)
Log == [topic2 : Addresses, user : Borrowers]

Refreshes ==
  [who : Addresses, next : 1 .. Len(AssetList) + 1, found : Position,
   then : {"reconcile", "top"}]
NoRefresh == [who |-> "none"]

(* computed_hf is 0.0 with debt and f64::MAX without: below HF_PRESIMULATE *)
(* are the known positions with debt.                                      *)
AtRisk(addr) == Known(addr) /\ index[addr].debt # {}

IndexerTypeOK ==
  /\ account \in [Addresses -> Position] /\ changes \in Nat
  /\ logs \in Seq(Log) /\ untold \subseteq Borrowers
  /\ DOMAIN index \subseteq Addresses /\ index \in [DOMAIN index -> Position]
  /\ elapsed \in 0 .. Interval
  /\ loop \in {"top", "reconcile", "read", "next", "ended"}
  /\ atRisk \subseteq Addresses
  /\ IF loop = "read" THEN refresh \in Refreshes ELSE refresh = NoRefresh

(* Positions from before the subscription are not read.  The contracts of  *)
(* the assets have no position of their own.                               *)
IndexerInit ==
  /\ account \in {p \in [Addresses -> Position] : \A a \in Assets : p[a] = NoPosition}
  /\ changes = 0 /\ logs = <<>> /\ untold = {}
  /\ index = <<>>
  /\ elapsed = Interval /\ loop = "top" /\ atRisk = {} /\ refresh = NoRefresh

-----------------------------------------------------------------------------
(* HyperLend and the log subscription *)

Changes(b, position) ==
  /\ changes < MaxChanges
  /\ changes' = changes + 1
  /\ account' = [account EXCEPT ![b] = position]
  /\ UNCHANGED indexerVars

Toggled(S, a) == IF a \in S THEN S \ {a} ELSE S \cup {a}

(* Borrow and Repay are in the filter, and have the borrower in topic 2;   *)
(* the log is delivered, or lost with the connection.                      *)
BorrowOrRepay(b, a) ==
  /\ Changes(b, [account[b] EXCEPT !.debt = Toggled(@, a)])
  /\ \/ loop # "ended" /\ logs' = Append(logs, [topic2 |-> b, user |-> b]) /\ UNCHANGED untold
     \/ untold' = untold \cup {b} /\ UNCHANGED logs

(* Supply and Withdraw are not in the filter. *)
SupplyOrWithdraw(b, a) ==
  /\ Changes(b, [account[b] EXCEPT !.coll = Toggled(@, a)])
  /\ UNCHANGED <<logs, untold>>

(* LiquidationCall(collateralAsset, debtAsset, user, ...), all indexed: it *)
(* has the debt asset in topic 2.                                          *)
Liquidate(b, c, d) ==
  /\ c \in account[b].coll /\ d \in account[b].debt
  /\ \E coll \in {account[b].coll, account[b].coll \ {c}},
        debt \in {account[b].debt, account[b].debt \ {d}} :
       Changes(b, [coll |-> coll, debt |-> debt])
  /\ \/ loop # "ended" /\ logs' = Append(logs, [topic2 |-> d, user |-> b])
     \/ UNCHANGED logs
  /\ untold' = untold \cup {b}

BlockSeen ==
  /\ elapsed' \in elapsed + 1 .. Interval
  /\ UNCHANGED <<chainVars, index, loop, atRisk, refresh>>

-----------------------------------------------------------------------------
(* position_indexer_loop *)

Goes(from, to) == loop = from /\ loop' = to

StartRefresh(addr, then) ==
  refresh' = [who |-> addr, next |-> 1, found |-> NoPosition, then |-> then]

(* Variant for mutation: last_reconcile is assigned every time. *)
IterateForgets ==
  /\ loop = "top"
  /\ IF elapsed >= Interval
       THEN loop' = "reconcile" /\ atRisk' = {addr \in Addresses : AtRisk(addr)}
       ELSE loop' = "next" /\ UNCHANGED atRisk
  /\ elapsed' = 0
  /\ UNCHANGED <<chainVars, index, refresh>>

(* reconcile_at_risk_positions copies the addresses before it reads. *)
Iterate ==
  /\ loop = "top"
  /\ IF elapsed >= Interval
       THEN /\ loop' = "reconcile" /\ elapsed' = 0
            /\ atRisk' = {addr \in Addresses : AtRisk(addr)}
       ELSE loop' = "next" /\ UNCHANGED <<elapsed, atRisk>>
  /\ UNCHANGED <<chainVars, index, refresh>>

Reconcile(addr) ==
  /\ addr \in atRisk
  /\ Goes("reconcile", "read")
  /\ atRisk' = atRisk \ {addr}
  /\ StartRefresh(addr, "reconcile")
  /\ UNCHANGED <<chainVars, index, elapsed>>

Reconciled ==
  /\ atRisk = {}
  /\ Goes("reconcile", "next")
  /\ UNCHANGED <<chainVars, index, elapsed, atRisk, refresh>>

(* extract_borrower_from_log: whatever address topic 2 holds. *)
HandleLog ==
  /\ logs # <<>>
  /\ Goes("next", "read")
  /\ StartRefresh(Head(logs).topic2, "top")
  /\ logs' = Tail(logs)
  /\ UNCHANGED <<account, changes, untold, index, elapsed, atRisk>>

NoLog ==
  /\ logs = <<>>
  /\ Goes("next", "top")
  /\ UNCHANGED <<chainVars, index, elapsed, atRisk, refresh>>

(* The stream has ended and the loop returns; main calls it again, with a  *)
(* new subscription and last_reconcile at zero.                            *)
StreamEnds ==
  /\ logs = <<>>
  /\ Goes("next", "ended")
  /\ UNCHANGED <<chainVars, index, elapsed, atRisk, refresh>>

Restart ==
  /\ Goes("ended", "top")
  /\ elapsed' = Interval
  /\ UNCHANGED <<chainVars, index, atRisk, refresh>>

-----------------------------------------------------------------------------
(* refresh_borrower_position *)

(* The balances of one asset, as they are when the node answers. *)
ReadAsset(addr, i) ==
  /\ loop = "read" /\ refresh.who = addr /\ refresh.next = i
  /\ i <= Len(AssetList)
  /\ LET a == AssetList[i] IN
     refresh' = [refresh EXCEPT
       !.next = @ + 1,
       !.found = [coll |-> @.coll \cup (account[addr].coll \cap {a}),
                  debt |-> @.debt \cup (account[addr].debt \cap {a})]]
  /\ UNCHANGED <<chainVars, index, elapsed, loop, atRisk>>

(* Variant for mutation: an asset that cannot be read is left out. *)
ReadFailsSkipped ==
  /\ loop = "read" /\ refresh.next <= Len(AssetList)
  /\ refresh' = [refresh EXCEPT !.next = @ + 1]
  /\ UNCHANGED <<chainVars, index, elapsed, loop, atRisk>>

(* A call fails: the whole refresh is given up, with a warning. *)
ReadFails ==
  /\ loop = "read" /\ refresh.next <= Len(AssetList)
  /\ loop' = refresh.then
  /\ refresh' = NoRefresh
  /\ untold' = IF refresh.then = "top" THEN untold \cup ({refresh.who} \cap Borrowers)
                                       ELSE untold
  /\ UNCHANGED <<account, changes, logs, index, elapsed, atRisk>>

InsertPosition ==
  /\ loop = "read" /\ refresh.next > Len(AssetList)
  /\ loop' = refresh.then
  /\ index' = [addr \in DOMAIN index \cup {refresh.who} |->
                 IF addr = refresh.who THEN refresh.found ELSE index[addr]]
  /\ refresh' = NoRefresh
  /\ UNCHANGED <<chainVars, elapsed, atRisk>>

-----------------------------------------------------------------------------
IndexerStep ==
  \/ Iterate \/ Reconciled \/ HandleLog \/ NoLog \/ InsertPosition
  \/ \E addr \in Addresses : Reconcile(addr)

IndexerNext ==
  \/ BlockSeen \/ IndexerStep \/ ReadFails \/ StreamEnds \/ Restart
  \/ \E addr \in Addresses, i \in DOMAIN AssetList : ReadAsset(addr, i)
  \/ \E b \in Borrowers, a \in Assets : BorrowOrRepay(b, a) \/ SupplyOrWithdraw(b, a)
  \/ \E b \in Borrowers, c, d \in Assets : Liquidate(b, c, d)

IndexerSpec == IndexerInit /\ [][IndexerNext]_positionVars

(* Blocks go on, the task is polled, and the node answers the call for any *)
(* one account and asset again and again, though it may fail in between.   *)
FairIndexerSpec ==
  /\ IndexerSpec
  /\ WF_positionVars(BlockSeen) /\ WF_positionVars(IndexerStep)
  /\ \A addr \in Addresses, i \in DOMAIN AssetList : SF_positionVars(ReadAsset(addr, i))

-----------------------------------------------------------------------------
Pending(b) == \E i \in DOMAIN logs : logs[i].topic2 = b
Reading(b) == loop = "read" /\ refresh.who = b

(* A refresh reads an account asset by asset while it changes.  Still, of  *)
(* a borrower all of whose debt events were followed by a refresh, the     *)
(* index has exactly the debts once no log of it is left: a position that  *)
(* never existed is in the index only while the log that corrects it waits.*)
DebtsFollow ==
  \A b \in Borrowers \ untold :
    Known(b) /\ ~Pending(b) /\ ~Reading(b) => index[b].debt = account[b].debt

(* "Keep the position index live" (monitor.rs:220): when accounts change   *)
(* no more, every position the index believes to have debt is right in the *)
(* end, collateral included, unless the stream breaks again and again.     *)
AtRiskConverges ==
  \/ []<>(loop = "ended")
  \/ <>[](\A b \in Borrowers : AtRisk(b) => index[b] = account[b])

(* "Keep the position index live" (monitor.rs:220): the position a log     *)
(* tells of is the one that is read.                                       *)
LogRefreshesUser ==
  [][HandleLog => refresh'.who = Head(logs).user]_positionVars
=============================================================================
