# Verification of the Skua bot

Skua watches HyperEVM and HyperCore and sends liquidation and arbitrage
transactions from a pool of hot wallets. This directory holds TLA+ models of the
bot and of the contracts it calls, the TLC configurations that check them, and
TLAPS proofs about them. Paths below are relative to the repository; `S1` ... `S4`
are the strategies' names in the code. In [PROJECT.json](PROJECT.json), `map` ties
every definition to the lines it models, `hazards` lists what is hard to test in
this code and which property watches it, `runs`, `mutants` and `theorems` list what
is checked.

## 1. The system

| component | code (`bot/crates` unless said) | state | operations | module |
|---|---|---|---|---|
| wallet pool | `executor/src/wallet_pool.rs` | per slot `in_use`, `last_used_ms`, `nonce` (atomics) | `acquire`, `next_nonce`, `release` | `WalletPool`, abstractly `WalletOwnership` |
| submission, breakers | `executor/src/submit.rs`, `core/src/state.rs`, `api/src/lib.rs` | `kill_switch`, `consecutive_reverts`, `gas_spent_window` | `submit_sync`, `record_success`, `record_revert`, `/kill`, `/resume` | `Submission` |
| execution of a transaction | the tails of the four `strategies/*/src/executor.rs` | the two above, the chain's nonces | acquire, sign, submit, release | `Execution` |
| block loop, evaluation loop | `chain/src/block_loop.rs`, `bot/src/main.rs`, `hypercore/src/precompile.rs` | `current_block`, the event channel, `hype_price_usd`, enable flags | store and send a header, receive, halt check, price refresh, spawn | `Dispatcher` |
| pool monitor | `chain/src/pool_monitor.rs` | `pool_states` | handle a Sync log, re-read every ten blocks | `PoolMonitor` |
| fee refresh | `chain/src/fee_refresh.rs` | two fees | read and store both every 1000 blocks | `FeeRefresh` |
| the two loops together | the two above | the block number both read | | `ChainFeeds` |
| position indexer | `strategies/liquidation/src/monitor.rs` | `hyperlend_positions` | handle a log, refresh a borrower, reconcile | `PositionIndexer` |
| S1 machine and escrow | `strategies/evm_arb/src/executor.rs`, `phase.rs`, `contracts/src/EvmArbExecutor.sol` | the phase, the escrow, wallets in use | tick: phase 1, phase 2, emergency exit; sweep | `EvmArb` |
| S1 signal and risk | `scanner/src/s1_signal.rs`, `hypercore/src/orderbook.rs`, `phase.rs` | the volatility window | evaluate, push, risk check, slippage | `EvmArbSignal` |
| S2 scan | `strategies/liquidation/src/{executor,monitor,sizing}.rs` | none of its own | health factor, sizing, gates | `LiquidationScan` |
| S3 search | `strategies/triangular/src/graph.rs` | none of its own (graph built per call) | build, DFS, Bellman-Ford, dedup | `ArbGraph` |
| S4 scan | `strategies/stable_depeg/src/executor.rs`, `scanner/src/s4_signal.rs`, `contracts/src/StableDepegExecutor.sol` | none | choose the pools, signal, size | `DepegScan` |
| pool formulas, sizing, gates | `simulation/src/*.rs` | none | constant product, StableSwap, probe, golden section, layers 4 and 5 | `Amm`, `Sizing` |
| a scan from trigger to landing | the executors of S1, S3, S4 with `contracts/src/*.sol` | the pools read, simulated and landed on | size, simulate, land | `StrategyScans` |
| the rest | CoreWriter bytes, config, gas and types, providers, metrics, telegram, deploy script | none that is read back | | not modelled |

How they interact. Everything is shared through one `Arc<BotState>` of atomics and
short `RwLock`s; no lock is held across an `await`. Feeds (block loop, pool
monitor, indexer, order book, fee refresh) are tokio tasks that write it. The
evaluation loop of `main` takes block events from a bounded channel and spawns a
task per enabled strategy; the spawned tasks read the feeds, size a loan, simulate
it with an `eth_call`, and go through the same tail: a wallet from the pool, its
next nonce, a signed transaction, `submit_sync`, release. S1 spreads one trade over
several such transactions and keeps a phase in between. The HTTP handlers run beside
all of that.

What is hard: tasks of one strategy and of several overlap without limit and meet
in the pool and in the breaker; the breaker's three variables are separate
atomics; S1 copies its phase before the awaits and writes it after them; the node
answers late or not at all; feeds read the chain one call after another while it
changes; logs and headers are lost with a connection; pools are traded by others
between reading, simulating and landing; sizes are found by searches that may miss.

## 2. Modules

**StrategyTasks** declares the constant shared by the modules of tasks.

**WalletPool**. One action per atomic access. `acquire` is `BeginAcquire`, one
`ScanSlot` per slot (the `compare_exchange` in the filter closure, which
`min_by_key` runs over *all* slots), then `PickWallet` or `NoneFree`. `TakeNonce`
is `next_nonce`, `StampRelease` and `ClearRelease` are the two stores of `release`,
and `DropWallet` is a caller that leaves through `?` without releasing, as any executor
does when `build_raw_tx` fails (`dropped` remembers that one has). Variables `at`,
`cursor`, `claimed`, `held` are program counter and locals of each task.
`reset_nonce` has no caller and is no action.

**WalletOwnership** is the abstract specification: wallets change hands atomically.
`WalletPool` refines it through `OwnerOf`; a wallet that a scan leaves claimed
without a holder becomes `Lost`, which is what the code does (see finding 1).

**Submission**. Each load and store of `submit_sync`, `record_success`,
`record_revert`, `kill_handler` and `resume_handler` is a step, because every one of
them is a separate atomic access. `newCount` is the local returned by
`record_revert`. The gas window is counted only up to its threshold: the code only
compares it. `quiet` is a history variable for the property about resuming.

**Execution** composes the two for the same tasks, adds the nonce each transaction
carries and the chain's side (`chainNonce`, `mempool`, `Mine`, marked external). It
is the conjunction of a pool step or a submission step with what the executors do
around it: `SignFails` is the `?` behind `build_raw_tx`, which loses the wallet and its
nonce in every strategy; when `submit_sync` fails, `FinishErr` releases for S2, S3, S4
and drops the wallet for S1.

**Dispatcher**. `StoreHeader` and `SendEvent` are the two effects of
`process_block_header`; `Receive`, `LookAtKill`, `LookAtReverts` (the two loads of
`is_halted`), `SleepOver`, `RefreshOk`/`RefreshFails`, `SpawnStrategies` are the
evaluation loop in order; the price is that of the block before the newest
(`precompile.rs:5`, `:25`). `Disconnect` and `Reconnect` are the supervisor. The
breaker's variables change here at any time (`SetKill`, `SetTripped`): Submission
says in which order. A task is counted until it starts and reads the price.

**PoolMonitor**. Reserves are numbered by the Sync event that set them, so a stale
value is a smaller number. `Iterate`, `ReadReserves`, `WriteReserves`, `ReadFails`,
`Reconciled` are the loop's head and `reconcile_pools`, whose call and write are
separate steps; `HandleLog`, `LogUndecoded` (a log that does not decode is passed over),
`NoLog`, `StreamEnds` are its tail.

**FeeRefresh**. `Wake` loads the block and decides that a refresh is due,
`AskHyperLend` and `AskBalancer` each make a call and store its answer, `AskFails`
ends the cycle in between. Block numbers are kept relative (`age` of
`last_refresh_block`, `begun` for the block the cycle loaded), because 0 has a
meaning of its own in the code: a refresh at block 0 counts as none. `torn` is
history: the two stored fees are of different cycles.

**ChainFeeds** runs the two loops as tasks of one process: a header moves the block
both look at, everything else interleaves.

**PositionIndexer**. A refresh reads one asset per step (`ReadAsset`) while the
account changes, gives up on the first failure (`ReadFails`) and replaces the whole
position at the end (`InsertPosition`). `Iterate`, `Reconcile`, `HandleLog`,
`NoLog`, `StreamEnds`, `Restart` are the loop and its supervisor. An amount is
abstracted to whether it is zero, which is all the index decides on:
`computed_hf` is 0.0 with debt and `f64::MAX` without.

**EvmArb** is S1's machine with overlapping ticks. A tick copies the phase in
`Start`, waits for calls (`Proceed`, `GiveUp`), sends (`SubmitFails` is the `?` that
drops the wallet, with the transaction possibly alive in `limbo`), is executed on
chain (`Executes`, with `Phase1Runs`, `OrderRuns`, `ExitRuns` for the contract's
side) and writes the phase when the receipt comes (`Answered`, `Recorded`).
`deployment` chooses between the contract of this commit (`Guarded`: the flash
callback finds the transient lock of its entry point taken) and the contract its
comments announce, so that the machine is checked on both. `Elapse` ages the two
clocks, the bot's `Instant` and the contract's timestamp, which start at different
moments.

**Amm, Sizing** are `amm.rs`, `profit.rs`, `sizing.rs` and the gates of
`eth_call.rs` over whole numbers of a small unit. A loop of the code is a recursive
function with a bound (`NewtonSteps`, `GssIterations`, `Doublings`); a value that
f64 makes of 0/0 is `NaN`, of which every comparison is false, as in the code. Newton's
method stops at a difference relative to the size, as in the code (`Precision`).

**EvmArbSignal, LiquidationScan, DepegScan** are what S1, S2 and S4 compute on top:
signal, volatility and order-book slippage; health factor and repayment; the choice
of the pools and the two legs as the bot computes them (`SizeDepeg`) and as the
contract executes them (`DepegOnChain`).

**StrategyScans** follows one task from its trigger to its end. `SizeRoute` (S3),
`CheckStable` (S4) and `ScanPhase1` (S1) size a loan and pass it through layer 4;
`Simulate` and `SimulatePhase1` are layer 5 against pools others may have traded in
since. Gas is read three times, and each may differ: for the sizes (`gas`), for layer 4
(`gasNow`, in S4 the same reading), and for the transaction, whose gas price is a
multiple of the base fee (`GasPaid`, `paid`). `Land` is the contract's guard against
pools traded in once more.
`ScanPosition` is S2 up to its simulation, `EstimateSlippage` the estimate nothing
calls yet. What pools, quotes, prices, books and positions may hold is any number the
code's types admit (`InputsAssumption`): whole, not negative, books in order of price,
fees below the whole.

**ArbGraph**. A rate is its weight `-ln(rate)` as an integer; a product above one is
a sum below zero, and the rate of an empty pool is `Dead`, a loss no other rate makes
up for. `FindCycles` is translated branch by branch. `DfsRecurse` is a recursive
function of the path walked so far; `Distances` is one of the rounds, a token not yet
reached having no distance at all, where the code has an infinite one. The order in
which the `HashMap` yields edges is any order of the tokens. `BestFirst` sorts the
routes as the code does, and `Dedup` keeps the first of neighbours with one start. The
reference is `Triangles`, said without a search.

Modules whose name begins with `MC` instantiate one for TLC; those whose name ends
in `Proofs` hold theorems. Operators commented "Variant for mutation" belong to no
specification: each is a definition with a plausible bug, and replacing the
definition by it violates the property PROJECT.json names.

## 3. Runs

All constants are small; why that is enough is said with each run.

| run | what it asks | bounds |
|---|---|---|
| `pool` | `Exclusive`: one claim per wallet, however scans interleave. `NeverEmpty`: the scans together never leave all wallets claimed by nobody. `KeysStable`: the key `min_by_key` compared is still the slot's at the pick. `AtomicHandover`: the refinement. `PoolRecovers`: some wallet is free again and again | 3 tasks, any of which may drop its wallet, 3 wallets, nonces to 2, two clock values. Three scans over three slots already reach every relative order of cursors, and two clock values every order and tie of keys |
| `pool_leak` | finding 1 | 1 task, 2 wallets |
| `submit` | `BreakerArmed`: a count at the threshold is never left without a halt on its way. `StaysHalted`: a count that has reached it halts the bot for good, whatever successes in flight do to the count, unless somebody resumes | 3 tasks, threshold 2, gas threshold 2, one resume request plus `/kill` at any time: a threshold can be reached while one more task is on either side of each check |
| `submit_resume` | finding 2 | 2 tasks, threshold 1 |
| `exec` | `OverrunBound`: reverts counted plus transactions in flight stay below threshold + pool size. `FreshNonce`: no nonce is sent twice. `NonceInStep`: a wallet all of whose attempts got receipts is in step with the chain | 3 tasks, one of them S1, 2 wallets, nonces to 2: more tasks than wallets, so tasks compete and one is always refused |
| `exec_nonce` | finding 3 | 2 tasks, none of S1, 2 wallets |
| `dispatch` | `BurstBound`: rounds on one stored header. `StateOfEvent`: a round never runs on a block older than its event, nor on a price of more than one block before it. `OneRoundAfterKill`. `NewerEvents`. `EventsTaken`, halted or not | channel of 1, chain of 4 blocks: the channel is full and empty, events are dropped, and lost headers lie between kept ones |
| `feeds` | `Drained`: a pool of which no event was missed is stored as it is once its logs are handled, though re-reads overtake logs. `TornRetried`: a cycle that failed between its two stores is due at once. `Converges`, `FeesConverge`: stored reserves and fees are those of the chain in the end | 1 pool with two swaps and 1 with one, a re-read and a refresh every 2 blocks, one change of a fee, 2 units of Balancer's fee to a basis point: a swap or a change before, during and after each read |
| `positions` | `DebtsFollow`: torn reads never outlast the logs that announce them. `AtRiskConverges` | 1 borrower, 2 assets, 3 changes: a change before, between and after the two reads; borrowers are refreshed one at a time and independently |
| `positions_log` | finding 4 | as above, 2 changes |
| `s1` | `AsWrittenIdle`: against the contract of this commit nothing is ever sent. `EscrowTracked`: against a working one the machine's phase and clock agree with the escrow's unless ticks overlapped, an answer was lost, an exit reverted or the operator swept. `OrdersBound`: how often one position can be sold. `MachineReturns` | 3 overlapping ticks, 2 wallets, a timeout of 2 steps: two ticks may act on a stale phase while a third starts from the written one, and the clocks may be a step apart before the timeout |
| `scans` | `LandedPays`, `DiscountLosesAsRead`, `Phase1CannotRepay`, `Phase1SizesNoLoss`, `SizedNearBest`, `SwapsConserve`, `WindowIsLast`, `SlippageExact`, `LiquidatesBelowSubmit` on the scans; `RoutesAreTriangles`, `BestRouteKept` (the Bellman-Ford branch with its deduplication may lose routes but never the best) on the graph search | below |

Bounds of `scans`. Reserves of a few hundred to a few thousand units with fees from
0 to 3%, balanced and up to tenfold out of balance. Stable pools have amplification 20
and 200, which real ones have, with reserves as large as the products of Newton's method
leave them in TLC's integers, and 0 (a pool registered without one), 1 and 2 with ten
times the reserves. Others trade from -84 to 84 units in steps of 7, against loans up to
500. Gas is 0, 1 or 40 units at each reading and multiplied by 5 in S3 and 30 in S4, the
minimum profit 7 units, so that layer 4 accepts, rejects and decides on the return on
gas, and trades land with gas paid below and above what they earn. `Precision` is the
code's 1e-8, which at these sizes means that two iterates are equal. There are 16
iterations, after which the golden section has narrowed the whole range to one unit
(500 · 0.618^16 < 1) and Newton's method has long settled; with 10 or 24 of them the
properties hold as well. A fee unit of 1000 instead of 10,000 keeps
products small. `Rounding` (4 units) is what the search over whole numbers may miss
where f64 would not. The window holds 3 prices, with histories of up to two turns.
Books have up to three levels. Positions have up to two assets on a side, with each
price present, zero or missing. For the graph: 6 pools on 4 tokens, each a gain, a
loss or empty; DFS limit 3, so that both branches run; all subsets of pools, all
token orders. The scans and the graph share no variable and are explored side by
side in one run.

Each type invariant is checked with its module or its composition, and each
property has a mutant of the code it fails for. `CHECK_DEADLOCK FALSE` stands where
a bound stops the model (nonces, blocks, changes) or a loop may end
(`StreamEnds`); `submit`, `exec` and `scans` check for deadlock. Symmetry over tasks
is used in `exec` and `exec_nonce` only, which have no liveness property; wallets
are never symmetric, because scans go by index.

### Fairness

tokio polls a ready task, so steps of code between two awaits are weakly fair
(`PoolFinish`, `SubmitInternal`, `BlockLoop`, `LoopStep`, `MonitorStep`,
`IndexerStep`, `Wake`, `Reset`). Nothing promises that a strategy finds work
(`BeginAcquire`, `CallSubmit`, the branch of `Start` on a signal). In the core no
answer of the node is fair: the HTTP provider has no timeout, and properties name
the place where the loop then waits (`EventsTaken`). The convergence properties need
a node that answers the same call now and then: strong fairness of `ReadReserves`,
`ReadAsset`, `AskHyperLend` and `AskBalancer`, with failures in between. In `s1`
blocks go on, so that a tick is started again and again in a phase that waits for
its timeout, and every call ends in an answer or an error; `MachineReturns` excepts
a pool whose wallets are all gone. In `pool` a holder is fair because there it
stands for a caller whose submission ends; `PoolRecovers` says nothing of a caller
that waits for the node for ever.

### What the violation runs show

1. `pool_leak`: `acquire` claims every free slot and returns one (`wallet_pool.rs:80`);
   the others stay `in_use` for good. From the first acquire on a pool of any size
   serves one transaction at a time. `NeverEmpty` and `PoolRecovers` say that it at
   least never falls to none.
2. `submit_resume`: a task that has counted a revert before `/resume` stores its halt
   after it; the operator's resume is undone.
3. `exec_nonce`: a nonce taken for a submission that was blocked or failed is never
   given back, and the wallet's later transactions wait behind the gap.
4. `positions_log`: topic 2 of `LiquidationCall` is the debt asset, not the borrower.

### What the passing runs show that a reader may not expect

* `Phase1CannotRepay`: S1's loan buys in a pool and sells part of it back in the same
  pool to repay the whole loan (`EvmArbExecutor.sol:95`). No reserves, fee or trade of
  others make that possible, so phase 1 cannot succeed even with the contracts wired.
* `DiscountLosesAsRead`: S4 computes both legs with the stable as `token_in`; the
  contract sells the discounted stable in the pool where it is cheap. At a discount,
  the only side that is handled, the call on the pools as they were read loses, whatever
  its amount, if the two have one amplification. It can gain only from what the bot did
  not see: pools unlike each other, or trades of others in between. In the run no simulation
  of S4 passes.
* `AsWrittenIdle`: the transient lock of the entry point is taken when the vault calls
  back (`SkuaBase.sol:111`), and no simulation of a flash loan passes.
* `LandedPays`: the guard in the call is 80% of the expected profit, and the contract
  compares it with what is left *before* gas. What a landed trade is sure to earn is 80%
  of the floor of layer 4, the minimum profit or 1.5 times the gas. That gas is computed
  at the plain base fee, while the transaction pays 50, 200 or 300 times the base fee
  (`.env.example:68-70`), all of it burned (`gas.rs:24-27`). So a landed trade has earned
  the gas it pays if the minimum profit is large enough against the multiplied gas, and
  the property says no more than that; nothing in the code compares the two, and in the
  run trades land that do not earn their gas.
* `LiquidatesBelowSubmit`: a missing price lowers the health factor, and only the
  checks on the first debt and the first collateral keep a position whose factor, with the
  prices known, is 1.05 (`HF_SUBMIT`) or more from being tried. Below 1.05 is not yet below
  the 1.00 at which the market allows a liquidation (`monitor.rs:22-23`), and unpriced
  collateral further down a list still makes a position look worse than it is.
* `BestRouteKept`: best is the product of the rates. The executor takes the route with
  the greatest expected profit among those returned (`executor.rs:70-77`); the search may
  have dropped a better one by that measure.

## 4. Proofs

TLAPS proves, for any number of tasks, wallets, pools and ticks, any thresholds,
capacities, intervals and fees, and any reserves, books, prices and positions (the
assumptions are the named `ASSUME`s beside the constants):

* **WalletPoolProofs**: `PoolTypeCorrect`, `PoolExclusive`, `PoolNeverEmpty`, and
  `PoolImplementsOwnership`, the refinement; `PoolKeysStable` and `PoolNonceByHolder`
  from the same invariant. `PoolWaitFree`: no step of one task sets another back, so
  that a call ends within `NumWallets + 4` steps of its task; fairness does the rest of
  `PoolRecovers`. `Exclusive` alone is not inductive: a
  scan finds a slot marked, not who holds it. `PoolInv` adds that claims exist only
  during a scan, that a task holds exactly between pick and release (`PhaseInv`),
  and that claims and holdings of different tasks are disjoint and marked in use
  (`ClaimInv`). The refinement shows that `PickWallet`, `ClearRelease` and
  `DropWallet` map to `Acquire`, `Release`, `Drop` and every other step to a stutter.
* **ExecutionProofs**, first about `Submission` alone: `SubmitTypeCorrect`,
  `BreakerStaysArmed`. The latter is
  inductive with the types: a count at the threshold always has a witness, the kill
  switch, a task on its way to it, or a resume, and each step hands the witness on.
  `HaltIsAGate` needs only the types. Then about the composition: `ExecTypeCorrect`,
  `ExecImplementsParts` (so that every theorem
  about the parts holds of the whole), `OverrunIsBounded`,
  `NoncesAreFresh`, `NoncesAreInStep`. `Link` ties the two program counters: a task in
  `submit_sync` holds a wallet. Hence those in flight hold different wallets, there
  are at most `NumWallets` of them (`FlightsFit`, with the library's theorems on
  cardinality), and a task that sends has just seen fewer than `MaxReverts`.
  `NonceInv` says that the pool's counter is ahead of the chain, of the node and of
  every signature. `InStepInv` adds, for a wallet every attempt of which got its
  receipt, by how much: by nothing while no task has taken a nonce, by one from the
  signature until the transaction is mined.
* **DispatcherProofs**: `DispatchTypeCorrect`, `BurstsAreBounded` (`BurstInv`: rounds
  done plus events in the channel, in the loop's hands and about to be sent),
  `OneRoundAtMost` (`KillInv`: after that round the loop is before its check),
  `StateIsOfEvent` (the block is the event's or later, the price at most one block
  older) and `EventsAscend` (`OrderInv`: the last event taken, the channel,
  the header being sent, the stream and the chain's head ascend in this order).
  `EventsDrawNear` is what `EventsTaken` rests on besides fairness: an event in the
  channel is never passed over, and every step of the loop, halted or not, leaves fewer
  steps to it (`StepsTo`).
* **ChainFeedsProofs**: `MonitorTypeCorrect` and `ReservesFollow` of the pool monitor,
  `FeeTypeCorrect` and `TornIsRetried` of the fee refresh, and `FeedsImplement`: the
  two loops together implement each alone, from which `FeedsTypeCorrect` and
  `FeedsAreSafe` follow for the composition. `Drained` says nothing of a pool with
  logs in the stream; `LogInv` adds that the last of them carries the current
  reserves, and that an answer waiting to be written is current unless a log of its
  pool has arrived since. `TornRetried` needs that a cycle is only begun when one is
  due, and that blocks never make it less due.
* **PositionIndexerProofs**: `IndexerTypeCorrect`, `DebtsAreFollowed`. `DebtsFollow` says
  nothing of a borrower in the middle of a refresh; the invariant adds that an asset
  already read differs from the account only while a log of the borrower waits behind
  the refresh.
* **EvmArbProofs**: `EvmArbTypeCorrect` (wallets free, lost and in use add up, so that
  none is given out twice), `AsWrittenNeverTrades`, `EscrowIsTracked`, `OrdersAreBounded`.
  The last is a counting argument: the orders landed, plus the ticks that may still
  land one on the phase they copied, are bounded by the ticks and the wallets lost
  (`OrdersInv`, with the library's theorems on cardinality). `EscrowIsTracked` says of
  the one tick that runs how far the phase is behind the escrow at each place.
* **SizingProofs** is about the formulas, for every input. The code's loops are
  recursive functions here, and what they compute is proved by induction:
  `LeastElement` takes from the library that `<` is well-founded on the naturals,
  `BoundedInduction` is induction over the members of a set, and `RecursionExists`
  shows that the equation of a loop has a solution, so that the recursive function is
  one (`CHOOSE` gives nothing otherwise). From these: every swap, the invariant `D` and
  the reserve `y` of a stable pool are whole numbers wherever Newton's iteration stops
  (with the one `NaN` where the code divides 0 by 0); the doubling and the golden
  section stay inside their interval; hence `SizeWithProfit`, for any profit function:
  a size is within the lender's liquidity, the hard cap and 95% of the reserve, and
  comes with its own profit. `ThereAndBack`: no pool gives back more than was put in.
  `StableSwapKeepsD`: a swap in a stable pool never lowers the `D` the code computes,
  although both Newton iterations stop where they happen to. A `d` is within the reserves
  where the polynomial whose root `D` is has not yet passed zero (`WithinD`). No iterate of
  `D` falls below a `d0` within (`NewtonDAbove`: the step from `d` overshoots by a
  multiple of `(d - d0)^2 (2 d + d0)`, never negative, and a whole number at most a
  quotient is at most its floor). One more than the `y` computed is past the root
  of its polynomial (`YPassesRoot`), and the code takes one unit off; so the `D` computed
  before the swap is within the reserves after it (`RootWithin`), and the `D` computed
  then is no smaller. The argument needs that the constant `c` of the polynomial for `y` is rounded
  once, as in `ComputeY`; rounded twice, `D` can fall by up to 3 units.
  `GoldenSectionNearTop`: if a profit rises up to `p`, but for plateaus shorter than `w`, and
  does not rise from `q` on (`Hill`), the search ends within `5w + 8` of `p .. q`, given
  steps enough to narrow the range to that. A plateau on a slope can mislead the comparison of
  the two probes only when they are closer together than its length, and from then on the
  interval is short. The profits of the run's routes fulfil the hypothesis with `w` between
  2 and 11.
  `PushAllHolds`: the ring buffer of the volatility is a rotation of the last prices
  after any history, so that sums over it are sums over them. `GreedyBest`, an exchange
  argument: against a book in order no way to fill an order is worth more than taking
  the levels one by one.
* **StrategyScansProofs**, about the scans. `ScansInv` says of each strategy what its
  scan carries along (`Carried`: inputs that were enumerated) and what sizing and layer
  4 left of the size (`ScanSized`); together with `Phase1CannotRepay` it is kept by each of
  the actions. From it `ScansTypeCorrect`, `Phase1NeverRepays`, `LandingsPay`, `Phase1BuysCheap`,
  `SwapsGainNothing`, `SwapsNeverTake`, `OnlyBelowSubmit`, `WindowKeepsLast`,
  `SlippageIsExact`. `SwapsNeverTake` is `SwapsConserve` whole: the pools with a constant
  product by `ThereAndBack`, the stable ones by `StableSwapKeepsD`.
  `Phase1NeverRepays` rests on `CannotRepay`, an inequality over
  whole numbers proved from `RoundTrip` and `SwapBound`: what a constant product pool
  gives for x never buys back x and its fee from the same pool, whatever the fee and
  the rounding. `LandingsPay` rests on `GuardCoversFloor`: 80% of what layer 4 lets
  through covers any gas within 80% of its floor, the rounding included. It holds for any
  multipliers of the gas price, any return asked of the gas and any changes of base fee
  and price between the three readings; it promises nothing where the gas paid exceeds that part of the floor.
* **StrategyScansProofs**, about the graph. `TrianglesAreFound`: both searches return
  profitable triangles only, and the depth-first one all of them: its recursive function is
  unfolded along the paths of one, two and three edges. `BestIsKept`: Bellman-Ford
  proposes only starts, from which the triangles are then walked. Every token is tried
  as a source. From a token of a profitable triangle some edge of the triangle still
  improves after any number of rounds in any order (`OneImproves`): otherwise its three
  inequalities would add up to a weight of at least zero. So one of its tokens is
  proposed, the walk from there finds it, the best of all is first after the sort, and
  the deduplication keeps the first.

Only model-checked, and why:

* all liveness properties (`PoolRecovers`, `StaysHalted`, `EventsTaken`, `Converges`,
  `FeesConverge`, `AtRiskConverges`, `MachineReturns`): liveness under fairness is out of
  the prover's reach;
* `SizedNearBest`. What holds of the search for every profit with one hill is
  `GoldenSectionNearTop`. That the result earns within `Rounding` of the best needs besides
  how steep the profit is near its top, enough iterations (`GssIterations` is any number in
  the proofs), and that the first probe of the doubling pays at all;
* `DiscountLosesAsRead`, which rests on the concavity of the curve of constant `D`. It is
  stated for two pools of one amplification, because with amplifications far apart the two
  prices, which the bot computes with the stable going in, may order the pools the other
  way round; and up to one unit, because both swaps round down.

## 5. What the models leave out, and what reading showed besides

* Atomics are sequentially consistent in the models. That is what the code has for
  the nonce, the kill switch and the revert count (SeqCst). `in_use` is claimed with
  AcqRel and cleared with Release, and `last_used_ms` (Relaxed) is written before the
  one and read after the other, so a scan sees the stamp of the release that freed
  its slot. The gas window and the feeds' scalars are Relaxed and read one by one.
* `StateOfEvent`, `Drained` and `DebtsFollow` take the node that answers HTTP calls
  to be at least as new as the one behind the WebSocket. The code compares no blocks.
* A stale log overwrites a newer re-read until the logs behind it are handled
  (`pool_monitor.rs:122`); `Drained` states what holds all the same.
* The gas window never rolls over, although README.md:128 names one
  (`SKUA_GAS_KILL_WINDOW_SECS` is parsed and not used), and is compared only after a
  revert. A price of zero skips one event and does not halt, against README.md:129-131.
  A transaction past its check when `/kill` arrives is still sent; `HaltClosesGate`
  says that no further one is. `graph.rs:138` speaks of 2 to 4 hops; the search finds
  three. These are in words only; no run is spent on them.
* The breaker trips *at* its thresholds (`>=`: `submit.rs:60`, `:94`, `:100`,
  `state.rs:170`). README.md:127-128 and `state.rs:120` have `>`, `state.rs:165-166`
  "exceeded", and README.md:168 calls a count above 2 imminent; `AUDIT_REPORT.md:340`
  counts three reverts for threshold 3, as the code does. With the default of 3 the bot
  halts at the third revert, not the fourth. `BreakerArmed`, `StaysHalted` and
  `OverrunBound` are about the code's threshold; with the documented one the overrun would
  be one larger.
* `state.rs:97` and `:99` say of both fees "Stored as bps × 10^4". `fee_refresh.rs:93-110`
  stores plain basis points, and the readers take them so; `FeesConverge` is about those.
* `profit.rs:6` says gas "is ALWAYS subtracted", and `gas.rs:35` "Compute the USD cost of
  gas for a transaction": what is subtracted is the cost at the plain base fee, not at the
  gas price the transaction carries. The gas reported after a landing is computed at the
  plain base fee too (`triangular/src/executor.rs:143`), and so is what is added to the
  gas window.
* The code computes pools in f64, where a quotient is rounded to the nearest and Newton's
  iterates may alternate within the tolerance; the models divide whole numbers and round
  down. What `SwapsConserve` and the theorems about `D` say is about the formulas, not
  about the last bits of an f64.
* As written S1 to S4 submit nothing. No entry point returns the two words
  `decode_sim_return` asks for, so layer 5 is always an error; its `eth_call` names no
  sender and `onlyOwner` reverts; the DEX calls of the contracts are stubs; the flash
  asset in S1's call is the zero address; the price map `main` passes to S2 is empty;
  `pool_monitor_loop` and `register_pool` have no caller. The models take the pieces
  as they would work once connected (`wired`, any price map, pools that are
  registered) where a property is about them, and as they are in `AsWrittenIdle`.
* Amounts are in one unit. The code divides reserves by 1e6 whatever the token's
  decimals, compares an escrow in the bought token with 95% of the loan in the flash
  asset, and feeds the volatility of HYPE to the risk check of another token. The
  price that triggers S1's early exit is a ratio near 0.95 and never fires for a token
  of a dollar or more; the model lets it fire at any time.
* S2 adds up amounts of different debt tokens and reads the bonus of the debt's token
  (`LiquidationParams`); its cached health factor is 0.0 or `f64::MAX`, so the close
  factor is always 100%. What the market pays out is not capped.
* S1's detector has no caller for its updates, layers 1 to 3 of the pipeline and
  `reset_nonce` have none at all, the order books are written and never read, and
  `Phase2Complete` is never written: none of these is an action.
* Not modelled: `corewriter.rs` (byte layout of an order), configuration, gas tables and
  types (values that appear as CONSTANTS), `providers.rs` (its effect, a stream that
  breaks and comes back, is in Dispatcher and PositionIndexer), metrics, status and
  Telegram (written, never read back), `Deploy.s.sol` (run once by hand), the
  liquidation call of `LiquidationExecutor.sol` and its precompile read.
* The commit does not compile as it stands (S1 passes `build_raw_tx` two arguments
  too many, `graph.rs` uses a name `pools` it does not bind, `ws2` is moved in a
  loop). The models take the evident reading: the fees once, the pools of `BotState`,
  a new connection per iteration.

## 6. Plan

The modules were written in the order of section 2: first what every strategy shares
(pool, breaker, execution, loops), then the feeds, then what each strategy does alone.

Worth proving next: `DiscountLosesAsRead`, from the
concavity of the curve of constant `D`; and an upper bound for the `D` and `y` the
iterations settle on (the proofs bound them from below, which is the side a pool needs).

Worth modelling next: the composition of `Dispatcher` with `Execution` (rounds of spawns,
the tasks they leave behind, and the breaker they share); the liquidation call of the
contract against the market's own limits; a gas window with a clock, as soon as the
code has one.
