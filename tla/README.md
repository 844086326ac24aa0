# A verification development of quant-fp

TLA+ models of the parts of quant-fp whose behaviour depends on order, failure and
restart, the TLC runs that check them on small instances, and TLAPS proofs of what
matters most for every instance.

Everything is translated from the source (paths below are under `src/`); what lies
outside the repository (the Alpaca broker, Postgres, Redis, Docker) is modelled from how
the code calls it and marked external in `PROJECT.json`.

## 1. The system

quant-fp computes minute features from a market-data stream, publishes them on a Redis
bus, and runs strategy containers that trade an Alpaca paper account from them.

| component | state it keeps | operations | hard behaviour |
|---|---|---|---|
| **smoke container** `strategies/smoke` | bets table, durable fills ledger, in-memory streaks | place, capture fill, abandon, close, replace exit, reconcile at startup | crash between table, broker and ledger; lost and late orders; a cancel racing a fill |
| **reversion container** `strategies/reversion` | the same shape, held symbols excluded | as smoke, without re-submission of a lost exit | the same, and a lost SELL after `mark_closing` |
| **overnight-beta container** `strategies/overnight_beta` | positions table, slippage log, in-memory rebalance day | enter a basket, flatten at the open | a leg failing mid-basket; a crash between slippage log and flatten |
| **basket executor** `services/executor` | executor_state, orders_log, fills_log, the shared account | kill switch, EOD flatten, submit a basket once a day | a fault or restart between legs and between broker and database; stale order snapshot |
| **strategy core** `quantlib/strategy_core` | fills in memory and in the ledger, orders asked for | submit, poll, book, save, recover on restart, reconcile | a crash between broker and ledger; partial fills told of by four calls |
| **feature bus** `quantlib/bus` | Redis stream per symbol, schema keys, contracts, consumer cursors | publish schema then frames; poll, resolve, decode; gate a release | frame before schema, trimming, cursor moved before decode, a new release under a running consumer |
| **deploy queue** `ops/deploy_queue.py`, `ops/auto_deploy.py` | file queue, observed state | observe, enqueue, claim, deploy, drain | crash between claim and deploy; enqueue racing observe |
| **merge gate** `ops/ci_watcher.py`, `ops/ci_scope.py` | statuses and labels at GitHub, heads graded (in memory) | list, check out, run the suite, classify, post, label, merge | a push, a merge or a second watcher during an hour's suite; a noisy suite; death before the verdict |
| **its deploy watcher** `ops/ci_deploy.py` | state file, live tree, dashboard container | fetch, classify, pull, rebuild, consume | a merge between fetch and pull; a failed rebuild; death between truncate and write |
| **within-day deploys** `quantlib/features/within_day_*.py`, `hot_swap.py` | live tree, registry, job queue, trust records, leases | claim, gate, merge, reload, tripwire, roll back; lease, certify | swap raising half-way; another mover of the tree; a stalled agent |
| **ingestor** `services/ingestor` | trade/bar buffers, Postgres | buffer, flush, late rows | stop with queued messages; late trade after flush |
| **scheduler** `services/scheduler` | universe table | build the universe once a day | partial universe after a failure |
| **backfill manager** `services/backfill-manager` | corporate actions, refetch queue | upsert, refetch | crash between upsert and refetch |
| **feature engine** `quantlib/features` | ring buffers per symbol | incremental minute features | numeric; batch/live parity |
| **raw tape and backfill** `quantlib/data` | parquet files | write, compact | pure I/O |
| **trust lifecycle** `quantlib/features/trust_*.py` | trust records per feature | promote, demote, reset | parity evidence from several days |
| research (`experiments`, `harness`, `battery`), dashboards, kernels | | | not a reactive system |

How they interact: the feature engine publishes frames on the bus; strategy containers
poll the bus, and each talks to its own Postgres schema and to the one shared broker
account; strategy core is a library of the containers; the basket executor is a service
of its own on the same account; the deploy queue restarts all of them, at any point,
which is why every container is modelled with a crash between any two of its calls.

What makes each correct, in a sentence:

- *containers*: a bet buys once, sells what it bought once, and is closed in the book only
  when flat; the caps bound the real account; every bet ends.
- *basket executor*: at most one basket a day, no trading after the kill switch, flat
  after the close.
- *strategy core*: restart changes nothing: the state rebuilt from the ledger is the state
  lost, no order is placed twice, no fill counted twice.
- *bus*: a consumer decodes every frame it keeps with the schema it was published under,
  misses none while it keeps up, and never acts on another version of its feature.
- *overnight-beta*: one basket at a time, flat once the table says so, and measured.
- *within-day*: what is reported applied runs, what is reported rolled back is undone,
  one owner per group, no grant overwritten.
- *merge gate*: green is earned, TIER-2 is never merged by a watcher, every head is graded;
  a dashboard change that is merged runs.
- *deploy queue*: an observed commit is eventually deployed, the newest wins, once.

## 2. The modules

| module | question | state |
|---|---|---|
| `SmokeBets`, `RoundTrip` | the bet lifecycle between table, ledger and broker; it implements the abstract round trip | checked, proved |
| `BasketExecutor` | one basket a day, the kill switch and the fills log, between database and broker | checked, proved |
| `DeployQueue` | observe, enqueue, claim, deploy and relaunch, with deaths | checked, proved |
| `StrategyLedger` | submit, poll, save, reload, recover and reconcile: the ledger against the broker | checked, proved |
| `FeatureBus`, `FrameFeed` | schema before frames, cursors, trimming, a new release under a running consumer; it implements the abstract feed | checked, proved |
| `WithinDay` | claim, merge, swap, tripwire and roll-back beside the agents that own and certify groups | checked, proved |
| `OvernightBeta` | baskets entered at one auction and flattened at the next | checked, proved |
| `MergeGate` | grading, labelling and merging beside people who push, hold and merge | checked, proved |
| `SafeDeploy` | the state file, the live tree and the dashboard as main moves | checked, proved |
| `Origin` | origin/main, which `MergeGate` and `SafeDeploy` extend | |

`X.tla` is the component, `MCX.tla` with its `.cfg` files the instances TLC checks,
`XProofs.tla` its theorems (`SafeDeploy`'s are in `MergeGateProofs`, which composes the two).
Two abstract specifications are implemented: `RoundTrip` by `SmokeBets` and by `OvernightBeta`
(each checked and proved: one contract for a container that trades bet by bet and one that
trades baskets; it is parameterised by the sizes a trade may have, one lot for the first and
what an auction may fill for the second), and `FrameFeed` by `FeatureBus` (checked, and its
safety proved). `FeatureBus` composes publisher, Redis, gate and consumers; `WithinDay`
composes capture process, queue, tree and agents. `MergeGate` and `SafeDeploy` share origin/main
alone, which the second only reads: its `Merge` is any merge, the gate's or a person's, and
`GateAndDeploy` puts the gate in that place. Every type invariant is a theorem, and all but
`SafeDeploy`'s have no run of their own. The containers share the
broker account but no table, and each finds its own orders by client id, so composing two of
them adds nothing to what each does with the account; the executor, which closes *all*
positions, is the exception, and nothing in the code claims that it spares the containers
(section 11).

## 3. SmokeBets: the bet lifecycle

`strategies/smoke/{strategy,bet_store}.py`, `strategies/lib/stale_entry.py`, and `submit`
and `cancel` of `quantlib/strategy_core/paper_alpaca_executor.py`.

**State.** `status`, `qty`, `exitId` are the columns of the bets table that the code branches on
(`exitId` is the retry generation in `exit_order_id`); `ledger` is the durable fills table, `mem`
the in-memory copy `_book_fill` consults; `entry` and `exits` are the broker's orders, an exit per
retry generation, since each has a client id of its own, and `held` is what each bet's fills have
left in the account; `streak` and `pend` are the two trackers, which do not survive a restart.
`mode`, `pc`, `cur`, `todo`, `obs`, `retry` are the process itself: what it is about to call, for
which bet of the snapshot it listed.

**Steps.** One action per database or broker call; code between two calls belongs to one of them.
`Start` and `PickBet` are `run` and the loop of `reconcile_on_startup` / `manage_open_bets`;
`EntryNotFound`, `EntryFound`, `MarkAbandoned`, `MarkFilled`, `BookBuy` capture the entry
(`EnsureFindsNoFill` is that look-up finding nothing to sell, or failing); `CheckHold` to
`BookSell` are `_close_bet`, `_resubmit_lost_exit`, `_replace_stale_exit` and `_finalize_close`;
`GateRefuses`, `RecordOpen`, `SubmitEntry` place a bet. `CallFails`, `AppendFails`, the two
`LookupFails` and `Crash` may come at any call, `MaxFaults` times in all. The broker fills,
reveals, expires and rejects orders.

**What is left to the environment.** The gate's clock, cadence, kill-switch file and model
may always refuse; the caps are modelled. Prices are 1, so notional is a quantity. The
wall-clock half of the staleness thresholds is dropped: `MinChecks` and `PendChecks`
observations are what the proofs need. Three constants say how good the broker is:
`EntryLag` (not-founds a landed entry still shows), `ExitMayLag` (a landed exit may not be
visible yet), `StaleMayFill` (an exit may fill between being found stale and being
cancelled, or the cancel may fail).

| run | instance | shows |
|---|---|---|
| `smoke_round_trip` | 2 bets, 2 faults, good broker (242k states) | `NeverOversold`, `ClosedMeansFlat`, `LedgerIsReal` and the refinement `KeepsRoundTrip` |
| `smoke_live` | 1 bet of 2 shares filling in parts, 3 faults, lag 2 against 3 checks, lagging and late-filling exits (85k) | `AbandonedNeverLanded`, `LedgerFollowsTable`: what must hold whatever the broker does, and `BetsResolve` under fairness |

Two bets are enough for the loop over a snapshot, since bets share nothing but the process and
the caps; two faults reach a crash during the recovery from a crash. `smoke_live` was also run with
two bets filling whole and one fault (337k).

**Fairness.** The loop is `while True` in a container that restarts (`WF(Strategy)`, which
includes `Start`); the hold elapses; the broker fills and reveals what it holds. Nothing
else is fair: no placement is forced, no failure is excluded except by its bound.
`BetsResolve` is checked with `OrdersMayDie` FALSE, because an entry the broker ends
unfilled is found at every lookup, never captured and never abandoned: such a bet stays
open for ever and occupies a slot of the cap.

**Proved** (`SmokeBetsProofs`, for every number of bets, lot, cap and bound).
`TypeCorrect`. `LedgerNeverLeads`: `Spec => []LedgerFollowsTable` in every environment.
`AbandonIsSafe`: `[]AbandonedNeverLanded` if `EntryLag < MinChecks`. `ExitsNeverOversell`:
`[]NeverOversold` if `~ExitMayLag` and `~StaleMayFill`. None of these is inductive: what
an update does depends on where the process is and on what it read. The invariant
(end of `SmokeBets.tla`) says which columns are NULL in which status (`RowsConsistent`),
what the row at hand looks like at each call (`ControlConsistent`), that what is recorded is
at most what the broker filled (`FillsRecorded`), and then, under the assumption of each
theorem, that an entry about to be given up never landed (`GivenUpIsDead`) or that exits
before the stored generation are dead and those after it do not exist (`ExitsInOrder`).

Three more theorems are about orders that fill whole (`~PartialFills`), which the code presumes:
it records what it first finds filled and does not look again. `LedgerShowsRealFills`:
`[]LedgerIsReal` at any such broker. `ClosedBetsAreFlat`: `[]ClosedMeansFlat` if also `EntryLag <
MinChecks`. Both rest on `FillsWhole` (every recorded quantity is nothing or the lot) and
`SoldBeforeClosed` (a bet about to be closed, or closed with a fill, sold it under the stored
client id). `ImplementsRoundTrip`: `Spec => KeepsRoundTrip`, the refinement step by step, under
all four assumptions: an entry's fill is `Buy`, an exit's is `Sell`, `mark_abandoned` and
`record_close` are `Settle`, and every other step stutters. It needs the account as well:
`HeldIsNet` says that `held` is the entry's fill less the stored exit's, so the exit that fills
sells all there is and the row that closes holds nothing. Each assumption is needed: TLC violates
`NeverOversold` without the first two, `ClosedMeansFlat` without either of the others (section
11).

**Only model-checked**: `BetsResolve`.

## 4. BasketExecutor: the basket of the day

`services/executor/main.py`, with `DRY_RUN` false.

**State.** The three tables (`start`/`halted` = `executor_state`, `rows` = `orders_log`,
`fillsLog`, and the last `reconciliation_log` row as `report`); the account (`orders`,
`held`, `closing`); the clock, equity and latest prediction; and the local variables of one
cycle. Nothing in memory outlives a cycle, so a restart is a cycle abandoned
(`CycleAborts`, at any call). One variable is history: `lost`, the legs whose cycle died between
the submit and the UPDATE that records it (`main.py:268-275`).

**Steps.** A cycle is `BeginCycle` (clock, session state), `ReadPositions`, `ReadOrders`,
`Decide` (kill switch, then termination), `Flatten`, or `GatePasses` and per leg
`RecordIntent`, `SubmitLeg` / `SkipSubmittedLeg` / `SubmitRefused`, `ConfirmLeg`; then
`Sync` and `Reconcile` over the snapshots read at the start, which is the point: fills,
expiries and rejections come between any two of them. A client order id is a prediction and
a symbol.

**Left out**: candidate selection, sizing, prices and the drawdown estimate (`Basket` gives
each prediction its legs; the other refusals are `GateRefuses`), `pnl_daily`, dry run, the
fills-log rows of closing orders. `held` is a magnitude: a leg's side never matters to the
control. The last day of the model does not end, so that liveness asks for the flatten and
not for another morning.

| run | instance | shows |
|---|---|---|
| `executor_one_basket` | 2 predictions of one day, 2 legs each, lot 2, one cycle abandoned at any call, one refusal (1.55M) | `OneBasketADay`, `UnexpectedIsForeign` |
| `executor_live` | 2 days, moving equity, an acknowledgement may be lost (346k) | `NoEntryOnceHalted`, `FillsCountedOnce`, and under fairness `KillSwitchTrips`, `EndsFlat` |

Nothing keeps a cycle from dying between a leg's submit and its UPDATE, and the row then says
`intended` although the order is out: the next prediction of the day is traded too, and the
report calls that position unexpected. The two properties say that this one leg per dead cycle
(`lost`) is all there is to it: what the other legs entered is of one prediction, and whatever
else is reported as unexpected is not the executor's.

Two predictions with the same names in opposite order reach every mix of legs; lot 2 gives
partial fills; two days let a position, a halt and a stale snapshot cross midnight.

**Fairness.** The loop (`WF(Cycle)`), the session's clock (`SF(Midnight)`, which waits for the
cycle of the evening to end), and closing fills while the market is open.

**Proved** (`BasketExecutorProofs`). `TypeCorrect`. `HaltStopsEntries`: no entry on a halted day,
in any environment, from `HaltIsSeen` (before the decision the cycle's `halted` is the table's;
while it trades the day is not halted: only the decision of the same process sets it).
`OneBasket`: `[]OneBasketADay`, from `LandedIsTraded` (an order that landed has an acknowledged
row, but for the one whose UPDATE is next and those in `lost`) and `SubmittingOne`. `FillsOnce`:
`[]FillsCountedOnce` in any environment, from `FillsMatch`: a snapshot that shows an order
finished agrees with it for good, since quantity and timestamp of a finished order no longer
change (an expired order's key stays `submitted_at`). `ReportsAreForeign`: `UnexpectedIsForeign`,
from `LandedIsTraded` again and `UnlandedIsEmpty`: a name the report finds no acknowledged row of
has no order that landed, and one that never landed has filled nothing, whenever the positions
were read. None has an assumption on the environment. **Only model-checked**: `KillSwitchTrips`,
`EndsFlat`.

## 5. DeployQueue: the auto-deploy daemon

`ops/auto_deploy.py`, `ops/deploy_queue.py`, `ops/deploy_scope.py`.

**State.** A sha is the number of merges it contains; `touches[m]` is what `affected_services`
says of merge `m` (chosen when it is merged; no merge undoes another). `fetched` is the ref
`origin/main` of the live tree's repository, `head` the tree's HEAD; `state` is the state file
and `queue` is `pending.jsonl`; `running` is what each container was last built or started from.
`at`, `new`, `plan`, `batch`, `judged` (the ref the tree guard last read), `cur`, `failed`
are the memory of a process running `tick`: `Procs` may be several (a `--once` beside the
daemon). Three variables are history: `seen`, the greatest sha enqueued or taken for a baseline;
`skipped`, the merges that ended in a baseline, of which no entry is ever made; `dropped`, the
entries a process held when it died.

**Steps.** `Fetch`, then `FirstRun` / `NothingNew` / `Observe`, `Enqueue`, `Truncate` and
`Write` (`_write_state` opens the file with `"w"`, so it is empty in between), `ClaimBatch`,
and per entry `Defer` (loaded), `Blocked` or `Passed` (the tree guard: `Check` when it reads both
refs, `FailOpen` when it cannot and lets the entry through, `auto_deploy.py:119-120`), `Pull` /
`PullFails`, `Build` / `BuildFails`; `Finish` puts failures back. Queue operations hold a file
lock and are one step each. `Ripen` is the batch window; `Merge`, at any moment, and the three
steps of the relaunch belong to others. `Die` may come before any step of a tick: besides a
crash, the exceptions nothing catches (`TimeoutExpired` at `:221`, `RuntimeError` at `:93`).

| run | instance | shows |
|---|---|---|
| `deploy_queue` | 2 merges of any services at any moment, one service and the feature-computer, one death anywhere (232k) | `NothingLost`, `FcTreeIsGated`, `NoDoubleIntent`, and `EventuallyDeployed` under fairness |

The code does lose deploys, in two ways, and `Forgotten` names them: a batch claimed by a process
that dies with it, and a merge first seen after a death left the state file empty. `NothingLost`
and `EventuallyDeployed` say that there is no third. The guard judges the ref once and the pull
moves later, so `FcTreeIsGated` says of every change of the feature-computer's surface that a
pull brings that the ref the guard read did not have it yet, or that no ref could be read.

Two merges are the shortest history in which an entry is superseded, re-observed and
coalesced; services meet only in the queue and at the guard, and the safety properties were
also checked with two TIER-1 services (3.5M states).

**Fairness.** The polling loop goes on and the operator relaunches again and again (weak);
a fetch, a pull, the load check and a build that are tried for ever succeed again and again
(strong). Without the relaunch one TIER-2 merge blocks every service for ever, as the guard
intends.

**Proved** (`DeployQueueProofs`, for any services, merges, processes and deaths at any step).
`TypeCorrect`. `QueuedOnce`: `[]NoDoubleIntent`; the invariant adds that what one process holds
names a service and sha once. `OnlyTheRelaunchMovesFc`: `FcTreeIsGated`; `JudgedIsClean` is the
missing part: what a process about to pull has judged and the tree does not have yet crosses no
boundary, even if another process or the relaunch has moved the tree since. `OnlyDeathsLoseDeploys`:
`[]NothingLost`, which is not inductive by itself: `Consumed` says that what a tick is about to
enqueue covers every merge not seen yet, that what it is about to record was seen, and that what
it builds is as new as its entry; `HandsMatchStep` says which entries a process holds at which
step. That coalescing keeps one entry of each service needs a greatest sha of a set, proved from
the well-foundedness of strict inclusion (`Greatest`), as induction is not available. **Only
model-checked**: `EventuallyDeployed`.

**Left out**: `--dry-run`, the path-to-service map itself, paths mapped to nothing (only
logged), the audit log.

## 6. StrategyLedger: what was filled, and what is booked

`quantlib/strategy_core/{production_runner,production_state,production_execution,
paper_alpaca_executor,state}.py`. In the repository only tests drive the
`ProductionRunner`; the containers use the executor and the state store.

**State.** `order` and `filled` are the broker's view of each client id; `fills` is
`state.fills` summed per id, `ledger` the durable rows likewise, since nothing here tells two
fills of one id apart. `call` and `pc` say which method runs and where it is; `asked` are the
ids `submit_intents` returned, which survive a crash because they are a function of the
decision; `listed` is the `broker_fills` the caller passes to reconcile. Which of the two
backends the store was given is chosen at the start and never changes (`Rereads`: the Postgres
one returns its rows as new objects, `pg_ledger.py:63-84`, the dict the ones it was given). `extra`
is history: what each id has been booked of a second time.

**Steps.** `Load`, `RecoverOnRestart` per pending id and `Reconcile` are a restart;
`SubmitIntents` with `Submit`, of any ids, submitted before or not, and `Manage` with `Poll` or
`PollRaises`, alternate; `Book` is `apply_fill` with `append_fill`; `Save`, `AppendFill`, `Return`
end every method. An order fills in parts and dies at any time; `Crash` comes between any two
steps and loses memory. Sums of booked fills saturate at `Cap`.

| run | instance | shows |
|---|---|---|
| `strategy_ledger` | both backends, 2 ids of 2 shares, one error, two crashes (1.07M) | `NeverOverbooked`, `LedgerIsComplete`, and `FilledIsBooked` under fairness |

Neither backend nor caller is assumed to behave. Two things book a fill twice: `submit_intents`
books the whole fill of an id submitted again, and over Postgres `save` compares by identity with
rows that were read anew, and appends them all once more. `NeverOverbooked` says that what is
booked beyond the broker's fills is exactly of these two kinds (`extra`); `LedgerIsComplete` that
between two calls the ledger lacks nothing memory has, and over the dict has nothing more.

Two shares give a partial fill before the last, and `Cap` twice that tells a second booking from a
first; two crashes reach one during the recovery from another; two ids are needed for a method
that fails after it has booked one.

**Fairness.** `WF(Step)`: the process runs while it is up and is started again.

**Proved** (`StrategyLedgerProofs`, over either backend, for any orders, errors, crashes and
re-submissions). `TypeCorrect`. `CallsEndSaved`: `[]LedgerIsComplete`; the invariant `Saved` adds
that in mid-method the ledger lags memory only by the ids still to be saved. `PositionsAreReal`:
`[]NeverOverbooked`; `Real` adds that an answer not yet booked is at most what the broker filled,
and that the ledger leads memory by no more than what was booked again. **Only model-checked**:
`FilledIsBooked`.

## 7. FeatureBus: frames and the schemas they need

`quantlib/bus/{publisher,consumer,registry,codec,schema,view,compat}.py`,
`quantlib/features/bus_hook.py`, `ops/bus_compat_gate.py`.

**State.** A release of the feature-computer stands for its schema and fingerprint, a frame
for the release that made it. `stream`, `keys`, `contracts` are Redis; `confirmed` is
`_schema_published`, `left` the streams the minute has yet to reach, `thread` the hook's
thread; `approved` what the gate was green for. `contracts` holds the image each reader runs, which
is what its contract pins; `unchecked` is history: the pairs of a release started and a reader's
contract that no gate has compared. A reader has its place in the loop (`at`), the
streams it holds a cursor of (`reads`; the others are at `$`), the frames published since its
last read (`late`), the answer being decoded (`batch`), the views (`got`) and its registry.

**Steps.** `EnsureSchemaPublished`, `Publish` per stream, `PublishFails`; `Gate`, and `Relaunch`
on any release, past the gate or not (`nightly_relaunch.sh` calls none); per reader `Start` on any
image (its contract changes with it), `Poll` (which blocks if nothing is there: `Publish` wakes it
with that one frame), `PollTimesOut`, `Decode`, `FetchFails`, `Return`, `Crash`, and
`FeatureMissing`, the exception a view without the feature ends the process with. Streams are
trimmed exactly at `MaxLen`, so `late` saturates there. Left out: the hook's queue of minutes
(what it drops is never published), the 200-frame limit of an XREAD, the legacy poll,
`market_data` streams, value-identical bumps and the loss of Redis' data.

| run | instance | shows |
|---|---|---|
| `feature_bus` | one reader, two streams of two frames, three releases, two images, an error on either side, a relaunch, a crash (245k) | `FramesResolve`, `CertifiedValues`, and the refinement `ImplementsFeed` with its liveness |

`CertifiedValues` exempts the pairs in `unchecked`, and says that this is the whole of it: no
frame left in a stream by a release before, no restart of either side and no cached schema brings
a strategy another version. Readers do not interact, so one is enough. Release 1 adds a feature, 2
computes the reader's anew; two streams let a cursor exist while another does not; two frames per
stream are the least a lagging reader can have trimmed under it. The abstract `FrameFeed` says:
from the first frame a reader catches of a stream it is given every frame, in order and once,
while it is never `Kept` behind; what it is owed it is given; only a failed look-up may skip.

**Fairness.** `WF(Thread)` and `WF(Loop(r))`: neither the hook's thread nor a container's loop
ends.

**Proved** (`FeatureBusProofs`). `TypeCorrect`. `NoOrphanFrames`: `[]FramesResolve`, from
`Resolvable` (a confirmed release has its key; a thread that adds has confirmed).
`OnlyCertified`: `[]CertifiedValues`, for any order of gates, relaunches and new images, from
`Certified` (the release, the approved releases and every frame in Redis or in hand fit each
contract, but for the pairs in `unchecked`). `FeedIsKept`: every step
of the bus is one of the feed or leaves it alone, for any number of readers, streams, releases
and faults; the mapping counts what a reader is owed as what is late and what is in hand, and
the invariant `Quiet` says that a reader outside a poll holds nothing and one without a cursor
is owed nothing. **Only model-checked**: the fairness of the feed.

## 8. WithinDay: fixes to a running capture process

`quantlib/features/within_day_{deploy_queue,applier,deploy_run,live_wiring,version,trust,
assignment,monitor,run,scope_guard}.py`, `hot_swap.py`, `registry.py`, and `current_git_commit` of
`trust_policy.py`.

**State.** A commit changes one group, and a version of a group is the last commit that did; a
group stands for its features, which the code treats alike. `head` and `disk` are the live tree,
`running` the registry of the capture process, `cells` the version that emitted the settled
window; `status` and `fifo` the job table; `at`, `job`, `prior`, `before`, `outcome` the boundary
at work; `fpCommit` the `FP_GIT_COMMIT` of the capture process's container; `trust` the version a
TRUSTED group was granted on; `lock`, `fresh` the leases; `mon` each agent's run.

**Steps.** `Minute` emits and begins a boundary; `ClaimNext`, `Gate`, `Merge` / `MergeFails`,
`Swap` / `SwapRefused`, `Tripwire`, `CheckoutPrior`, `Reswap`, `Record`, `Reset` take one job
through. `Unexpected` and `SwapHalfDone` are exceptions: they end in the boundary's catch-all,
which records nothing, but for a `HotSwapError` raised after the reload (`hot_swap.py:133-138`),
which `apply_job` records as escalated with the new code running. `Restart` imports everything
from the tree, in a container as it was or launched anew; `PullTree` is anybody else's
fast-forward. Which groups' settled windows have slid past their swap is any subset. An agent
claims a lease (`ClaimLock`), watches (`Cycle`, `IdleCycle`), certifies (`Grant`, `Release`,
`ResetAfterCertify`) or gives up; `Stall` and `ReclaimStale` are the timeout.

The commit a roll-back checks out is fixed before the job is even claimed, as
`current_git_commit() or "HEAD"` (`within_day_live_wiring.py:213`): the `FP_GIT_COMMIT` the
container was started with, if it has one; else what git answers; else the literal word HEAD,
which git resolves when it checks out, after the job's own merge (`RollbackTargets`,
`CheckoutPrior`).

| run | instance | shows |
|---|---|---|
| `within_day` | 3 fixes of 2 groups enqueued in any order, one changing its feature set; an exception, a restart, a pull; every target of a roll-back (681k) | `RollbackRestores`, `AppliedIsRunning`, and `JobsResolve` under fairness |
| `within_day_agents` | 2 agents, 2 fixes, one stall (2.77M) | `LeaseIsHeld`, `GrantIsPermanent` |

So a roll-back may bring back nothing at all. `RollbackRestores` says what is left: if the commit
checked out does not hold the job's, the job reported `rolled_back` is out of the running code and
its group on what that commit held. `AppliedIsRunning`: a job reported `applied` runs, whatever
order the jobs came in and whoever else moved the tree, unless another job of its group was rolled
back or left `applying` and so left the group's file behind HEAD (`LeftBehind`). `JobsResolve`:
every job is concluded or left `applying`, and what leaves one is an
exception or a restart, one job each, or a roll-back onto another feature set.

A group with two commits around one of another group reaches a merge that brings a foreign
commit and a roll-back under it; two agents are a stalled owner and the one that overtakes it.

**Fairness.** Minutes keep coming (`WF(Minute)`) and the seam runs to its end inside the
capture loop (`WF(SeamStep)`). No agent and no enqueue is forced.

**Proved** (`WithinDayProofs`, for every number of commits, groups, agents, exceptions, restarts,
pulls and stalls). `TypeCorrect`. `RollbacksRestore`: `[]RollbackRestores`; from the checkout to
the reload, if the target does not hold the job's commit, the group's file differs from HEAD and
from every later commit, so git refuses any fast-forward over it (`RolledBack`). `AppliedJobsRun`:
`[]AppliedIsRunning`; a group's file is HEAD's unless the checkout of another job left it behind,
and from the swap to the verdict the job's commit runs unless the file lacked it (`AppliedInv`).
`LeasesHold`: an agent never too late with its heartbeat owns a fresh lock. `GrantsArePermanent`.
None has an assumption on the order of jobs or on other movers of the tree. That a group's version
in a commit exists is proved from the well-foundedness of strict inclusion (`Last`). **Only
model-checked**: `JobsResolve`.

## 9. OvernightBeta: two auctions

`strategies/overnight_beta/{strategy,position_store}.py`, `strategies/lib/stale_entry.py`, and
`submit` of the executor.

**State.** `status`, `qty`, `exitId` are the positions table; `closeRows` and `openRows` count
each leg's rows in the slippage log; `ledger` and `mem` are the booked client ids; `entry` and
`exits` the orders; `basket` the last basket decided and `streak` the tracker of not-founds.
`_last_rebalance` is in memory only, so any day may be a rebalance day.

**Steps.** One per database or broker call, in the order of the code: `EntryNotFound`,
`EntryFound`, `MarkAbandoned`, `MarkEnteredFill`, `LogClose`, `BookEntry`, `MarkExitSubmitted`,
`SubmitExit`, `FetchExit`, `LogOpen`, `RecordFlatten`, `BookExit`, then `Decide` or `Refrain`, and
per leg `RecordEnter` and `SubmitCloseAuction`. `LookupFails`, `FetchFails`, `CycleFails` and
`Crash` come anywhere, `MaxFaults` times in all; the broker may refuse an order, which is only
logged. An auction prints once: an order fills, whole or in part, or expires. A flatten filled in
part is recorded as any other, since `_capture_flatten` looks at the price and not at the quantity
(`strategy.py:366`), and what it did not sell stays in the account when the row closes
(`PartlySold`). Days, the beta model, prices and P&L are abstracted: whether to enter, and what,
is any choice the cap allows.

| run | instance | shows |
|---|---|---|
| `overnight_beta` | a basket of two names and one of one, lots of 2, 2 faults (491k) | the refinement `KeepsRoundTrip`, `FlattenedIsFlat`, `OneBasket`, `FlattenedIsMeasured`, and `LegsResolve` under fairness |

Two baskets are the least that can overlap, and two names the least that leave one lopsided. A lot
of two fills in part at either auction. What a partial flatten leaves behind is exempted by name:
`Held(l)` is the net of the leg's orders, and nothing once its flatten has filled in part;
`FlattenedIsFlat`, `OneBasket` and the refinement speak of `Held`, so they say that no other way
leaves the account with shares of a closed row. `EntryLag` 1 under `MinChecks` 2 is the assumption
that the broker shows a landed entry before the container gives it up.

**Fairness.** The loop and the container's restart (`WF(Strategy)`), a cycle that finds the
market open again and again (`SF(BeginCycle(TRUE))`), and each leg's auctions.

**Proved** (`OvernightBetaProofs`, for any legs, lot, cap and faults, if `EntryLag < MinChecks`).
`TypeCorrect`, `ClosedLegsAreFlat`, `OneBasketAtRisk`, `FlattensAreMeasured`, all from one
invariant: a leg is abandoned only if its entry never landed, a flatten is for the whole fill and
there is one (`LegInv`); what each step may rely on of the row at hand (`StepInv`); the legs still
entered are of the basket decided last (`BasketInv`). `ImplementsRoundTrip` maps a leg to a trade
of whatever size its closing auction fills: that auction is `Buy`, the opening auction `Sell`
(whole, or in part with the rest left behind), the row's last status `Settle`. The invariant gives
it that an entry still to be auctioned has bought nothing, and that the one exit is for all of it,
so that no second auction sells of it. **Only model-checked**: `LegsResolve`, which exempts the
legs of the last paragraph of section 11 by name (`Stuck`).

## 10. MergeGate and SafeDeploy: from push to container

`ops/{ci_watcher,ci_deploy,ci_scope}.py`, supervised by `ops/ci_watcher.sh` and
`ops/ci_daemon_guard.sh`.

**State.** At GitHub: `main`, a surface per merge; `pr`, each pull request's state, head and
labels; `commit`, what each push changes, the main it is based on and what is wrong with it;
`status`. A watcher has its step `at`, the listing it works through (`todo`, `cur`: number,
head and `no-auto` as listed), its two verdicts `green` and `tier2`, and the heads it has
`graded`, in memory only. The deploy watcher has the state `file`, the two shas it compares,
the live `tree` with what it last `fetched`, and `dash`, the sha the dashboard was built from;
`pinned` is what the last relaunch left in the tree.

**Steps.** `List`, `Begin` (the pending status), `CheckoutFails`, `Suite`, `Post`, `Label`,
`AutoMerge`: one per call of GitHub, with people pushing, holding and merging in between.
`MergeOther` is the merge of a pull request that is open only between two polls, so that main
moves under one that is being graded. `FpJob` is `_run_fp_job`: what the parallel run, the serial
one and the isolated one make of a failing test, an erring fixture, a flake and a crashed worker.
`Tiers` is `classify`: by path, with a change of no path at all gated (`ci_scope.py:114-121`), and
by the fingerprints of the head and of main's tip, which may differ only because main moved
(`MovedSince`). `flaked` is history: the heads some suite of which was noisy. `FingerprintFails`
is the exception of a registry that cannot be imported. `Refused` is a status, label or merge
GitHub refuses, which the code logs and passes over. `SafeDeploy` has a step per git or docker
command and two for `open(path, "w")`. Which paths are in which tier is a surface of the commit;
the other jobs, the coverage audit and the comment add no state.

| run | instance | shows |
|---|---|---|
| `merge_gate` | a pull request of either tier pushed twice, a merge beside it, any one defect, one death, timeout or failed checkout, one refusal (1.84M) | `SuccessIsEarned`, `GradedMergesAreSafe`, and `HeadsAreGraded` under fairness |
| `safe_deploy` | three merges of any kind, the empty one too, two faults, a relaunch (144k) | `ConsumedIsRunning`, `DeployTypeOK` (shas in order), and `DashboardFollows` under fairness |

A green head is `Earned` when none of its tests fails and no fixture of it errs, but for an error
passed over beside a flake: the code forgives that one (section 11), and nothing else.

Two pushes are the least with one graded over; one merge beside moves main and its fingerprint
between the judgement of a tier and the merge. Two merges are the least that are consumed
together, three the least with one more during the pull. What several watchers and pull requests
do to one another is in the theorems. A `git diff` that fails in the watcher's own clone is read
as empty, hence gated: it is not modelled. `HeadsAreGraded` presumes `Served`: GitHub refuses no
call and no registry breaks (section 11: a head that cannot be imported kills the daemon, so it is
not promised to be graded); and there is one daemon, for a `--once` that dies after its pending
status leaves it pending.

**Fairness.** `WF(Watch(w))` of a daemon and `WF(Poll)`: both loop for ever under a wrapper that
restarts them. No person is obliged to anything.

**Proved** (`MergeGateProofs`, for any pull requests, watchers, pushes and bounds). `TypeCorrect`.
`GreenIsEarned`: `[]SuccessIsEarned`, and `MergesAreSafe`: `GradedMergesAreSafe` (a watcher that
merges the head it graded merges no TIER-2, no empty diff and nothing that has not earned its
status). The invariant: what is listed or at hand was pushed (`Hands`), so a later push does not
touch it; from the suite to the merge a green verdict is earned and TIER-2 is known as such
(`Verdicts`), which a merge beside cannot undo; that the re-runs forgive nothing that fails alone
is `FpJobSound`. Of `SafeDeploy`, for any merges, faults and relaunches: `DeployTypeCorrect`, and
`ConsumedRuns`: `ConsumedIsRunning`, from `AboutToConsume` (a build comes after the pull that
brought what was classified; a sha about to be written is vouched for, and stays so because `main`
only grows). `GateAndDeployKeep` is about the two on one `main`, each step of either leaving the
other's variables alone: every step of the gate leaves `main` or appends one merge to it, which is
a step `SafeDeploy`'s environment has, so both keep what they keep alone. It has no run of its
own. **Only model-checked**: `HeadsAreGraded`,
`DashboardFollows`.

## 11. What the models found

What the code does not keep is listed here with how to see it: a property defined in the module
that no run checks, a constant to change, or an exception of a checked property to drop.

*Smoke.* With `StaleMayFill` or `ExitMayLag` TRUE `NeverOversold` fails: a replaced exit that
fills, or one that has landed but is not yet visible, is followed by a second SELL. A fill
captured just before a crash never reaches the ledger: the bet is past the step that books it
(`CapturedIsBooked`). An entry captured while it is still filling is recorded with what it has
filled so far, and the rest, bought later, is never sold; an exit that has sold some is finalised
and booked as if it had sold all (`ClosedMeansFlat`, `LedgerIsReal` with `PartialFills` and `Qty`
2). A partially filled entry counts against the notional cap with what it has filled, so the rest
may exceed it (`ExposureCapped` with `PartialFills`). An entry the broker ends unfilled never
leaves the table.

*Executor.* `traded_today` (`main.py:235`) counts no row still `intended`, and the UPDATE that ends
that follows the submit: when the cycle dies in between, the next prediction submits a second
basket of the day, where `:437` says "one basket/day", and the executor's own position is reported
as unexpected (`OneBasketADay` and `UnexpectedIsForeign` without their exception `lost`). A refused
leg is reported as ok (`LopsidedIsReported`). `close_all_positions`
acts on the whole account, the containers' included.

*Deploy queue.* A process that dies while it applies loses its claimed batch, where
`observe_and_enqueue` says that "the queue now owns the deploy intent", and a death between
truncating and writing the state file makes the next tick a first run, so that merges not yet
observed are never enqueued (`NothingLost` and `EventuallyDeployed` without `Forgotten`). A merge
between the guard's look at the ref and the pull brings the feature-computer's tree along, as does
a pull whose guard could read no ref and let it pass (`FcTreeIsGated` without `judged`).
`drain_coordinated`, which nothing calls, would also drop an entry enqueued after the relaunch
brought the tree current; the batch window runs per entry, so a burst may be two rebuilds; a
`--dry-run` tick claims ripe entries as a real one does; `PATH_SERVICE_MAP` knows no path under
`strategies/` or `quantlib/strategy_core`.

*Merge gate.* `auto_merge` (`ci_watcher.py:804`) does not name the head it graded, so one pushed
during the grade is merged with no status, where `:18` says "if green AND TIER-1"
(`AutoMergesAreGraded`). A test whose fixture errs has no FAILED line, so a flake beside it that
passes alone makes the job green (`GreenIsClean`; `Earned` allows this and no more). The pull of a
dashboard deploy (`ci_deploy.py:130`) moves the tree that `ci_daemon_guard.sh:34` calls "PINNED at
a controlled SHA" (`TreeIsPinned`). A head whose registry cannot be imported, or such a main,
raises in `fingerprint_in`, which nothing catches: the daemon dies on it at every restart, the
status stays pending, and what is listed after it is not graded (`HeadsAreGraded` without
`Served`). A status GitHub refuses is logged and the head remembered as graded; a merge that fails
is not tried again. `no-auto` is read at the listing, so a hold during the suite comes too late. A
pull request based before a merge that moved the fingerprint is gated until rebased. The deploy
watcher looks at the whole range since its last sha: a dashboard merge found together with a
TIER-2 one is consumed and never deployed (the exception of `ConsumedIsRunning`), and one made
during the pull is built twice. A death between truncating and writing the state file makes the
next poll a first run (`DashboardFollows` with `DiesWriting`).

*Strategy ledger.* A re-submitted id is answered with its cumulative fill, which is booked
again; over the Postgres backend, which returns its rows as new objects, `save` appends every fill
once more at the end of every method (`NeverOverbooked` without `extra`, `LedgerIsComplete` without
`Rereads`). An order canceled or expired after a partial
fill is not booked by `manage` nor by the recovery query, and an id partly booked is skipped by
recovery, which leaves it to the next `manage`. A refused id stays among those `manage` polls
and its `KeyError` ends every cycle there. The broker's list may be only its first page; a
split scales the position and not the ledger it is recomputable from.

*Bus.* A reader's `"$"` is resolved anew by every XREAD, so a stream that is not the first to
answer may never be served, though the consumer promises frames "published after it connects"
(`StreamsAreServed`; releases `{0}`, all bounds 0). A Redis error in a schema look-up drops what
the poll had decoded and the frame the cursor has passed. `UnknownSchema` is caught nowhere. A
release started without a green gate, as `nightly_relaunch.sh` does, or a strategy whose contract
changed since the gate compared it, reads another version of its feature by name
(`CertifiedValues` without `unchecked`); one that has no such feature ends the process with
`MissingFeature`. If Redis loses its data, the publisher's flag still says the schema is there. A
confirmation that fails kills the hook's thread.

*Within-day.* `within_day_deploy_run.py:88` and `:114` say of a roll-back that the old code is
back. The commit it checks out may hold the job's own: with neither a variable nor an answer of
git it is the literal HEAD, which the merge has moved by then, and after a relaunch an
`FP_GIT_COMMIT` may be newer than a job that was still queued. Then the new code stays, reported
`rolled_back` (`RollbackRestores` without its condition on `prior`). Nor need the target be what
the group ran before (`RolledBackIsRestored`). Trust is hashed from the file on disk, which
another group's merge may have moved (`TrustFollowsRunning`). The tripwire compares cells the old
code emitted, so a fix that mends the streaming side is rolled back (`RightFixIsKept`). The
catch-all of the boundary records nothing, and the job stays `applying`. A reload whose check
fails after it took place is recorded `escalated` with the new code running. A roll-back leaves
the file dirty, so the group's next fix fails to merge; and one whose commit HEAD already holds is
reported `applied` while the file rolled back goes on running (`AppliedIsRunning` without
`LeftBehind`). `within_day_assignment.py:8` says a deploy checks that the lock is held; none does.

*Overnight-beta.* A flatten filled in part closes the row with the rest still held, and books P&L
and ledger as if all had been sold (`FlattenedIsFlat` with the net instead of `Held`). A flatten
that is refused or expires is never sent again: the leg stays `entered` and blocks rebalancing for
good, as does an entry that expires unfilled. A crash between two writes duplicates the open
auction's slippage row, or loses the close's and the ledger entry. A crash inside a basket leaves
it lopsided; one after it forgets the cadence. A look-up that fails does not reset the streak of
not-founds, though `stale_entry.py` says it does.

## 12. What is not modelled

Every component is in `PROJECT.json` with its status. The feature engine and its groups, the Rust
kernels, the backtest executor and the research code are numeric and sequential, over
floating-point data; the raw tape is file I/O; dashboards are views. The reversion and the
crypto-momentum container are copies of the smoke container's code with fewer recoveries: what
they share is in `SmokeBets`, and what they lack would show as its failures. The ingestor,
scheduler and backfill manager are single loops whose one hazard each is visible in one function
and about which nothing is promised. Promotion of a feature's trust is one daily decision by one
writer; what deploys and agents do to trust is in `WithinDay`. `nightly_relaunch.py` is a
sequential script; the relaunch is an environment action of `DeployQueue` and `SafeDeploy`.

Out of the prover's reach, and left to TLC: liveness under fairness, `ENABLED`, and induction
over data, so what a recursive definition computes for every input. No module proved about
declares a recursive operator.
