# A verification project for the TradeMetrix terminal

TLA+ models of the trading core of the TradeMetrix API (`src/apps/api`), checked with TLC,
with proofs checked by TLAPS: the order manager, the brackets that protect its fills, the
pipeline that books them, the paper broker, the strategy runtime that trades, its emergency
stop, and the breaker in front of every broker. The question behind it is the one the code's
own comments return to most: can one logical order become two live positions, can an order
or a fill be lost or counted twice, and can the system believe something about itself that
a broker, a row or a running task contradicts?

`PROJECT.json` lists components, runs, mutants, the map from definitions to source lines,
findings, hazards and theorems. Paths below are relative to `src/apps/api`.

## 1. The system

### Components, their state and how they interact

| Component | State | Operations | Hard part |
|---|---|---|---|
| **OMS** `oms/` | `_orders`, `_completed`, brackets, OCO pairs (memory); Redis list `oms:order_queue`; rows in `oms_orders` | `place_order`, `cancel_order`, `modify_order`, `retry_order`; loops `_process_queue`, `_reconcile_loop`, `_bracket_loop`; `_recover_active_orders` | four kinds of coroutine write the same `OmniOrder` over awaits; restarts; lost answers |
| **Reconciliation** `oms/reconciliation.py` | none | lookup by correlation id, attribute scan, verdict | absence is not evidence until it has been observed often enough |
| **Execution pipeline** `execution/` | `orders` table, adapter cache | validate, risk, insert, POST, update | the claim (insert) and the POST are two steps; transport errors say nothing |
| **Trade pipeline** `execution_engine/` | ledger, positions, FIFO lots, checkpoints | events from OMS and paper broker to trades to positions | duplicate and reordered events; checkpoint order; crash |
| **Risk, kill switch** `risk/` | stop flags (memory, Redis, audit), usage | check, trigger, release, recover | check-then-act; a stop that must survive partial failure |
| **Strategy runtime** `strategy_runtime/` | workers, queues, registry rows | start, pause, stop, tick, candle, recover | pause against an evaluation in flight; restart |
| **Paper broker** `paper/` | orders, positions, margin | place, restore | margin check over awaits; restore against live fills |
| **Broker layer** `brokers/`, `core/resilience.py`, `core/ratelimit.py` | sessions, breaker, budgets | calls behind breaker, limiter and token refresh | concurrent trials; stale evidence from an open breaker |
| **Signal fan-out** `broker_connect/` | claims per signal and user | dispatch | claim used up by a skip |
| **Square-off** `application/services/squareoff_service.py` | `_fired` | minute loop | fire once, at the minute, across restarts |
| **Market data** `market/` | feed tasks, subscriptions, candles | start, stop, reconnect | two feeds for one broker |

A request enters through a route, the gate (`engine/gate.py`) or a strategy worker and
reaches `OrderManager.place_order`. That saves the order (`oms_orders`) and pushes its id to
Redis. The worker pops it, marks it SENT and calls `ExecutionManager.place_order`, which
validates, inserts the audit row (`orders`, unique on `user_id, client_order_id`) and calls
the broker. The answer comes back as a state of the order; a lost answer stops it in
UNKNOWN. The reconciler asks the broker about orders in doubt and compares open orders with
the broker's book. Order events feed the trade pipeline, which feeds positions and risk.

### What makes each part correct

* OMS and execution: at most one broker order per logical order; every broker order has an
  audit row; a fill is reported only when it is one and is never written over; an order in
  doubt is resolved by the broker's word; nothing is stranded.
* Brackets: one exit per fill; a fill stays protected until its exit is placed; a crossed
  level is acted on whatever other symbols do.
* Trade pipeline: lots, quantity and cash agree with the trades taken in; first in, first
  out; a process that began with the stored checkpoint never loses a trade of it, whatever
  write fails; each fill is counted once.
* Paper broker: holding, cash, margin and listing agree with the fills, however often the
  memory is rebuilt and whatever order fills and rebuilds come in.
* Strategy runtime: record, worker and checkpoint agree; a worker that was told to be quiet
  gets at most the evaluation that was under way; a restart brings back what was saved.
* Kill switch: a stop that was accepted holds until it is released, across a restart.
* Breaker: it opens after a threshold of failures in a row, whatever order concurrent
  outcomes arrive in, and closes again once the broker stays healthy.

The hazards behind these are listed in `PROJECT.json` at the line where each bites. Those
without a property carry a note that says why.

## 2. Modules

| Module | What it is |
|---|---|
| `OrderStates` | states, `OMS_STATE_TRANSITIONS`, `can_transition`, terminal, active and recoverable sets |
| `Reconciliation` | the decision table of `OrderReconciler.reconcile` as an operator on two lookup results |
| `OrderManager` | the order lifecycle: requests, worker with the execution pipeline under it, reconciler, broker, restart |
| `OrderOnce` | the abstract promise: unclaimed, claimed, live, over; each step once |
| `Brackets` | the automatic brackets: attach, deactivate, monitor loop, exits, restart |
| `FifoLots` | `execution_engine/fifo.py` as operators on sequences |
| `Sums` | what a replay adds up: `Total` of a sequence of numbers, `Joined` of a sequence of sequences, as recursive functions; used by `FifoLots`, `TradePipeline` and `PaperBroker` |
| `TradePipeline` | reports of fills, ledger, position book, checkpoint, restore; uses `FifoLots` |
| `PaperBroker` | the simulated broker: orders, lock, account, rebuild from the `orders` table |
| `StrategyRuntime` | lifecycle calls of a strategy, its workers, checkpoint, recovery, the user's emergency stop |
| `CircuitBreaker` | the breaker of `core/resilience.py` under concurrent calls |
| `MC...` | values of the constants for TLC |
| `..._proofs` | theorems and proofs of the module of that name; `OrderMoves_proofs` goes on from `OrderManager_proofs`, `Sums_proofs` holds what the trade pipeline and the paper broker need of sums and of induction |

The modules are composed where components share state: `OrderManager` holds worker,
pipeline, reconciler and broker; `TradePipeline` takes fills as the OMS and the paper broker
publish them. `Brackets` sees of the OMS what it is told: an order is found FILLED, a cancel
is acknowledged, an exit is queued or refused.

**In all modules** the process runs on one asyncio loop, so coroutines interleave only at
awaits. An action is the code between two awaits with the effect of the awaited call that
resumed it. A crash takes what is in memory; `crashes` bounds it. Environment events and
faults of a run are the members of `Events`.

## 2.1 The order manager

### State

`mem` is the `OmniOrder` objects, `known` the keys of `_orders`, `row` the table
`oms_orders`, `queue` the Redis list, `audit` the `orders` table, `posts`, `brk` and `shown`
the broker. `ppc`, `wpc`, `rpc` and `upc` are the await at which a coroutine is suspended,
the other variables what it carries over that await. `crashes` and `absences` are history.

### Grain of atomicity

A `save_order` is two things at two moments: the snapshot (`model_dump` before the
await) and the write, so a save can land after the object has moved on; this is what the
`wsnap`, `rsnap` and `usnap` variables are for.

### Actions and code

| Actions | Code |
|---|---|
| `Place`, `PlaceQueued`, `PlaceSaved`, `PlaceEnqueue` | `OrderManager.place_order` |
| `Dequeue`, `SentSaved` | `_process_queue` up to `ExecutionManager.place_order` |
| `Refuse`, `Unavailable`, `Admit`, `Duplicate`, `InsertFailed` | `ExecutionManager.place_order` before the POST |
| `Post`, `Answer`, `AnswerLost`, `AnswerDropped` | the adapter's `place_order` and the four ways it ends |
| `WorkerSaved` ... `RetryQueued` | the saves and requeues that end an iteration |
| `Cancel`, `Unqueue`, `CancelReaches`, `CancelAnswered`, `CancelDropped` | `cancel_order`, `order_queue.remove` |
| `Modify`, `ModifyAnswered`; `Retry`, `RetryRefused`, `RetryPushed`; `RequestSaved` | `modify_order`, `retry_order`, the save of a request |
| `PassBegin`, `Investigate`, `Marked`, `Correlate`, `Scan`, `Verdict...` | `_reconcile_unknown_once`, `_reconcile_one_unknown` |
| `FetchBook`, `ApplyRemote`, `PartialSaved`, `ClosedSaved`, `Closed`, `BookDone` | `_reconcile_once`, `_apply_remote_status` |
| `BrokerShows`, `BrokerMoves` | the broker and the exchange (external) |
| `Restart` | the process dies; `start` runs `_recover_active_orders` |

### Abstractions

* What tells orders apart is what the reconciler's attribute scan compares, in three values:
  `contract`, `terms` (side, type, product, expiry, strike, option type) and `quantity`.
  `Expected` is what the local order says of itself, `Listed` what the broker lists; the two
  may differ, and a local attribute may be `Unnamed`, which `attributes_match` skips. Price
  is not compared by the code and not modelled. Whether an older or newer order alike falls
  in the scan's time window is a free choice, which over-approximates the window.
* Quantities are not counted. A partial answer leaves a remainder, or calls the whole
  quantity partial (the answer "whole"). `modify_order` may set the local quantity to
  anything, so with it a partial answer may end either way (`Partly`) and the quantity tells
  the scan nothing (`Compared`).
* The grace period of NOT_FOUND is a free boolean. `absent` and `absences` stop counting at
  the threshold, with which they are only compared.
* An item that is not due is pushed back by `dequeue`. Instead of rotating the list forever,
  `Dequeue(i)` takes the first item behind any number of delayed ones; a delay that has
  elapsed is a delayed item taken. While the worker holds such an item `remove` misses it.
* The re-POST after an expired token follows a definite refusal and is part of `Post`.
* A transient error code arises only before the insert (BROKER_UNAVAILABLE): the adapters
  return none of the transient codes once they have sent a POST.
* `load_order` is merged into `Dequeue`, a broker lookup into the step that reads it, the
  `remove_order`, `pop` and mirror of a closed order into one step. Each pair touches
  disjoint state or commutes with every step that can fall in between.
* One user, one broker, one request at a time on one order.

## 2.2 Brackets (`oms/manager.py`)

`entry` is where an order stands, `cancel` a `cancel_order` under way for it, `bracket` the
entry of `_bracket_orders`, `row` its row in `oms_bracket_orders`, `price` what a quote says
of its levels. `mon`, `todo`, `exit`, `tries`, `refused` are the monitor's pass. `working`
counts the exits that were queued and not refused; `exited` and `revoked` are history.

| Actions | Code |
|---|---|
| `Fill`, `Attach`, `AttachSaved` | the worker or the reconciler finds an order FILLED; `_attach_auto_bracket` and its save |
| `Cancel`, `CancelAnswered`, `Deactivate`, `CancelSaved` | `cancel_order` down to `_deactivate_bracket` |
| `Pass`, `PassEmpty`, `Quoted` | `_bracket_loop`, `_evaluate_brackets` before and after the quotes |
| `ExitQueued`, `Fallback`, `Noted`, `ExitSaved` | `_place_exit` |
| `ExitRefused` | the worker or the broker refuses an exit (`_process_queue`) |
| `Move` (external), `Restart` | the market; `_recover_active_orders` |

Levels are abstract: a quote is inside, beyond the stop, beyond the target, or there is none.
Sources and cache of quotes are left out, as is a load of the brackets that fails at start.
`Move` concerns active brackets only; the quote of one that a cancel deactivated while the
monitor waited for it may say anything (`Answers`), since `_evaluate_brackets` does not look
at `active` again. `retry_order` of an order that is FILLED already would have it answered
from its audit row as FILLED and attach a second bracket. Nothing in the repository calls
`retry_order`; this module leaves it out.

## 2.3 The trade pipeline (`execution_engine/`)

The bus dispatcher does not suspend until its queue is empty, so a report runs through
ledger, position, P&L and snapshot uninterrupted: `Take` is that chain. Persisting is a task
of its own: `tasks` not yet run, `waiting` the dumps at the lock (FIFO, holder first), `step`
the holder's upsert. `row` is the user's row of `execution_checkpoints`, whose primary key
(`user_id, kind, key`) makes it the only one. `async_safe_execute` swallows every failure, so
a select that fails reads as "no row" and leads to an insert, which the key refuses when
there is a row; an update or insert that fails is forgotten; a restore that cannot read takes
the checkpoint for none. Two observations tell these cases apart: `missed`, the last upsert
wrote nothing, and `start`, how the process began: "clean" with what was stored, "blind"
without having read it, or "raced", when a fill was booked before the restore, a background
task, replaced the book.

| Actions | Code |
|---|---|
| `Fill` | a broker executes; each producer publishes (`_publish_event`, `bridge_legacy_events`) |
| `Take` | `TradeManager._on_order_event`, `TradeLedger.add`, `PositionManager._on_trade_event`, `FifoLots.apply` |
| `Dump`, `Select`, `Write` | `persist_engine`, `SupabaseCheckpointStore.upsert` |
| `Crash`, `Load`, `Restore` | `_startup_engine_recovery`, `restore_user_state` |

A lot of quantity n is n units at its price, so a book is two sequences of prices. `trades`
in a book is history: what the book was made from. One symbol of one user; quantities are
whole, prices naturals. The digest that skips an unchanged state never skips one (`saved_at`
is part of it), so it is left out; it is also what keeps a failed write from being tried
again before the next fill.

## 2.4 The paper broker (`paper/paper_broker.py`)

`pc` is the await at which `place_order` stands, `queue` the positions lock, `position`,
`total` and `used` the account, `listed` the dictionary `_orders`, `rows` the FILLED rows.
`ready`, `synced` and `costed` say which rebuilds have run: a connect has returned, the
memory was built since the start, the account was made whole after its last reset.

| Actions | Code |
|---|---|
| `Place`, `Check`, `Price`, `Commit` | `place_order`: delay, `_check_margin`, quote and `simulate_fill`, critical section |
| `Cancel` | `cancel_order` |
| `Connect`, `Restore` | `connect` with `_reset_account`; `_restore_positions_locked` |
| `Crash` | instances live in memory |

A position keeps the money of its legs, which is the code's average times its quantity.
Available margin is always the difference of two others. Rows come back in the order of
`created_at`, which is that of `Detail`, not that of the fills. An order that is not filled
at once stays pending for ever, as in the code: nothing looks at it again.

## 2.5 The strategy runtime (`strategy_runtime/`, `risk/kill_switch.py`)

`state` and `worker` are the record; `rt` the worker objects (fed by the dispatcher, allowed
to evaluate, phase of their task, queue); `task` the lifecycle calls under way; `checkpoint`
the stored row; `emergency` and `stored` the user's stop in memory and in Redis. `late`
counts orders past the gate of a worker that may not evaluate; `overlapped` says that two
calls were at work at once; `missed` that the last write of the row failed, or that the
recovery could not read it. These three are observations. `Store` is a save or a delete of
the row, whose failure (event `store`) is logged and forgotten. A worker whose code did not
load is "unloaded": attached to its record, without a task. `Leaves` is the end of a worker's
task, after which only a dry run may still hold the object.

| Actions | Code |
|---|---|
| `Start`, `Guard`, `Loaded`, `LoadFails`, `Saved` | `start_strategy`, `_guard_start`, `_start_running`, `StrategyStateStore.save` |
| `Stop`, `Restart`, `Halted`, `Removed` | `stop_strategy`, `restart_strategy`, `_halt_worker` |
| `Pause`, `Resume` | `pause_strategy`, `resume_strategy` |
| `Engage`, `Engaged`, `Release`, `Released` | `emergency_stop` and its release |
| `Tick`, `Take`, `Evaluate`, `Evaluated`, `Gate`, `Placed` | the dispatcher; the worker from tick to order |
| `Fail`, `Failed`, `Ended` | the error limit with `_on_worker_failed`; the cancelled task |
| `DryRun`, `DryRunEnds` | `manual_evaluate`, which holds the evaluation lock |
| `Crash`, `Recover` | restart; `RuntimeRecovery.recover`, which finds no rows in a store it cannot read |

A tick stands for one that closes a candle. The error limit is a free choice of when an
evaluation fails. `Resume` asks the transition table only, as `resume_strategy` does, so it
also takes a strategy out of STARTING. One strategy: records of different strategies share
nothing but the stop.

## 2.6 The circuit breaker (`core/resilience.py`)

`state`, `failures`, `opens` are the breaker's fields; `running` the calls that await the
broker without the lock; `elapsed` whether the recovery timeout has passed. `Admit`,
`Succeed`, `Fail` and `Abandon` are the parts of `call` under the lock and a cancelled
caller, `Elapse` the clock, `Broker` the broker. Time is the one bit `elapsed`; the length
of the backoff is its level, capped at the level at which the code's maximum applies.

## 3. Runs

| Run | Bounds | Shows |
|---|---|---|
| `OrderFaults` | 1 order, threshold 3, 3 retries, 2 restarts; crash, lost and dropped answers, partial fills, failing lookups, Redis, `oms_orders`, `orders`. 2.3 M states | type, `AtMostOnePost`, `EveryPostIsAudited`, `FilledIsReal`, `SentWithinBudget`, `StepsFollowTable` |
| `OrderRequests` | 1 order, threshold 1, 1 retry; cancel, retry, modify, lost, dropped, partial, failing audit. 2.9 M states | `QueuedIsQueued` |
| `OrderTwins` | 2 orders of two contracts, one of them not named locally, threshold 1, 1 restart; lost, audit. 1.4 M states | `AdoptsOnlyAlike`, refinement of `OrderOnce` |
| `OrderProgress` | 1 order, threshold 2, 1 retry, every way to close; cancel, lost, failing lookups; fairness. 127 K states | `SentIsWorkedOn`, `FilledIsFinal`, `CancelIsFinal`, `OrdersAreHandled`, `DoubtIsResolved`, `ClosedIsNoticed` |
| `BracketExits` | 2 fills, 1 restart, all faults; fairness. 1.1 M states | type, `OneExitPerLife`, `ProtectedFill`, `BreachIsActedOn` |
| `TradeBook` | 3 fills of 2 orders, 4 reports, a ledger of 2, 2 restarts, failing selects, writes and restores. 274 K states | type, `BooksAreOneSided`, `NetIsTraded`, `CashIsConserved`, `OldestCloseFirst`, `IdleMeansSaved`, `CheckpointExtends` |
| `PaperAccount` | 3 orders that cross flat, 2 callers of `connect` with 2 connects each, 1 restart, failing queries; fairness | type, `HoldingsAreFills`, `PaperCashIsConserved`, `MarginIsTheAudit`, `FillsAreListed`, `OrdersSettle` |
| `RuntimeLifecycle` | 2 tasks, 2 workers, a queue of 1, 1 restart; failing evaluations, loads and store calls, emergency stop, dry runs; fairness. 1.4 M states | type, `RecordIsTrue`, `CheckpointIsRecord`, `OneMoreAtMost`, `RestoredAsSaved` |
| `BreakerOutcomes` | 3 calls, threshold 3, backoff level 3; fairness | type, `OpensInTime`, `Heals` |

Why the bounds are enough.

* Orders share only the queue, the worker, the reconciler and the attribute scan, and the
  properties are about one order or about two of which one may be taken for the other, so one
  order (faults and requests) and two (sharing) cover them. In `OrderTwins` the first order
  may be given the broker order of the second and never the other way round. The threshold
  and retry budget of `OrderFaults` are the code's own. A second restart adds the recovery of
  what the first recovered. `OrderFaults` leaves out cancel, which does not keep to the
  transition table, and `FilledIsFinal` is checked where there are cancels but no restarts.
  `AtMostOnePost` with requests and restarts together is proved.
* `TradeBook`: the fills are few and small, enough for a book to close a part of its oldest
  lots and to cross zero, and a ledger of two evicts. The second restart finds what a process
  stored that began blind or raced.
* `PaperAccount`: the third order costs more than is free once the first is filled, so both
  outcomes of the margin check occur, before, during and after a rebuild; two callers queue
  at the lock with an order between them.
* `RuntimeLifecycle`: `AfterOverlap = FALSE` keeps a behaviour from beginning further calls
  once two have overlapped; what the two do to each other is explored to its end, with a store
  that answers from then on. The safety properties that hold through overlaps
  (`OneMoreAtMost`, type) are proved without that bound. Once calls have overlapped and every
  worker is gone nothing more may begin, so the run does not check for deadlock.
* `BreakerOutcomes`: as many calls at once as the threshold, so one batch opens the breaker.
* `BracketExits`: two brackets are one that is being worked on and one that waits. A second
  restart would repeat the first from the same rows.

Deadlock is checked in all other runs; `Done` and `PassEmpty` are the steps of loops that
find nothing to do.

### Findings

Each violation run checks one property that a document, comment or test states:

* `DroppedAnswer`: a ReadError or WriteError reports REJECTED for a live order.
* `FillCountedTwice`: the ledger drops a repeated fill, and the trade is published all the
  same: the position counts it twice.
* `EmergencyForgotten`: nothing calls `KillSwitch.recover`, so after a restart the stored
  emergency stop does not keep orders from the gate.

Three disagreements of code and comment belong to passing runs, whose property says how far
each goes:

* The retry budget is no ceiling (`place_order`'s docstring calls it one): NOT_FOUND requeues
  an order beyond `max_retries`. `SentWithinBudget` shows why that stays without effect at
  the broker: the extra attempt meets the order's own claim.
* Two contracts can be confused (`_reconcile_attributes`' docstring says they cannot): an
  order whose instrument is not resolved takes over the broker order of another contract.
  `AdoptsOnlyAlike` bounds this to attributes the local side does not know.
* A table of transitions does not keep a strategy consistent (`state_machine.py`'s docstring
  says it does): after a load that failed, `resume_strategy` makes it RUNNING with a worker
  that has no task. `RecordIsTrue` names the state as its exception.

Seen while modelling and kept, most of them as hazards, without a run of their own:

* Orders. A cancel is overtaken: the worker or the reconciler moves an order on that was
  CANCELLED while they had it in hand. A partial answer is compared with the local quantity,
  so an order that `modify_order` made smaller meanwhile is called FILLED with a part still
  open. An order sent as INTRADAY for the product MIS is not found by its own attributes.
  Failed
  lookups count towards NOT_FOUND. NEW rows are recovered and never queued, SENT rows are
  queued and dropped by the worker. A single candidate of the attribute scan may be the
  neighbour's order when the two are alike. The retry that NOT_FOUND authorises meets the audit
  row of its own first attempt and is refused, which is also why failed lookups do not break
  `AtMostOnePost`. A cancel of an UNKNOWN order is declared without asking the broker. A
  save in flight can bring a deleted `oms_orders` row back. `retry_order` checks no state.
  An order that expires after a partial fill stays PARTIAL. `_mirror_audit_status` with an empty broker
  id touches other rows.
* Brackets. `place_order` returns a QUEUED order, so the MARKET fallback for a refused stop
  almost never fires, and an exit refused later is not replaced. A crash between the exit
  and the save of its bracket brings the bracket back: one more exit per restart, which is
  what `OneExitPerLife` allows. A crash between `remove_order` and the bracket's save leaves
  a fill without one. A trade that closes a position by hand gets a bracket of its own while
  the old one stays active.
* Trade pipeline. Two equal partial fills of one order share a fingerprint. A report taken
  before the restore has ended is dropped from the book by it, or a nearly empty book
  replaces the stored one ("raced"); the latter also follows a restore that could not read
  ("blind"). These are the exceptions `CheckpointExtends` names. A failed write is not tried
  again before the next fill. An evicted fingerprint is recorded once more.
* Paper broker. A margin check reserves nothing, so orders that race each other can take
  more than there is. A reconnect resets the account until its rebuild has run, and a
  rebuild whose query fails leaves it so. Cancelling marks a filled order CANCELLED in the
  list. A restart forgets pending orders.
* Runtime. When calls overlap, two workers, a stopped strategy that trades, a RUNNING record
  without worker and a FAILED one with a checkpoint are all reachable. A load that fails
  leaves the record STARTING. A failed delete leaves the row of a stopped strategy, which a
  restart brings back. A recovery that cannot read the store is not tried again. `restart_strategy` and `resume_strategy` do not ask the kill
  switch; only the gate of orders does. A release without user id releases another key than
  the one a stop without user id engages.

### Fairness

Every fair specification assumes what an event loop and timeouts give: a coroutine that can
go on does go on (weak fairness), and an awaited call returns or fails.

* `OrderManager`: worker, reconciler and running requests; the broker ends up listing an
  order it accepted; a lookup may fail any number of times, but one that is tried again and
  again succeeds at some point and the grace period elapses (strong fairness of `Correlate`,
  `Scan` and `FetchBook` towards a conclusion). No request, fault or broker move is owed.
  `OrderProgress` leaves out restarts, and failures of Redis and the database: after a
  restart SENT rows are stuck, and an enqueue lost to Redis is not retried by anything.
* `Brackets`: the monitor's loop. Not the worker, not the market.
* `PaperBroker`: an order under way, and the rebuild at the head of the lock.
* `StrategyRuntime`: some call under way goes on, and the recovery runs. Workers owe nothing,
  nor is any call owed.
* `CircuitBreaker`: the timeout elapses; somebody keeps calling (the pollers of positions
  and orders do), and a call made again and again succeeds at some point (strong fairness;
  the property assumes a broker that stays healthy).

## 4. Proofs

All theorems hold for every value of the constants under the assumptions the modules name,
which TLC evaluates on every run. They cover any number of orders, calls, tasks, workers,
restarts, fills, prices and quantities.

| Module | Theorems |
|---|---|
| `OrderManager_proofs` | `TypeCorrect`, `OnePost`, `PostsAreAudited`, `PostsAreClaimed`, `OrderOnceImplemented`; `AdoptsAlike` |
| `OrderMoves_proofs` | `NoLostWakeUp` without Redis failures; `RetriesAreBudgeted` without `retry_order`; `FilledOrdersAreFilled` without `retry_order`, and without `modify_order` of orders that fill in parts; `FilledStays` without these, restarts and failing accesses to `orders`; `TableIsFollowed` without `cancel_order` and `retry_order`; `SentIsCarried` and `CancelledIsNeverSent` without crash and `retry_order` |
| `Brackets_proofs` | `BracketTypeCorrect`, `BracketExitsOnce`, `FillsAreProtected` |
| `TradePipeline_proofs` | `PipelineTypeCorrect`, `OneSideOnly`, `NetQuantityIsTraded`, `CashBalances`, `OldestFirst`, `IdleIsSaved`, `CheckpointsExtend` |
| `PaperBroker_proofs` | `PaperTypeCorrect`, `HoldingIsFilled`, `PaperCashBalances`, `MarginIsCharged`, `FillsStayListed` |
| `StrategyRuntime_proofs` | `RuntimeTypeCorrect`, `AtMostOneMore`, `TruthfulRecord`, `TruthfulCheckpoint` |
| `CircuitBreaker_proofs` | `BreakerTypeCorrect`, `BreakerOpensInTime` |
| `Sums_proofs` | lemmas only: induction, recursion, sums |

"without" a request or fault means that it is not in `Events`; everything else may happen.

**Orders.** `AtMostOnePost` is not inductive: nothing in it says that the worker, about to
POST, has not sent the order before. The inductive invariant is `SendInv`, the conjunction
of `AtMostOnePost`, `EveryPostIsAudited` and `PostIsClaimed`: at "posting" the order's audit
row exists and nothing has reached the broker. `Admit` establishes the last part, because it
needs a missing row, and by `EveryPostIsAudited` a missing row means no broker order. It
survives every other step because rows of `orders` are never removed and only the worker
POSTs. So requeues, restarts, redelivery, and verdicts drawn from the wrong evidence cannot
produce a second POST: the claim is what carries the argument, and the proof uses nothing of
the reconciler. The refinement follows from the same invariant, one lemma per kind of step.

`AdoptsAlike` needs the reconciler. `BidsOK` says of every place that keeps an id (the
object, its row, its row in `orders`, the snapshots of saves in flight) that it holds the
order's own or that of an order alike. A verdict can name no other one, because the scan by
attributes finds only those. More is not true: orders alike are told apart only by their
`correlation_id`, and a scan that misses it may pick the other.

**Orders, who moves them.** Four kinds of coroutine write one object over awaits; what keeps
them apart is stated in `OrderMoves_proofs`, in invariants on top of the type and `SendInv`.

* `Stages` says what each of them may assume of the order it has in hand at each of its
  awaits: the worker finds its order in SENT (in QUEUED while the retry is pushed), the
  reconciler those it investigates in UNKNOWN or RECONCILING, those it matches with the book
  in PENDING or PARTIAL; each may also find CANCELLED where `cancel_order` is allowed; what
  the worker drives the reconciler does not. It holds through crashes, and is what makes
  every write a step of `OMS_STATE_TRANSITIONS`.
* `FillInv`: wherever FILLED stands (the object, its row, its row in `orders`, a snapshot on
  its way, an answer not yet read), the broker has filled that order. It is an invariant of
  all these places at once because a late save or a restart copies any of them to another.
  A partial answer that leaves nothing is one of them, and belongs to an order that is
  filled as long as nobody has changed the quantity it is compared with.
* `BudgetInv`: the worker requeues below the budget only, and only an order whose claim is in
  `orders` may be in doubt, so NOT_FOUND adds its requeue to a claimed order. When the worker
  takes it again it meets that row (DUPLICATE), so it is never posted.
* `BidInv`: an object is given a broker id once, by the answer to its only POST or by the
  verdict on a lost one. `cancel_order` asks the broker about that id, so when the broker
  confirms the cancel, no fill can have been reported: `FilledStays`.
* `Held`: at most one of the following has an order: the request that is placing it, the
  queue (which holds it once), the worker, the reconciler that is putting it back, the
  reconciler that is looking at it. An order in SENT is the worker's. `CancelledIsNeverSent`
  adds `Barred`: an order that is cancelled before it is sent is either claimed, and then no
  attempt gets past the claim, or unclaimed, and then it stays CANCELLED and the worker drops
  it. The property is a nested temporal formula and is proved as one.
* `NoLostWakeUp` stands by itself: every coroutine that writes QUEUED pushes the id before it
  returns, a restart pushes what it loads in QUEUED, and whoever takes the id out (the
  worker, `cancel_order`) moves the order out of QUEUED or puts it back.

The hypotheses are the requests and faults with which the code does not have the property;
for each of them TLC finds a counterexample on one order, with one exception: for
`FilledStays` with failing accesses to `orders` it finds none. A push that Redis loses is not
repeated. `cancel_order` asks `can_transition` before its awaits and writes CANCELLED after
them; `retry_order` does not ask. `retry_order` also puts an order back to QUEUED that the
request placing it or the worker still has, so it may be queued twice, and cancelled with
something left that sends it. Its budget check
comes before an await, and after it the worker or NOT_FOUND may use the budget up. It leads the worker to the order's own row in `orders`, which may
not hold the broker's id yet: a save that lands there and a restart then make the order
FILLED without an id. After a crash SENT rows are queued and dropped by the worker, so they
stay in SENT with nobody at work, and an order cancelled in memory is read again from a row
that a save in flight has not reached.

TLC checked each invariant on one order before it was proved: `Stages`, `FillInv` and
`BudgetInv` with a restart and cancels, `Held` with every event that its theorems allow.

**Brackets.** `Inv` adds four parts to the type. `FreshOK`: an entry that is not found FILLED
has no bracket and no exit. `PassOK`: once the quotes are in, a pass holds at most one exit
per entry, because a quote is beyond one level only. `ExitsOK` counts: until the exit of this
life is queued, the working ones of an entry are of earlier lives, so at most the restarts.
`ProtectOK`: what deactivates a bracket is an exit or a cancel, also while a save of it is
under way.

**Trade pipeline.** `BookInv`: every book there is, in memory, dumped, stored or loaded, is
`Good`: typed, open on one side, and `Accounted`, that is, its lots, profit and cash are the
sums over its trades, and its open lots are the end of the sequence of units bought (or
sold). The lemmas `ApplyNet`, `ApplyWorth`, `ApplyOwn` and `ApplyOther` say what one
application of FIFO does to these sums; the rest of the proof only moves books about.
`OrderInv` is a chain: in a process that began "clean" the stored book is a prefix of every
dump that waits, each dump of the next, and all of the book in memory. The lock's FIFO order
carries it. A failed write only leaves out a link, and an insert after a failed select is
refused unless there is no row. `SavedInv` says where the latest book is: a task has still to
dump it, it is the last that waits, or it is stored, unless that write was `missed`.

**Paper broker.** `ListInv`: a fill lists its order and writes its row in one critical
section, and a rebuild lists exactly the rows. `AccountInv`: the rows are the filled orders;
the position `Tallies` them in quantity and in cash when the memory was built since the start
(`synced`), and the used margin is the money of their purchases when the account was also
made whole after its last reset (`costed`). A commit books one more order; for a rebuild
`RebuiltTallies` shows by induction over the replay that the rows give the same sums in any
order, so it does not matter that they come back in the order of their creation.

**Induction.** The library states induction with an operator as a parameter, which the
provers here cannot instantiate. `Sums_proofs` has it in the form of sets, from the
library's fact that a well-founded relation has minimal elements: `NatInductive` (a subset
of the naturals that holds 0 and each successor is all of them), `UpTo` for an interval, and
`Recursion` (a function defined from 0 by steps exists). From these follow the lemmas on
`Total` and `Joined`: type, appending, concatenation, changing one summand.

**Runtime.** `CoreType` is the part of the type that the argument needs. `LoadInv`: the
worker a call is loading is off, has traded nothing and is nobody else's. `LateInv`: once an
order of a worker that may not evaluate has passed, none of its evaluations is under way, and
none begins before it is allowed again.

The record is true only while calls do not overlap, so the invariant is `SoloInv`: without an
overlap `Solo` holds. Its parts: `OneAtWork` (one call or one failing worker, never both),
`WorkersOK` (only the record's worker is fed or evaluates, but for the one being cancelled),
`CallsOK` (what the call under way knows of the record, such as that the state it saves is
still the record's) and `RecordOK` (everything but the part of the party at work is settled,
and the row is the record's unless the last write failed). A worker that did not load counts
as the record's, and may evaluate exactly when the record says RUNNING, which a resume from
STARTING keeps.
One lemma says that a call which begins without an overlap finds nobody else at work. TLC
checked `SoloInv` on the instance of `RuntimeLifecycle` before the proof.

**Breaker.** `Counted`: the failures in a row are among those counted, and an open breaker
has none since it opened. So no interleaving of outcomes loses failures.

Only model-checked: the liveness properties (`OrdersAreHandled`, `DoubtIsResolved`,
`ClosedIsNoticed`, `BreachIsActedOn`, `OrdersSettle`, `RestoredAsSaved`, `Heals`), because
fairness is out of the prover's reach. Every invariant and every other temporal property that
a passing run checks is also a theorem, under the hypotheses of the table.

## 5. Plan

Done: the order manager, brackets, trade pipeline, paper broker, strategy runtime with the
emergency stop, circuit breaker. Left, in this order:

1. `execution/recovery.py` composed with `OrderManager`.
2. The square-off scheduler (`_fired`, the minute, a restart) and the signal fan-out (claim,
   then place).
3. The SDK transport and the rate limiter; feeds and subscriptions of `market/`.

## 6. Not modelled

* Of the modelled parts: eviction from `_orders` (terminal orders only); the worker's
  last-resort exception handler; `create_bracket`, `create_oco` and the completion handlers
  behind them, and the second bracket of a `retry_order`, which have no caller; failing saves and `modify_order` of the paper broker,
  and its options that are off by default; P&L figures and mark-to-market quotes; the
  scheduler's clock, candle aggregation, daily limits and shutdown of the runtime, and what
  several strategies of one broker do to each other on a reconnect; retry and
  `safe_external_call` around the breaker.
* `RiskGuard`'s limits and the global kill switch's endpoints: arithmetic on usage and thin
  handlers over the flag that is modelled.
* The parts of the plan that are left.
* HTTP routes, user interface, deployment, backtests, builder and strategies, payments, AI
  and market-data providers: data, formatting or calls to outside services, with no state
  that interleaves with the order path. They make up most of the repository's lines.
