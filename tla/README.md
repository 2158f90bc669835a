# Mipham Quant: TLA+ models

Mipham Quant is a trading platform: a Flask server (`src/backend_api_python`)
whose background threads run trading strategies, send their orders to
exchanges and sell memberships for USDT, with a web front end and an Electron
shell around it. These modules model the part in which several threads and
processes work on shared tables and on services that may fail, and two of the
three simulators that tell a user what a strategy would have earned. Paths below are
relative to `src/backend_api_python/app/` unless they begin with `src/`.

Contents: [the system](#the-system), [plan](#plan),
[modules](#modules-and-the-code-they-model), [runs](#runs-and-what-they-show),
[bounds](#bounds), [fairness](#fairness), [proofs](#proofs),
[disagreements](#where-the-code-disagrees-with-its-documentation),
[limits](#what-is-not-modelled).

## The system

Gunicorn runs one or more server processes. In each, `create_app`
(`__init__.py`) starts a `PendingOrderWorker` thread, a `UsdtOrderWorker`
thread, the portfolio monitor and a `TradingExecutor`, then restores the
strategies that the database says are running. Request threads serve the API
beside them. The processes share nothing but the database.

| Component | State | Operations | Talks to |
|---|---|---|---|
| Strategy lifecycle (`routes/strategy.py`, `services/trading_executor.py`, `__init__.py`) | `qd_strategies_trading.status`; per process the registry `running_strategies` under a lock, one thread per strategy | start, stop, batch start and stop, delete, the loop's check of itself, restore at boot | its threads; every other process, through the status column only |
| Signal engine (`services/trading_executor.py`) | per-loop position cache, once-per-candle keys, price cache | a tick: evaluate, filter by the position state machine, size, enqueue | order queue (INSERT), position rows |
| Order queue (`services/pending_order_worker.py`) | table `pending_orders`: `status`, `attempts`, `max_attempts`, `updated_at` | enqueue, requeue stale rows, select a batch, claim, settle | workers of all processes, through conditional UPDATEs |
| Live execution (`services/pending_order_worker.py`, `services/live_trading/`) | locals of one dispatch; orders on the exchange | limit phase, wait, cancel, market phase, settle, book | exchange over HTTP, position rows |
| Position ledger (`services/live_trading/records.py`, worker, executor) | `qd_strategy_positions`, `qd_strategy_trades` | apply a fill, synchronise with the exchange, update, delete | exchange, both workers and strategy loops |
| USDT payment (`services/usdt_payment_service.py`) | `qd_usdt_orders` | create, look at the chain, mark paid or expired, confirm, activate | TronGrid, billing |
| Billing and credits, community market (`services/billing_service.py`, `services/community_service.py`) | `qd_users.credits`, `vip_expires_at`, logs, purchases | consume, add, grant, buy | payment, request threads |
| Portfolio monitor (`services/portfolio_monitor.py`) | `qd_position_monitors`, alerts | run due monitors, alert, notify | analysis, notifications |
| Market data sources (`data_sources/`) | rate limiter, cache, a circuit breaker nobody asks | fetch, wait | web services, strategy loops |
| Backtest (`services/backtest.py`) | three simulators, two of them modelled: position, extremes, anchors, queue of signals, capital | one candle after the other: forced exits, signals, scaling, liquidation | nothing; the list of trades is read by the user |
| Accounts and login (`services/security_service.py`, ...) | users, codes, login attempts | request/response | - |
| Database layer (`utils/db*.py`) | connection pool (PostgreSQL), one connection per thread (SQLite) | acquire, commit, roll back, time out | everything |
| Compiler, scripts, AI analysis, data providers, notifications, quick trade | mostly none | computations, one request each | - |
| Desktop shell (`src/electron/`) | the backend process, crash count | start, watch, restart, stop | server process |

What is hard here:

* **Interleaving.** A claim, a dispatch and its settling are separate
  transactions, and so are the write of a strategy's status and the call of
  the executor, and the confirmation of a payment and the activation it pays
  for. Each may be cut between any two.
* **Stale state.** A worker claims rows of a batch it selected long ago; a
  payment checker works on a row it read before a slow request to the chain;
  position rows are read, the exchange is asked, and the difference is written.
* **Failure.** Most database and network errors are caught, logged and
  treated as an ordinary answer ("no rows", "not running", "no transfer").
  An order may have been accepted although its call raised.
* **Crash and restart.** A row may be in processing, a strategy marked running,
  an order confirmed but not activated.
* **Time.** A claim older than 90 s is given away, live or dead; a limit order
  fills while its worker waits, reads and cancels; a signal stays triggered for
  two candles and must be executed once.
* **Exhaustion.** A purchase holds one connection of the pool and asks for a
  second one.
* **Order.** A simulator asks about stops, signals, scaling and liquidation in
  loops of a thousand lines; each of them may end or turn the position the
  next one looks at.

What makes the components correct:

* Queue: bounded attempts, no claim held twice, a settled row stays settled, a
  strategy's orders are first taken in order, every row comes to an end.
* Live execution: bounded exposure over all attempts, no booking beyond the
  attempts, no success without an accepted order, no limit order forgotten.
* Ledger: rows and exchange agree unless something excuses it, and come to agree.
* Signal engine: one order per signal and candle, one side held, a crossed stop
  gets the position closed.
* Lifecycle: the registry names live threads, a strategy marked running runs,
  a stopped or deleted one stops in every process.
* Payment: an address per order, no activation without a payment, no payment
  forgotten, no credits lost, one activation per order.
* Credits: the log explains the balance, who has an indicator has paid for it,
  every request ends.
* Backtest: the trades are ones a real account could have made, and no position
  survives a candle that would have killed it. Both are asked of the two simulators
  that know stops and liquidations; a scaling rule without a cap on its size
  is an exception to both, and the third simulator has neither (see
  [limits](#what-is-not-modelled)).

Every hazard, with its line and the properties about it, is listed in
`PROJECT.json` under `hazards`.

## Plan

The order is by what a mistake costs: real orders first, money next, then what
a user is told.

1. *Done.* `PendingOrders` with its promise `OrderPromise`; `LiveExecution`,
   which composes the queue with a dispatch and an exchange;
   `StrategyLifecycle`; `UsdtPayment`.
2. *Done.* `PositionLedger`: the position rows under fills, synchronisation and
   the loop that tracks the best price.
3. *Done.* `SignalEngine`: from triggered signals to rows of the queue.
4. *Done.* `Credits`: consume, add, purchase, with the connections beneath them.
5. *Done.* `Backtest`, `BacktestMtf` on `TradeRecord`: the simulators with stops.
6. *Dropped.* Market data (the circuit breaker is not asked by anybody, the rest
   delays or caches), the portfolio monitor (each decision is one UPDATE, what
   follows is a message), the desktop shell (a crash and a restart to
   everything else).

Every safety property, action property and refinement that a passing run checks
is also proved; what is left to TLC is liveness.

## Modules and the code they model

| Module | Content |
|---|---|
| `PendingOrders` | the `pending_orders` table and the ticks of its workers |
| `OrderPromise` | what the queue promises to a strategy: submitted once, tried 1 to `MaxAttempts` times, closed once |
| `LiveExecution` | extends `PendingOrders`: what happens between claim and settling, and the exchange |
| `StrategyLifecycle` | status column, executors, strategy threads, API handlers, boots |
| `PositionLedger` | the position rows of one strategy and symbol, beside the position at the exchange |
| `SignalEngine` | the ticks of one strategy's loops, from triggered signals to queued orders |
| `UsdtPayment` | USDT orders, their checkers, the accounts they credit |
| `PaymentPromise` | what a payment promises: paid by its own transfer, confirmed once, activated only then and at most once per thread that looks after orders |
| `Credits` | balances, their log, purchases of indicators, connections and locks |
| `TradeRecord` | what these simulators share: the list of trades and how a reader replays it, forced exits |
| `Backtest`, `BacktestMtf` | the simulator of one timeframe (`_simulate_trading`), and the one that executes on finer candles (`_simulate_trading_mtf`) |
| `MC*` | small instances for TLC |
| `*_proofs` | theorems about the module of that name (`Backtest_proofs`: `Backtest` and `BacktestMtf`; `Billing_proofs`: `UsdtPayment` and `Credits`) |
| `Sums` | lemmas about sums over finite sets |

`MCBilling` puts `UsdtPayment` and `Credits` side by side, `MCTrading` the
ledger, the signal engine and two simulators. In the code these meet only
through what each module takes as any input (a triggered signal, a booked order,
a balance), so they share no variable: a behaviour chooses at its start, in
`focus`, the part that moves. The runs are one exploration each instead of six.

Each definition is mapped to its lines in `PROJECT.json` under `map`. Operators
whose comment calls them a *bug variant* are not part of a specification: each is the
definition it precedes with a plausible mistake in it, used to see that a
property notices.

**PendingOrders.** A row is a row id; `status`, `attempts` are its columns and
`stale` says that `updated_at` is older than the stale limit. A worker's `pc`
follows `_tick`: *requeue* and *select* are the two transactions of
`_fetch_pending_orders`, *claim* is the loop over the batch at
`_mark_processing`, *dispatch* is `_dispatch_one`. `RequeueStale`,
`SelectBatch`, `MarkProcessing`, `SkipRow` and `Settle` are one transaction
each. `FetchError`, `ClaimError` and `SettleError` are the three `except`
blocks: no rows; a row skipped although its claim may be committed; a final
status that was not written. `Crash` and `Restart` are the server process and
`start_pending_order_worker`. `claim` is a history variable: which attempt a
worker believes it is making. Left out: what is in a row, the priority (every
INSERT writes 0), the deduplication before the INSERT (`SignalEngine` has it).

**LiveExecution.** The queue's variables keep their names and their
actions: `MarkProcessing`, `Settle`, `SettleError`, `Crash` and the others are reused
inside the actions here, so the composition is `EXTENDS`, and `RefinesQueue` states that
hiding the new variables leaves `PendingOrders`. `step` follows
`_execute_live_order`: *start* (checks; any of them may reject), *wait*,
*cancel*, *market*, *confirm*, *report*, *book*. `seen` and `remaining` are
`total_base` and `remaining`. The exchange is external: a set of accepted
orders, what rests and what filled. A lost answer is an accepted order and a
worker that goes on as if it were not. A query answers with the fills or with
nothing. What is left of a limit order after waiting is a tail (below `MinTradable`:
done), within the `Tolerance` of 0.1 % (chased by the market order, the limit order
stays open) or cancelled. `astray` (history) collects the other reasons for a limit
order to outlive its dispatch. A `DedupRows` row is on an exchange that refuses a client order
id twice; whether one does is not known from the code, so both are checked.

**StrategyLifecycle.** `registry` is `running_strategies` of each process, `at`
the place of a strategy thread: *load* its configuration, *check* the status,
*locked* look into the registry under the lock, *work* a tick, *fix* the status
of a strategy whose registry entry is gone, *exit* the `finally` block. A handler has a
duty left after its first write: `Launch`, `Revert`, `BatchLaunch`,
`FinishStop`, `FinishDelete`. A deleted strategy keeps its name and the status
*deleted*, which no UPDATE changes. `start_strategy` and `stop_strategy` hold the executor's lock
throughout, so each is one step; in `stop_strategy` that includes its write
of the status. `update_strategy_status` swallows database errors
(`UpdateStatus`). `Boot`, `RestoreOne`, `RestoreFailed`, `Serve` are
`restore_running_strategies` inside `create_app`; while it runs, the other
process serves requests. `orphaned` (history) holds the strategies for which
the code knowingly leaves `running` in the table with nothing behind it; it is
the exception `RunningHasLoop` makes, and an exception is
made only where a fault, a refused batch start or a script at restart made it.

**UsdtPayment.** `status` and `index` are the order's columns, `index` standing
for the deposit address derived from it. A checker is a `UsdtOrderWorker`
(`Scan`: all pending and paid rows) or a request thread in `get_order` (one row
of any status). `rows` holds the statuses it read, `pc` its place in
`_refresh_one_order_out_of_tx` for the row at hand. A guarded UPDATE is one
step whose effect depends on the status at that time, not on what was read.
`CheckConfirmed` and `WriteConfirmed` are the SELECT and the UPDATE of one
transaction: PostgreSQL at READ COMMITTED does not keep another transaction from
committing in between. `ReadMembership` and `WriteMembership` are the
transaction of `purchase_membership`; its credits are read after its UPDATE has
locked the user's row and are up to date, its expiry date is read before.
`KeepsPaymentPromise` reads the promise off the table: pending and expired orders
are *open* there, since a transfer is accepted late, and each step is one of the
promise or a stutter.

**PositionLedger.** `rows` are the sizes of the rows of `qd_strategy_positions`,
one per side, 0 for no row; `held` is what the exchange holds. Booking a fill
(`FetchPosition`, `ApplyFill`), synchronising (`ReadRows`, `AskExchange`,
`Reconcile`) and the loop's tick (`ReadForTick`, `TrackBestPrice`) each read in
one transaction and write absolute sizes in another; `copy` and `asked` are
what a thread holds in its hands meanwhile. Synchronisation updates by row id,
so `gone` remembers the rows that were deleted after the thread had read them. A
reducing order is clamped to the row when it is sent (`Clamped`). A dispatch ends in
one of three ways: it books what it saw of the fills, which may be less than there
are (`Fill`); it saw none and books the whole order (`AssumeFilled`); or the row of
the queue fails, although the exchange may have filled the order in part or whole
(`FailOrder`). A limit order left open fills later, as a `ForeignTrade`.
`exchange` is the account: one whose symbols the synchronisation *maps* to those of
the rows, one it asks but does not map (`services/pending_order_worker.py:479`, 512:
everything looks flat), or one it *skips* (539-544). `MisreadExchange` is an answer
in contracts whose size could not be looked up (316-334, 437-445, 468-476). A row is
corrected if the difference is `Material` (609: more than 1 % of the row, or of a
whole coin for a smaller row), or its price is off. `unbooked` (history) is
what was filled, as far as anybody saw, and not yet booked, `excuses` (history) the
reasons why rows and exchange may disagree; an undisturbed synchronisation that ends
with the exchange's sizes clears them.

**SignalEngine.** A signal is a type and the candle it belongs to, counted back
from the current one: 0, 1, or `Old`. `keys` is the in-memory dictionary of
signals taken up, with the time each has left. A tick is `EvaluateTriggers` (read
the position, add the exits of the server, filter, sort, reserve the key), then for
each chosen signal `Recheck` (read and ask the state machine again, the AI filter and
the risk limits being any answer), `EnqueuePendingOrder` and, in signal mode,
`MovePosition`. In live mode the position moves when a worker has executed the order
(`ExecuteOrder`, external). `EndLoop` keeps the keys, `Restart` loses them; every
process may run a loop of the strategy. `IntAccepts` is the `int()` in the
look for an earlier row: it raises on the timestamp of every row it finds, so
`SkippedAsDuplicate` is never true. What the indicator computes is left out: any
signals may be triggered.

**Credits.** The database is PostgreSQL: the schema of SQLite
(`utils/db_sqlite.py`) has neither `qd_credits_log` nor `qd_indicator_purchases`, so
that there a consumption, an addition and a purchase fail and change nothing. A
request goes through the stages of its operation. A balance is read on a
connection of its own (`ConnectToRead`, `ReadBalance`), and every error of that, also
of a full pool, is a balance of 0 (`GetNothing`); it is written with its log line in
a transaction (`LockTable`, `Update`, `Publish`). A purchase does all that, and asks
whether its buyer is a member, while it holds a connection. The question about the
membership (`AskMembership`) begins with an `ALTER TABLE qd_users`
(`services/billing_service.py:361-370`): it waits for everybody who has updated a
row of that table (`HasTable`, `CanAlter`), and whoever comes after it, a
plain read too, queues behind it (`TableQueued`); there is no lock timeout. `Blocks`
are the row locks. The database aborts one of those who wait for each other's rows
(`DeadlockAborts`) and acquiring a connection times out. Each operation is about one
credit. `trusted`, `overwritten`, `charges` and `sales` are history.

**TradeRecord, Backtest, BacktestMtf.** `Replay` is how a reader of the trades
follows them; `book` and `record` are where he stands. In `Backtest`, `step` is the next
question of the loop over candles, in the order of the code: wiped out, forced
exit, close on a signal, each scaling rule, add on a signal, open or reverse (and
the same candle's stop and liquidation at once), the safety net at the end. `Bars`
are open, high and low; the close is any price. `fired` and `anchor` are the
counters and reference prices of the scaling rules. In `BacktestMtf` a candle first
chooses a signal from the queue (`ChooseSignal`), then walks the path inferred from
its prices; on each price a forced exit comes before the pending signal. The
capital is *enough*, *little* or *none*, and a deal may leave any of them. Prices
are whole numbers, and percentages of a price are distances. `DueExit` is shared
because both simulators decide in the same order. `excess` names the reducing rules
whose `sizePct` is above 1, which nothing caps
(`services/backtest.py:2764`, 2769). A long is clamped and ends; a short is not (3463, 3506): shares
are bought beyond the position while `position_type` still says *short*. `turned`
marks such a position, which most of the loop treats as a long (its sign) and the rest
as a short, and a reader who saw it is *overdrawn* for good.

## Runs and what they show

| Run | Shows |
|---|---|
| `queue` | two workers, three rows: `TypeOK`, `AttemptsWithinLimit`, `OneDispatcherPerClaim`, `FirstClaimsInOrder`, `SettledForGood`, `KeepsPromise` (implements `OrderPromise`), `EventuallySettled` |
| `live` | every kind of row through its attempts: `LiveTypeOK`, `ExposureBounded`, `BookedWithinAttempts`, `SentWasAccepted`, `NoForgottenLimit`, `RefinesQueue` |
| `lifecycle` | two processes, overlapping requests, boots: `TypeOK`, `RegistryIsLive`, `RunningHasLoop`, `StopTakesEffect` |
| `billing` | concurrent checkers with stale rows: `TypeOK`, `NoSharedAddress`, `ActivatedOnlyIfPaid`, `CreditsMatchGrants`, `KeepsPaymentPromise` (implements `PaymentPromise`), `PaymentNotForgotten`, `PaidEventuallyConfirmed`; concurrent requests about credits, with a small and a sufficient pool: `CreditsTypeOK`, `BalanceIsLogged`, `PaidIffBought`, `EveryRequestEnds` |
| `trading` | a worker and a loop on the position rows: `LedgerTypeOK`, `BooksBalance`, `SelfHeals`; signals through candles, errors and restarts: `SignalTypeOK`, `OncePerLife`, `OneDirection`, `StopLossFlattens`; the simulators: `BacktestTypeOK`, `TradesReplay`, `SurvivorsAreSafe`, `MtfTypeOK`, `MtfTradesReplay` |
| `double_processing`, `partial_fill`, `refused_start`, `double_activation`, `lost_activation`, `same_candle`, `trailing` | one statement of the code's comments each, which the code does not keep (below) |

What the properties mean is said above each of them in its module. Worth noting:

* `AttemptsWithinLimit` is not enforced where attempts are counted: the claim
  looks at the status only. It holds because a row becomes pending again only
  with attempts to spare, and because a claim takes it out of `pending`.
* `ExposureBounded` is the honest bound, not the wished-for one: a maker row may
  expose twice its quantity in one attempt. With deduplication the bound does
  not grow with the attempts, which fails as soon as the client order id
  depends on the attempt.
* `EventuallySettled` has an exception, `Stranded`: a worker that dies, or
  cannot write the outcome, in the last attempt leaves the row in `processing`
  for good.
* `PaidEventuallyConfirmed` has the exception that the worker never reads an
  expired order again; only a GET of that order does.
* `NoForgottenLimit` bounds what stays open of a limit order: without a lost answer,
  a failed cancel or a dead worker it is no more than the rest that the tail guard or
  the tolerance of 0.1 % lets be (`Leftover`), however late the order fills.
* `BooksBalance` names the excuses (an outdated copy or a misread answer, a close booked
  before its open, a booking lost, fills nobody saw or assumed, a foreign trade) and
  holds without them. `SelfHeals` needs no excuse: on an account whose symbols are
  mapped, when trading ends, each row agrees with the exchange again and again, up to a
  difference that is not `Material`, though not necessarily both at once, because a
  loop may put one row wrong while the other is put right. Of other accounts it says
  nothing: one that is skipped is never corrected, and on one that is not mapped
  synchronisation deletes every row.
* `OncePerLife` rests on the key's life of two candles; a key of one candle
  breaks it. Across a restart nothing but the database remembers, and its
  look for an earlier row does not work (`same_candle`).
* `OneDirection` tolerates one failed read of an indicator strategy, which asks
  the state machine twice, and none of a bot.
* `BalanceIsLogged` excepts balances overwritten by who did not know them: two
  requests at once are charged once (`services/billing_service.py:519`), and a
  failed read lets the seller of an indicator begin again from 0.
* `PaidIffBought` holds in every state: charge, sale and purchase are published by one
  commit or not at all, and the unique key keeps the second of two equal purchases.
* `EveryRequestEnds` has the exception `Hung`: the `ALTER` of one purchase waits for
  another purchase that has charged its buyer, and that one's read of its
  seller's balance waits behind the `ALTER`. PostgreSQL sees an idle transaction
  and no cycle, and nothing times out; both threads are stuck and so is everybody who
  touches `qd_users` afterwards.
* `TradesReplay` excepts a list in which an uncapped scaling rule took more out of a
  position than there was; it must have been configured to.
* `SurvivorsAreSafe` excepts, for the stop, a position whose average moved on
  this candle: the stop of the new average is first looked at on the next one. It also
  excepts shares left by over-reducing a short, at which no stop looks
  (`services/backtest.py:2896`, 2959).

## Bounds

* `queue`: three rows of two strategies (two rows of one are needed for order
  and batches, the third for a batch that mixes strategies), two workers,
  `MaxAttempts` 2 (a retry and its limit), `BatchSize` 2 (less than the rows,
  more than one), two faults (a lost claim and then a crash). 131k states.
* `live`: five rows, one of each kind, of which the constraint `OneRow` lets one
  be enqueued per behaviour: rows meet only in the queue, which `queue` covers.
  `Amount` 2 is the least that fills partially; `MinTradable` 2 for row 1
  makes one left over unit a tail, `Tolerance` 1 for row 5 makes it one that is not
  cancelled. One fault. The two workers are symmetric (`SYMMETRY`): the run checks
  safety only. 669k states.
* `lifecycle`: two processes, an indicator strategy and a script, two requests
  in flight, three threads (one more than both processes can register),
  `MaxThreads` 1 so that the cap refuses. One fault. 850k states.
* `billing`: two orders of one user (shared address index, shared account), a
  worker and a reader; two requests of two users with a pool of two, in which each
  may hold a connection and wait for another, and one of four, in which nobody waits
  for a connection and the locks decide; one fault and one error. 297k states.
* `trading`: the ledger with one worker and one loop beside the exchange, sizes up
  to 2 (the least with a partial close) and two trades, on four accounts (sizes in
  coins, sizes in hundredths of a coin, where every difference is below the threshold,
  an unmapped one, a skipped one); one process, an
  opening, its opposite, a close and a reduction, candles of one tick, keys of
  two, two entries, one fault; candles of four prices (three on a path, where
  each candle is four moves), six settings of the one simulator and four of the other that
  between them have every kind of exit, rule and opening, and a reduction by more than
  there is. 659k states.
* `same_candle` needs two processes and no fault, `trailing` one candle of entry
  and two more.

The constants whose comment says *bound* (`MaxFaults`, `MaxErrors`, `MaxRequests`,
`MaxTrades`, `MaxSize`, `MaxTriggered`, `MaxEntries`, `MaxQueued`, `MaxBacklog`,
`Prices`, `MtfPrices`) are the only bounds in guards; the remaining variables
are bounded by the program's own limits or by the size of the constants. Only
`live` uses symmetry: elsewhere workers, processes and checkers appear in liveness
properties. Deadlock is checked for the queue and the live execution. In
`lifecycle`, `billing` and `trading` it is not: when the bounded requests, trades
and faults are used up, nobody orders anything more, or a backtest is over, a
state in which nothing is left to do is legitimate.

## Fairness

* `PendingOrders!Fairness`: every worker thread that can step does (`_run_loop`
  is an endless loop that catches every exception), a dead process is started
  again (systemd and gunicorn restart it), and time passes (`Age`). Weak
  fairness suffices since a worker's step stays enabled until it takes it. A
  dispatch is assumed to end: its HTTP calls have timeouts.
* `StrategyLifecycle!Fairness`: threads and handlers that are started
  are scheduled. No request has to come, and a process that is down need
  not come back.
* `UsdtPayment!Fairness`: the worker threads scan and refresh, and the confirm
  delay passes. No customer has to pay or look, and no reader has to return.
* `CreditsFairness`: a thread that serves a request is scheduled. Strong fairness is not
  needed: who waits for a connection times out, who waits in a cycle of rows is aborted,
  and who waits for the table waits for good or is let through.
* `LedgerFairness`: threads are scheduled, a dispatch comes to an end (`Answer`), a
  worker without an order synchronises (its loop does so every few seconds), and an
  exchange that a worker asks again and again answers it some time: strong fairness of
  `AskExchange`, since each failed attempt disables it until the next. It is an
  assumption about exchanges that are asked; for an account that is skipped the action is
  never enabled and nothing is assumed.
* `SignalFairness`: loops that run are scheduled, the worker of the queue comes to
  every order, the clock runs. Nothing makes anybody start a loop, and no
  signal of the strategy has to be triggered.

In `MCBilling` and `MCTrading` the same conditions are stated for the part that
`focus` lets move.

No fault is ever fair, and faults are finite in number: what is
shown is that the system recovers once they stop.

## Proofs

TLAPS proves the following for any finite number of rows, any workers,
strategies, attempts, batch sizes and faults (the assumptions are the named
`ASSUME`s of the modules, each of them about a constant). Workers
(`WorkersAssumption`) and threads that look after payments (`CheckerAssumption`) are
finite sets: the properties count them or sum over them.

Some comments of the code promise what the code does not keep (see below). Where the
reason is a condition the code silently relies on, a *conditional* theorem states the
promise under that condition: `FreshRowsProcessedOnce` and `FreshRowsTradeOnce` (no
claim of the row goes stale), `AloneActivatesOnce` (one thread looks after payments),
`UnrestartedOpensOnce` (one process, not restarted) and `UndisturbedBalances` (one
request at a time, no error).

`PendingOrders_proofs`. The invariants the runs check are not inductive. `Inv` adds: a
pending row has attempts left (`PendingHasAttemptsLeft`), a row that is being processed
or settled has been claimed at least once (`TakenRowsWereClaimed`), batches hold rows
that were inserted (`BatchesAreRows`), and a worker in a dispatch has a row and a claim
no larger than the row's attempts (`DispatchersHoldClaims`). `AttemptsLimited` follows
from the first: claiming adds an attempt only to a pending row. `ClaimsExclusive`
follows since a fresh claim is larger than every claim held. A lemma that every step
moves the rows in one of a few ways (`OneMove`) carries `SettledStaysSettled` and, with
a refinement mapping that counts open rows, `QueueKeepsPromise`: every step of the queue
is `Submit`, `Try` or `Close` of one row, or a stutter. `FreshRowsProcessedOnce` is
about one row whose claim never goes stale: with `FreshRow` (untried while pending, in
the hands of at most one worker later) it is tried once and by one worker, whatever
happens to other rows. `NoOvertaking` needs `InOrder`: while no fault happens, a worker
that holds a row in its batch holds every earlier row of the same strategy too, or that
row has been tried (`PageIsPrefix`: a page holds the rows before each of its rows).

`LiveExecution_proofs`. `QueueRefined`: every step of a live execution is a
step of the queue or leaves it alone. By it each theorem about the queue holds of
the live execution (`LiveAttemptsLimited` is one). `SentNeedsAcceptance` rests on
`LiveInv`: a worker that waits, confirms, reports or has seen a fill holds a
ticket that the exchange accepted (`StepJustified`), and only such a worker
marks a live row sent. `LiveQuantitiesTyped` (`LiveTypeOK`) and `NoLimitForgotten`
(`NoForgottenLimit`) rest on `QuantityInv`: what an order has open and filled comes
out of the row's amount, and an attempt that was not made has neither
(`TicketSound`); a worker is the first to place its order, and what it has seen and
still wants is at most the amount (`WorkerSound`). Two dispatching workers hold
different tickets (`TicketsDiffer`), so a step of one leaves the other's order alone
(`QuantityStepOfOne`), and since fills and rest add up, a limit order of which the
worker saw the whole amount cannot be open, and one whose rest it let be has no more
open than that rest.
`BookingsBounded` (`BookedWithinAttempts`) rests on `BookingInv`: each attempt
entitles its row to one amount, a worker that dispatches the row owes it that much and,
once it has settled it, what it is about to book (`OwedBy`), and what is booked and
owed is at most what the row is entitled to. So a claim pays for the debt it makes, also
when the row's former worker still dispatches it. `ExposureLimited` (`ExposureBounded`)
rests on `OrdersInv`: an order on the exchange belongs to an attempt that was made and
to a row that wants such an order, and with deduplication only one attempt of a row has
one in each phase (`OrderSound`). Both sums are
compared term by term (`Sums`). `FreshRowsTradeOnce` joins them with the conditional
theorem of the queue, and `LiveQueueKeepsPromise` carries the queue's promise over.

`Billing_proofs`, payments. `Inv`: a paid or confirmed order is on the chain
(`PaidIsOnChain`), what a checker is about to do is justified by what it found,
and stays so whatever others write (`AllJustified`), and an order with an
activation is confirmed (`ActivatedIsConfirmed`). From it follow `ActivationNeedsPayment`,
`AddressesAreUnique` and `PaymentIsRemembered`. `CreditsCountGrants`
(`CreditsMatchGrants`) needs besides that the membership a checker has read is no
more than what was granted (`AccountsInv`). `ActivationsBounded` counts:
the activations of an order and the checkers that have passed its confirming
transaction without having activated (`Admitted`) are together no more than the
checkers (`ActivationsLimited`): nobody passes who finds the order confirmed, so after
the first activation their number only falls. With one checker that is at most one
activation (`AloneActivatesOnce`). `PaymentKeepsPromise` is the refinement: `Phases` and
`PhaseChanges` compute the phase of the order a step writes and of the others, then
each action is matched with the promise's; `ActivationsBounded` supplies the guard of
`Activate`, `PaidIsOnChain` that of `Accept`.

`StrategyLifecycle_proofs`. `RegistryNamesLiveThreads` (`RegistryIsLive`) and
`TypeCorrect` rest on `Inv`: a live thread has a process and a strategy
(`ThreadsHaveWork`), and a handler with a duty left has them too
(`HandlersHaveWork`). A registry entry is written only for a thread that was
free, so no other entry names it, and a thread that ends clears the one entry
that can. `RunningStrategiesHaveLoops` (`RunningHasLoop`) rests on `RunInv`: for each
strategy marked running that nothing has orphaned, its loop, a handler about to start
it or to take the mark back, or (not for a script) a process that restores it
accounts for it (`Accounted`), and a process serves only when it has restored
(`RestoresFirst`). It needs at least one process (`ProcessesAssumption`).

`PositionLedger_proofs`. `LedgerTyped` and `LedgerBalances` (`BooksBalance`). The two
together are inductive: what a booking takes out of `unbooked` is what it adds to the
row, if the copy is the row (`SizeAfterFillExact`, else the step leaves an
excuse); what a dispatch adds to `unbooked` is what the exchange moved, unless it saw
less or assumed (`SeenBalances`, `AssumeFilledBalances`, `FailOrderBalances`); and a
synchronisation either writes what was there (`ReconciledSame`), or the exchange's
sizes, or an excuse.

`Billing_proofs`, credits. `CreditsTyped`, `CreditsLogged` (`BalanceIsLogged`) and
`PurchasesPaid` (`PaidIffBought`) rest on `CreditsInv`: for every request, where it
stands says what its open transaction has written (`WrittenAt`), that its buyer
could pay (`CouldPay`), and that what it trusts is what the balance is
(`TrustsWhatItKnows`). A request that publishes its transaction takes the
accounts it wrote out of what the others trust. `UndisturbedBalances` shows that the
excuse `overwritten` is about concurrency and errors alone: with one request at a
time, no error and a pool of at least two connections (a purchase needs two), a
request knows each balance it replaces (`KnowsWhatItReplaces`), and every balance is
explained by its log.

`SignalEngine_proofs`. `SignalTyped`; `SignalsExecutedOnce` (`OncePerLife`) rests on
`KeyInv`: the key of a signal for which an order was queued, or is about to be,
lives at least as long as its candle is looked at (`KeysOutlive`, `AwaitedIsFirst`), which
is where a key life of at least two candles is needed; `OneSideAtATime` (`OneDirection`) on
`SideInv`: with one loop in signal mode nobody else moves the position
(`OneLoop`, `NoQueue`), so the order decided on, and without a misread the signal taken up,
still fit it (`DecidedFits`, `TakenUpFits`). `UnrestartedOpensOnce` adds to
`OncePerLife` that each row of an opening is one that the loop of the only process
counted (`OpeningInv`). Of closings it would be false: a reduction may be turned into a
close of the same candle.

`Backtest_proofs`. `BacktestTyped`, `TradesTellTheTruth` (`TradesReplay`) and
`SurvivorsSurvive` (`SurvivorsAreSafe`) rest on `BacktestInv`: a ruined account has
not enough to trade (`RuinedIsPoor`), a position just opened is one (`FreshIsOpen`),
and between the forced exits and the end of the candle a position with its first
average has passed its stop (`StopTested`). Both theorems carry the exceptions for a
reduction beyond the position: while nothing was overdrawn the reader knows the position
(`PositionKnown`), and afterwards a rule must have been configured to do it. `MtfTradesTellTheTruth`
(`MtfTradesReplay`) rests on `MtfInv`: the pending signal fits the position until it is executed
(`PendingFits`), since only a forced exit could change the position before, and
that withdraws it; `MtfTyped` adds that the open it waits for is still to come
(`OpenToCome`).

`Sums`. `SumFunctionOnSet` of the community modules is a fold, that is, a recursive
function on the subsets of a set that takes away chosen elements. Its laws (the empty
sum, one more element, one term changed, type, monotonicity) need an induction over
subsets; the library's theorems for that take a predicate as parameter, so
`SubsetInduction` states it for a *set* of subsets, from the well-foundedness of the strict
subset order. The uniqueness of the recursive function gives the rest.

Only model-checked: liveness (`EventuallySettled`, `StopTakesEffect`,
`PaidEventuallyConfirmed`, `EveryRequestEnds`, `SelfHeals`, `StopLossFlattens`),
which needs `ENABLED` and fairness, out of reach of the installed provers; and the
runs that refute a statement, which are counterexamples.

## Where the code disagrees with its documentation

| Run | The text | The code |
|---|---|---|
| `double_processing` | `services/pending_order_worker.py:764` "Only claim if still pending to avoid double-processing." | a claim is not renewed during a dispatch: after 90 s another process takes the row and executes it too |
| `partial_fill` | `services/pending_order_worker.py:2277` "If we already got any fills in the limit phase, treat as partial success instead of failing the whole order." | only for `LiveTradingError`; any other exception (2303-2322) fails the row and the fills are never booked |
| `refused_start` | `routes/strategy.py:1117` "If start failed, restore status" | writes `stopped`: starting a running strategy stops it |
| `double_activation` | `services/usdt_payment_service.py:773` "Idempotently mark confirmed in a short txn, then activate membership" | no lock, rowcount not looked at: two checkers activate one order twice |
| `lost_activation` | `services/usdt_payment_service.py:820` "the order will still be confirmed and membership activated" | an error between the two is logged and never retried |
| `same_candle` | `services/trading_executor.py:3525` "if any record already exists, do NOT enqueue again." | `int()` of the timestamp of the row found raises before the decision (3580), the exception is only logged, and the row is inserted |
| `trailing` | `services/backtest.py:2719` "If activationPct is not provided, reuse takeProfitPct as the trailing activation threshold." | the next lines (2725-2731) compute the threshold again from the configuration, so it is 0; the simulator on finer candles keeps it, the polars one has no trailing stop |

`double_processing` needs two server processes; the default is one, and
`gunicorn_config.py` recommends more of them for throughput. `double_activation`
needs one: its worker thread and a request thread suffice. `same_candle` is shown
with a loop in each of two processes; a restart within a candle has the same effect.

## What is not modelled

* Live execution: leverage, fees, prices, the differences between exchange
  clients, IBKR and MT5 (the market phase alone).
* Ledger: entry prices and profits (a row whose price is off may be rewritten at any
  synchronisation), spellings of a symbol beyond one row per side; quick trades are
  foreign trades.
* Signal engine: what the indicator or script computes, the AI filter, risk
  limits and sizing (any outcome), the 30 seconds after which a row that is done
  no longer counts for adds and reductions.
* Lifecycle: creating strategies and editing their settings.
* Payment: the lifetime plan and its monthly grants; an error while adding bonus
  credits, which on SQLite is swallowed and on PostgreSQL makes the transaction
  fail; the order in which a scan goes through its rows (any order is
  allowed); SQLite, which allows fewer interleavings than the model.
* Credits: `set_credits`, the VIP-free price, monthly grants, amounts other than one;
  the other requests that run the same `ALTER` (the billing page,
  `services/billing_service.py:802`, and `purchase_membership`, 222), each of which can
  take the place of a purchase's `ALTER` in `Hung`.
* Backtest: `compute_equity_curve_polars` (`services/backtest.py:5547-5768`). It is what
  `BacktestService.run` (1836-1864) uses for an indicator when polars is installed, as
  `requirements.txt` asks, and `BACKTEST_ENGINE` does not say otherwise. It is a
  computation over columns with no stop, no trailing stop, no scaling, no leverage and no
  liquidation, so **no statement about exits, liquidations or survivors made here is
  about it**: there, a position does survive a candle that would have killed it. The
  simulators modelled are `_simulate_trading`, for a saved strategy
  (`run_strategy_snapshot`, 1699), when polars fails or is not chosen (1906), and
  `_simulate_trading_mtf`, for execution on finer candles (`run_multi_timeframe`, 650).
* Backtest: profits, commissions and fees (any outcome), the metrics, the experiment
  runner, `_simulate_trading_old_format`, which has no caller. In the simulator
  on finer candles also: it has no liquidation price, no direction filter for
  signals that name their side, and does not close a position at the end of the data;
  the model has none of them either.
* Components with status `not_modelled` in `PROJECT.json`: computations, format
  conversion, request handling over single rows and I/O that keep no shared state of
  their own. They are most of the repository's lines (collectors, analysis,
  prompts, exchange adapters, routes, front end), which is why the map covers a
  small share of it: the modelled part is the one in which order, failure and
  concurrency decide what happens.
