# RegimeFlow: formal verification

TLA+ modules for RegimeFlow, the TLC configurations that check them, and TLAPS proofs
about them. Paths are relative to the repository (`src/` here is the repository's `src/`
directory, `include/` its headers).

## 1. Inventory

RegimeFlow is a C++20 trading stack. One strategy runs either in a backtest, on a
deterministic event loop, or live, against a broker. Both sides share the order
manager; around it there are two engines, the data they read, and what is computed of
their results.

| Component | State | Operations | Talks to |
| --- | --- | --- | --- |
| `OrderManager` (`src/engine/order_manager.cpp`) | order table, routing state of parents, child-to-parent map, counters, callback lists, one mutex | submit, cancel, modify, activate a routed order, process a fill, update a status | strategies call it; it calls pre-submit, order and fill callbacks, after it has released the mutex, and they call back |
| `SmartOrderRouter` (`src/engine/order_routing.cpp`) | configuration | `route`: an order into a plan of children | called by `OrderManager` |
| `ExecutionPipeline` (`src/engine/execution_pipeline.cpp`) | resting orders with queue and stop state | order submitted, order updated, market update | order callbacks of `OrderManager`; answers by order events on the event queue |
| `BacktestEngine` (`src/engine/backtest_engine.cpp`) | everything of a backtest | run, step, run_until; handlers for market, order and system events; margin enforcement | wires the others in `install_default_handlers()` |
| `EventQueue`, `EventLoop`, `TimerService`, `EventGenerator` | heap and lock-free list; timers; iterators | push, pop, peek; step, run, run_until; schedule, cancel, on_time_advance | producers on any thread, one consumer |
| `LiveOrderManager` (`src/live/live_order_manager.cpp`) | live orders by internal id, counter, recent fingerprints; no lock | submit, cancel, cancel many, modify, handle a report, reconcile, restore | the live engine calls it; it calls `BrokerAdapter` |
| `LiveTradingEngine` (`src/live/live_engine.cpp`) | id maps, trading switch, journal, health, portfolio | start, stop, event loop, report handler, reconciliation, limits, heartbeat, reconnect | order callbacks of its `OrderManager`, `LiveOrderManager`, event bus, broker |
| `EventBus` (`src/live/event_bus.cpp`) | lock-free list, queue, subscribers, flag, dispatcher thread | publish, subscribe, unsubscribe, start, stop | feeds and adapters publish; the live engine and the message-queue adapter subscribe |
| `SpscQueue`, `MpscQueue` (`include/regimeflow/common/`) | a ring and a list of atomics | push, pop | market data from bus to event loop; alerts |
| IB, Alpaca and Binance adapters, `WebSocketFeed` | sessions, subscriptions, caches of open orders | connect, disconnect, submit, cancel, poll | external services |
| Message queue adapters (`src/live/mq_adapter.cpp`) | link, group, backoff | connect, publish, poll | Redis and others; the live engine mirrors its bus |
| `Portfolio`, `PerformanceCalculator` | positions, cash, lots, equity curve | update, mark, add fill | called by both engines |
| `StopLossManager`, risk limits | position stops; limits | on position or price update; validate | backtest engine, order manager |
| Regime detection (`src/regime/`, `src/engine/regime_tracker.cpp`), hooks | the detector's state, the current regime, hooks by priority | on bar, on tick; combine; register, invoke | market handlers of both engines, strategies, metrics |
| Plugin registry (`src/plugins/registry.cpp`) | factories, records of libraries | register, load, unload, create | any thread; `dlopen()` |
| Connection pool (`src/data/postgres_client.cpp`) | free connections, a count, a condition variable | acquire, release | queries of several threads |
| Data layer (`src/data/`) | readers, validation, corporate actions, merged iterators, bar builder, mapped files and their caches | read, validate, fill, adjust, merge, build, write, map | event generator, tools |
| Replay journal (`src/engine/replay_journal.cpp`) | a stream | append, read | event loop and report handler |
| Walk-forward optimizer (`src/walkforward/optimizer.cpp`) | results of trials, a shared counter, a flag | optimize, cancel | worker threads, one backtest per trial |
| Pool allocator, regime numerics, metrics endpoint, audit log, tools, bindings, dashboard | numerical, reporting or wrappers | | |

What is hard in this system, and where:

* callbacks run after the unlock, and may call the same object again (`OrderManager`);
* four routing tables change in different critical sections (`submit_child_order()`,
  `handle_child_terminal()`, `finalize_parent_if_complete()`);
* a call of the broker splits an operation of `LiveOrderManager` and of the live engine,
  and reports of the broker arrive in the gap, late, out of order or never;
* two sources number live orders, the callers and `next_order_id_`; the strategy starts
  at 1 in every life of the program;
* the event bus, the pool and the two queues mix atomics, condition variables and
  notifications outside the mutex;
* a crash may come between any two steps: before or after the journal's entry of an order,
  in the middle of a line of the replay journal, in the middle of a data file;
* connections are lost, and each layer (engine, adapter, feed, message queue) reconnects on its
  own account;
* in a backtest fills and cancels travel as events, so a status can be changed by an event
  that was right when it was pushed; timers and data share one queue;
* numbers: minimum sizes of children, averages and FIFO lots, filled gaps, thresholds,
  days, ties of time.

`PROJECT.json` lists all of these, each at its line, with the properties that watch it.

What makes each component correct: the order manager must keep its tables consistent, send
each child once, and show a parent the fills of its children, no more; the live order
manager must map internal and broker orders one to one, count each executed lot once, and
end up where the broker is; the bus must hand out each message at most once, not sleep over
messages, and be quiet after `stop()`; the pipeline must answer each order once and never
touch one that is over; the live engine must not lose an order across a restart, and book
each fill on the order it belongs to; queues must be queues; a lost connection must come
back with its subscriptions; data must come in order, once, and without knowledge of the
future; limits must hold for the portfolio and not only for the order; books of the
same fills must agree; searches, queries and calls must end.

## 2. Modules

| Module | Models | Checked by | Proved about in |
| --- | --- | --- | --- |
| `MessageChannel` | what the bus promises (abstract) | the refinement in `EventBus` | |
| `EventBus` | `EventBus`, thread by thread | `MCEventBus` | `EventBusProofs` |
| `OrderManager` | `OrderManager`, with callers, callbacks and threads | `MCOrderManager` | `OrderManagerProofs` |
| `LiveOrderStatus` | the states of a live order and their valid transitions | with the next two | |
| `LiveOrderManager` | `LiveOrderManager` with a broker | `MCLiveOrders` | `LiveOrderManagerProofs` |
| `LiveEngine` | the orders of the live engine, with journal, crash and restart | itself | `LiveEngineProofs` |
| `EventOrder` | the events of a backtest and the order of the event queue | with the next two | with the next two |
| `ExecutionPipeline` | the simulated venue, as operators on its state | with the next one | with the next one |
| `BacktestExecution` | the handlers that connect the strategy, the order table, the pipeline and the event queue | `MCBacktestOrders`, `MCBacktestExecution` | `BacktestExecutionProofs` |
| `IBSession` | `IBAdapter`: connect, disconnect, reader thread, order numbers | itself and `MCComponents` | `ComponentProofs` |
| `LiveFeed` | start, stop, event loop, heartbeat and reconnection of the live engine | `MCComponents` | `ComponentProofs` |
| `StreamFeed` | subscriptions of an adapter and its WebSocket | `MCComponents` | `ComponentProofs` |
| `MessageQueue` | bus and Redis stream, both ways | `MCComponents` | `ComponentProofs` |
| `BoundedQueue` | what a queue promises (abstract) | the refinement in `SpscQueue` | |
| `SpscQueue` | the ring | `MCComponents` | `ComponentProofs` |
| `MpscQueue` | the list, refined to a queue | `MCComponents` | `ComponentProofs` |
| `ConnectionPool` | database connections under threads | `MCComponents` | `ComponentProofs` |
| `PluginRegistry` | factories and libraries under threads | `MCComponents` | `ComponentProofs` |
| `WalkForward` | windows, worker threads, the choice of parameters | `MCComponents` | `BacktestComponentProofs` |
| `BacktestClock` | data, days and timers in the event loop | `MCComponents` | `BacktestComponentProofs` |
| `AccountGuard` | stop-loss manager, account states, stop-out | `MCComponents` | `BacktestComponentProofs` |
| `RiskLimits` | limits in front of a portfolio | `MCComponents` | `BacktestComponentProofs` |
| `Accounting` | portfolio and trade books of the same fills | `MCComponents` | `BacktestComponentProofs` |
| `OrderRouter` | how `route()` splits a quantity | `MCComponents` | `ComponentProofs` |
| `RegimeTracking` | ensemble, tracker, hooks and who is told | `MCComponents` | `BacktestComponentProofs` |
| `ReplayJournal` | the replay journal, writers and crashes | `MCComponents` | `ComponentProofs` |
| `MergedIterator`, `BarBuilder` | streams merged by time, ticks made into bars | `MCComponents` | `ComponentProofs` |
| `DataValidation`, `CorporateActions`, `BarFiles` | the rest of the data layer | `MCComponents` | `ComponentProofs` |
| `Sums` | the sum of a sequence, where modules add up lots, fills and weights | with its users | `SumProofs` |

Each component has a module with its state, actions, properties and the mutated forms of its
operators (marked "Mutant"). `MCComponents` instantiates the small components side by side:
the variable `part` chooses the one of which a behaviour is, the others stand still,
and every property speaks of its part. That is one run with one state space per
component; the counts in it add, they do not multiply. The sizes and inputs of the components proved
about in `ComponentProofs` and `BacktestComponentProofs` are its constants, given in
`Components.cfg`; the others are small instances written out in it.

### 2.1 EventBus

State: `running`, `pending`, `queue`, `subscribers` are the members with the same names;
`dpc` is the place of the dispatcher in `dispatch_loop()`, `message` and `callbacks` its
locals, `calls[m]` the place of the `publish()` that carries message `m`, `owner` the place
of `start()`/`stop()`. `delivered` and `done` are history.

One action is one atomic access of shared state: the compare-and-swap of `publish()`
(`Push`) and its notification (`NotifyOne`) are two actions; so are the evaluation of the
wait's predicate (`TestPredicate`) and the sleep (`Block`). Those two are one critical
section of `queue_mutex_`, but neither `publish()` nor `stop()` takes the mutex to change
what the predicate reads or to notify, so their steps fall in between. `queue_mutex_`
itself is no variable: its two users, the dispatcher and `stop()` after the join, never
contend. A sleeping dispatcher may wake for no reason (`SpuriousWakeup`). `pending` is kept newest
first and `Drained` appends it as it is, as `drain_pending()` does: messages of one drain
come out in reverse.

`MessageChannel` is the promise: handed out at most once, delivered to each chosen receiver
at most once. The mapping (`Channel`) puts a message in hand when its subscribers have been
collected; until then it is still in the inbox.

The owner calls `start()` and `stop()` one after the other (`LiveTradingEngine` does, from
its own `start()` and `stop()`); callbacks do not stop the bus. Left out: the pool of nodes
(allocation succeeds) and weak compare-and-swap failures, which only retry.

### 2.2 OrderManager

State: `orders`, `routing`, `parentOf`, `nextId`, `router` are `orders_`, `routing_states_`,
`parent_by_child_`, `next_order_id_` and whether `router_` is set. `stack[t]` is what thread
`t` still has to do: the callbacks to run, the trailing change to Pending, the cancels of
children, the children to submit, and the adoption that ends `submit_child_order()`. Every
public operation is one action for its part under the mutex, which pushes frames for the
rest. While a callback is on top of the stack, the thread may call again (`MayCall`), and
other threads run between any two frames.

Translation notes:

* `handle_child_terminal()` is called for every status, terminal or not (`AfterChildStatus`);
  in a sequential plan each such call sends the next child.
* `submit_child_order()` stores the child, runs its callbacks and its change to Pending, and
  only then enters it in the two tables (`LaunchChild`, then `AdoptChild`). What is reported
  of a child in between is not passed on.
* A refused child (`LaunchFails`: a pre-submit callback or the validation) rejects the
  parent when it was activation that sent it; otherwise it is forgotten.
* `modify_order()` writes before it validates, so a quantity of zero stays.
* Quantities are lots. The plans are those `route()` makes: the children add up to the
  parent, in parallel or sequentially, with the three aggregations. A plan without children
  is no plan, and `SplitMode::None` makes none.
* Callers submit under id 0 (strategies do); executions are reported for orders that
  were sent out, never for a routing parent; the router is set or cleared when no call is
  under way. Prices, times, expiry and the list of fills are left out.

### 2.3 LiveOrderManager

State: `orders`, `nextId`, `recent` are `orders_`, `next_order_id_` and the keys of
`recent_order_keys_`. `doing` is the call the event loop is in the middle of, `snapshot` the
reports of `get_open_orders()` not gone through yet. `broker` and `wire` are external: the
broker's orders, and per order the reports under way. `missed` and `fresh` are history: per order of the broker
the reported lots that no order and no report has any more (lost, unknown, refused, or replaced with
the order), less those that reconciliation counted again; and the orders whose submission the broker answered within the window.

The event loop of the live engine is the one caller. A report is handled by the thread that
delivers it (the reader thread of the IB adapter, the poll of the others), so
`submit_order()` and `cancel_order()` are two actions each, before and after the broker
call, and reconciliation is one action per report of its list. Reports overtake each other and
may be lost; open orders carry the quantity ordered, as the Alpaca and Binance adapters fill it in.

What reaches the manager of the broker is what the adapters make of it (`Adapter`).

* A call that fails has placed its order or has not: an HTTP call may time out after the broker took
  the order, or its answer may not be understood. `submit_order()` returns before it notes the
  order or its fingerprint (`src/live/live_order_manager.cpp:119`). `SubmitUnanswered` is the one case,
  `SubmitRefused` the other.
* `"alpaca"`: a trade update carries `filled_qty`, the lots filled so far
  (`src/live/alpaca_adapter.cpp:332`).
* `"ib"`: `execDetails()` reports the shares of an execution, always as filled
  (`src/live/ib_adapter.cpp:658`); `orderStatus()` follows and reports a filled order with all its shares
  again, and one that is partly filled as new (`:616`). Its `get_open_orders()`, the last report of every
  order there ever was (`:331`), is not modelled, so there is no reconciliation with this adapter.
* `"fills"`: a fill is reported by its own quantity, as `docs/reference/broker-message-types.md` says and
  the mock adapters of the tests do.
* Binance's adapter keeps the callback and never calls it: its orders are the ones without reports, of
  which reconciliation is all the manager sees.

`Elapse` ends the window of a fingerprint; the code finds out when it next looks
(`prune_duplicate_keys()`), which no one can tell from forgetting at once. A window is taken
to be longer than a call of `submit_order()`. `restore_order()` is in
`LiveEngine`. Left out: prices and execution quality, changing the window at run time, and the torn tables
that truly concurrent use of the unlocked map could produce: handlers interleave whole.

### 2.4 EventOrder, ExecutionPipeline and BacktestExecution

`EventOrder` keeps the event queue as the sequence of events in the order in which they will
be popped: `Push` puts an event behind those that `EventComparator` sees before it. One
thread produces and consumes in a backtest, so an event's number is its place.

`ExecutionPipeline` has `resting_orders` (`resting_orders_`) and one operator per function:
`Postpone` and `Answer` (`on_order_submitted()`), `OnOrderUpdate`, `ProcessRestingOrder`, and under them the ways an
execution ends (`ExecuteLots`). Prices are abstracted to what they decide. Whether a stop
triggers, a limit order can be filled, the price has drifted, the session is closed and how many
lots are found is chosen anew each time (`MayMiss`, `WaitsForTrigger`, `Drifts`,
`Liquidity`, `SessionMayClose`); before the first market update (`priced`) nothing is filled.
Waiting for a place in the venue's queue is one more way to miss. The time an order becomes
active is kept (`activation`).

`BacktestExecution` is the rest of a backtest. Everything runs in one thread, so its only
interleaving is nesting: `calls` is the stack of calls the current handler has still to
make. A change of status pushes the order callbacks with their snapshot (`Callbacks`); the first
of them (`RunCallbacks`) tells the pipeline and then the strategy, the second (`AcceptOrder`
or `RefuseOrder`) comes when the strategy has returned, and acts on the snapshot it was given. A
submission leaves the trailing change to Pending on the stack (`MakePending`). A strategy frame says what
the strategy may do there: `StartOps`, `MarketOps`, `FillOps`, `UpdateOps` are the
operations allowed in `on_start`, market callbacks, `on_fill` and `on_order_update`. A market
event expires orders, replays the execution ticks of a bar, one microsecond apart (`Match`,
`MatchOrder`, `NextTick`), and calls the strategy. `accepted` is history: how often an order was handed to the
pipeline, and with how many lots first.

Translation notes:

* `update_order_status()` and `process_fill()` look at no earlier status, so an event of the
  queue changes an order that is over; `HandleFill` and `HandleStatus` do the same.
* An answer given on submission carries the time of submission, which a resubmission
  (`Update` event, modification) repeats: it precedes later market events, and
  `current_time` can go back.
* An order submitted in `on_start` is stamped with the wall clock (`WallClock`), as the loop
  has no time yet: on historical data its activation never comes.
* A modification changes the order table; while the order is Pending its callback submits it again.
* `RestingIsOpen` is checked with strategies that only submit in `on_order_update`. One that cancels
  an order in the callback that reports it Pending makes the second callback, whose
  snapshot still says Pending, hand a cancelled order to the pipeline.
* Of the order manager only what one unrouted order meets is here; `OrderManager` has the rest.

Margin enforcement, stop-out and the stop-loss manager are in `AccountGuard`, system events and
timers in `BacktestClock`, hooks on market data in `RegimeTracking`. Left out: hooks that cancel
an order or a fill, `on_stop`, several symbols, bars that are not
used for execution because real ticks were seen, the auctions and the opening orders.

### 2.5 LiveEngine

State: `sorders` is the order table of the strategy's order manager, `live` and `nextId` that of
the live order manager, `brokerOf` and `idOf` are `broker_order_ids_` and
`broker_to_order_ids_`, `position` is the portfolio's, `journal` the reconciliation journal by
its last entry of each broker order, `broker` and `wire` external. `doing` is the place of the event
loop in a submission, `handling` that of the delivering thread in
`handle_execution_report()`. `credited` is history.

A submission goes through the Created callback step by step: `CheckTrading` and the checks
after it (`Refuse` stands for each), `SkipTaken` (an id that is taken lets the order return
silently), `Accept` (the broker has it), `Store` (the live order manager's table), `Write`
(the journal), `Enter` (the engine's two maps), `MakePending` (the trailing change of the order
manager). A report is delivered (`Deliver`: the table), journalled (`WriteUpdate`) and booked
(`BookFill`). Between any two of them a threaded adapter delivers a report or the process
dies (`Crash`: everything but journal, broker and wire is gone). `Construct` restores from the
journal what is not over; `Start` connects. `ReconcileOrder` is reconciliation for one open
order, `RefreshPositions` takes over the broker's positions. `FailClosed`, `BreachLimit` with
`CloseAllPositions`, and `SwitchTrading` act on the trading switch.

With a polled adapter (Alpaca, Binance) reports are handled by the event loop between two
calls; with a threaded one (IB) at any time. Orders execute whole. Left out: prices, the details
of each refusal, dashboard snapshots, account refresh, the audit log.

### 2.6 Connections: LiveFeed, StreamFeed, MessageQueue, IBSession

`LiveFeed` is the thread of the owner in `start()` and `stop()` and the round of
`event_loop()`: heartbeat, attempt to reconnect, queue of market data. Time is in units,
and what is older than `heartbeat_timeout` counts as just as old. `start()` starts the loop before it makes
the portfolio (`MakePortfolio`), so the loop meets an engine that is not ready.

`StreamFeed` puts a WebSocket under an adapter, each with its own idea of being
connected and of the symbols: `served` is what the server sends. A message may also fail to be
sent or the link be cut at any time.

`MessageQueue` is the Redis adapter with its consumer group: entries that were read and not
acknowledged, a cursor, links that break between a command and its reply, and the engine that
forwards its bus to the stream and the stream to its bus.

`IBSession` has the engine's thread in `connect()` and `disconnect()`, the adapter's reader
thread, the reading thread of the client library (external), and the signal both
use. Its numbers for orders come from the gateway (`nextValidId`) and a counter.

### 2.7 Threads: SpscQueue, MpscQueue, ConnectionPool, PluginRegistry, WalkForward

`SpscQueue` splits `push()` and `pop()` at the accesses of what the other side uses;
`RingIsAQueue` maps the slots between `tail` and `head` to the items of `BoundedQueue`.
`MpscQueue` splits a push between the exchange of the tail and the link, so a producer may be
interrupted with the list torn; `ListIsAQueue` maps it to a queue in the order of the exchanges.
Accesses are taken as sequentially consistent; with one thread on each end of the ring,
acquire and release leave no other outcome.

`ConnectionPool` has `acquire_connection()` and `release_connection()` with the mutex, the wait and the
notification after the unlock, a server that may refuse, and a row handler that may throw. `lost` is history: connections
that the code forgets by one of the last two.

`PluginRegistry` splits load and unload where the lock is released: the probe and
`dlclose()` lie outside. A library is mapped as long as it was opened more often than closed.

`WalkForward` has the windows of `generate_windows()`, the worker threads of `evaluate_trials()` with
their shared counter, `cancel()`, a trial that throws, and the sequential Bayesian search.

### 2.8 Backtest: BacktestClock, AccountGuard, RiskLimits, Accounting, OrderRouter, RegimeTracking

`BacktestClock` is time: the generator's events (start and end of day, data, regime
checks), timers, and the calls of `run()`, `step()` and `run_until()`. `AccountGuard` puts the
stop-loss manager and the margin enforcement around one position with two orders under way;
whether a stop is hit is a choice. An order has what rests in the pipeline, the fills that are
in the event queue, and the Update events there, which hand it to the pipeline once more
(`Reopen`), whatever has become of it. `RiskLimits` validates an order against the positions when it becomes
Pending (`Accept`) and keeps it open; later events fill it, a part at a time and at any price, or end it. Of a partial fill's Update
event, the second validation is one more `Accept`. `uncounted` is history: the buys that were open, and that the limit did
not count, when the last buy was validated. `Accounting` feeds the same fills to
`Portfolio` (average cost) and `PerformanceCalculator` (FIFO lots), in fractions. `OrderRouter`
is the loop of `route()` over venues. `RegimeTracking` goes from the answers of
detectors through `combine()`, tracker and hooks to strategies and metrics, and compares the live
handler on the same data.

### 2.9 Data: DataValidation, CorporateActions, MergedIterator, BarBuilder, BarFiles, ReplayJournal

`DataValidation` runs `validate_bars()` and `fill_missing_time_bars()` over every file of a few
rows. `CorporateActions` adds splits, dividends and renames in any portions and adjusts bars.
`MergedIterator` is the heap over several iterators. `BarBuilder` builds each kind of bar.
`BarFiles` has the writer with its offsets, the reader's checks, and both caches; a writer may
die in the middle. `ReplayJournal` has pieces of lines in the buffer of a stream, flushes,
refusals of the disk, crashes and two writers without a lock.

## 3. Runs

A property is a conjunction of named parts where several say one thing together; the parts are
stated and commented next to it.

| Run | What is checked | Bounds and why they are enough |
| --- | --- | --- |
| `event_bus` | `DispatcherIsSafe` (`TypeOK`, `TakesOnlyWhatIsThere`, `SleepsOnlyWhenDrained`), `QuietAfterStop`, `ImplementsChannel`, `BusGoesOn` (`BacklogIsDispatched`, `StopHeardReturns`) | three messages on two topics: two in one drain and one arriving meanwhile; a subscription of each topic; two starts, so that a bus is stopped over messages and started again; under `FairSpec` |
| `event_bus_stop` | `StopReturns` is violated | two messages, one subscription, two starts; under `FairSpec` |
| `order_manager_safety` | `RoutingIsConsistent` (`TypeOK`, `TablesAgree`, `ChildrenAreNotRouted`), `ChildrenAreAccountedFor` (`PlannedOnce`, `ParentFillsAreChildFills`, `FilledParentIsBacked`) | two threads, five calls, one parent and its two children, one of three plans: parallel and sequential, and each aggregation. Five calls are a submission, an activation and three that race: fills, cancels, status updates |
| `live_orders` | `IdsAreConsistent` (`TypeOK`, `OneIdPerBrokerOrder`), `NoTwinInWindow`, `LotsAreCountedOnce`, `ActiveOrderKeepsItsId`, `OnlyCancelReopens` | four scenarios. "ids": two orders of ours, numbered by either source, and one foreign; two ids, so that one given twice is met; reconciliation, the window and calls without an answer. "alpaca", "ib" and "fills": an order (with "fills" two) of two lots, reported the way of the adapter, numbered by the manager, changed to one or two, one lost report, no reconciliation (it counts lots again, see below) |
| `live_orders_converge` | `Converges` is violated | one order of one lot, one lost report; under `FairSpec` |
| `live_orders_reports` | `FilledIsExecuted` is violated | one order of two lots, the adapter of Interactive Brokers |
| `backtest_orders` | `OrdersAreConsistent` (`TypeOK`, `RestingIsOpen`), `WorkingIsTracked`, `ExecutionsAreSound` (`LotsAreConserved`, `FillOrKillIsWhole`), `TimeInForceIsKept` (`DayOrdersExpire`, `ImmediateIsOver`), `WaitingRunEnds` | two orders; two scenarios. "prompt": executions find none, one or two lots, no latency, sessions that close, drift is requoted, orders of each time in force, three calls, two market events. "waiting": latency, sessions that close, drift is rejected, the risk manager may refuse, four calls from every callback, three market events on two days, executions fill whole |
| `backtest_exhausted` | `RunEnds` is violated | one Day limit order of two lots, one lot found at a time; under `FairSpec` |
| `live_engine` | `TablesAreConsistent` (`TypeOK`, `JournalMatchesTable`), `IdsAreConsistent` (`MapsFollowTheTable`, `RestorableIdsAreUnique`, `FillsFindTheirOrder`), `SettlesWithBroker` | two orders at the broker, two upsets: a start and a foreign order, or two starts with a crash or a stop between; both kinds of adapter; under `FairSpec` |
| `live_engine_cancels` | `CancelsReachTheBroker` is violated | one order, one start |
| `ib_session` | `ReconnectReturns` is violated | two connections, two submitters; under `FairSpec` |
| `components` | the small components, below | below |

The run `components`, part by part:

| Part | Properties (in the group of the run) | Bounds |
| --- | --- | --- |
| `LiveFeed` | `BackoffIsBounded` (`FeedsAreServed`); `SilenceStopsTrading`, `ConnectionComesBack` (`LostLinksAreHandled`) | a queue of one update, a timeout of 2 units, waits of 1 to 3 units, so that the wait is doubled and capped |
| `StreamFeed` | `ServedAsSubscribed` (`FeedsAreServed`), `FeedRecovers` (`LostLinksAreHandled`) | two symbols |
| `MessageQueue` | `NoMessageGoesRound`, `EntriesAreHandedInOrder` (`EntriesGoOnce`), `StreamIsReadOn` (`LostLinksAreHandled`) | one own and two foreign messages, batches of two, three entries |
| `IBSession` | `ReadyIsNumbered`, `OrdersHaveOwnNumbers` (`OrdersAreNumbered`), `CallsReturn` (`NothingWaitsForEver`) | two connections, two submitters, three orders |
| `SpscQueue` | `SidesAreApart` (`QueueSidesStayApart`), `RingIsAQueue` (`QueuesAreQueues`) | three slots, so it is full with two values and goes round |
| `MpscQueue` | `LinksAreKept` (`QueueSidesStayApart`), `ListIsAQueue` (`QueuesAreQueues`), `AlertsAreFetched` (`NothingWaitsForEver`) | three producers, six nodes: all three interrupted and others after them |
| `ConnectionPool` | `ConnectionsAreOwned`, `FreeIsAnnounced` (`PoolIsSound`), `QueriesEnd` (`NothingWaitsForEver`) | four threads on two connections: two wait while two work |
| `PluginRegistry` | `FactoriesAreMapped`, `LibrariesAreReleased` (`LibrariesAreKept`) | two threads, three libraries, one with the name of a builtin, each mapped up to twice |
| `WalkForward` | `TrialsAreShared`, `FirstOfTheBestIsTested`, `WindowsSeeEnough` (`SearchIsSound`), `OptimizeEnds` (`NothingWaitsForEver`) | two workers, three trials, two fitnesses (ties), four configurations of each window type and method |
| `BacktestClock` | `TimersStayBehindData`, `NoPeriodIsSkipped`, `DaysComeInOrder` (`TimeIsInOrder`) | data of three days, two timers with intervals 0 and 4, runs cut by `run_until()` |
| `AccountGuard` | `ExitsFitThePosition`, `HaltLeavesNothingToExecute` (`StopsAreSound`) | two orders around a position, at most four with all that is under way, one Update event of each, requotes; a call that cancels and halts, a stop-out that liquidates and halts |
| `RiskLimits` | `LongsAreCapped`, `ExposureStaysInLimit`, `OverlayStopsGrowth` (`LimitsHold`) | one symbol (the theorem is for all), two open orders, two prices; a position, gross and leverage limit and an overlay, each alone (net and sector have only the theorem); positions of three and cash of two either way, so that two orders pass one by one and exceed the limit together |
| `Accounting` | `EquityIsExplained`, `TradesExplainCash`, `DrawdownIsTheWorstFall` (`ValuesAgree`) | three fills and marks of two symbols: open, cut or turn, close |
| `OrderRouter` | `ChildrenAddUp`, `SharesAreKept` (`SplitIsExact`) | five uneven venues, one of weight 0, four children at most, nine quantities |
| `RegimeTracking` | `EnsembleFollowsItsMembers`, `StrategiesFollowTheTracker`, `LiveFollowsTheBacktest`, `ChangesAreCounted`, `HooksAreInOrder` (`RegimesAgree`) | two detectors, both voting rules, two hooks, three events |
| `ReplayJournal` | `UndisturbedJournalIsRead`, `ReportedIsWritten` (`JournalIsReadable`) | two threads, three events, two failures |
| `DataValidation` | `OutputIsInOrder`, `NoLookAhead`, `NoHoleIsLeft`, `SkippedGapEndsTheData` (`DataIsSound`) | every file of three rows of four times and three prices, every policy |
| `CorporateActions` | `NamesFollowTime`, `AliasesResolve` (`DataIsSound`), `ReturnsAreCorrected` (`ValuesAgree`) | three of six actions on two dates, four bars |
| `MergedIterator` | `MergeIsInOrder`, `NothingIsLost` (`StreamsAreWhole`) | four streams with ties within and between them, one empty |
| `BarBuilder` | `TicksArePartitioned`, `BarsCloseInTime`, `VwapIsAPrice` (`StreamsAreWhole`) | three ticks of two symbols, two prices and two quantities (one not of whole shares), time bars and the three other kinds |
| `BarFiles` | `AnswersAreWhole`, `AnswersAreExact`, `UncachedAnswersAreCurrent`, `LastUsedStayOpen` (`AnswersAreSound`) | two files, one mapped at a time, three writes of full, empty and one-bar sets, answers cached or not |
| all | `TypesOK` | |

All bounds are constants whose names begin with `Max`, but for constants that are
a component's input: `Feed`, `Plans`, `Quantities`, `Streams` and the like. Deadlock is not checked: each of these
systems may rest, when nobody calls and nothing is under way, and each bounded one stops at
its bound; what must not rest is a liveness property. The threads are symmetric in
`order_manager_safety`, and the two fingerprints of "ids" in `live_orders`: no property of
those runs tells them apart and none is a liveness property.

Every property of a passing run has a mutant of the code that breaks it (`PROJECT.json`): a
dropped guard, a half update, a missing reset. The other parts of a grouped property have theirs
in the modules too, as operators marked "Mutant" next to what they replace; TLC
finds each of them when it is put in its place.

### Fairness

`EventBus!Fairness`: a thread that is inside a call or the loop keeps running (weak fairness
of the dispatcher, of a `stop()` that was begun and of the notification after a push). Nobody
is obliged to publish, start or stop, and no spurious wakeup is owed.

`LiveOrderManager!Fairness`: a call that was begun is finished; a report that is not lost is
handled; reconciliation starts again and again (strong fairness, for the event loop looks
at its timer in every iteration, between calls). The broker owes nothing.

`BacktestExecution!FairSpec` and the scenarios of `backtest_orders`: weak fairness of the next
step. The thread that runs a backtest goes on while there is something to do; the
strategy is called a bounded number of times (`MaxCalls`), so every behaviour that does not
end is the engine's own. Which price comes next is not subject to fairness.

`LiveEngine!Fairness`: a submission that was begun goes on (weak); arriving reports are handled
and orders and positions are refreshed again and again (strong: the loop comes round to them between
submissions, as long as it runs). Nobody must start, stop or trade, and the broker owes nothing.

Components: `LiveFeed` the event loop, the clock, the rest of `start()` and of `stop()`;
`MessageQueue` the event loop, the dispatcher and the clock; `StreamFeed` the subscription of
`start()` and the loop's attempts to reconnect; `ConnectionPool` every thread that is in a query; `MpscQueue` the consumer
and every producer that has taken the tail; `WalkForward` the optimizing thread and its workers;
`IBSession` the reader thread, the end of the reading thread, and the return of a call. Each
is a thread that the operating system runs. Servers, brokers and disks are never obliged: that a
link comes back is in the premise of the property.

### Findings

* `StopReturns`: `stop()` notifies without the mutex. A dispatcher that has just
  found its predicate false and is about to sleep misses it, and the join waits for ever
  (`src/live/event_bus.cpp:24`). `StopHeardReturns` shows that this is the only way it can hang.
* `Converges`: reconciliation never visits an order that the broker no longer reports as open
  (`src/live/live_order_manager.cpp:282`).
* `FilledIsExecuted`: the adapter of Interactive Brokers reports the shares of an execution and
  then the shares filled so far (`src/live/ib_adapter.cpp:667`), that of Alpaca the shares filled so far
  each time (`src/live/alpaca_adapter.cpp:332`), reconciliation the quantity ordered; the manager adds
  each to what was filled (`src/live/live_order_manager.cpp:446`). `LotsAreCountedOnce` therefore counts what was
  reported; `DocumentedFillsAreCountedOnce` says that with reports of single fills it is what was executed.
* `RunEnds`: every partial fill of a limit order leads, by its Update event, to its
  resubmission with the whole quantity at its old time, before any market event
  (`src/engine/backtest_engine.cpp:1552`): it is filled beyond its quantity and, where the book fills it in part each time, the
  run never ends. `LotsAreConserved` says that within one submission nothing is overfilled.
* `CancelsReachTheBroker`: a strategy's `cancel_order()` changes the engine's own table only; the
  broker is never asked (`src/live/live_engine.cpp:420`, `docs/api/strategy.md:81`).
* `ReconnectReturns`: after a lost connection `disconnect()` skips the call that would wake the
  reader thread, and joins it (`src/live/ib_adapter.cpp:209`).

### Other disagreements

Met while modelling, from the same code and documents; they bound what the passing runs say.

Orders:

* An order cancelled in its own Created callback is Pending again when `submit_order()` returns
  (`src/engine/order_manager.cpp:455`; `docs/explanation/order-state-machine.md:17-26`), and an
  immediate-or-cancel order is cancelled after its fills even if they filled it
  (`src/engine/execution_pipeline.cpp:925`).
* A Day order that the expiring market event fills in part is set Pending and submitted again after
  its cancel, so `DayOrdersExpire` is checked where executions fill whole
  (`docs/guide/execution-models.md:146`). A requoted order is submitted again at once instead of
  waiting for the next market event (`docs/guide/execution-models.md:75`). An immediate order
  is said to fill at once and have the rest cancelled (`docs/guide/execution-models.md:145`). The
  pipeline rests it if the session is closed (`src/engine/execution_pipeline.cpp:456`) or the order is not active
  yet (`:452`), leaves it resting when it then finds no price (`:808`) or no session (`:795`), and a stop limit order that has
  triggered may wait in the venue's queue (`:856`). `ImmediateIsOver` says that this is all:
  an immediate order that waits has not been touched, and every other one is over.
* `route()` gives a venue of weight 0 a child when `min_child_qty` is positive, and an empty child
  when it is not; `SharesAreKept` says what the venues get.

Live engine:

* An identical order sent again within the duplicate window is said to be rejected before it reaches
  the adapter (`docs/live/resilience.md:37`). After a call that timed out it is not, and both may be at the broker;
  `NoTwinInWindow` is about submissions that were answered.
* An order whose id is taken stays Pending and is not sent, without a word (`src/live/live_engine.cpp:566`).
  A refused order is set Pending by the trailing change all the same.
* After a breach of the daily loss limit trading is off before `close_all_positions()` runs, and
  its exits are dropped (`src/live/live_engine.cpp:1494`, `:1526`).
* With a threaded adapter the journal's entry of a submission can follow that of its report, so
  `JournalMatchesTable` speaks of polled adapters. A refresh of positions between an execution and its report counts
  the fill twice until the next refresh; `SettlesWithBroker` says that it is undone.
* The loop calls `on_bar` before `initialize()` and `on_start()` when data comes early.
  The live engine never calls `on_fill` or `on_order_update`.
* A reconnection leaves the heartbeat's time alone, and alert flag, attempts, backoff and leftover
  queue survive `stop()` and `start()` (`docs/live/resilience.md:23-25`); once the attempts are
  used up nothing retries (`docs/api/live.md:46`), so `ConnectionComesBack` is checked without a limit. A failed connection of
  the message queue in `start()` leaves bus and broker running (`src/live/live_engine.cpp:728`).
* The list of alerts has several consumers, which `MpscQueue` forbids; the model has one.
* A second `connect()` of the IB adapter replaces its client reader, whose destructor disconnects the new
  connection. The gateway may answer twice, and the second `nextValidId` sets the counter back, so
  `OrdersHaveOwnNumbers` leaves out sessions in which an order was placed between the two.
* A failed connection of the stream leaves the Alpaca adapter "connected" with a feed that is not subscribed.
* Entries of the stream that were read and not acknowledged are never read again.

Backtest:

* The end of a day comes before the last event of the day. Timers set in `on_start` count from time
  0 (`docs/api/strategy.md:92`), and the queued event of a cancelled timer still fires.
  `on_end_of_day` is never called (`docs/api/strategy.md:68`). A `step()` of a finished
  backtest runs start and stop again.
* Account callbacks run before the halt is noted (`src/engine/backtest_engine.cpp:262`), and a fill under way
  opens a position again after a stop-out (`docs/guide/backtesting.md:136`);
  `HaltLeavesNothingToExecute` is about orders that rest, and leaves out those submitted in such a callback.
* A breach is said to cancel resting orders or to halt new order entry, and a stop-out to flatten every position
  (`docs/guide/backtesting.md:131-136`). An Update event, queued with a partial fill
  or by a requote, sets its order Pending although the halt has cancelled it, and the callback hands it to the
  pipeline: trading is only tested in the pre-submit callback
  (`src/engine/backtest_engine.cpp:1552`, `:1319`, `:1246`). The halted account then has a live order;
  `HaltLeavesNothingToExecute` names it as its other exception (`escapes`). In the same way the requote of an exit
  may bring it back when it has been executed, so `ExitsFitThePosition` ends there (`disturbed`).
* A refused exit leaves
  `exit_requested` set, and a position that grows while its exit works gets a second one of full
  size; `ExitsFitThePosition` speaks of
  positions nobody else changed since the exit was asked for.
* `MaxPositionLimit` is said to cap the absolute position (`docs/explanation/risk-limits-deep.md:19`,
  `include/regimeflow/risk/risk_limits.h:84`). It adds the quantity whatever the side, so shorts are not capped
  (`:101`), and open orders are not counted, so that longs are only capped up to the
  buys that were open when the last was validated: `LongsAreCapped` states that and no more. Fills at
  worse prices, of other orders first, or of a second part, exceed the exposure limits too, so `ExposureStaysInLimit` is about
  the first fill of an order that nothing overtook. Market orders pass notional and exposure limits.
* Rebates are lost in the trades by `max(0, fees - used)`, so `TradesExplainCash` is checked with
  fees that are not negative.
* The live engine announces the first regime and the backtest does not; `duration_in_from` counts from the
  last update. A hook that registers a hook while hooks are invoked invalidates the iteration.

Data and the rest:

* `on_gap = skip` lets nothing through after the first gap, which `SkippedGapEndsTheData` states.
  The CSV reader's outlier checks never drop a bar (`src/data/csv_reader.cpp:709`).
* Actions that are added twice split twice; an amount dividend takes its factor from each bar's own
  price; chains of names resolve one level.
* An empty set of bars is written and then refused; rewriting a file in place ends a process
  that maps it; the checksum is never verified; the cache of answers is stale after a rewrite, so
  `UncachedAnswersAreCurrent` leaves it out. A range that ends before it begins makes `get_bars()` throw
  (`src/data/mmap_data_source.cpp:108`); the run asks for none.
* A bar without one whole share has a volume and a `vwap` of 0 (`src/data/bar_builder.cpp:105`), below its low;
  `VwapIsAPrice` is about the others.
* The anchored window does not expand (`docs/explanation/walk-forward.md:17`,
  `src/walkforward/optimizer.cpp:263`), a bar on the boundary is in and out of sample, a step of 0 never ends, and the
  first exception discards all windows.
* A failed `create_connection()` and a row handler that throws lose a connection of the pool; with all
  lost every query waits, so `QueriesEnd` is stated while one is left.
* A torn line makes the whole replay journal unreadable, and threads append without a mutex
  (`docs/explanation/live-resiliency.md:29`); `UndisturbedJournalIsRead` is about the journals
  neither happened to.
* A library with the name of a builtin replaces it, and its unloading leaves neither. Objects
  of a library may outlive it.

## 4. Proofs

The theorems hold for every value of the constants that the modules' assumptions allow; TLC
evaluates those assumptions in the runs. The small components state theirs as a definition, which
`MCComponents` assumes of each instance (`PartsAssumption`).

**EventBusProofs.** `BusInv` is `TypeOK`, `TakesOnlyWhatIsThere`, `SleepsOnlyWhenDrained` and
`OwnerProtocol`. `TypeOK` is not inductive: `Take` reads the front of the queue. That there
is one follows from the predicate tested before, unless `running` was set again in between;
`OwnerProtocol` says that the owner sets it only when the thread is gone. `ChannelInv` adds what
the mapping to `MessageChannel` needs: each message is in one place only, once in the backlog or
in the hand of the dispatcher, and a callback that has run for the one in hand is no longer on its
list. Theorems: `TypeCorrect`, `TakeIsSafe`, `SleepIsSafe`, their conjunction
`BusDispatcherIsSafe`, `StoppedBusIsQuiet`, and the refinement `BusImplementsChannel`, in which every
access of shared state is a step of the channel or a stutter.

**OrderManagerProofs.** `RoutingInv` adds to `TypeOK`, `TablesAgree` and `ChildrenAreNotRouted`
what these rest on while calls are under way: a parent keeps its plan until it is activated
(`ParentsHavePlans`), the two directions of parenthood agree (`ChildrenKnowParents`), the
loops on the stacks hold children of routed parents (`FramesFit`), and an unadopted child awaits
its adoption in exactly one frame of one thread (`AdoptedOnce`); without the last, `AdoptChild`
could enter a child twice. The proof splits the invariant in what is said of the tables
(`TablesInv`) and of the frames (`FramesInv`). Most operations push frames that adopt
nothing (`Harmless`), so one lemma, `HarmlessFramesKeepInv`, serves them; `LaunchChild` and
`AdoptChild`, which create and spend an adoption, have proofs of their own.
`ChildrenInv` is about the children of a plan, which go from `pending` into the loop of an activation
or of a report and from there to the order table, while other threads do the same. It counts
them as the places they have in loops (`InFlight`), so that a step that sends one child loses
one place and adds one order, and whatever enters a loop leaves the plan (`PlansShrink`); that no
other frame starts to launch is shown for each operation by what it pushes (`SendsAtMost`). `Accounts` says
what a report does to the counts of a family, through `OnChildFill`, `FinalStatus` and `LaunchNext`,
and `FillsFollow` that the parent moves by what its child moved. `SetsDoNotFill` says that the changes
of status still to come make no order Filled, so a parent that becomes filled is made so by a report of
a child, which compared the counts (`Backed`): fills of its own no parent gets. For that step alone
`ChildrenStayAccountedFor` assumes that callers report fills as fills, through `process_fill()`:
`ReportedStatuses` is without "filled", as in the run, since `update_order_status(id, Filled)` makes any order
filled, its fills or not. The first two parts need no assumption.
Theorems: `RoutingInvariant`, `TypeCorrect`, `RoutingTablesAgree`, `RoutingHasTwoLevels`,
`RoutingConsistency`, `PlansAreCarriedOutOnce`, `FillsReachTheParent`, `ChildrenStayAccountedFor`.

**LiveOrderManagerProofs.** `LiveInv` adds to `TypeOK` and `OneIdPerBrokerOrder` that the order
between the two halves of `submit_order()` is new (`SubmissionIsNew`: its number is unknown
here and its id free or over) and that all orders are the broker's
(`KnownToBroker`). That ids given out lie below the counter is in `TypeOK`, and is why
reconciliation cannot take an id. `WindowInv` says that the fingerprint of every order whose submission was answered
within the window is noted in `recent_order_keys_`, or the order is the one being submitted: nothing is placed behind it
with that fingerprint, answered or not. `LotsInv` says what is due of each order of the
broker, reported and neither under way nor missed: the order that is known here has
counted just that, and of an order that is not known nothing is due. `ReportedInv` says that the broker
executes nothing that is not reported, and with an adapter that reports fills nothing else is reported; whatever it does
with an order is one report (`ReportStep`). Sums of the lots of reports
under way come from `SumProofs`. Theorems: `TypeCorrect`, `BrokerOrdersHaveOneId`,
`LiveIdsAreConsistent`, `ActiveOrdersAreKept`, `ReportsDoNotReopen`, `WindowHasNoTwins`,
`ReportedLotsAreCountedOnce`, `DocumentedFillsAreCountedOnce`. With reconciliation the last two are an account of what it counts again, not a
denial of it.

**BacktestExecutionProofs.** `TypeInv` says more than `TypeOK`: whatever an event, a frame of the
stack or the pipeline names is in the order table (`Placed`), and orders are numbered without
a gap, so a submission takes a new id. `Answers` is what every answer of the pipeline about an
order keeps, one lemma per entry point (`SubmissionAnswers`, `MatchingAnswers`). `StackInv` adds
why an order that is over cannot come to rest (`Consistent`): every frame that may hand an order to
the pipeline has an open order, no two frames do so for one order, and none lies below a call
of the strategy that can cancel or modify. `RestedInv` says that an order that rests and is over has a
frame of callbacks on the stack that will take it out. The last part of `Consistent` needs
`UpdateOps \subseteq {"submit"}`, the assumption of `RestingOrdersAreOpen`: without it the
statement is false (section 2.4). `WorkInv` is for the two properties that need no such
assumption. On the stack, an order whose end is still to be told is over, and no call before
that hands it to the pipeline (`EndsLast`); a Pending order rests, is heard of in an event or is
about to be handed over (`PendingIsTracked`); before an order is handed over nothing of it is
filled or rests (`NotHanded`); afterwards what is filled, what the fill events on their way carry and what rests
add up to what was handed over, unless an event behind the last of those fills ends the
order (`HandedOnce`). `Outcome` is what one execution by the pipeline does to these sums, one lemma per way it can
end. `WholeInv` adds what a fill-or-kill order rests on: the snapshots on the stack have the time in
force that the order was given (`TrueFrames`), so the pipeline judges by the right one, and while such an order
rests all of it does, with nothing filled (`WholeOrNone`); `Whole` is what one execution may then
do. Theorems: `TypeCorrect`, `RestingOrdersAreOpen`, `BacktestOrdersAreConsistent`,
`WorkingStaysTracked`, `LotsStayConserved`, `FillOrKillStaysWhole` and of these two
`ExecutionsStaySound`; the last four speak, as the properties do, of orders
handed to the pipeline once, which is what the finding `RunEnds` leaves.

**LiveEngineProofs.** `EngineInv` is about both sides of every step of a submission and of a
report, with crashes in between. `Shape` and `Sources` say what the variables range over and
where calls under way come from; `Table` that live orders are numbered below the counter, each with a broker
order of its own; `SubmissionNamesRow` and `ReportNamesRow` which row of the table the call
under way is about, so that the maps may lag behind the table only there
(`MapsFollowTheTable`); `JournalNamesRows` ties what a restart would restore to the rows, for
`RestorableIdsAreUnique`; `SentAsItself` and `Credits` tie broker orders to the strategy's, for
`FillsFindTheirOrder`. `Types` is `TypeOK` with what the calls under way may hold, and
`JournalInv` makes `JournalMatchesTable` inductive: rows have broker orders of their own, and with a polled
adapter a submission and a report are never under way together, so the one row that is not
written as it stands is that of the one call (`OneCallAtATime`). Theorems: `EngineMapsFollow`,
`EngineRestoresAll`, `EngineBooksOnTheRightOrder`, `EngineIdsAreConsistent`, `EngineTypes`,
`EngineTablesAreConsistent`.

**ComponentProofs.** Each component is first proved about alone, and then every behaviour of
`MCComponents` is shown to be one of each component (`PoolRuns` and the like), so the theorems
`PartsSpec => []...` are the properties of the run.

* Ring and list: `RingInv` is `TypeOK` and `SidesAreApart`; the steps map to those of `BoundedQueue` by
  lemmas on positions modulo the capacity. `ListInv` says that every node made and not freed is linked
  from its predecessor or has a producer that will link it, and the refinement maps the list to the
  order of the exchanges. `QueuesStayApart`, `QueuesStayQueues`.
* Pool: three counts. Connections are in the pool, in one thread's hands or lost (`Owned`, `Counted`), and
  for every free connection beside a sleeper somebody is awake or about to notify
  (`Announced`). They are sums of cardinalities, so the lemmas say how the counts move when
  one thread moves. `PoolStaysSound`.
* Plugins: what tables and loaders hold, and that a library is open once for its record and once for
  each thread under way with it. `PluginsStayMapped`.
* Live feed and stream: `BackoffIsBounded` and `ServedAsSubscribed` are inductive with what the variables
  range over. `FeedsStayServed`.
* IB session: what the caller knows of the flags (`CallerKnows`), and, unless an order was placed between the two
  answers, that orders have the numbers the gateway counts (`CountedAsSent`). `OrdersStayNumbered`.
* Replay journal: what a call is about to report is in the file while the stream is open, and each
  refusal costs one reported event (`JournalKept`); an undisturbed journal is whole lines in order and the one being
  written (`JournalTidy`).
  `JournalStaysReadable`.
* Message queue: what was handed over comes before what is about to be, and both before the cursor
  (`HandedInOrder`); a message is on the bus at most once from the broker and once from the stream
  (`OnceRound`).
  `EntriesGoOnceRound`.
* Router: what is planned and what remains add up, at each step of the loop. `SplitsStayExact`.
* Mapped files: `MappedInv` says that the files mapped are versions that were on the disk whole, that a cached
  answer is the range of one of them, and that each cache has distinct keys, no more than its
  capacity, and in front what was used last. The lemmas are about the list of a cache: what looking up,
  moving to the front and evicting leave of it. `AnswersStaySound`, for every capacity, with and without
  kept answers.
* Rows of a file: `RowsInv` says that the bars so far are rows, in order, and what a gap with
  `on_gap = skip` has left out (`GapIsFinal`): from the first row left out on, each is further
  than the gap from the last bar. Filling is a recursive function; `FilledFile` follows it bar by bar
  (`FillOne`), with the number of bars between two a whole quotient. Corporate actions:
  the lists are in order of dates, and by recursion on the list an adjusted bar has the name of the
  last change that was not to come (`NamedBy`). `DataStaysSound`.
* Merging: what was given of a stream is what precedes its item in the heap (`HeapFits`,
  `GivenFits`), counted by cardinalities, and nothing given is later than what waits (`GivenInTime`), which
  needs that each stream is in order (`StreamsAssumption`). Bars: each is made of consecutive ticks and begins
  where the one before it ended (`BarsFollow`), and its sums bound the average price (`OneBar`), by products
  with the whole part of a quotient. `StreamsStayWhole`.

**BacktestComponentProofs.** The same way, for the components around a backtest: an invariant of the
component alone, and a theorem `PartsSpec => []...` (for `LimitsHold`, action properties).

* Clock: the properties are inductive with `EventsFit`, which says of the queue that its market
  events are the feed's and that the marker of a day stands at the first data of that day, and
  `TimersFit`: a timer's next time is its start and one interval for every time it fired.
  `TimeStaysInOrder`, for every feed, length of a day, interval and end of a run.
* Stops and margin: `OneExit` says that the manager has at most one order in work, and that what
  rests of it and what is on its way end between the position and zero, as long as nobody else
  changed the position and no Update brought the order back; `StopKnows` that the manager has seen the position it acts on. Every way a handler
  can cancel, fill or refuse only shrinks exits (`ExitsShrink`). `OnlyEscapesRest` is about a halted account:
  what rests, or has an Update event on its way, was marked when the halt reached it. `StopsStaySound`.
* Limits: `FreshPassed` says that an order that nothing overtook still passes the limit it was
  validated by, and `LongsFit` that as long as a buy is open the position with all open buys is within the
  limit and the buys that were not counted. `ExposureStep` compares the
  sums of the exposures before and after a fill at the portfolio's price, by the lemmas of `SumProofs`
  and of products (`FillAtThePrice`). `LimitsStayHeld`.
* Regime: `VotingFits` follows the ensemble from the answers to its decision; with members of
  one mind the sum of the weights is the sum for that regime, whatever the weights, and
  the vote by confidence has it as its first greatest (`OneLeads`). `TrackInv` says what tracker, strategies,
  metrics and the live handler know of each other before and after the first bar, a tick and a
  missed transition; `HooksFit` that the list of hooks is in order of priority and, among equals, of
  registration. `RegimesStayAgreed`.
* Search: `TrialsAreClaimed` says that a trial below the shared counter was evaluated or is run by
  exactly one thread, and one above it is nobody's; `TrialsAreTried` the same of the search without
  threads. What is tested is the first of the best of what has an outcome (`TheFirstIsTested`), which a loop
  over all finds as well as threads that finish in any order (`Leading`). `WindowsAreSeen` is about the
  bars of each window. `SearchStaysSound`, for every number of threads, trials and bars.
* Books: fractions are compared over a common denominator, `Is(x, v, D)`: x is v / D, so that every step
  is one identity of whole numbers, over the product of the denominators it meets. `CashIs`
  says so of portfolio cash, realized profit and average costs: a fill that increases, cuts or turns a
  position moves them by what `FillMoves` says. `TradesAre` says it of the profit of the trades and the costs of the
  open lots, whose recursion over the lots of a symbol is followed lot by lot (`MatchIs`, `FillMatches`);
  that fees do not go below zero is where `max(0, fees - used)` loses nothing. `EquityStaysExplained`,
  `TradesStayExplained`, for every set of symbols, prices, sizes, fees and capital.

**SumProofs.** `Sums` defines the sum of a sequence by a recursive function. Its lemmas (the
sum of a concatenation, of an appended, removed or changed element, of naturals) are proved by the least
element of a set of numbers (`LeastNumber`), since the library's induction theorems take an
operator, which the provers cannot instantiate. `Recursion` and `SetInduction` are what the proofs about other
recursive functions rest on: the function exists, and what holds of 0 and of each successor holds up to n.

Only model-checked:

* liveness, which the prover does not reach: `BusGoesOn`, `WaitingRunEnds`, `SettlesWithBroker`,
  `NothingWaitsForEver`, `LostLinksAreHandled`;
* `TimeInForceIsKept`: both its parts hold only for the kinds of execution and latency that the
  run's scenarios have (section 3), so they are statements about these instances;
* of `ValuesAgree`, two parts: `DrawdownIsTheWorstFall`, and `ReturnsAreCorrected`, which is exact only where
  prices divide by the factors, as those of the run do, since the code cuts what is left of a
  division;
* `TypesOK`: the types of the small components. What is proved needs the types of its own component
  and proves them with its invariant; the rest of the conjunction belongs to the three groups above.

## 5. What is left

1. Proof: that the drawdown of one pass is the worst fall (`DrawdownIsTheWorstFall`), by induction on the curve.
2. The liveness of a parent whose next child is refused: the result of submitting it is dropped
   (`src/engine/order_manager.cpp:356`).
3. The strategy in `LiveEngine` with partial executions, and `LiveEngine` over two symbols.
4. Concurrent producers of `EventQueue`, which no engine of the repository has.

## 6. Not modelled

* The pool allocator (it succeeds or the program ends), regime numerics (filters and Markov
  models on floating point), strategies (indicators that call the context, whose calls are
  actions of the engines' modules in any order).
* Parsing, framing, HTTP, TLS and SQL: what they deliver is an input of the modules.
* The metrics endpoint, execution quality, parity checker, audit log and state manager:
  reporting, without a protocol of their own.
* Tools, Python bindings and the dashboard: wrappers, and the largest part of the
  repository's lines.
* Of modelled components: the parts named in each section, and in `PROJECT.json` by
  component. Vendored code under `third_party/` is no part of this; the reading thread
  of the IB client is external in `IBSession`.

## 7. Running

    tlc -workers 2 -config EventBus_bus.cfg MCEventBus
    tlc -workers 2 -config OrderManager_safety.cfg MCOrderManager
    tlc -workers 2 -config LiveOrders.cfg MCLiveOrders
    tlc -workers 2 -config BacktestOrders.cfg MCBacktestOrders
    tlc -workers 2 -config LiveEngine_orders.cfg LiveEngine
    tlc -workers 2 -config Components.cfg MCComponents
    tlapm OrderManagerProofs.tla
    tlapm ComponentProofs.tla
    tlapm BacktestComponentProofs.tla

`PROJECT.json` names the module, configuration and properties of each run, and maps each
definition to the lines it models.
