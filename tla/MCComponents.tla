---------------------------- MODULE MCComponents ----------------------------
(***************************************************************************)
(* Instances of the components that need no other one to be checked: a     *)
(* behaviour is that of one of them, `part`, while the rest stands still.  *)
(* Of those that ComponentProofs and BacktestComponentProofs prove about,  *)
(* the size is a constant here; the others are small instances for TLC.    *)
(***************************************************************************)
EXTENDS Integers, Sequences

CONSTANTS
  RingCapacity, RingValues, ListProducers, ListNodes,
  FeedCapacity, FeedTimeout, FirstBackoff, LastBackoff, FeedAttempts, FeedPublished,
  StreamSymbols, Submitters, GatewayConnects, GatewayOrders,
  PoolThreads, PoolSize, PoolQueries,
  PluginThreads, Libraries, PluginOf, Builtins, LibraryOpens,
  VenueWeights, RouteChildren, RouteMinimums, RouteQuantities,
  OwnMessages, ForeignMessages, ReadCount, ReconnectLimit, StreamEntries,
  JournalThreads, JournalEvents, JournalFailures,
  GuardSlots, GuardTrades, GuardRequotes, GuardExposure, GuardUpdates,
  MarginCallAction, MarginStopOutAction, HaltAtStopOut,
  RiskSymbols, RiskPrices, RiskTrades, ConfiguredLimits, RiskCash, RiskHoldings,
  RiskOpen, RiskPosition, RiskMaxCash,
  ClockFeed, ClockDayLength, ClockChecks, ClockTimers, ClockIntervals, ClockEnds,
  ClockCalls, ClockRuns,
  EnsembleSize, EnsembleWeights, DetectorAnswers, FullCertainty, HookPriorities,
  HistoryKept, HooksGiven, RegimeEvents,
  SearchWorkers, SearchTrials, SearchFitnesses, SearchConfigs, SearchRange, SearchBars,
  MergedStreams, TickSymbols, TickPrices, TickQuantities, TickSteps, ShareUnit,
  BarKinds, BarThreshold, TicksGiven,
  FileSymbols, FileInputs, FileRanges, FileColumns, FileDay, FilesOpen, AnswersKept,
  FileWrites,
  RowTimes, RowPrices, RowInterval, RowGap, RowJump, OnErrors, OnGaps, OnWarnings, RowsRead,
  SplitSymbols, ListedActions, SplitBars, ActionsAdded,
  BookSymbols, FillPrices, FillQuantities, FillFees, BookCapital, BookSteps

VARIABLES
  part,  \* which component this behaviour is of
  feed_owner, feed_running, feed_trading, feed_ready, feed_loop, feed_queue, feed_bus,
  feed_silence, feed_alerted, feed_connected, feed_attempts, feed_backoff, feed_retryIn,
  feed_up, ring_buffer, ring_head, ring_tail, ring_pushing, ring_value, ring_popping,
  ring_out, list_next, list_head, list_tail, list_made, list_prev, list_popped,
  list_freed, clock_queue, clock_numbered, clock_current_time, clock_timers, clock_loop,
  clock_end, clock_started, clock_calls, clock_runs, clock_seen, clock_counted,
  stream_starting, stream_connected, stream_symbols, stream_feed, stream_alerted,
  stream_silent, stream_served, stream_cut, stream_up, stream_failed, rows_config,
  rows_rows, rows_out, rows_fill_on_gap, rows_state, merge_heap, merge_read,
  merge_given, bars_type, bars_has_state, bars_bar, bars_now, bars_bars, bars_ticks,
  guard_position, guard_stop, guard_orders, guard_account, guard_disturbed,
  router_quantity, router_least, router_remaining, router_children, walk_config,
  walk_phase, walk_results, walk_index, walk_running, walk_outcomes, walk_failure,
  walk_best, walk_cancelled, walk_evaluated, plugins_factories, plugins_dynamic,
  plugins_opens, plugins_doing, books_cash, books_position, books_realized, books_paid,
  books_lots, books_pnl, books_curve, limits_limit, limits_cash, limits_quantity,
  limits_price, limits_open, limits_uncounted, pool_pool, pool_total, pool_at,
  pool_held, pool_opened, pool_queries, pool_lost, mq_running, mq_connected, mq_link, mq_attempts, mq_due, mq_batch, mq_bus,
  mq_handled, mq_stream, mq_cursor, mq_unacked, mq_handed, mq_up, journal_file,
  journal_flushed, journal_stream, journal_writing, journal_number, journal_reported,
  journal_failures, journal_disturbed, ib_caller, ib_connected, ib_ready, ib_next_id,
  ib_socket, ib_has_reader, ib_reading, ib_inbox, ib_signal, ib_reader, ib_submitting,
  ib_placed, ib_connects, ib_lost, ib_hasty, ib_up, regime_voting, regime_hooks,
  regime_answers, regime_has_state, regime_current, regime_history, regime_known,
  regime_missed, regime_last, regime_counted, regime_changes, regime_behind,
  regime_live, regime_live_known, regime_events, mapped_disk, mapped_versions,
  mapped_writing, mapped_files, mapped_ranges, mapped_capacity, mapped_used,
  mapped_answer, splits_listed, splits_actions

feedVars ==
  <<feed_owner, feed_running, feed_trading, feed_ready, feed_loop, feed_queue, feed_bus,
   feed_silence, feed_alerted, feed_connected, feed_attempts, feed_backoff,
   feed_retryIn, feed_up>>

ringVars ==
  <<ring_buffer, ring_head, ring_tail, ring_pushing, ring_value, ring_popping, ring_out>>

listVars ==
  <<list_next, list_head, list_tail, list_made, list_prev, list_popped, list_freed>>

clockVars ==
  <<clock_queue, clock_numbered, clock_current_time, clock_timers, clock_loop, clock_end,
   clock_started, clock_calls, clock_runs, clock_seen, clock_counted>>

streamVars ==
  <<stream_starting, stream_connected, stream_symbols, stream_feed, stream_alerted,
   stream_silent, stream_served, stream_cut, stream_up, stream_failed>>

rowsVars ==
  <<rows_config, rows_rows, rows_out, rows_fill_on_gap, rows_state>>

mergeVars ==
  <<merge_heap, merge_read, merge_given>>

barsVars ==
  <<bars_type, bars_has_state, bars_bar, bars_now, bars_bars, bars_ticks>>

guardVars ==
  <<guard_position, guard_stop, guard_orders, guard_account, guard_disturbed>>

routerVars ==
  <<router_quantity, router_least, router_remaining, router_children>>

walkVars ==
  <<walk_config, walk_phase, walk_results, walk_index, walk_running, walk_outcomes,
   walk_failure, walk_best, walk_cancelled, walk_evaluated>>

pluginsVars ==
  <<plugins_factories, plugins_dynamic, plugins_opens, plugins_doing>>

booksVars ==
  <<books_cash, books_position, books_realized, books_paid, books_lots, books_pnl,
   books_curve>>

limitsVars ==
  <<limits_limit, limits_cash, limits_quantity, limits_price, limits_open,
   limits_uncounted>>

poolVars ==
  <<pool_pool, pool_total, pool_at, pool_held, pool_opened, pool_queries, pool_lost>>

mqVars ==
  <<mq_running, mq_connected, mq_link, mq_attempts, mq_due, mq_batch, mq_bus, mq_handled,
   mq_stream, mq_cursor, mq_unacked, mq_handed, mq_up>>

journalVars ==
  <<journal_file, journal_flushed, journal_stream, journal_writing, journal_number,
   journal_reported, journal_failures, journal_disturbed>>

ibVars ==
  <<ib_caller, ib_connected, ib_ready, ib_next_id, ib_socket, ib_has_reader, ib_reading,
   ib_inbox, ib_signal, ib_reader, ib_submitting, ib_placed, ib_connects, ib_lost,
   ib_hasty, ib_up>>

regimeVars ==
  <<regime_voting, regime_hooks, regime_answers, regime_has_state, regime_current,
   regime_history, regime_known, regime_missed, regime_last, regime_counted,
   regime_changes, regime_behind, regime_live, regime_live_known, regime_events>>

mappedVars ==
  <<mapped_disk, mapped_versions, mapped_writing, mapped_files, mapped_ranges,
   mapped_capacity, mapped_used, mapped_answer>>

splitsVars ==
  <<splits_listed, splits_actions>>

allVars ==
  <<part, feedVars, ringVars, listVars, clockVars, streamVars, rowsVars, mergeVars,
    barsVars, guardVars, routerVars, walkVars, pluginsVars, booksVars, limitsVars,
    poolVars, mqVars, journalVars, ibVars, regimeVars, mappedVars, splitsVars>>

-----------------------------------------------------------------------------
(* The instances.                                                          *)

\* The loop of the live engine, a broker that comes and goes.
Updates == INSTANCE LiveFeed WITH
  owner <- feed_owner, running <- feed_running, trading <- feed_trading,
  ready <- feed_ready, loop <- feed_loop, queue <- feed_queue, bus <- feed_bus,
  silence <- feed_silence, alerted <- feed_alerted, connected <- feed_connected,
  attempts <- feed_attempts, backoff <- feed_backoff, retryIn <- feed_retryIn,
  up <- feed_up, Capacity <- FeedCapacity, Timeout <- FeedTimeout,
  Initial <- FirstBackoff, Longest <- LastBackoff, MaxAttempts <- FeedAttempts,
  MaxPublished <- FeedPublished

\* A ring.
Ring == INSTANCE SpscQueue WITH
  buffer <- ring_buffer, head <- ring_head, tail <- ring_tail, pushing <- ring_pushing,
  value <- ring_value, popping <- ring_popping, out <- ring_out,
  Capacity <- RingCapacity, Values <- RingValues

\* A list with several producers.
List == INSTANCE MpscQueue WITH
  next <- list_next, head <- list_head, tail <- list_tail, made <- list_made,
  prev <- list_prev, popped <- list_popped, freed <- list_freed,
  Producers <- ListProducers, MaxNodes <- ListNodes

ThreeDays ==
  << [time |-> 12, symbol |-> 1], [time |-> 12, symbol |-> 2], [time |-> 15, symbol |-> 1],
     [time |-> 23, symbol |-> 1] >>

\* Data, timers, and calls of run(), step() and run_until().
Clock == INSTANCE BacktestClock WITH
  queue <- clock_queue, numbered <- clock_numbered, current_time <- clock_current_time,
  timers <- clock_timers, loop <- clock_loop, end <- clock_end,
  started <- clock_started, calls <- clock_calls, runs <- clock_runs,
  seen <- clock_seen, counted <- clock_counted, Feed <- ClockFeed,
  DayLength <- ClockDayLength, CheckInterval <- ClockChecks, TimerIds <- ClockTimers,
  Intervals <- ClockIntervals, Ends <- ClockEnds, MaxCalls <- ClockCalls,
  MaxRuns <- ClockRuns

\* Symbols over a WebSocket.
Stream == INSTANCE StreamFeed WITH
  starting <- stream_starting, connected <- stream_connected, symbols <- stream_symbols,
  feed <- stream_feed, alerted <- stream_alerted, silent <- stream_silent,
  served <- stream_served, cut <- stream_cut, up <- stream_up, failed <- stream_failed,
  Symbols <- StreamSymbols

\* Rows of a file under every policy.
Rows == INSTANCE DataValidation WITH
  config <- rows_config, rows <- rows_rows, out <- rows_out,
  fill_on_gap <- rows_fill_on_gap, state <- rows_state, Times <- RowTimes,
  Prices <- RowPrices, Interval <- RowInterval, MaxGap <- RowGap, MaxJump <- RowJump,
  ErrorActions <- OnErrors, GapActions <- OnGaps, WarningActions <- OnWarnings,
  MaxRows <- RowsRead

At(time, symbol) == [time |-> time, symbol |-> symbol]
\* Four streams with common times, one of them empty.
FourStreams ==
  << <<At(1, 1), At(2, 1), At(2, 1), At(4, 1)>>, <<At(1, 2), At(2, 2), At(3, 2), At(5, 2)>>,
     <<At(2, 1), At(2, 1), At(4, 1)>>, <<>> >>

\* Streams merged by time.
Merge == INSTANCE MergedIterator WITH
  heap <- merge_heap, read <- merge_read, given <- merge_given,
  Streams <- MergedStreams

\* Ticks into bars of every type.
Builder == INSTANCE BarBuilder WITH
  type <- bars_type, has_state <- bars_has_state, bar <- bars_bar, now <- bars_now,
  bars <- bars_bars, ticks <- bars_ticks, Symbols <- TickSymbols, Prices <- TickPrices,
  Quantities <- TickQuantities, Steps <- TickSteps, Unit <- ShareUnit,
  BarTypes <- BarKinds, Threshold <- BarThreshold, MaxTicks <- TicksGiven

\* The strategy buys one or sells two.
BuyOneSellTwo == {1, -2}

\* Orders around a position.
Guard == INSTANCE AccountGuard WITH
  position <- guard_position, stop <- guard_stop, orders <- guard_orders,
  account <- guard_account, disturbed <- guard_disturbed, Slots <- GuardSlots,
  Trades <- GuardTrades, Requotes <- GuardRequotes, MaxExposure <- GuardExposure,
  MaxUpdates <- GuardUpdates, CallAction <- MarginCallAction,
  StopOutAction <- MarginStopOutAction, HaltAfterStopOut <- HaltAtStopOut

\* Five venues, one of weight 0.
Uneven == <<3, 0, 1, 5, 1>>

\* Orders over venues.
Router == INSTANCE OrderRouter WITH
  quantity <- router_quantity, least <- router_least, remaining <- router_remaining,
  children <- router_children, Weights <- VenueWeights,
  MaxChildren <- RouteChildren, MinChildren <- RouteMinimums,
  Quantities <- RouteQuantities

Config(type, method, maximize, in_sample, out_of_sample, step) ==
  [window_type |-> type, method |-> method, maximize |-> maximize, in_sample |-> in_sample,
   out_of_sample |-> out_of_sample, step |-> step]
SomeConfigs ==
  { Config("Rolling", "Grid", TRUE, 3, 2, 3), Config("RegimeAware", "Grid", FALSE, 3, 3, 3),
    Config("RegimeAware", "Bayesian", TRUE, 2, 2, 4), Config("Anchored", "Bayesian", FALSE, 4, 4, 4) }
RegimeBar(ts, regime) == [ts |-> ts, regime |-> regime]
RegimeBars ==
  << RegimeBar(1, "bull"), RegimeBar(2, "crisis"), RegimeBar(2, "neutral"), RegimeBar(4, "bull"),
     RegimeBar(5, "neutral"), RegimeBar(8, "bull"), RegimeBar(9, "bull") >>

TenDays == [start |-> 0, end |-> 10]

\* Threads that share the trials of a window, under every configuration.
Walk == INSTANCE WalkForward WITH
  config <- walk_config, phase <- walk_phase, results <- walk_results,
  index <- walk_index, running <- walk_running, outcomes <- walk_outcomes,
  failure <- walk_failure, best <- walk_best, cancelled <- walk_cancelled,
  evaluated <- walk_evaluated, Workers <- SearchWorkers, Trials <- SearchTrials,
  Fitnesses <- SearchFitnesses, Configs <- SearchConfigs, FullRange <- SearchRange,
  Bars <- SearchBars

PluginNamed(type, name) == [type |-> type, name |-> name]
Given == {PluginNamed("strategy", "a")}
Gives == [l \in {"l1", "l2", "l3"} |->
  CASE l = "l1" -> PluginNamed("strategy", "a")
    [] l = "l2" -> PluginNamed("risk", "a")
    [] l = "l3" -> PluginNamed("strategy", "b")]

\* Threads that load and unload libraries.
Plugins == INSTANCE PluginRegistry WITH
  factories <- plugins_factories, dynamic <- plugins_dynamic, opens <- plugins_opens,
  doing <- plugins_doing, Threads <- PluginThreads, MaxOpens <- LibraryOpens

\* A sale turns round what has been bought.
BuysAndSales == {-3, 1, 2}

\* Fills and marks of some symbols.
Books == INSTANCE Accounting WITH
  cash <- books_cash, position <- books_position, realized <- books_realized,
  paid <- books_paid, lots <- books_lots, pnl <- books_pnl, curve <- books_curve,
  Symbols <- BookSymbols, Prices <- FillPrices, Quantities <- FillQuantities,
  Fees <- FillFees, Capital <- BookCapital, MaxSteps <- BookSteps

LimitOf(kind, max) == [kind |-> kind, max |-> max]
Overlay(max, new, market) == [kind |-> "overlay", max |-> max, new |-> new, market |-> market]
SomeLimits ==
  { LimitOf("position", 2), LimitOf("gross", 4), LimitOf("leverage", 1), Overlay(1, FALSE, FALSE) }
EitherSide == {-1, 1}
TradeOf(side, quantity, type, price) ==
  [side |-> side, quantity |-> quantity, type |-> type, price |-> price]
SomeTrades ==
  { TradeOf("Buy", 2, "Limit", 2), TradeOf("Buy", 1, "Stop", 2), TradeOf("Buy", 1, "Market", 1),
    TradeOf("Sell", 3, "Limit", 1) }

\* A symbol under one limit at a time.
Risk == INSTANCE RiskLimits WITH
  limit <- limits_limit, cash <- limits_cash, quantity <- limits_quantity,
  price <- limits_price, open <- limits_open, uncounted <- limits_uncounted,
  SymbolCount <- RiskSymbols, Prices <- RiskPrices, Trades <- RiskTrades,
  Limits <- ConfiguredLimits, Cash <- RiskCash, Holdings <- RiskHoldings,
  MaxOpen <- RiskOpen, MaxPosition <- RiskPosition, MaxCash <- RiskMaxCash

\* Threads that share connections.
Pool == INSTANCE ConnectionPool WITH
  pool <- pool_pool, total <- pool_total, at <- pool_at, held <- pool_held,
  opened <- pool_opened, queries <- pool_queries, lost <- pool_lost,
  Threads <- PoolThreads, Size <- PoolSize, MaxQueries <- PoolQueries

\* Messages of the engine and of others, a link that breaks.
Mq == INSTANCE MessageQueue WITH
  running <- mq_running, connected <- mq_connected, link <- mq_link,
  attempts <- mq_attempts, due <- mq_due, batch <- mq_batch, bus <- mq_bus,
  handled <- mq_handled, stream <- mq_stream, cursor <- mq_cursor,
  unacked <- mq_unacked, handed <- mq_handed, up <- mq_up, Own <- OwnMessages,
  Foreign <- ForeignMessages, Count <- ReadCount, MaxAttempts <- ReconnectLimit,
  MaxEntries <- StreamEntries

\* Threads that append, a disk that refuses.
Journal == INSTANCE ReplayJournal WITH
  file <- journal_file, flushed <- journal_flushed, stream <- journal_stream,
  writing <- journal_writing, number <- journal_number, reported <- journal_reported,
  failures <- journal_failures, disturbed <- journal_disturbed,
  Threads <- JournalThreads, MaxEvents <- JournalEvents, MaxFailures <- JournalFailures

\* Connections to the gateway, threads that submit.
Ib == INSTANCE IBSession WITH
  caller <- ib_caller, connected <- ib_connected, ready <- ib_ready,
  next_id <- ib_next_id, socket <- ib_socket, has_reader <- ib_has_reader,
  reading <- ib_reading, inbox <- ib_inbox, signal <- ib_signal, reader <- ib_reader,
  submitting <- ib_submitting, placed <- ib_placed, connects <- ib_connects,
  lost <- ib_lost, hasty <- ib_hasty, up <- ib_up,
  MaxConnects <- GatewayConnects, MaxOrders <- GatewayOrders

Sure(r) == [q \in 0 .. 3 |-> IF q = r THEN 4 ELSE 0]
InDoubt == [q \in 0 .. 3 |-> IF q \in {0, 2} THEN 2 ELSE 0]

ByPlace == <<1, 2>>
SureOrInDoubt == {Sure(0), Sure(1), InDoubt}

\* An ensemble, and hooks.
Regime == INSTANCE RegimeTracking WITH
  voting <- regime_voting, hooks <- regime_hooks, answers <- regime_answers,
  has_state <- regime_has_state, current <- regime_current, history <- regime_history,
  known <- regime_known, missed <- regime_missed, last <- regime_last,
  counted <- regime_counted, changes <- regime_changes, behind <- regime_behind,
  live <- regime_live, live_known <- regime_live_known, events <- regime_events,
  Members <- EnsembleSize, Weights <- EnsembleWeights, Answers <- DetectorAnswers,
  Certainty <- FullCertainty, Priorities <- HookPriorities, HistorySize <- HistoryKept,
  MaxHooks <- HooksGiven, MaxEvents <- RegimeEvents

SomeInputs == {<<2, 1, 2>>, <<>>, <<0>>}
AllOrSome == {<<0, 0>>, <<1, 2>>}

\* Files, some of which may be open, written by a process that may crash.
Mapped == INSTANCE BarFiles WITH
  disk <- mapped_disk, versions <- mapped_versions, writing <- mapped_writing,
  files <- mapped_files, ranges <- mapped_ranges, capacity <- mapped_capacity,
  used <- mapped_used, answer <- mapped_answer, Symbols <- FileSymbols,
  Inputs <- FileInputs, Ranges <- FileRanges, Columns <- FileColumns,
  DayLength <- FileDay, FileCapacity <- FilesOpen, RangeCapacities <- AnswersKept,
  MaxWrites <- FileWrites

Action(kind, date, factor, amount, symbol) ==
  [kind |-> kind, date |-> date, factor |-> factor, amount |-> amount, symbol |-> symbol]
SomeActions ==
  { Action("split", 2, <<2, 1>>, 0, "none"), Action("split", 4, <<1, 3>>, 0, "none"),
    Action("dividend", 2, <<3, 4>>, 0, "none"), Action("dividend", 4, <<1, 1>>, 5, "none"),
    Action("rename", 2, <<1, 1>>, 0, "t"), Action("rename", 4, <<1, 1>>, 0, "u") }
SourceBar(time, price, volume) == [time |-> time, price |-> price, volume |-> volume]
SourceBars == {SourceBar(1, 192, 3), SourceBar(2, 128, 3), SourceBar(3, 64, 3), SourceBar(4, 192, 6)}

\* Splits, dividends and new names in any portions.
Splits == INSTANCE CorporateActions WITH
  listed <- splits_listed, actions <- splits_actions, Symbols <- SplitSymbols,
  Actions <- ListedActions, Bars <- SplitBars, MaxActions <- ActionsAdded

ASSUME PartsAssumption ==
  /\ Updates!LiveFeedAssumption
  /\ Ring!SpscAssumption
  /\ List!MpscAssumption
  /\ Clock!ClockAssumption
  /\ Stream!SymbolsAssumption
  /\ Rows!ValidationAssumption
  /\ Merge!StreamsAssumption
  /\ Builder!BarAssumption
  /\ Guard!AccountGuardAssumption
  /\ Router!OrderRouterAssumption
  /\ Walk!WalkForwardAssumption
  /\ Plugins!PluginAssumption
  /\ Books!AccountingAssumption
  /\ Risk!RiskAssumption
  /\ Pool!PoolAssumption
  /\ Mq!QueueAssumption
  /\ Journal!JournalAssumption
  /\ Ib!SessionAssumption
  /\ Regime!TrackingAssumption
  /\ Mapped!FilesAssumption
  /\ Splits!ActionsAssumption

-----------------------------------------------------------------------------

Parts ==
  {"feed", "ring", "list", "clock", "stream", "rows", "merge", "bars", "guard",
   "router", "walk", "plugins", "books", "limits", "pool", "mq", "journal", "ib",
   "regime", "mapped", "splits"}

\* The components that are not there keep one of their initial states.
PartsInit ==
  /\ part \in Parts
  /\ Updates!Init
  /\ part # "feed" => feed_up
  /\ Ring!Init
  /\ part # "ring" => ring_value = (CHOOSE v \in RingValues : TRUE) /\ ring_out = ring_value
                       /\ ring_buffer = [i \in Ring!Slots |-> ring_value]
  /\ List!Init
  /\ Clock!Init
  /\ Stream!Init
  /\ part # "stream" => stream_silent
  /\ Rows!Init
  /\ part # "rows" => rows_config = (CHOOSE c \in Rows!Configs : TRUE)
  /\ Merge!Init
  /\ Builder!Init
  /\ part # "bars" => bars_type = (CHOOSE t \in BarKinds : TRUE)
  /\ Guard!Init
  /\ Router!Init
  /\ Walk!Init
  /\ part # "walk" => walk_config = (CHOOSE c \in SearchConfigs : TRUE)
  /\ Plugins!Init
  /\ Books!Init
  /\ Risk!Init
  /\ part # "limits" => /\ limits_limit = (CHOOSE l \in ConfiguredLimits : TRUE)
                         /\ limits_price = [s \in Risk!Symbols |-> CHOOSE p \in RiskPrices : TRUE]
                         /\ limits_quantity = [s \in Risk!Symbols |-> CHOOSE h \in RiskHoldings : TRUE]
  /\ Pool!Init
  /\ Mq!Init
  /\ Journal!Init
  /\ Ib!Init
  /\ Regime!Init
  /\ part # "regime" => regime_voting = "majority"
  /\ Mapped!Init
  /\ part # "mapped" => mapped_capacity = 0
  /\ Splits!Init

Still(here) ==
  /\ UNCHANGED part
  /\ here # "feed" => UNCHANGED feedVars
  /\ here # "ring" => UNCHANGED ringVars
  /\ here # "list" => UNCHANGED listVars
  /\ here # "clock" => UNCHANGED clockVars
  /\ here # "stream" => UNCHANGED streamVars
  /\ here # "rows" => UNCHANGED rowsVars
  /\ here # "merge" => UNCHANGED mergeVars
  /\ here # "bars" => UNCHANGED barsVars
  /\ here # "guard" => UNCHANGED guardVars
  /\ here # "router" => UNCHANGED routerVars
  /\ here # "walk" => UNCHANGED walkVars
  /\ here # "plugins" => UNCHANGED pluginsVars
  /\ here # "books" => UNCHANGED booksVars
  /\ here # "limits" => UNCHANGED limitsVars
  /\ here # "pool" => UNCHANGED poolVars
  /\ here # "mq" => UNCHANGED mqVars
  /\ here # "journal" => UNCHANGED journalVars
  /\ here # "ib" => UNCHANGED ibVars
  /\ here # "regime" => UNCHANGED regimeVars
  /\ here # "mapped" => UNCHANGED mappedVars
  /\ here # "splits" => UNCHANGED splitsVars

PartsNext ==
  \/ part = "feed" /\ Updates!Next /\ Still("feed")
  \/ part = "ring" /\ Ring!Next /\ Still("ring")
  \/ part = "list" /\ List!Next /\ Still("list")
  \/ part = "clock" /\ Clock!Next /\ Still("clock")
  \/ part = "stream" /\ Stream!Next /\ Still("stream")
  \/ part = "rows" /\ Rows!Next /\ Still("rows")
  \/ part = "merge" /\ Merge!Next /\ Still("merge")
  \/ part = "bars" /\ Builder!Next /\ Still("bars")
  \/ part = "guard" /\ Guard!Next /\ Still("guard")
  \/ part = "router" /\ Router!Next /\ Still("router")
  \/ part = "walk" /\ Walk!Next /\ Still("walk")
  \/ part = "plugins" /\ Plugins!Next /\ Still("plugins")
  \/ part = "books" /\ Books!Next /\ Still("books")
  \/ part = "limits" /\ Risk!Next /\ Still("limits")
  \/ part = "pool" /\ Pool!Next /\ Still("pool")
  \/ part = "mq" /\ Mq!Next /\ Still("mq")
  \/ part = "journal" /\ Journal!Next /\ Still("journal")
  \/ part = "ib" /\ Ib!Next /\ Still("ib")
  \/ part = "regime" /\ Regime!Next /\ Still("regime")
  \/ part = "mapped" /\ Mapped!Next /\ Still("mapped")
  \/ part = "splits" /\ Splits!Next /\ Still("splits")

\* The fairness that each component assumes, where it is there.
PartsFairness ==
  /\ WF_feedVars(part = "feed" /\ Updates!EventLoop)
  /\ WF_feedVars(part = "feed" /\ Updates!Tick)
  /\ WF_feedVars(part = "feed" /\ Updates!MakePortfolio)
  /\ WF_feedVars(part = "feed" /\ Updates!FinishStop)
  /\ WF_listVars(part = "list" /\ List!Pop)
  /\ \A p \in ListProducers : WF_listVars(part = "list" /\ List!Link(p))
  /\ WF_streamVars(part = "stream" /\ Stream!Subscribe)
  /\ WF_streamVars(part = "stream" /\ (Stream!Reconnect \/ Stream!FailToReconnect \/ Stream!PollReconnects \/ Stream!PollFindsCut))
  /\ WF_walkVars(part = "walk" /\ Walk!Step)
  /\ \A w \in SearchWorkers : WF_walkVars(part = "walk" /\ Walk!Search(w))
  /\ \A t \in PoolThreads : WF_poolVars(part = "pool" /\ Pool!Step(t))
  /\ WF_mqVars(part = "mq" /\ Mq!EventLoop)
  /\ WF_mqVars(part = "mq" /\ Mq!Dispatch)
  /\ WF_mqVars(part = "mq" /\ Mq!Tick)
  /\ WF_ibVars(part = "ib" /\ Ib!Reader)
  /\ WF_ibVars(part = "ib" /\ Ib!EndReading)
  /\ WF_ibVars(part = "ib" /\ Ib!Return)

PartsSpec == PartsInit /\ [][PartsNext]_allVars /\ PartsFairness

-----------------------------------------------------------------------------
(* The properties.                                                         *)

\* Each component has its types.
TypesOK ==
  /\ part = "feed" => Updates!TypeOK
  /\ part = "ring" => Ring!TypeOK
  /\ part = "list" => List!TypeOK
  /\ part = "clock" => Clock!TypeOK
  /\ part = "stream" => Stream!TypeOK
  /\ part = "rows" => Rows!TypeOK
  /\ part = "merge" => Merge!TypeOK
  /\ part = "bars" => Builder!TypeOK
  /\ part = "guard" => Guard!TypeOK
  /\ part = "router" => Router!TypeOK
  /\ part = "walk" => Walk!TypeOK
  /\ part = "plugins" => Plugins!TypeOK
  /\ part = "books" => Books!TypeOK
  /\ part = "limits" => Risk!TypeOK
  /\ part = "pool" => Pool!TypeOK
  /\ part = "mq" => Mq!TypeOK
  /\ part = "journal" => Journal!TypeOK
  /\ part = "ib" => Ib!TypeOK
  /\ part = "regime" => Regime!TypeOK
  /\ part = "mapped" => Mapped!TypeOK
  /\ part = "splits" => Splits!TypeOK

\* The wait for the next reconnection stays within reconnect_max.
BackoffIsBounded == part = "feed" => Updates!BackoffIsBounded
\* Stale market data switches trading off.
SilenceStopsTrading == part = "feed" => Updates!SilenceStopsTrading
\* A broker that is back is connected to again.
ConnectionComesBack == part = "feed" => Updates!ConnectionComesBack

\* Producer and consumer of the ring are never in one slot.
SidesAreApart == part = "ring" => Ring!SidesAreApart
\* The ring implements a bounded queue.
RingIsAQueue == Ring!RingIsAQueue

\* An interrupted producer still finds the node it has to link to.
LinksAreKept == part = "list" => List!LinksAreKept
\* The list implements a queue in the order of the exchanges.
ListIsAQueue == List!ListIsAQueue
\* Nothing stays in the list for ever; here it is the third node, with others after it.
AlertsAreFetched == part = "list" => List!IsFetched(3)

\* No timer fires ahead of the data.
TimersStayBehindData == part = "clock" => Clock!TimersStayBehindData
\* No period of a timer is left out or counted twice.
NoPeriodIsSkipped == part = "clock" => Clock!NoPeriodIsSkipped
\* Days are opened, handled and closed in order.
DaysComeInOrder == part = "clock" => Clock!DaysComeInOrder

\* The server sends what the feed believes it is subscribed to.
ServedAsSubscribed == part = "stream" => Stream!ServedAsSubscribed
\* Lost connections bring their data back.
FeedRecovers == part = "stream" => Stream!FeedRecovers

\* What goes out never steps back in time.
OutputIsInOrder == part = "rows" => Rows!OutputIsInOrder
\* Bars that are made up show what was known.
NoLookAhead == part = "rows" => Rows!NoLookAhead
\* A file that is filled has no hole.
NoHoleIsLeft == part = "rows" => Rows!NoHoleIsLeft
\* With on_gap = skip the data ends at the first gap.
SkippedGapEndsTheData == part = "rows" => Rows!SkippedGapEndsTheData

\* The merged stream is in order of time.
MergeIsInOrder == part = "merge" => Merge!MergeIsInOrder
\* Every item of every stream comes out once.
NothingIsLost == part = "merge" => Merge!NothingIsLost

\* Every tick is in exactly one bar.
TicksArePartitioned == part = "bars" => Builder!TicksArePartitioned
\* No bar is longer than configured.
BarsCloseInTime == part = "bars" => Builder!BarsCloseInTime
\* The average price of a bar lies between its prices.
VwapIsAPrice == part = "bars" => Builder!VwapIsAPrice

\* The stop-loss manager does not turn a position round.
ExitsFitThePosition == part = "guard" => Guard!ExitsFitThePosition
\* A halted account has nothing left to execute.
HaltLeavesNothingToExecute == part = "guard" => Guard!HaltLeavesNothingToExecute

\* The children add up to the order.
ChildrenAddUp == part = "router" => Router!ChildrenAddUp
\* The minimum of one venue is taken from the last ones.
SharesAreKept == part = "router" => Router!SharesAreKept

\* Each trial is evaluated once.
TrialsAreShared == part = "walk" => Walk!TrialsAreShared
\* The first of the best parameter sets is tested.
FirstOfTheBestIsTested == part = "walk" => Walk!FirstOfTheBestIsTested
\* In-sample windows precede their test and see every regime.
WindowsSeeEnough == part = "walk" => Walk!WindowsSeeEnough
\* optimize() ends.
OptimizeEnds == part = "walk" => Walk!OptimizeEnds

\* A factory of a library is there only while the library is mapped.
FactoriesAreMapped == part = "plugins" => Plugins!FactoriesAreMapped
\* No library stays mapped without a record.
LibrariesAreReleased == part = "plugins" => Plugins!LibrariesAreReleased

\* The equity is the capital, the fees and the profits.
EquityIsExplained == part = "books" => Books!EquityIsExplained
\* Open lots and trades explain the cash.
TradesExplainCash == part = "books" => Books!TradesExplainCash
\* The drawdown is the worst fall of the curve.
DrawdownIsTheWorstFall == part = "books" => Books!DrawdownIsTheWorstFall

\* No order takes a position above the limit.
LongsAreCapped == Risk!LongsAreCapped
\* An order leaves a portfolio its limits accept.
ExposureStaysInLimit == Risk!ExposureStaysInLimit
\* An overlay without new exposure lets no position grow.
OverlayStopsGrowth == Risk!OverlayStopsGrowth

\* No connection is used by two threads.
ConnectionsAreOwned == part = "pool" => Pool!ConnectionsAreOwned
\* Nobody sleeps beside a free connection.
FreeIsAnnounced == part = "pool" => Pool!FreeIsAnnounced
\* Every query ends while a connection is left; the threads are alike.
QueriesEnd == part = "pool" => Pool!QueryEnds(CHOOSE t \in PoolThreads : TRUE)

\* No message goes round between bus and stream.
NoMessageGoesRound == part = "mq" => Mq!NoMessageGoesRound
\* Entries are handed out in order and at most once.
EntriesAreHandedInOrder == part = "mq" => Mq!EntriesAreHandedInOrder
\* The stream is read on after a lost connection.
StreamIsReadOn == part = "mq" => Mq!StreamIsReadOn

\* A journal nobody disturbed is read back.
UndisturbedJournalIsRead == part = "journal" => Journal!UndisturbedJournalIsRead
\* What was reported as written is in the file.
ReportedIsWritten == part = "journal" => Journal!ReportedIsWritten

\* An adapter that is ready has a number for the next order.
ReadyIsNumbered == part = "ib" => Ib!ReadyIsNumbered
\* No two orders have one number.
OrdersHaveOwnNumbers == part = "ib" => Ib!OrdersHaveOwnNumbers
\* connect() and disconnect() return unless the connection is lost.
CallsReturn == part = "ib" => Ib!CallsReturn

\* An ensemble of one mind says what its members say.
EnsembleFollowsItsMembers == part = "regime" => Regime!EnsembleFollowsItsMembers
\* A strategy that is told of changes knows the regime.
StrategiesFollowTheTracker == part = "regime" => Regime!StrategiesFollowTheTracker
\* Backtest and live engine tell the same.
LiveFollowsTheBacktest == part = "regime" => Regime!LiveFollowsTheBacktest
\* The metrics count every change once.
ChangesAreCounted == part = "regime" => Regime!ChangesAreCounted
\* Hooks are asked by priority and registration.
HooksAreInOrder == part = "regime" => Regime!HooksAreInOrder

\* A file is refused or all of it is there.
AnswersAreWhole == part = "mapped" => Mapped!AnswersAreWhole
\* An answer has the bars of the range, all of them and no others.
AnswersAreExact == part = "mapped" => Mapped!AnswersAreExact
\* Without a cache of answers they are those of the file.
UncachedAnswersAreCurrent == part = "mapped" => Mapped!UncachedAnswersAreCurrent
\* The files used last stay open.
LastUsedStayOpen == part = "mapped" => Mapped!LastUsedStayOpen

\* Adjusted returns are those of the source without the actions.
ReturnsAreCorrected == part = "splits" => Splits!ReturnsAreCorrected
\* A bar has the name its symbol had at the time.
NamesFollowTime == part = "splits" => Splits!NamesFollowTime
\* A new name leads back to its symbol.
AliasesResolve == part = "splits" => Splits!AliasesResolve

-----------------------------------------------------------------------------
(* What the run checks: the properties above by what they are about.       *)

\* The two sides of a queue keep out of each other's way.
QueueSidesStayApart ==
  /\ SidesAreApart
  /\ LinksAreKept
\* The ring implements a bounded queue, the list one in the order of its exchanges.
QueuesAreQueues ==
  /\ RingIsAQueue
  /\ ListIsAQueue
\* Queries, optimisations, calls of the session and queued alerts come to an end.
NothingWaitsForEver ==
  /\ QueriesEnd
  /\ OptimizeEnds
  /\ CallsReturn
  /\ AlertsAreFetched
\* What follows the loss of a connection: trading stops, reconnections are tried
\* until one succeeds, and the data of feed and queue comes again.
LostLinksAreHandled ==
  /\ SilenceStopsTrading
  /\ ConnectionComesBack
  /\ FeedRecovers
  /\ StreamIsReadOn
\* Between two attempts the wait is bounded, and a feed that is up is served.
FeedsAreServed ==
  /\ BackoffIsBounded
  /\ ServedAsSubscribed
\* Timers, days and data of a backtest come in their order.
TimeIsInOrder ==
  /\ TimersStayBehindData
  /\ NoPeriodIsSkipped
  /\ DaysComeInOrder
\* What a reader hands out is in order, complete and without knowledge of later rows,
\* and has the names of its time.
DataIsSound ==
  /\ OutputIsInOrder
  /\ NoLookAhead
  /\ NoHoleIsLeft
  /\ SkippedGapEndsTheData
  /\ NamesFollowTime
  /\ AliasesResolve
\* Merging streams and building bars lose and reorder nothing.
StreamsAreWhole ==
  /\ MergeIsInOrder
  /\ NothingIsLost
  /\ TicksArePartitioned
  /\ BarsCloseInTime
  /\ VwapIsAPrice
\* Stops reduce a position, and a halt is a halt.
StopsAreSound ==
  /\ ExitsFitThePosition
  /\ HaltLeavesNothingToExecute
\* A split order is the order.
SplitIsExact ==
  /\ ChildrenAddUp
  /\ SharesAreKept
\* The parameters tested are the best of a search that evaluated each trial once.
SearchIsSound ==
  /\ TrialsAreShared
  /\ FirstOfTheBestIsTested
  /\ WindowsSeeEnough
\* Libraries are mapped exactly as long as they are needed.
LibrariesAreKept ==
  /\ FactoriesAreMapped
  /\ LibrariesAreReleased
\* Portfolio, trades and metrics tell one story of the same fills, and adjusted prices
\* that of their source.
ValuesAgree ==
  /\ ReturnsAreCorrected
  /\ EquityIsExplained
  /\ TradesExplainCash
  /\ DrawdownIsTheWorstFall
\* How far orders that limits accepted one by one keep them together.
LimitsHold ==
  /\ LongsAreCapped
  /\ ExposureStaysInLimit
  /\ OverlayStopsGrowth
\* A connection of the pool has one user, and a free one is announced.
PoolIsSound ==
  /\ ConnectionsAreOwned
  /\ FreeIsAnnounced
\* Every entry of the stream is handed out once, in order, and not sent back.
EntriesGoOnce ==
  /\ NoMessageGoesRound
  /\ EntriesAreHandedInOrder
\* A journal holds what was reported and can be read.
JournalIsReadable ==
  /\ UndisturbedJournalIsRead
  /\ ReportedIsWritten
\* Orders of a session have numbers, each its own.
OrdersAreNumbered ==
  /\ ReadyIsNumbered
  /\ OrdersHaveOwnNumbers
\* Tracker, hooks, strategies, metrics and the live engine agree on the regime.
RegimesAgree ==
  /\ EnsembleFollowsItsMembers
  /\ StrategiesFollowTheTracker
  /\ LiveFollowsTheBacktest
  /\ ChangesAreCounted
  /\ HooksAreInOrder
\* Behind both caches, an answer is that of the file.
AnswersAreSound ==
  /\ AnswersAreWhole
  /\ AnswersAreExact
  /\ UncachedAnswersAreCurrent
  /\ LastUsedStayOpen

=============================================================================
