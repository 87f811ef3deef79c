------------------------------ MODULE LiveFeed ------------------------------
(***************************************************************************)
(* Market data and the connection of the live engine                       *)
(* (src/live/live_engine.cpp): start() and stop() on the thread of the     *)
(* owner, and the rounds of event_loop(), which check the heartbeat, try   *)
(* to reconnect, and handle what the event bus has put in market_queue_.   *)
(*                                                                         *)
(* Updates are only counted.  Time passes in units; the durations of the   *)
(* configuration are whole numbers of them, and what was longer ago than   *)
(* heartbeat_timeout counts as just as long ago.  The heartbeat disables   *)
(* trading and reconnection is on, as they are by default.                 *)
(***************************************************************************)
EXTENDS Integers

CONSTANTS
  Capacity,        \* what market_queue_ holds
  Timeout,         \* heartbeat_timeout
  Initial,         \* reconnect_initial, 0 if not positive
  Longest,         \* reconnect_max
  MaxAttempts,     \* reconnect_max_attempts, 0 for no limit
  MaxPublished     \* bound: updates under way in the event bus

LiveFeedAssumption ==
  /\ {Initial, Longest, MaxAttempts, MaxPublished} \subseteq Nat
  /\ {Capacity, Timeout} \subseteq Nat \ {0}

VARIABLES
  owner,      \* what the owner of the engine is in: "free", "starting", "stopping"
  running,    \* running_
  trading,    \* trading_enabled_
  ready,      \* whether there is a portfolio_
  loop,       \* where event_loop() is, "off" without its thread
  queue,      \* market_queue_: how many updates
  bus,        \* event_bus_: how many updates
  silence,    \* time since last_market_data_
  alerted,    \* heartbeat_alerted_
  connected,  \* is_connected() of the broker
  attempts,   \* reconnect_attempts_, counted up to MaxAttempts
  backoff,    \* reconnect_backoff_ms_
  retryIn,    \* time until next_reconnect_attempt_, 0 when it is past or unset
  up          \* external: whether the broker accepts connections

engine == <<owner, running, ready>>
data == <<queue, bus>>
retry == <<attempts, backoff, retryIn>>
vars == <<engine, trading, loop, data, silence, alerted, connected, retry, up>>

Init ==
  /\ owner = "free" /\ running = FALSE /\ ready = FALSE
  /\ trading = FALSE
  /\ loop = "off"
  /\ queue = 0 /\ bus = 0
  /\ silence = 0 /\ alerted = FALSE
  /\ connected = FALSE
  /\ attempts = 0 /\ backoff = 0 /\ retryIn = 0
  /\ up \in BOOLEAN
-----------------------------------------------------------------------------
(* The owner.                                                              *)

\* start() as far as its thread; it keeps what the heartbeat and the
\* reconnection have of an earlier life, and what is left in the queue.
Start ==
  /\ owner = "free" /\ ~running
  /\ up
  /\ owner' = "starting" /\ running' = TRUE
  /\ trading' = TRUE
  /\ loop' = "heartbeat"
  /\ connected' = TRUE
  /\ UNCHANGED <<ready, data, silence, alerted, retry, up>>

\* The rest of start(): the loop runs already.
MakePortfolio ==
  /\ owner = "starting"
  /\ owner' = "free" /\ ready' = TRUE
  /\ UNCHANGED <<running, trading, loop, data, silence, alerted, connected, retry, up>>

Stop ==
  /\ owner = "free" /\ running
  /\ owner' = "stopping" /\ running' = FALSE
  /\ UNCHANGED <<ready, trading, loop, data, silence, alerted, connected, retry, up>>

\* stop() after the join: what the bus has is dropped, what is queued is not.
FinishStop ==
  /\ owner = "stopping" /\ loop = "off"
  /\ owner' = "free"
  /\ connected' = FALSE
  /\ bus' = 0
  /\ UNCHANGED <<running, ready, trading, loop, queue, silence, alerted, retry, up>>

\* enable_trading() and disable_trading()
SwitchTrading ==
  /\ trading' = ~trading
  /\ UNCHANGED <<engine, loop, data, silence, alerted, connected, retry, up>>

Owner == Start \/ MakePortfolio \/ Stop \/ FinishStop \/ SwitchTrading
-----------------------------------------------------------------------------
(* A round of the event loop.  Reconciliation and refreshes, which come    *)
(* between, are in LiveEngine.                                             *)

\* Mutant: without a connection silence is no wonder.
TimesOutConnected == silence = Timeout /\ ~alerted /\ connected

TimesOut == silence = Timeout /\ ~alerted

CheckHeartbeat ==
  /\ loop = "heartbeat"
  /\ loop' = "reconnect"
  /\ IF TimesOut
       THEN alerted' = TRUE /\ trading' = FALSE /\ connected' = FALSE
       ELSE UNCHANGED <<alerted, trading, connected>>
  /\ UNCHANGED <<engine, data, silence, retry, up>>

\* Mutant: no limit on attempts is taken for a limit of none.
MayAttemptCounted == ~connected /\ retryIn = 0 /\ attempts < MaxAttempts

MayAttempt ==
  /\ ~connected
  /\ retryIn = 0
  /\ MaxAttempts > 0 => attempts < MaxAttempts

SkipReconnect ==
  /\ loop = "reconnect"
  /\ ~MayAttempt
  /\ loop' = "drain"
  /\ UNCHANGED <<engine, trading, data, silence, alerted, connected, retry, up>>

\* A new connection is no new data: the silence goes on.
Reconnect ==
  /\ loop = "reconnect"
  /\ MayAttempt /\ up
  /\ loop' = "drain"
  /\ connected' = TRUE
  /\ attempts' = 0 /\ backoff' = 0 /\ retryIn' = 0
  /\ alerted' = FALSE
  /\ UNCHANGED <<engine, trading, data, silence, up>>

\* Mutant: the wait doubles without a limit.
NextBackoffUnlimited(wait) == IF wait = 0 THEN Initial ELSE IF wait < 16 THEN 2 * wait ELSE wait

\* reconnect_initial is not held against reconnect_max; what comes to nothing is
\* one second, here one unit.
NextBackoff(wait) ==
  LET next == IF wait = 0 THEN Initial ELSE IF 2 * wait < Longest THEN 2 * wait ELSE Longest
  IN  IF next = 0 THEN 1 ELSE next

FailToReconnect ==
  /\ loop = "reconnect"
  /\ MayAttempt /\ ~up
  /\ loop' = "drain"
  /\ attempts' = IF attempts < MaxAttempts THEN attempts + 1 ELSE attempts
  /\ backoff' = NextBackoff(backoff)
  /\ retryIn' = NextBackoff(backoff)
  /\ UNCHANGED <<engine, trading, data, silence, alerted, connected, up>>

\* handle_market_data() returns at once as long as there is no portfolio.
HandleUpdate ==
  /\ loop = "drain" /\ queue > 0
  /\ queue' = queue - 1
  /\ IF ready THEN silence' = 0 /\ alerted' = FALSE ELSE UNCHANGED <<silence, alerted>>
  /\ UNCHANGED <<engine, trading, loop, bus, connected, retry, up>>

EndRound ==
  /\ loop = "drain" /\ queue = 0
  /\ loop' = IF running THEN "heartbeat" ELSE "off"
  /\ UNCHANGED <<engine, trading, data, silence, alerted, connected, retry, up>>

EventLoop ==
  CheckHeartbeat \/ SkipReconnect \/ Reconnect \/ FailToReconnect \/ HandleUpdate \/ EndRound
-----------------------------------------------------------------------------
(* The broker, the bus and time.                                           *)

Publish ==
  /\ connected /\ bus < MaxPublished
  /\ bus' = bus + 1
  /\ UNCHANGED <<engine, trading, loop, queue, silence, alerted, connected, retry, up>>

\* The subscription of start(): what does not fit is dropped, with an alert.
Push ==
  /\ bus > 0
  /\ bus' = bus - 1
  /\ queue' = IF queue < Capacity THEN queue + 1 ELSE queue
  /\ UNCHANGED <<engine, trading, loop, silence, alerted, connected, retry, up>>

LoseConnection ==
  /\ connected
  /\ connected' = FALSE
  /\ UNCHANGED <<engine, trading, loop, data, silence, alerted, retry, up>>

BrokerChanges ==
  /\ up' = ~up
  /\ UNCHANGED <<engine, trading, loop, data, silence, alerted, connected, retry>>

Outside == Publish \/ Push \/ LoseConnection \/ BrokerChanges

Tick ==
  /\ silence' = IF silence < Timeout THEN silence + 1 ELSE silence
  /\ retryIn' = IF retryIn > 0 THEN retryIn - 1 ELSE 0
  /\ UNCHANGED <<engine, trading, loop, data, alerted, connected, attempts, backoff, up>>
-----------------------------------------------------------------------------
Next == Owner \/ EventLoop \/ Outside \/ Tick

\* The loop goes round, time passes, and calls of the owner that were begun end.
\* Nobody owes data, a connection, or a call.
Fairness ==
  /\ WF_vars(EventLoop) /\ WF_vars(Tick)
  /\ WF_vars(MakePortfolio) /\ WF_vars(FinishStop)

Spec == Init /\ [][Next]_vars

FairSpec == Spec /\ Fairness
-----------------------------------------------------------------------------
(* Properties.                                                             *)

\* A loop runs for every start(), which stop() sees end before it disconnects;
\* the counters stay within their configuration.
TypeOK ==
  /\ owner \in {"free", "starting", "stopping"}
  /\ {running, trading, ready, alerted, connected, up} \subseteq BOOLEAN
  /\ loop \in {"off", "heartbeat", "reconnect", "drain"}
  /\ owner = "starting" => running
  /\ owner = "stopping" => ~running
  /\ running => loop # "off"
  /\ owner = "free" /\ running => ready
  /\ queue \in 0..Capacity /\ bus \in 0..MaxPublished
  /\ silence \in 0..Timeout
  /\ attempts \in 0..MaxAttempts
  /\ backoff \in Nat /\ retryIn \in Nat

\* The wait before the next attempt, which doubles with every failure and outlives
\* stop() and start(), is at no time longer than the configuration allows.
BackoffIsBounded ==
  /\ retryIn <= backoff
  /\ \/ backoff <= Longest
     \/ backoff <= Initial
     \/ backoff = 1

\* docs/live/resilience.md:23-25: stale market data is fail-closed.  Silence is
\* noticed and trading switched off, unless data comes or the engine is stopped
\* first; it is looked for with and without a connection, and again after a
\* reconnection that brought no data.  (It is not if the alert is already out:
\* enable_trading(), or stop() and start(), then trade on old data.)
SilenceStopsTrading ==
  (running /\ trading /\ silence = Timeout /\ ~alerted)
    ~> (~trading \/ silence < Timeout \/ ~running)

\* Whatever was lost when, how long the broker was away and how often the engine
\* was stopped meanwhile: once the broker accepts connections for good, an engine
\* that runs is connected again and again.  (Not with a limit on attempts: the
\* count of failed ones is reset by a success alone.)
ConnectionComesBack ==
  MaxAttempts = 0 => (<>[]up => []<>(connected \/ ~running))
=============================================================================
