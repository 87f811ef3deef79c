----------------------------- MODULE StreamFeed -----------------------------
(***************************************************************************)
(* Market data over a WebSocket: WebSocketFeed                             *)
(* (src/data/websocket_feed.cpp) inside the Alpaca or Binance adapter      *)
(* (src/live/alpaca_adapter.cpp, src/live/binance_adapter.cpp), as the     *)
(* event loop of the live engine uses it: heartbeat, attempt to reconnect, *)
(* poll.  Both the adapter and its feed reconnect, each on its own account.*)
(*                                                                         *)
(* The model begins when start() of the engine has connected and created   *)
(* the thread of the loop.  How long to wait between attempts is in        *)
(* LiveFeed; here an attempt may come at any time.                         *)
(***************************************************************************)
EXTENDS Integers

CONSTANT Symbols    \* config_.symbols of the engine

SymbolsAssumption == Symbols # {}

VARIABLES
  starting,   \* start() has not subscribed yet
  connected,  \* connected_ of the adapter
  symbols,    \* symbols_ of the adapter
  feed,       \* stream_: its connected_ and its subscriptions_
  alerted,    \* heartbeat_alerted_ of the engine
  silent,     \* whether heartbeat_timeout has passed without market data
  served,     \* external: what the server sends on the connection that is open
  cut,        \* external: the connection is lost and the feed has not read yet
  up,         \* external: whether the server accepts connections
  failed      \* history: an attempt of the engine to reconnect has failed

vars == <<starting, connected, symbols, feed, alerted, silent, served, cut, up, failed>>

Feed(is_connected, subscriptions) ==
  [connected |-> is_connected, subscriptions |-> subscriptions]

\* The time without data counts from the making of the engine.
Init ==
  /\ starting = TRUE
  /\ connected = TRUE
  /\ symbols = {}
  /\ feed = Feed(TRUE, {})
  /\ alerted = FALSE /\ silent \in BOOLEAN
  /\ served = {} /\ cut = FALSE /\ up = TRUE
  /\ failed = FALSE
-----------------------------------------------------------------------------
\* start() goes on while the loop runs: subscribe_market_data() of the adapter and
\* subscribe() of its feed, which sends the symbols if it is connected.
Subscribe ==
  /\ starting
  /\ starting' = FALSE
  /\ symbols' = Symbols
  /\ feed' = [feed EXCEPT !.subscriptions = @ \cup Symbols]
  /\ served' = IF feed.connected /\ ~cut THEN served \cup Symbols ELSE served
  /\ UNCHANGED <<connected, alerted, silent, cut, up, failed>>
-----------------------------------------------------------------------------
(* The event loop.                                                         *)

\* check_heartbeat() with the disconnect() of the adapter and of its feed.
CheckHeartbeat ==
  /\ silent /\ ~alerted
  /\ alerted' = TRUE
  /\ connected' = FALSE
  /\ feed' = [feed EXCEPT !.connected = FALSE]
  /\ served' = {} /\ cut' = FALSE
  /\ UNCHANGED <<starting, symbols, silent, up, failed>>

\* attempt_reconnect(): connect() makes a new feed, which subscribes to what the
\* adapter knows once it is connected; the engine then subscribes again.
Reconnect ==
  /\ ~connected
  /\ up
  /\ connected' = TRUE
  /\ symbols' = Symbols
  /\ feed' = Feed(TRUE, symbols \cup Symbols)
  /\ served' = symbols \cup Symbols /\ cut' = FALSE
  /\ alerted' = FALSE
  /\ UNCHANGED <<starting, silent, up, failed>>

\* connect() returns the error of its feed, but has set connected_ before, and
\* leaves behind a feed that is subscribed to nothing.
FailToReconnect ==
  /\ ~connected
  /\ ~up
  /\ connected' = TRUE
  /\ feed' = Feed(FALSE, {})
  /\ failed' = TRUE
  /\ UNCHANGED <<starting, symbols, alerted, silent, served, cut, up>>

\* Mutant: the feed does not subscribe again after it has reconnected.
ResubscribedNever == {}

\* connect() of the feed sends all its subscriptions.
Resubscribed == feed.subscriptions

\* poll(): the feed reconnects itself,
PollReconnects ==
  /\ connected /\ ~feed.connected
  /\ up
  /\ feed' = [feed EXCEPT !.connected = TRUE]
  /\ served' = Resubscribed /\ cut' = FALSE
  /\ UNCHANGED <<starting, connected, symbols, alerted, silent, up, failed>>

\* finds that the connection is gone,
PollFindsCut ==
  /\ connected /\ feed.connected
  /\ cut
  /\ feed' = [feed EXCEPT !.connected = FALSE]
  /\ cut' = FALSE
  /\ UNCHANGED <<starting, connected, symbols, alerted, silent, served, up, failed>>

\* or reads data, which handle_market_data() takes note of.
PollReads ==
  /\ connected /\ feed.connected
  /\ ~cut /\ served # {}
  /\ silent' = FALSE /\ alerted' = FALSE
  /\ UNCHANGED <<starting, connected, symbols, feed, served, cut, up, failed>>

Poll == PollReconnects \/ PollFindsCut \/ PollReads

EventLoop == CheckHeartbeat \/ Reconnect \/ FailToReconnect \/ Poll
-----------------------------------------------------------------------------
(* Time, the server and the network.                                       *)

BecomeSilent ==
  /\ ~silent
  /\ silent' = TRUE
  /\ UNCHANGED <<starting, connected, symbols, feed, alerted, served, cut, up, failed>>

\* A server that goes down takes its connections with it.
ServerChanges ==
  /\ up' = ~up
  /\ cut' = (feed.connected /\ (cut \/ up))
  /\ served' = IF up THEN {} ELSE served
  /\ UNCHANGED <<starting, connected, symbols, feed, alerted, silent, failed>>

LoseConnection ==
  /\ feed.connected /\ ~cut
  /\ cut' = TRUE
  /\ served' = {}
  /\ UNCHANGED <<starting, connected, symbols, feed, alerted, silent, up, failed>>

Next == Subscribe \/ EventLoop \/ BecomeSilent \/ ServerChanges \/ LoseConnection

Spec == Init /\ [][Next]_vars

\* start() ends and the loop goes round.  The heartbeat may be off.
FairSpec ==
  /\ Spec
  /\ WF_vars(Subscribe)
  /\ WF_vars(Reconnect \/ FailToReconnect \/ PollReconnects \/ PollFindsCut)
-----------------------------------------------------------------------------
(* Properties.                                                             *)

TypeOK ==
  /\ {starting, connected, alerted, silent, cut, up, failed} \subseteq BOOLEAN
  /\ symbols \subseteq Symbols
  /\ feed \in [connected : BOOLEAN, subscriptions : SUBSET Symbols]
  /\ served \subseteq Symbols
  /\ feed.connected => connected
  /\ cut => feed.connected

\* What the server sends on an open connection is what the feed believes it is
\* subscribed to, whoever made the connection and however many went before.
ServedAsSubscribed ==
  feed.connected /\ ~cut => served = feed.subscriptions

\* The feed's own reconnection brings all the data back, however often the
\* connection was lost, as long as no attempt of the engine met a server that
\* was down.
FeedRecovers ==
  (<>[]up /\ []~failed) => []<>(served = Symbols)
=============================================================================
