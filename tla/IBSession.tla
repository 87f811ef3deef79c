----------------------------- MODULE IBSession ------------------------------
(***************************************************************************)
(* The session of IBAdapter (src/live/ib_adapter.cpp) with the gateway of  *)
(* Interactive Brokers: connect() and disconnect() on the thread of the    *)
(* engine, the adapter's reader thread, the reading thread of the client   *)
(* library (third_party/ibapi), and threads that submit orders.            *)
(*                                                                         *)
(* Messages other than nextValidId are left out, as are reports.           *)
(***************************************************************************)
EXTENDS Integers, Sequences

CONSTANTS
  Submitters,   \* threads that submit orders
  MaxConnects,  \* bound: connections made
  MaxOrders     \* bound: orders placed

SessionAssumption == {MaxConnects, MaxOrders} \subseteq Nat

VARIABLES
  caller,      \* where the engine is: "idle", "waiting" in connect(), "joining"
  connected,   \* connected_
  ready,       \* trading_ready_
  next_id,     \* next_order_id_
  socket,      \* whether the client is connected
  has_reader,  \* whether there is a reader_
  reading,     \* its thread: "off", "on", "ending"
  inbox,       \* the ids in nextValidId messages that were not handled yet
  signal,      \* whether reader_signal_ is open
  reader,      \* reader_thread_: "none", "waiting", "handling", "numbered", "over"
  submitting,  \* the threads that have found the adapter ready
  placed,      \* history: the ids of the orders placed
  connects,    \* how many connections were made
  lost,        \* history: a connection was lost, or closed by what was to read it
  hasty,       \* history: an order took its number before every answer was handled
  up           \* external: whether the gateway accepts connections

client == <<socket, has_reader, reading>>
session == <<connected, ready, next_id>>
orders == <<submitting, placed, hasty>>
vars == <<caller, session, client, inbox, signal, reader, orders, connects, lost, up>>

Init ==
  /\ caller = "idle"
  /\ connected = FALSE /\ ready = FALSE /\ next_id = -1
  /\ socket = FALSE /\ has_reader = FALSE /\ reading = "off"
  /\ inbox = <<>> /\ signal = FALSE /\ reader = "none"
  /\ submitting = {} /\ placed = <<>> /\ hasty = FALSE
  /\ connects = 0 /\ lost = FALSE
  /\ up = TRUE
-----------------------------------------------------------------------------
(* The engine.                                                             *)

\* What the gateway takes for the next id: it counts the orders it was sent.
NextValidId == Len(placed) + 1

\* start() and attempt_reconnect() call connect() when is_connected() is false.
MayConnect == caller = "idle" /\ ~(connected /\ ready)

\* Mutant: disconnect() has reset the flag already.
ReadyAtConnectKept == ready

ReadyAtConnect == FALSE

\* eConnect(), the threads, and reqIds(-1): the id is sent for the connection and
\* for the request.  A reader_ that was there before is destroyed now, and its
\* destructor disconnects the client it shares with the new one.
Connect ==
  /\ MayConnect /\ up
  /\ connects < MaxConnects
  /\ connects' = connects + 1
  /\ caller' = "waiting"
  /\ connected' = TRUE /\ ready' = ReadyAtConnect /\ next_id' = -1
  /\ socket' = ~has_reader
  /\ has_reader' = TRUE
  /\ reading' = IF has_reader THEN "ending" ELSE "on"
  /\ lost' = (lost \/ has_reader)
  /\ inbox' = IF has_reader THEN <<>> ELSE <<NextValidId, NextValidId>>
  /\ signal' = (signal \/ reading = "ending")
  /\ reader' = "waiting"
  /\ UNCHANGED <<orders, up>>

\* What is reset before eConnect() fails stays reset.
ConnectFails ==
  /\ MayConnect /\ ~up
  /\ ready' = FALSE /\ next_id' = -1
  /\ UNCHANGED <<caller, connected, client, inbox, signal, reader, orders, connects, lost, up>>

ConnectReturns ==
  /\ caller = "waiting" /\ ready
  /\ caller' = "idle"
  /\ UNCHANGED <<session, client, inbox, signal, reader, orders, connects, lost, up>>

\* Mutant: without an id there was no session to close.
ClosesClientWhenReady == socket /\ ready

ClosesClient == socket

\* disconnect() up to the join, at any time or after five seconds without an id.
\* Only a client that is still connected is disconnected, which ends its reading
\* thread and with it signals the reader.
Disconnect ==
  /\ caller = "idle" \/ (caller = "waiting" /\ ~ready)
  /\ caller' = "joining"
  /\ connected' = FALSE /\ ready' = FALSE /\ next_id' = -1
  /\ IF ClosesClient
       THEN socket' = FALSE /\ reading' = "off" /\ signal' = TRUE
       ELSE UNCHANGED <<socket, reading, signal>>
  /\ UNCHANGED <<has_reader, inbox, reader, orders, connects, lost, up>>

Join ==
  /\ caller = "joining"
  /\ reader \in {"none", "over"}
  /\ caller' = "idle" /\ reader' = "none"
  /\ UNCHANGED <<session, client, inbox, signal, orders, connects, lost, up>>

Caller == Connect \/ ConnectFails \/ ConnectReturns \/ Disconnect \/ Join

\* What ends a call that has begun.
Return == ConnectReturns \/ (caller = "waiting" /\ Disconnect) \/ Join
-----------------------------------------------------------------------------
(* The reader thread of the adapter.                                       *)

WakeReader ==
  /\ reader = "waiting" /\ signal
  /\ signal' = FALSE
  /\ reader' = IF connected THEN "handling" ELSE "over"
  /\ UNCHANGED <<caller, session, client, inbox, orders, connects, lost, up>>

\* nextValidId(): the number under the lock,
HandleId ==
  /\ reader = "handling" /\ inbox # <<>>
  /\ next_id' = Head(inbox)
  /\ inbox' = Tail(inbox)
  /\ reader' = "numbered"
  /\ UNCHANGED <<caller, connected, ready, client, signal, orders, connects, lost, up>>

\* the flag after it.
SetReady ==
  /\ reader = "numbered"
  /\ ready' = TRUE
  /\ reader' = "handling"
  /\ UNCHANGED <<caller, connected, next_id, client, inbox, signal, orders, connects, lost, up>>

EndHandling ==
  /\ reader = "handling" /\ inbox = <<>>
  /\ reader' = IF connected THEN "waiting" ELSE "over"
  /\ UNCHANGED <<caller, session, client, inbox, signal, orders, connects, lost, up>>

Reader == WakeReader \/ HandleId \/ SetReady \/ EndHandling
-----------------------------------------------------------------------------
(* The client library and the network.                                     *)

\* A message is in the queue before the signal.
Arrive ==
  /\ reading = "on" /\ inbox # <<>> /\ ~signal
  /\ signal' = TRUE
  /\ UNCHANGED <<caller, session, client, inbox, reader, orders, connects, lost, up>>

\* The reading thread finds the connection closed, and closes the client.
LoseConnection ==
  /\ reading = "on" /\ socket
  /\ socket' = FALSE /\ reading' = "ending"
  /\ lost' = TRUE
  /\ UNCHANGED <<caller, session, has_reader, inbox, signal, reader, orders, connects, up>>

\* The last thing it does is to signal, once.
EndReading ==
  /\ reading = "ending"
  /\ reading' = "off" /\ signal' = TRUE
  /\ UNCHANGED <<caller, session, socket, has_reader, inbox, reader, orders, connects, lost, up>>

GatewayChanges ==
  /\ up' = ~up
  /\ UNCHANGED <<caller, session, client, inbox, signal, reader, orders, connects, lost>>

Library == Arrive \/ EndReading
-----------------------------------------------------------------------------
(* submit_order()                                                          *)

FindReady(s) ==
  /\ s \notin submitting
  /\ Len(placed) < MaxOrders
  /\ socket /\ connected /\ ready
  /\ submitting' = submitting \cup {s}
  /\ UNCHANGED <<caller, session, client, inbox, signal, reader, placed, hasty, connects, lost, up>>

\* Mutant: the number is taken and counted on in two steps.
TakenLate == next_id

Taken == next_id + 1

\* Without a number the order is refused.  What is placed on a client that was
\* disconnected meanwhile never reaches the gateway.
PlaceOrder(s) ==
  /\ s \in submitting
  /\ submitting' = submitting \ {s}
  /\ IF next_id < 0 THEN UNCHANGED <<next_id, placed, hasty>>
     ELSE /\ next_id' = Taken
          /\ placed' = IF socket THEN Append(placed, next_id) ELSE placed
          /\ hasty' = (hasty \/ inbox # <<>>)
  /\ UNCHANGED <<caller, connected, ready, client, inbox, signal, reader, connects, lost, up>>

Submitter(s) == FindReady(s) \/ PlaceOrder(s)

Next ==
  \/ Caller \/ Reader \/ Library \/ LoseConnection \/ GatewayChanges
  \/ \E s \in Submitters : Submitter(s)

Spec == Init /\ [][Next]_vars

\* Threads that may run do, and connect() waits for an id no longer than five
\* seconds.  The gateway need not answer.
FairSpec ==
  /\ Spec
  /\ WF_vars(Reader) /\ WF_vars(EndReading) /\ WF_vars(Return)
-----------------------------------------------------------------------------
(* Properties.                                                             *)

TypeOK ==
  /\ caller \in {"idle", "waiting", "joining"}
  /\ {connected, ready, socket, has_reader, signal, lost, hasty, up} \subseteq BOOLEAN
  /\ next_id \in Int
  /\ reading \in {"off", "on", "ending"}
  /\ inbox \in Seq(Nat) /\ placed \in Seq(Nat)
  /\ reader \in {"none", "waiting", "handling", "numbered", "over"}
  /\ submitting \subseteq Submitters
  /\ connects \in 0 .. MaxConnects
  /\ caller = "idle" => (reader = "none" <=> ~connected)

\* An adapter that says it is ready for orders has a number for them: an answer
\* that the reader handles while disconnect() resets the session is never taken
\* for one of the next session.
ReadyIsNumbered == connected /\ ready => next_id >= 0

\* No two orders have one number, whichever threads submit them, unless one was
\* placed between the two answers of the gateway.  (The second answer sets the
\* counter back to where the first one had set it.)
OrdersHaveOwnNumbers ==
  ~hasty => \A i, j \in DOMAIN placed : i < j => placed[i] < placed[j]

\* connect() and disconnect() return, whenever the id comes, as long as the
\* connection was not lost.
CallsReturn == [](~lost) => ((caller # "idle") ~> (caller = "idle"))

\* docs/explanation/live-resiliency.md:18 has a "Reconnect backoff" for every
\* broker, whose attempts are calls of disconnect() and connect(): they return.
\* (A client that is closed already is not disconnected again, so nothing signals
\* the reader, which had its only signal while connected_ was still set; the join
\* waits for it for ever.)
ReconnectReturns == (caller # "idle") ~> (caller = "idle")
=============================================================================
