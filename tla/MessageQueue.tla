---------------------------- MODULE MessageQueue ----------------------------
(***************************************************************************)
(* The live engine on a Redis stream (RedisAdapter of                      *)
(* src/live/mq_adapter.cpp and the subscriptions start() makes in          *)
(* src/live/live_engine.cpp).  The dispatcher of the event bus forwards    *)
(* what the broker sent to the stream; the event loop reads the stream as  *)
(* a consumer of a group, publishes what it reads on the bus again, and    *)
(* acknowledges it.  Engine and others write to one stream, so an engine   *)
(* reads its own messages too.  Links break at any time, between the       *)
(* commands and their replies.                                             *)
(***************************************************************************)
EXTENDS Integers, Sequences, FiniteSetsExt

CONSTANTS
  Own,          \* the messages of the engine's broker
  Foreign,      \* those of other writers
  Count,        \* COUNT of XREADGROUP
  MaxAttempts,  \* reconnect_max_attempts, 0 for no limit
  MaxEntries    \* bound: entries of the stream

QueueAssumption ==
  /\ Own \cap Foreign = {}
  /\ Count \in Nat \ {0}
  /\ {MaxAttempts, MaxEntries} \subseteq Nat

VARIABLES
  running,    \* whether the engine runs
  connected,  \* connected_
  link,       \* pub_ctx_ and sub_ctx_: "none", "open" or "broken"
  attempts,   \* reconnect_attempts_, counted up to MaxAttempts
  due,        \* whether next_reconnect_ is past
  batch,      \* the entries of the reply that poll() goes through
  bus,        \* the event bus: [message, origin]
  handled,    \* history: how often the engine's own subscription got each message
  stream,     \* external: the entries
  cursor,     \* external: the last entry given to the group, -1 without a group
  unacked,    \* external: the entries given out and not acknowledged
  handed,     \* history: the entries given to the callback
  up          \* external: whether the server accepts connections

adapter == <<running, connected, link, attempts, due, batch>>
server == <<stream, cursor, unacked, up>>
vars == <<adapter, bus, handled, server, handed>>

Init ==
  /\ running = FALSE /\ connected = FALSE /\ link = "none"
  /\ attempts = 0 /\ due = TRUE /\ batch = <<>>
  /\ bus = <<>> /\ handled = [m \in Own \cup Foreign |-> 0]
  /\ stream = <<>> /\ cursor = -1 /\ unacked = {} /\ up = TRUE
  /\ handed = <<>>
-----------------------------------------------------------------------------
(* connect(): the group begins at the end of the stream; where there is one *)
(* already the error is ignored, as is the lack of any reply.              *)

Refused == ~up /\ connected' = FALSE /\ link' = "broken" /\ UNCHANGED cursor

Accepted ==
  /\ up /\ connected' = TRUE
  /\ \/ link' = "open" /\ cursor' = IF cursor = -1 THEN Len(stream) ELSE cursor
     \/ link' = "broken" /\ UNCHANGED cursor

\* start() ends without the engine running when the connection is refused.
Start ==
  /\ ~running
  /\ Refused \/ Accepted
  /\ running' = connected'
  /\ UNCHANGED <<attempts, due, batch, bus, handled, stream, unacked, handed, up>>

\* stop() joins the event loop before it disconnects.
Stop ==
  /\ running /\ batch = <<>>
  /\ running' = FALSE /\ connected' = FALSE /\ link' = "none"
  /\ UNCHANGED <<attempts, due, batch, bus, handled, server, handed>>

\* Mutant: no limit is a limit of none.
MayAttemptCounted == due /\ attempts < MaxAttempts

MayAttempt == due /\ (MaxAttempts = 0 \/ attempts < MaxAttempts)

\* poll() without a connection: attempt_reconnect().
Reconnect ==
  /\ running /\ ~connected /\ batch = <<>>
  /\ MayAttempt
  /\ \/ Accepted /\ attempts' = 0 /\ UNCHANGED due
     \/ /\ Refused /\ due' = FALSE
        /\ attempts' = IF MaxAttempts = 0 THEN 0 ELSE attempts + 1
  /\ UNCHANGED <<running, batch, bus, handled, stream, unacked, handed, up>>
-----------------------------------------------------------------------------
(* poll() with a connection                                                *)

\* Up to Count entries from one on.
EntriesFrom(first) ==
  [i \in 1 .. Min({Count, Len(stream) + 1 - first}) |-> first + i - 1]

\* Mutant: what was given out and not acknowledged is asked for again.
UnreadOrUnacked == EntriesFrom(Min(unacked \cup {cursor + 1}))

\* What ">" asks for: entries the group has not given to anybody.
Unread == EntriesFrom(cursor + 1)

\* The server gives the entries to the consumer whether or not the reply arrives.
\* Without a group, the reply is an error and nothing happens.
Read ==
  /\ running /\ connected /\ batch = <<>>
  /\ \/ /\ link = "open" /\ cursor # -1 /\ Unread # <<>>
        /\ cursor' = Unread[Len(Unread)]
        /\ unacked' = unacked \cup {Unread[i] : i \in DOMAIN Unread}
        /\ \/ batch' = Unread /\ UNCHANGED <<connected, link>>
           \/ connected' = FALSE /\ link' = "broken" /\ UNCHANGED batch
     \/ /\ link # "open"
        /\ connected' = FALSE
        /\ UNCHANGED <<cursor, unacked, batch, link>>
  /\ UNCHANGED <<running, attempts, due, bus, handled, stream, handed, up>>

\* Mutant: the origin of the message is lost.
IncomingAsOwn(message) == [message |-> message, origin |-> ""]

Incoming(message) == [message |-> message, origin |-> "mq"]

\* One entry of the reply: the callback, then XACK, which a broken link loses.
Process ==
  /\ batch # <<>>
  /\ bus' = Append(bus, Incoming(stream[Head(batch)]))
  /\ handed' = Append(handed, Head(batch))
  /\ unacked' = IF link = "open" THEN unacked \ {Head(batch)} ELSE unacked
  /\ batch' = Tail(batch)
  /\ UNCHANGED <<running, connected, link, attempts, due, handled, stream, cursor, up>>

EventLoop == Reconnect \/ Read \/ Process
-----------------------------------------------------------------------------
(* The bus.  An update of the broker is published once; publish() writes it *)
(* to the stream and does not look at the reply.                           *)

FromBroker(m) ==
  /\ running /\ handled[m] = 0 /\ \A i \in DOMAIN bus : bus[i].message # m
  /\ bus' = Append(bus, [message |-> m, origin |-> ""])
  /\ UNCHANGED <<adapter, handled, server, handed>>

Dispatch ==
  /\ running /\ bus # <<>>
  /\ bus' = Tail(bus)
  /\ LET msg == Head(bus) IN
       /\ handled' = [handled EXCEPT ![msg.message] = @ + 1]
       /\ IF msg.origin # "mq" /\ connected /\ link = "open" /\ Len(stream) < MaxEntries
            THEN stream' = Append(stream, msg.message) ELSE UNCHANGED stream
  /\ UNCHANGED <<adapter, cursor, unacked, handed, up>>
-----------------------------------------------------------------------------
(* The outside world.                                                      *)

WriteForeign(m) ==
  /\ Len(stream) < MaxEntries /\ \A i \in DOMAIN stream : stream[i] # m
  /\ stream' = Append(stream, m)
  /\ UNCHANGED <<adapter, bus, handled, cursor, unacked, handed, up>>

LinkBreaks ==
  /\ link = "open" /\ link' = "broken"
  /\ UNCHANGED <<running, connected, attempts, due, batch, bus, handled, server, handed>>

ServerChanges ==
  /\ up' = ~up
  /\ link' = IF up /\ link = "open" THEN "broken" ELSE link
  /\ UNCHANGED <<running, connected, attempts, due, batch, bus, handled, stream, cursor, unacked,
                 handed>>

Tick ==
  /\ ~due /\ due' = TRUE
  /\ UNCHANGED <<running, connected, link, attempts, batch, bus, handled, server, handed>>

Next ==
  \/ Start \/ Stop \/ EventLoop \/ Dispatch \/ LinkBreaks \/ ServerChanges \/ Tick
  \/ \E m \in Own : FromBroker(m)
  \/ \E m \in Foreign : WriteForeign(m)

\* The two threads run and time passes.
Fairness == WF_vars(EventLoop) /\ WF_vars(Dispatch) /\ WF_vars(Tick)

Spec == Init /\ [][Next]_vars

FairSpec == Spec /\ Fairness
-----------------------------------------------------------------------------
(* Properties.                                                             *)

TypeOK ==
  /\ {running, connected, due, up} \subseteq BOOLEAN
  /\ link \in {"none", "open", "broken"}
  /\ running \/ (~connected /\ batch = <<>>)
  /\ attempts \in 0 .. MaxAttempts
  /\ batch \in Seq(1 .. Len(stream))
  /\ bus \in Seq([message : Own \cup Foreign, origin : {"", "mq"}])
  /\ handled \in [Own \cup Foreign -> Nat]
  /\ stream \in Seq(Own \cup Foreign)
  /\ cursor \in -1 .. Len(stream) /\ unacked \subseteq 1 .. Len(stream)
  /\ handed \in Seq(1 .. Len(stream))

\* The engine reads what it wrote itself, and publishes it on the bus it forwards to
\* the stream from: a message of the broker is seen twice, once from the broker and
\* once as an echo, and goes round no further; one of another writer is seen once.
NoMessageGoesRound ==
  /\ \A m \in Own : handled[m] <= 2
  /\ \A m \in Foreign : handled[m] <= 1

\* Across reconnections and restarts an entry is given to the callback at most once
\* and in the order of the stream, and is acknowledged only after that.  (It may be
\* given to nobody: what was in a reply that did not arrive, or was given and not
\* acknowledged, waits in the group for a consumer that asks for it, and none does.)
EntriesAreHandedInOrder ==
  /\ \A i, j \in DOMAIN handed : i < j => handed[i] < handed[j]
  /\ \A e \in DOMAIN stream :
       (\E i \in DOMAIN batch : batch[i] = e) =>
         e \in unacked /\ \A i \in DOMAIN handed : handed[i] < e

\* With a server that stays up the adapter is connected again and again, and reads on
\* from where the group stands: as long as the link holds, nothing stays unread,
\* whatever was written meanwhile.  (With a limit on attempts it may have given up.)
StreamIsReadOn ==
  (MaxAttempts = 0 /\ <>[](running /\ up)) =>
    []<>connected /\ []<>(cursor = Len(stream) \/ link = "broken")
=============================================================================
