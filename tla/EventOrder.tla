----------------------------- MODULE EventOrder -----------------------------
(***************************************************************************)
(* The events of a backtest and the order in which the event queue hands   *)
(* them out: by timestamp, then by priority (the lower one first), then by *)
(* the number an event got when it was pushed.  A backtest has one thread, *)
(* so a number says no more than which event was pushed first, and the     *)
(* queue is kept here as the sequence of events in the order in which they *)
(* will be popped.                                                         *)
(***************************************************************************)
EXTENDS Integers, Sequences, FiniteSets

\* default_priority(): market events come before order events of their time.
kMarketPriority == 10
kOrderPriority == 20

\* OrderEventKind, without NewOrder, which nothing pushes in a backtest.
OrderEventKinds == {"Fill", "Cancel", "Reject", "Update"}

\* make_order_event(): `lots` is the quantity of the payload.
OrderEvent(kind, order, lots, at) ==
    [time |-> at, priority |-> kOrderPriority, kind |-> kind, id |-> order, lots |-> lots]

\* make_market_event(): `ticks` is the number of execution ticks it stands for.
MarketEvent(at, ticks) ==
    [time |-> at, priority |-> kMarketPriority, kind |-> "Market", id |-> 0, lots |-> ticks]

\* EventComparator, for an event a that was pushed before b: a is popped first.
Before(a, b) ==
    \/ a.time < b.time
    \/ a.time = b.time /\ a.priority <= b.priority

\* The events of `batch`, of one time and priority, are pushed one by one.
Push(queue, batch) ==
    IF batch = << >> THEN queue
    ELSE LET first == Cardinality({i \in 1 .. Len(queue) : Before(queue[i], batch[1])})
         IN SubSeq(queue, 1, first) \o batch \o SubSeq(queue, first + 1, Len(queue))
=============================================================================
