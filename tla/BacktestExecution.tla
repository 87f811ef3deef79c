-------------------------- MODULE BacktestExecution --------------------------
(***************************************************************************)
(* How the orders of a backtest live and end: the handlers that            *)
(* BacktestEngine::install_default_handlers() connects, over the execution *)
(* pipeline, the event queue and the order table.                          *)
(*                                                                         *)
(* One thread runs everything.  `calls` is its stack: the calls that are   *)
(* still to be made before the handler of the current event returns.  The  *)
(* strategy, which may submit, cancel and modify orders whenever it is     *)
(* called, is called within the handlers and within the callbacks of the   *)
(* order manager, so its calls nest.  Of the order manager this module has *)
(* what an unrouted order of one strategy meets; module OrderManager has   *)
(* the rest.                                                               *)
(***************************************************************************)
EXTENDS ExecutionPipeline, Sums

CONSTANTS
    Feed,           \* the market events of the backtest, as [at, ticks]
    DayLength,      \* market events of one day lie in one multiple of it
    WallClock,      \* Timestamp::now(), after all historical data
    Plans,          \* the orders a strategy may submit
    Quantities,     \* the quantities it may change an order to
    StartOps, MarketOps, FillOps, UpdateOps,
                    \* what it does in on_start, on market data, on_fill and
                    \* on_order_update, out of StrategyOps
    MaxCalls,       \* bound: calls of the strategy in a run
    MaxFilled,      \* bound: filled quantities are counted up to here
    RiskMayRefuse   \* whether the risk manager may refuse an order

VARIABLES
    orders,       \* the order table
    calls,        \* the stack of calls
    current_time, \* EventLoop::current_time_
    current_day,  \* current_day_stamp_, 0 while it is empty
    ops,          \* calls the strategy has made
    accepted      \* history: submissions to the pipeline, and of the first its lots
                  \* and whether it was postponed

vars == <<resting_orders, event_queue, priced, orders, calls, current_time, current_day,
          ops, accepted>>

StrategyOps == {"submit", "cancel", "modify"}
Statuses == {"None", "Created", "Pending", "PartiallyFilled"} \cup OverStatuses
OpenStatuses == {"Created", "Pending", "PartiallyFilled"}

\* The orders of a plan: what the strategy chooses of an order.
PlanType ==
    [type : OrderTypes, tif : TimesInForce, quantity : Nat \ {0}, expire_at : Nat]

ASSUME BacktestAssumption ==
    /\ OrderIds = 1 .. Cardinality(OrderIds)
    /\ Feed \in Seq([at : Nat \ {0}, ticks : Nat \ {0}])
    /\ DayLength \in Nat \ {0} /\ WallClock \in Nat \ {0}
    /\ Plans \subseteq PlanType
    /\ Quantities \subseteq Nat \ {0}
    /\ StartOps \cup MarketOps \cup FillOps \cup UpdateOps \subseteq StrategyOps
    /\ MaxCalls \in Nat /\ MaxFilled \in Nat
    /\ \A plan \in Plans : plan.quantity < MaxFilled
    /\ \A q \in Quantities : q < MaxFilled
    /\ RiskMayRefuse \in BOOLEAN

NoOrder ==
    [id |-> 0, type |-> "Market", tif |-> "GTC", quantity |-> 0, expire_at |-> 0,
     status |-> "None", filled_quantity |-> 0, created_at |-> 0]

Open == {id \in OrderIds : orders[id].status \in OpenStatuses}
Day(at) == 1 + at \div DayLength

(***************************************************************************)
(* The stack of calls.                                                     *)
(***************************************************************************)
\* The order callbacks, with the snapshot they are given.
Callbacks(order) == [op |-> "callbacks", order |-> order]
\* The second one, which hands a Pending order to the pipeline.
Accept(order) == [op |-> "accept", order |-> order]
\* The end of submit_order_internal(): update_order_status(id, Pending).
MakePending(id) == [op |-> "pending", id |-> id]
\* on_market_update() with the orders still to be processed, and the execution
\* ticks of the bar that follow.
Match(ids, at, left) == [op |-> "match", ids |-> ids, at |-> at, left |-> left]
\* A call of the strategy; it may do what is in `may` any number of times.
Strategy(may) == IF may = {} THEN << >> ELSE <<[op |-> "strategy", may |-> may]>>

Running(op) == calls # << >> /\ Head(calls).op = op
Return == calls' = Tail(calls)

\* update_order_status(): no look at the old status; then the callbacks.
UpdateOrderStatus(id, status, rest) ==
    LET updated == [orders[id] EXCEPT !.status = status]
    IN  /\ orders' = [orders EXCEPT ![id] = updated]
        /\ calls' = <<Callbacks(updated)>> \o rest

(***************************************************************************)
(* The strategy.                                                           *)
(***************************************************************************)
StrategyMay(op) == Running("strategy") /\ op \in Head(calls).may /\ ops < MaxCalls

\* StrategyContext::submit_order() and submit_order_internal().  An order of
\* on_start, when the loop has no time yet, is stamped with the wall clock.
SubmitOrder(plan) ==
    LET id == 1 + Cardinality({i \in OrderIds : orders[i].status # "None"})
        order == [id |-> id, type |-> plan.type, tif |-> plan.tif,
                  quantity |-> plan.quantity, expire_at |-> plan.expire_at,
                  status |-> "Created", filled_quantity |-> 0,
                  created_at |-> IF current_time = 0 THEN WallClock ELSE current_time]
    IN  /\ StrategyMay("submit") /\ id \in OrderIds
        /\ orders' = [orders EXCEPT ![id] = order]
        /\ calls' = <<Callbacks(order), MakePending(id)>> \o calls
        /\ ops' = ops + 1
        /\ UNCHANGED <<resting_orders, event_queue, priced, current_time, current_day, accepted>>

\* cancel_order()
CancelOrder(id) ==
    /\ StrategyMay("cancel") /\ id \in Open
    /\ UpdateOrderStatus(id, "Cancelled", calls)
    /\ ops' = ops + 1
    /\ UNCHANGED <<resting_orders, event_queue, priced, current_time, current_day, accepted>>

\* modify_order(), of the quantity; a change of prices changes nothing here.
ModifyOrder(id, quantity) ==
    LET updated == [orders[id] EXCEPT !.quantity = quantity]
    IN  /\ StrategyMay("modify") /\ id \in Open
        /\ orders' = [orders EXCEPT ![id] = updated]
        /\ calls' = <<Callbacks(updated)>> \o calls
        /\ ops' = ops + 1
        /\ UNCHANGED <<resting_orders, event_queue, priced, current_time, current_day, accepted>>

StrategyReturns ==
    /\ Running("strategy") /\ Return
    /\ UNCHANGED <<resting_orders, event_queue, priced, orders, current_time, current_day,
                   ops, accepted>>

(***************************************************************************)
(* The callbacks of the order manager.                                     *)
(***************************************************************************)
\* The first one tells the pipeline, then the strategy; the second one comes
\* after both, with the same snapshot, and does something only if it is Pending.
RunCallbacks ==
    LET order == Head(calls).order
    IN  /\ Running("callbacks")
        /\ OnOrderUpdate(order)
        /\ calls' = Strategy(UpdateOps)
                    \o (IF order.status = "Pending" THEN <<Accept(order)>> ELSE << >>)
                    \o Tail(calls)
        /\ UNCHANGED <<event_queue, priced, orders, current_time, current_day, ops, accepted>>

\* How often an order was handed to the pipeline is counted up to two.
Count(order, postponed) ==
    [accepted EXCEPT ![order.id] =
        IF @.times = 0 THEN [times |-> 1, lots |-> order.quantity, postponed |-> postponed]
        ELSE [times |-> 2, lots |-> 0, postponed |-> FALSE]]

AcceptOrder ==
    LET order == Head(calls).order
    IN  /\ Running("accept")
        /\ \/ Postpone(order) /\ accepted' = Count(order, TRUE)
           \/ Answer(order) /\ accepted' = Count(order, FALSE)
        /\ Return
        /\ UNCHANGED <<priced, orders, current_time, current_day, ops>>

RefuseOrder ==
    /\ Running("accept") /\ RiskMayRefuse
    /\ UpdateOrderStatus(Head(calls).order.id, "Rejected", Tail(calls))
    /\ UNCHANGED <<resting_orders, event_queue, priced, current_time, current_day, ops, accepted>>

SubmittedIsPending ==
    /\ Running("pending")
    /\ UpdateOrderStatus(Head(calls).id, "Pending", Tail(calls))
    /\ UNCHANGED <<resting_orders, event_queue, priced, current_time, current_day, ops, accepted>>

(***************************************************************************)
(* on_market_update(), order by order in any order, tick by tick.          *)
(***************************************************************************)
MatchOrder ==
    LET frame == Head(calls)
    IN  /\ Running("match")
        /\ \E id \in frame.ids :
               /\ ProcessRestingOrder(id, frame.at)
               /\ calls' = <<Match(frame.ids \ {id}, frame.at, frame.left)>> \o Tail(calls)
        /\ UNCHANGED <<priced, orders, current_time, current_day, ops, accepted>>

\* Mutant: the ticks are not counted.
NextTickUncounted ==
    LET frame == Head(calls)
    IN  /\ Running("match") /\ frame.ids = {}
        /\ calls' = (IF frame.left > 0 THEN <<Match(Resting, frame.at, frame.left)>> ELSE << >>)
                    \o Tail(calls)
        /\ UNCHANGED <<resting_orders, event_queue, priced, orders, current_time, current_day,
                       ops, accepted>>

NextTick ==
    LET frame == Head(calls)
    IN  /\ Running("match") /\ frame.ids = {}
        /\ calls' = (IF frame.left > 0
                     THEN <<Match(Resting, frame.at + 1, frame.left - 1)>> ELSE << >>)
                    \o Tail(calls)
        /\ UNCHANGED <<resting_orders, event_queue, priced, orders, current_time, current_day,
                       ops, accepted>>

(***************************************************************************)
(* The event loop: EventLoop::step() and the handlers.                     *)
(***************************************************************************)
Dispatching == calls = << >> /\ event_queue # << >>

\* Mutant: the day changes when more than a day has passed.
DayChangesLate(at) == current_day # 0 /\ current_day + 1 < Day(at)

\* cancel_day_orders_if_needed() and cancel_expired_orders()
DayChanges(at) == current_day # 0 /\ current_day # Day(at)
Expired(at) ==
    {id \in Open : \/ orders[id].tif = "Day" /\ DayChanges(at)
                   \/ orders[id].tif = "GTD" /\ orders[id].expire_at <= at}

Cancels(ids, at) ==
    {[i \in DOMAIN s |-> OrderEvent("Cancel", s[i], 0, at)] :
        s \in {f \in [1 .. Cardinality(ids) -> ids] :
                   \A i, j \in DOMAIN f : f[i] = f[j] => i = j}}

\* The market handler: expiry, execution, then the strategy.
HandleMarket ==
    LET event == Head(event_queue)
    IN  /\ Dispatching /\ event.kind = "Market"
        /\ \E cancels \in Cancels(Expired(event.time), event.time) :
               event_queue' = Push(Tail(event_queue), cancels)
        /\ current_day' = Day(event.time)
        /\ current_time' = event.time
        /\ priced' = TRUE
        /\ calls' = <<Match(Resting, event.time, event.lots - 1)>> \o Strategy(MarketOps)
        /\ UNCHANGED <<resting_orders, orders, ops, accepted>>

\* The order handler, Fill: process_fill() looks at no status.  The fill
\* callbacks come first, then the order callbacks with the snapshot.
HandleFill ==
    LET event == Head(event_queue)
        order == orders[event.id]
        filled == order.filled_quantity + event.lots
        updated == [order EXCEPT
            !.filled_quantity = IF filled < MaxFilled THEN filled ELSE MaxFilled,
            !.status = IF filled >= order.quantity THEN "Filled" ELSE "PartiallyFilled"]
    IN  /\ Dispatching /\ event.kind = "Fill"
        /\ orders' = [orders EXCEPT ![event.id] = updated]
        /\ calls' = Strategy(FillOps) \o <<Callbacks(updated)>>
        /\ event_queue' = Tail(event_queue)
        /\ current_time' = event.time
        /\ UNCHANGED <<resting_orders, priced, current_day, ops, accepted>>

\* The order handler, the other kinds: update_order_status().
StatusOf(kind) ==
    CASE kind = "Cancel" -> "Cancelled" [] kind = "Reject" -> "Rejected"
      [] kind = "Update" -> "Pending"

HandleStatus ==
    LET event == Head(event_queue)
    IN  /\ Dispatching /\ event.kind \in {"Cancel", "Reject", "Update"}
        /\ UpdateOrderStatus(event.id, StatusOf(event.kind), << >>)
        /\ event_queue' = Tail(event_queue)
        /\ current_time' = event.time
        /\ UNCHANGED <<resting_orders, priced, current_day, ops, accepted>>

\* load_data() has enqueued the market events; run() calls on_start() first.
Init ==
    /\ resting_orders = [id \in OrderIds |-> NotResting]
    /\ event_queue = [i \in 1 .. Len(Feed) |-> MarketEvent(Feed[i].at, Feed[i].ticks)]
    /\ priced = FALSE
    /\ orders = [id \in OrderIds |-> NoOrder]
    /\ calls = Strategy(StartOps)
    /\ current_time = 0
    /\ current_day = 0
    /\ ops = 0
    /\ accepted = [id \in OrderIds |-> [times |-> 0, lots |-> 0, postponed |-> FALSE]]

Next ==
    \/ \E plan \in Plans : SubmitOrder(plan)
    \/ \E id \in OrderIds : CancelOrder(id)
    \/ \E id \in OrderIds, quantity \in Quantities : ModifyOrder(id, quantity)
    \/ StrategyReturns
    \/ RunCallbacks \/ AcceptOrder \/ RefuseOrder \/ SubmittedIsPending
    \/ MatchOrder \/ NextTick
    \/ HandleMarket \/ HandleFill \/ HandleStatus

Spec == Init /\ [][Next]_vars

\* The thread goes on as long as there is something to do.
FairSpec == Spec /\ WF_vars(Next)
-----------------------------------------------------------------------------
(***************************************************************************)
(* Properties.                                                             *)
(***************************************************************************)
Snapshot ==
    [id : OrderIds, type : OrderTypes, tif : TimesInForce, quantity : Nat \ {0},
     expire_at : Nat, status : Statuses \ {"None"}, filled_quantity : 0 .. MaxFilled,
     created_at : Nat]
RestingState ==
    [type : OrderTypes, tif : TimesInForce, quantity : Nat, stop_triggered : BOOLEAN,
     requested : BOOLEAN, activation : Nat]
Event ==
    [time : Nat, priority : {kMarketPriority}, kind : {"Market"}, id : {0}, lots : Nat \ {0}]
    \cup [time : Nat, priority : {kOrderPriority}, kind : OrderEventKinds, id : OrderIds,
          lots : Nat]
Frame ==
    [op : {"callbacks", "accept"}, order : Snapshot]
    \cup [op : {"pending"}, id : OrderIds]
    \cup [op : {"match"}, ids : SUBSET OrderIds, at : Nat, left : Nat]
    \cup [op : {"strategy"}, may : SUBSET StrategyOps]

\* Types of the order table, the resting orders, the event queue and the stack.
TypeOK ==
    /\ resting_orders \in [OrderIds -> RestingState]
    /\ event_queue \in Seq(Event)
    /\ priced \in BOOLEAN
    /\ orders \in [OrderIds -> Snapshot \cup {NoOrder}]
    /\ \A id \in OrderIds : orders[id] # NoOrder => orders[id].id = id
    /\ calls \in Seq(Frame)
    /\ current_time \in Nat /\ current_day \in Nat /\ ops \in 0 .. MaxCalls
    /\ accepted \in [OrderIds -> [times : 0 .. 2, lots : Nat, postponed : BOOLEAN]]

\* The events of an order that are on their way, and the lots of its fills.
Queued(id) == {i \in 1 .. Len(event_queue) : event_queue[i].id = id}
Fills(event, id) == event.kind = "Fill" /\ event.id = id
LotsOf(queue, id) ==
    SumOf([i \in 1 .. Len(queue) |-> IF Fills(queue[i], id) THEN queue[i].lots ELSE 0])
QueuedLots(id) == LotsOf(event_queue, id)
Idle == calls = << >>
Settled(id) == Idle /\ Queued(id) = {}

\* Between two events the pipeline keeps only orders that are open in the order
\* table: whatever ends an order, an event, the strategy or the risk manager,
\* also takes it out of resting_orders_, so no later market update can execute an
\* order that is over.  (A strategy that cancels an order in the callback that
\* reports it Pending is left out: see the README.)
RestingIsOpen == Idle => Resting \subseteq Open

\* Order table, event queue and resting orders fit together.
OrdersAreConsistent ==
    /\ TypeOK
    /\ RestingIsOpen

\* An order that is Pending, or was handed to the pipeline once and is partially filled
\* by fewer lots than were handed over, is being worked on: it rests in the pipeline, an
\* event about it is on its way, or the handler that will submit it has not returned.
\* No branch of the pipeline drops an order without an answer, and none leaves the rest
\* of a partial fill behind, whatever the strategy does meanwhile.
WorkingIsTracked ==
    \A id \in OrderIds :
        /\ Settled(id)
        /\ \/ orders[id].status = "Pending"
           \/ /\ orders[id].status = "PartiallyFilled"
              /\ accepted[id].times = 1
              /\ orders[id].filled_quantity < accepted[id].lots
        => id \in Resting

\* The lots of an order handed to the pipeline once are conserved: what the order
\* table counts as filled, what fill events on their way carry and what rests is
\* no more than was handed over, so the order cannot be filled beyond it.
LotsAreConserved ==
    \A id \in OrderIds :
        accepted[id].times = 1 =>
            orders[id].filled_quantity + QueuedLots(id)
                + resting_orders[id].quantity <= accepted[id].lots

\* A fill-or-kill order handed to the pipeline once is filled whole or not at all,
\* whatever ends it, and however many events its fills take.
FillOrKillIsWhole ==
    \A id \in OrderIds :
        accepted[id].times = 1 /\ EffectiveTif(orders[id]) = "FOK" /\ id \notin Resting =>
            orders[id].filled_quantity + QueuedLots(id) \in {0, accepted[id].lots}

\* Executions account for every lot of an order handed to the pipeline once.
ExecutionsAreSound ==
    /\ LotsAreConserved
    /\ FillOrKillIsWhole

Unmodified(id) == accepted[id].times = 1 /\ accepted[id].lots = orders[id].quantity

\* An immediate order that is not modified is over as soon as the events about it are
\* handled, with two exceptions of the code: one handed over before its activation or
\* out of session waits, for later sessions too, and so does a triggered stop limit
\* order behind the venue's queue.  One that waits rests whole: nothing of it has been
\* executed, and no rest of an immediate order is ever left working.
ImmediateIsOver ==
    \A id \in OrderIds :
        LET state == resting_orders[id]
        IN  /\ Unmodified(id) /\ EffectiveTif(orders[id]) \in {"IOC", "FOK"}
            /\ Settled(id) /\ id \in Open \cup Resting
            => /\ id \in Open /\ state.quantity = orders[id].quantity
               /\ accepted[id].postponed \/ (state.type = "StopLimit" /\ state.stop_triggered)

\* Once the first market event of a later day and the order events it caused are
\* handled, no Day order of an earlier day is open or rests, if executions fill it
\* whole (a partial fill may open it again: see the README).
DayOrdersExpire ==
    \A id \in OrderIds :
        orders[id].tif = "Day" /\ Settled(id)
            /\ Day(orders[id].created_at) < current_day => id \notin Open \cup Resting

\* The run ends: the handlers return and the queue is exhausted.
RunEnds == <>(calls = << >> /\ event_queue = << >>)
=============================================================================
