-------------------------- MODULE ExecutionPipeline --------------------------
(***************************************************************************)
(* The simulated venue of a backtest, src/engine/execution_pipeline.cpp:   *)
(* orders that can be executed now are answered at once, the others rest   *)
(* until a market update.  Every answer is an order event on the queue.    *)
(*                                                                         *)
(* Prices are abstracted to what they decide: whether a stop triggers,     *)
(* whether a limit order can be filled, whether the price has drifted      *)
(* further than the rule allows and how many lots the execution model      *)
(* finds (Liquidity).  As long as no price is known (`priced`) none of     *)
(* that happens.  The place of a limit order in the venue's queue is one   *)
(* more reason for it to wait.  One symbol is traded.                      *)
(***************************************************************************)
EXTENDS EventOrder

CONSTANTS
    OrderIds,          \* the ids of orders, 1 .. n
    Latency,           \* of the latency model
    Liquidity,         \* the lots an execution may find
    SplitFills,        \* whether the execution model may return a fill per lot
    PriceDriftAction,  \* "Ignore", "Reject" or "Requote"
    FillPolicy,        \* default_fill_policy_
    SessionMayClose    \* whether session or halt may forbid an execution

ASSUME PipelineAssumption ==
    /\ OrderIds \subseteq Nat \ {0} /\ IsFiniteSet(OrderIds)
    /\ Latency \in Nat /\ Liquidity \subseteq Nat
    /\ SplitFills \in BOOLEAN /\ SessionMayClose \in BOOLEAN
    /\ PriceDriftAction \in {"Ignore", "Reject", "Requote"}
    /\ FillPolicy \in {"PreserveOrder", "Return", "IOC", "FOK"}

VARIABLES
    resting_orders,  \* the resting state of each order, or NotResting
    event_queue,     \* the events to come, in the order they will be popped
    priced           \* whether the market data cache has a price

OrderTypes == {"Market", "Limit", "Stop", "StopLimit"}
TimesInForce == {"Day", "GTC", "IOC", "FOK", "GTD"}
StopTypes == {"Stop", "StopLimit"}
OverStatuses == {"Filled", "Cancelled", "Rejected"}

NotResting ==
    [type |-> "Market", tif |-> "GTC", quantity |-> 0, stop_triggered |-> FALSE,
     requested |-> FALSE, activation |-> 0]

Resting == {id \in OrderIds : resting_orders[id] # NotResting}

\* resting_orders_[id] = state, and resting_orders_.erase(id).
Rest(id, state) == resting_orders' = [resting_orders EXCEPT ![id] = state]
Erase(id) == Rest(id, NotResting)
Emit(events) == event_queue' = Push(event_queue, events)

EffectiveTif(order) ==
    IF order.tif \in {"IOC", "FOK", "GTD"} \/ FillPolicy \in {"PreserveOrder", "Return"}
    THEN order.tif ELSE FillPolicy

\* The state of an order just submitted; `requested` is has_requested_price.
Submitted(order) ==
    [type |-> order.type, tif |-> EffectiveTif(order), quantity |-> order.quantity,
     stop_triggered |-> FALSE, requested |-> priced,
     activation |-> order.created_at + Latency]

WaitsForTrigger(state) == state.type \in StopTypes /\ ~state.stop_triggered
Triggered(state) == [state EXCEPT !.stop_triggered = state.type \in StopTypes]

\* can_fill_now() may be false for a triggered order, and it may be true.
MayMiss(state) == ~priced \/ state.type \in {"Limit", "StopLimit"}
MayFill(state) == priced

\* The fill events of `lots` lots: one, or one per lot.
FillEvents(id, lots, at) ==
    IF lots = 0 THEN {<< >>}
    ELSE {<<OrderEvent("Fill", id, lots, at)>>}
         \cup IF SplitFills THEN {[i \in 1 .. lots |-> OrderEvent("Fill", id, 1, at)]} ELSE {}

\* How an execution ends: a fill-or-kill order that cannot be filled whole is
\* rejected; an immediate-or-cancel order is always cancelled after its fills, as
\* the rest of a market order is; the rest of a limit order goes on resting, which
\* an update announces.
MarketLike(state) == state.type \in {"Market", "Stop"}

\* Mutant: one lot too few is taken for enough.
KilledTooLate(state, lots) == state.tif = "FOK" /\ lots + 1 < state.quantity

Killed(state, lots) == state.tif = "FOK" /\ lots < state.quantity

RejectOrder(id, at) == Erase(id) /\ Emit(<<OrderEvent("Reject", id, 0, at)>>)

FillAndCancel(id, at, fills) ==
    Erase(id) /\ Emit(fills \o <<OrderEvent("Cancel", id, 0, at)>>)

\* Mutant: the order rests with the quantity it had.
FillAndRestWhole(id, state, at, lots, fills) ==
    /\ Rest(id, [state EXCEPT !.requested = TRUE])
    /\ Emit(fills \o <<OrderEvent("Update", id, lots, at)>>)

FillAndRest(id, state, at, lots, fills) ==
    /\ Rest(id, [state EXCEPT !.quantity = @ - lots, !.requested = TRUE])
    /\ Emit(fills \o <<OrderEvent("Update", id, lots, at)>>)

\* The end of process_resting_order().
ExecuteLots(id, state, at, lots, fills) ==
    \/ Killed(state, lots) /\ RejectOrder(id, at)
    \/ state.tif = "IOC" /\ FillAndCancel(id, at, fills)
    \/ /\ ~Killed(state, lots) /\ state.tif # "IOC"
       /\ \/ lots = state.quantity /\ Erase(id) /\ Emit(fills)
          \/ /\ lots < state.quantity /\ MarketLike(state)
             /\ FillAndCancel(id, at, fills)
          \/ /\ lots < state.quantity /\ ~MarketLike(state)
             /\ FillAndRest(id, state, at, lots, fills)

Execute(id, state, at) ==
    \E found \in Liquidity :
        LET lots == IF found < state.quantity THEN found ELSE state.quantity
        IN  \E fills \in FillEvents(id, lots, at) : ExecuteLots(id, state, at, lots, fills)

\* Mutant: only an immediate-or-cancel order is answered at once.
UnfillableRestsFok(id, state, at) ==
    \/ /\ state.tif = "IOC"
       /\ Emit(<<OrderEvent("Cancel", id, 0, at)>>) /\ UNCHANGED resting_orders
    \/ /\ state.tif # "IOC"
       /\ Rest(id, state) /\ UNCHANGED event_queue

\* The branches of on_order_submitted() for an order that cannot be filled now.
Unfillable(id, state, at) ==
    \/ /\ state.tif \in {"IOC", "FOK"}
       /\ Emit(<<OrderEvent(IF state.tif = "IOC" THEN "Cancel" ELSE "Reject", id, 0, at)>>)
       /\ UNCHANGED resting_orders
    \/ /\ state.tif \notin {"IOC", "FOK"}
       /\ Rest(id, state) /\ UNCHANGED event_queue

\* on_order_submitted(), called for Pending orders only.  An order that is not
\* yet active, or out of session, rests whatever its time in force.
Postpone(order) ==
    /\ Latency > 0 \/ SessionMayClose
    /\ Rest(order.id, Submitted(order)) /\ UNCHANGED event_queue

\* Otherwise it is answered now, at the time it was created; but a stop limit order
\* that triggers at once may rest for its place in the venue's queue, again whatever
\* its time in force.
Answer(order) ==
    LET state == Submitted(order)
        ready == Triggered(state)
        at == state.activation
    IN  /\ Latency = 0
        /\ \/ WaitsForTrigger(state) /\ Unfillable(order.id, state, at)
           \/ /\ MayMiss(ready) /\ (WaitsForTrigger(state) => priced)
              /\ Unfillable(order.id, ready, at)
           \/ /\ MayFill(ready) /\ state.type = "StopLimit"
              /\ Rest(order.id, ready) /\ UNCHANGED event_queue
           \/ MayFill(ready) /\ Execute(order.id, ready, at)

\* Mutant: cancels are thought to come from the pipeline only.
OnOrderUpdateKeepsCancelled(order) ==
    IF order.status \in {"Filled", "Rejected"} THEN Erase(order.id)
    ELSE UNCHANGED resting_orders

\* on_order_update()
OnOrderUpdate(order) ==
    IF order.status \in OverStatuses THEN Erase(order.id) ELSE UNCHANGED resting_orders

\* Mutant: a rejection for drift is not reported.
DriftsSilently(id, state, at) ==
    \/ /\ PriceDriftAction = "Reject"
       /\ Erase(id) /\ UNCHANGED event_queue
    \/ /\ PriceDriftAction = "Requote"
       /\ Rest(id, state) /\ Emit(<<OrderEvent("Update", id, 0, at)>>)

\* The price has drifted from the requested one when the order could be filled.
Drifts(id, state, at) ==
    \/ PriceDriftAction = "Reject" /\ RejectOrder(id, at)
    \/ /\ PriceDriftAction = "Requote"
       /\ Rest(id, state) /\ Emit(<<OrderEvent("Update", id, 0, at)>>)

\* process_resting_order(): the order waits, drifts or is executed.
ProcessRestingOrder(id, at) ==
    LET state == resting_orders[id]
        ready == Triggered(state)
    IN  \/ /\ \/ id \notin Resting
              \/ at < state.activation
              \/ SessionMayClose
              \/ WaitsForTrigger(state)
           /\ UNCHANGED <<resting_orders, event_queue>>
        \/ /\ id \in Resting /\ at >= state.activation
           /\ \/ /\ MayMiss(ready) /\ (WaitsForTrigger(state) => priced)
                 /\ Rest(id, ready) /\ UNCHANGED event_queue
              \/ MayFill(ready) /\ state.requested /\ Drifts(id, ready, at)
              \/ MayFill(ready) /\ Execute(id, ready, at)
=============================================================================
