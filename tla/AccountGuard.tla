---------------------------- MODULE AccountGuard ----------------------------
(***************************************************************************)
(* What the backtest engine does by itself with one position: the stop-loss*)
(* manager (src/risk/stop_loss.cpp) and the enforcement of the account's   *)
(* margin (evaluate_account_state() and liquidate_for_stop_out() of        *)
(* src/engine/backtest_engine.cpp), around a strategy that trades as well. *)
(* Prices are not kept: whether a stop is hit, and whether the margin is   *)
(* breached, is a choice of each event.  Of the pipeline and the event     *)
(* queue each order has what rests, the fills on their way and the Update  *)
(* events that hand it to the pipeline once more.                          *)
(***************************************************************************)
EXTENDS Integers, FiniteSetsExt

CONSTANTS
  Slots,          \* of the orders that are in work at one time
  Trades,         \* the quantities of the strategy's orders, with their sign
  Requotes,       \* whether an order may be requoted (price_drift_action)
  MaxExposure,    \* bound: of the position and everything in work
  MaxUpdates,     \* bound: Update events of an order on their way
  CallAction,     \* margin_call_action
  StopOutAction,  \* stop_out_action: "none" or one of the two liquidations
  HaltAfterStopOut

AccountGuardAssumption ==
  /\ IsFiniteSet(Slots)
  /\ Trades \subseteq Int \ {0}
  /\ MaxExposure \in Nat /\ MaxUpdates \in Nat
  /\ Requotes \in BOOLEAN
  /\ CallAction \in {"ignore", "cancel", "halt"}
  /\ StopOutAction \in {"none", "liquidate"}
  /\ HaltAfterStopOut \in BOOLEAN

VARIABLES
  position,  \* the quantity the portfolio holds
  stop,      \* the StopState of the symbol: last_qty and exit_requested
  orders,    \* per slot: whose order, its quantity, what rests in the pipeline, what
             \* is executed and on its way in the event queue, how many Update events are
             \* on their way, and (history) whether it escapes the enforcement: submitted
             \* by its callbacks, or cancelled with an Update on its way
  account,   \* margin_call_state_, stop_out_state_, account_trading_halted_
  disturbed  \* history: since the stop-loss manager has an order of its own in
             \* work, somebody else changed the position, or an Update brought that
             \* order back when it had been executed or cancelled

vars == <<position, stop, orders, account, disturbed>>

OrderOf(by, quantity, escapes) ==
  [by |-> by, quantity |-> quantity, rests |-> quantity, flies |-> 0, updates |-> 0,
   escapes |-> escapes]
NoOrder == OrderOf("none", 0, FALSE)

Abs(n) == IF n < 0 THEN -n ELSE n
SignOf(n) == IF n > 0 THEN 1 ELSE IF n < 0 THEN -1 ELSE 0

\* The quantities that are a part of n or all of it.
PartsOf(n) == {SignOf(n) * k : k \in 1 .. Abs(n)}

\* The stop-loss manager's orders, and what they may still do to the position.
ExitsIn(os) == {o \in Slots : os[o].by = "stop"}
ExitTotal(os) == MapThenSumSet(LAMBDA o : os[o].rests + os[o].flies, ExitsIn(os))

\* The bound of the model.
Exposure(quantity, os) ==
  Abs(quantity) + MapThenSumSet(LAMBDA o : Abs(os[o].rests) + Abs(os[o].flies), Slots)

Init ==
  /\ position = 0
  /\ stop = [last |-> 0, asked |-> FALSE]
  /\ orders = [o \in Slots |-> NoOrder]
  /\ account = [called |-> FALSE, stoppedOut |-> FALSE, halted |-> FALSE]
  /\ disturbed = FALSE
-----------------------------------------------------------------------------
(* The pieces of the handlers.                                             *)

\* Mutant: every change of the position asks for a new exit.
StopAfterForgets(s, quantity) ==
  [last |-> quantity, asked |-> s.asked /\ quantity = s.last]

\* StopLossManager::on_position_update(): a new position, or more of it after an
\* exit was asked for, is guarded from the start.
StopAfter(s, quantity) ==
  LET turned == SignOf(s.last) # SignOf(quantity)
      increased == ~turned /\ Abs(quantity) > Abs(s.last)
  IN  [last |-> quantity, asked |-> s.asked /\ ~turned /\ ~increased]

\* submit_order() behind the pre-submit callback: the order rests, or it is refused.
Submitted(held, halted, os, by, quantity, escapes) ==
  IF halted
    THEN {os}
    ELSE {[os EXCEPT ![o] = OrderOf(by, quantity, escapes)] :
            o \in {u \in Slots : os[u].by = "none" /\ Exposure(held, os) + Abs(quantity) <= MaxExposure}}

\* An order without anything on its way gives up its slot.
Kept(order) ==
  IF order.rests = 0 /\ order.flies = 0 /\ order.updates = 0 THEN NoOrder ELSE order

\* Mutant: the orders of the stop-loss manager are left alone.
CancelledKeepsExits(os) ==
  [o \in Slots |-> IF os[o].by = "stop" THEN os[o]
                   ELSE Kept([os[o] EXCEPT !.rests = 0, !.escapes = os[o].updates > 0])]

\* Every open order is cancelled; fills and updates in the event queue come.
Cancelled(os) ==
  [o \in Slots |-> Kept([os[o] EXCEPT !.rests = 0, !.escapes = os[o].updates > 0])]

\* The strategy, when it is told of a cancellation or of a liquidation, may submit an
\* order at once: the engine has not halted trading yet.
AfterCallbacks(held, os, told) ==
  {os} \cup IF told THEN UNION {Submitted(held, account.halted, os, "strategy", q, TRUE) : q \in Trades}
                    ELSE {}

HasOrders(os) == \E o \in Slots : os[o].by # "none"

\* evaluate_account_state() up to the stop-out: the orders it may leave.
OrdersAfterCall(held, os, call) ==
  IF call /\ ~account.called /\ CallAction \in {"cancel", "halt"}
    THEN AfterCallbacks(held, Cancelled(os), HasOrders(os))
    ELSE {os}

\* What liquidate_for_stop_out() may leave of the position: nothing, a part when
\* the book of the execution model is thin, all of it when there is no price or
\* the positions sold before cured the account.
LeftOver(quantity) == {quantity - q : q \in PartsOf(quantity) \cup {0}}

\* evaluate_account_state(): what it may make of what the event left behind.  A flat
\* position needs no maintenance margin and breaches no stop-out.
Evaluated(quantity, s, os) ==
  UNION {
    LET call == margin[1]
        out == margin[2]
        haltedByCall == call /\ ~account.called /\ CallAction = "halt"
        liquidates == out /\ ~account.stoppedOut /\ StopOutAction = "liquidate"
        state == [called |-> call, stoppedOut |-> out,
                  halted |-> account.halted \/ haltedByCall \/ (liquidates /\ HaltAfterStopOut)]
        Of(q, os2) == [position |-> q, stop |-> IF q = quantity THEN s ELSE StopAfter(s, q),
                       orders |-> os2, account |-> state, liquidates |-> liquidates]
    IN  IF ~liquidates
          THEN {Of(quantity, os2) : os2 \in OrdersAfterCall(quantity, os, call)}
          ELSE UNION {{Of(x[2], os2) :
                         os2 \in AfterCallbacks(quantity, Cancelled(x[1]),
                                  ~haltedByCall /\ (HasOrders(x[1]) \/ x[2] # quantity))} :
                        x \in OrdersAfterCall(quantity, os, call) \X LeftOver(quantity)}
    : margin \in {m \in BOOLEAN \X BOOLEAN : quantity = 0 => ~m[2]} }

Become(r, byOthers) ==
  /\ position' = r.position
  /\ stop' = r.stop
  /\ orders' = r.orders
  /\ account' = r.account
  /\ disturbed' = (ExitsIn(r.orders) # {} /\ (disturbed \/ byOthers \/ r.liquidates))
-----------------------------------------------------------------------------
(* The events.                                                             *)

\* The strategy trades.
Trade ==
  /\ \E q \in Trades : orders' \in Submitted(position, account.halted, orders, "strategy", q, FALSE)
  /\ UNCHANGED <<position, stop, account, disturbed>>

\* process_resting_order() executes what it finds of an order and queues the fill.  It is
\* done with an order filled whole, and cancels the rest of a market order, as those of
\* the stop-loss manager are.
Execute(o) ==
  /\ orders[o].rests # 0
  /\ \E q \in PartsOf(orders[o].rests) \cup {0} :
       orders' = [orders EXCEPT ![o] = Kept([orders[o] EXCEPT !.rests = 0, !.flies = @ + q])]
  /\ disturbed' = (disturbed /\ ExitsIn(orders') # {})
  /\ UNCHANGED <<position, stop, account>>

\* The rest of a limit order goes on resting, and an Update event follows the fill.
ExecuteSome(o) ==
  /\ orders[o].by = "strategy" /\ orders[o].updates < MaxUpdates
  /\ \E q \in (PartsOf(orders[o].rests) \cup {0}) \ {orders[o].rests} :
       orders' = [orders EXCEPT ![o].rests = @ - q, ![o].flies = @ + q, ![o].updates = @ + 1]
  /\ UNCHANGED <<position, stop, account, disturbed>>

\* The price has drifted: the order, of whatever type, is requoted instead.
Requote(o) ==
  /\ Requotes
  /\ orders[o].rests # 0 /\ orders[o].updates < MaxUpdates
  /\ orders' = [orders EXCEPT ![o].updates = @ + 1]
  /\ UNCHANGED <<position, stop, account, disturbed>>

\* The handler of an Update event sets the order Pending, whatever has become of it, and
\* the callback for Pending orders hands it to the pipeline once more, with its whole
\* quantity and without a look at account_trading_halted_.  There it rests, unless the
\* risk manager or the pipeline refuses it; one that is refused by the pipeline for its
\* time in force leaves what rested before.
Reopen(o) ==
  /\ orders[o].updates > 0
  /\ \E left \in {orders[o].quantity, orders[o].rests, 0} :
       orders' = [orders EXCEPT ![o] = Kept([orders[o] EXCEPT !.rests = left, !.updates = @ - 1])]
  /\ Exposure(position, orders') <= MaxExposure
  /\ disturbed' = ( /\ ExitsIn(orders') # {}
                    /\ disturbed \/ (orders[o].by = "stop" /\ orders[o].rests = 0))
  /\ UNCHANGED <<position, stop, account>>

\* An order expires, its owner cancels it, or the callbacks of a fill that completes it,
\* after those that evaluate the account, take what still rests out of the pipeline.
Cancel(o) ==
  /\ orders[o].rests # 0
  /\ orders' = [orders EXCEPT ![o] = Kept([orders[o] EXCEPT !.rests = 0])]
  /\ disturbed' = (disturbed /\ ExitsIn(orders') # {})
  /\ UNCHANGED <<position, stop, account>>

\* The handler of a fill event: update_position(), the stop-loss manager's callback,
\* then the account.
Fill(o) ==
  \E q \in PartsOf(orders[o].flies) :
    \E r \in Evaluated(position + q, StopAfter(stop, position + q),
                       [orders EXCEPT ![o] = Kept([orders[o] EXCEPT !.flies = @ - q])]) :
      Become(r, orders[o].by # "stop")

\* maybe_exit() for a price that hits the stop: it asks once, whatever becomes of its order.
Asked(r) ==
  IF r.stop.last = 0 \/ r.stop.asked
    THEN {r}
    ELSE {[r EXCEPT !.orders = os, !.stop.asked = TRUE] :
            os \in Submitted(r.position, r.account.halted, r.orders, "stop", -r.stop.last, FALSE)}

\* The handler of a bar, a tick or a quote: marking to the market calls the stop-loss
\* manager with the quantity it knows; after the account it looks at its stop.
Mark ==
  \E r \in Evaluated(position, StopAfter(stop, position), orders) :
    \/ Become(r, FALSE)
    \/ \E hit \in Asked(r) : Become(hit, FALSE)

Next ==
  \/ Trade \/ Mark
  \/ \E o \in Slots :
       Execute(o) \/ ExecuteSome(o) \/ Requote(o) \/ Reopen(o) \/ Cancel(o) \/ Fill(o)

Spec == Init /\ [][Next]_vars
-----------------------------------------------------------------------------
(* Properties.                                                             *)

Bounded == -MaxExposure .. MaxExposure

TypeOK ==
  /\ position \in Bounded
  /\ stop \in [last : Bounded, asked : BOOLEAN]
  /\ orders \in [Slots -> [by : {"none", "strategy", "stop"}, quantity : Bounded,
                             rests : Bounded, flies : Bounded, updates : 0 .. MaxUpdates,
                             escapes : BOOLEAN]]
  /\ account \in [called : BOOLEAN, stoppedOut : BOOLEAN, halted : BOOLEAN]
  /\ disturbed \in BOOLEAN

\* The stop-loss manager never turns the position round by itself: as long as nobody else
\* changed it since the exit was asked for, and no Update event handed an exit to the
\* pipeline again after its end, what its orders may still do, late and partial fills
\* included, fits what is held.
ExitsFitThePosition ==
  ~disturbed => /\ SignOf(ExitTotal(orders)) \in {0, -SignOf(position)}
                /\ Abs(ExitTotal(orders)) <= Abs(position)

\* A halted account has nothing left that can be executed, with two exceptions of the
\* code: what the strategy submitted from a callback while the engine was halting it, and
\* an order that was cancelled with an Update event on its way, which opens it again.
\* An order that the enforcement reached, and every other submission, stays dead,
\* whatever fills and updates come afterwards.
HaltLeavesNothingToExecute ==
  account.halted => \A o \in Slots : orders[o].rests # 0 => orders[o].escapes
=============================================================================
