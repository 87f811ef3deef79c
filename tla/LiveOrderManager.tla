-------------------------- MODULE LiveOrderManager --------------------------
(***************************************************************************)
(* The live order manager (src/live/live_order_manager.cpp) between its    *)
(* callers and a broker.                                                   *)
(*                                                                         *)
(* The event loop submits, cancels, modifies and reconciles, one call at a *)
(* time.  Execution reports come on a thread of the broker adapter, or     *)
(* from inside a broker call; the table orders_ has no lock, so a report   *)
(* is handled wherever the event loop is.  A call is therefore split where *)
(* it calls the broker, and reconciliation at every report of its list.    *)
(*                                                                         *)
(* The broker is external; what reaches the manager of it is what the      *)
(* adapters of src/live make of it.  A call that fails may have placed its *)
(* order, and the quantity of a report is the lots of one fill only where  *)
(* docs/reference/broker-message-types.md is kept: see Adapter.  Each      *)
(* report may be delayed past others, or lost.  Prices, symbols and        *)
(* messages are left out.                                                  *)
(***************************************************************************)
EXTENDS Integers, Sequences, FiniteSets, SequencesExt, Sums, LiveOrderStatus

CONSTANTS
  Adapter,        \* whose reports come: "alpaca", "ib", or, of an adapter that
                  \* keeps to the documents (those of the tests), "fills"
  Keys,           \* the fingerprints of orders, as duplicate_key() makes them
  QuantityOf,     \* the quantity of an order with a given fingerprint
  CallerIds,      \* the order.id callers submit under; 0 asks for a number
  Window,         \* whether a duplicate-order window is configured
  Reconciling,    \* whether order_reconcile_interval is positive
  CloseStatuses,  \* how the broker ends an order it was not asked to cancel
  NewQuantities,  \* the quantities of modifications
  MaxPlaced,      \* bound: orders at the broker
  MaxForeign,     \* bound: orders at the broker that nobody here submitted
  MaxId,          \* bound: the internal ids given out
  MaxFilled,      \* bound: lots counted for one order
  MaxLost         \* bound: reports lost

ASSUME LiveOrderAssumption ==
  /\ Adapter \in {"alpaca", "ib", "fills"}
  /\ QuantityOf \in [Keys -> Nat \ {0}]
  /\ CallerIds \subseteq Nat
  /\ Window \in BOOLEAN
  /\ Reconciling \in BOOLEAN
  /\ CloseStatuses \subseteq Closed \ {"cancelled", "error"}
  /\ NewQuantities \subseteq Nat \ {0}
  /\ {MaxPlaced, MaxForeign, MaxId, MaxFilled, MaxLost} \subseteq Nat

VARIABLES
  orders,    \* orders_
  nextId,    \* next_order_id_
  recent,    \* the keys of recent_order_keys_
  doing,     \* what the event loop is in the middle of
  snapshot,  \* reconcile_with_broker(): the reports still to be gone through
  broker,    \* external: the orders of the broker
  wire,      \* external: the reports under way, per order of the broker
  losses,    \* how many reports were lost
  missed,    \* history: per order of the broker, the reported lots that no order
             \* and no report has any more, less the lots counted again
  fresh      \* history: the orders whose submission the broker answered, within
             \* the duplicate-order window

liveVars == <<orders, nextId, recent>>
brokerVars == <<broker, wire>>
vars == <<liveVars, doing, snapshot, brokerVars, losses, missed, fresh>>

Idle == [op |-> "idle"]
Reconcile == [op |-> "reconcile"]
Submission(op, id, number, key) ==
  [op |-> op, id |-> id, number |-> number, key |-> key]
Cancellation(id) == [op |-> "cancel", id |-> id]

LiveOrder(number, status) == [number |-> number, status |-> status, filled |-> 0]

Report(number, status, lots) ==
  [number |-> number, status |-> status, lots |-> lots]

Init ==
  /\ orders = [id \in {} |-> LiveOrder(0, "new")]
  /\ nextId = 1
  /\ recent = {}
  /\ doing = Idle
  /\ snapshot = {}
  /\ broker = <<>>
  /\ wire = <<>>
  /\ losses = 0
  /\ missed = <<>>
  /\ fresh = {}
-----------------------------------------------------------------------------
(* The broker.                                                             *)

\* `acked`: its status needs no report; `reported` (history): the lots of its
\* reports together.
Placed(quantity, key) ==
  [quantity |-> quantity, executed |-> 0, working |-> TRUE, asked |-> FALSE,
   acked |-> FALSE, reported |-> 0, key |-> key]

\* The broker takes an order and gives it the next number.
Place(quantity, keys) ==
  /\ Len(broker) < MaxPlaced
  /\ broker' = Append(broker, Placed(quantity, keys))
  /\ wire' = Append(wire, <<>>)
  /\ missed' = Append(missed, 0)

Send(number, status, lots) ==
  wire' = [wire EXCEPT ![number] = Append(@, Report(number, status, lots))]

\* An order of the account that was not submitted here.
PlaceForeign ==
  /\ Cardinality({b \in DOMAIN broker : broker[b].key = {}}) < MaxForeign
  /\ \E quantity \in NewQuantities : Place(quantity, {})
  /\ UNCHANGED <<liveVars, doing, snapshot, losses, fresh>>

\* The status of an order.  orderStatus() of Interactive Brokers also follows an
\* execution: it calls an order that is partly filled Submitted, and gives one
\* that is filled the lots filled so far.
Acknowledge(b) ==
  LET full == broker[b].executed = broker[b].quantity
      lots == IF full THEN broker[b].executed ELSE 0
  IN  /\ ~broker[b].acked
      /\ broker[b].working \/ full
      /\ broker' = [broker EXCEPT ![b].acked = TRUE, ![b].reported = @ + lots]
      /\ Send(b, IF full THEN "filled" ELSE "new", lots)
      /\ UNCHANGED <<liveVars, doing, snapshot, losses, missed, fresh>>

\* What the adapters make of an execution.  A trade update of Alpaca carries the lots
\* filled so far; execDetails() of Interactive Brokers carries those of the execution
\* and always says filled, and an orderStatus() comes as well.
ReportedStatus(full) == IF full \/ Adapter = "ib" THEN "filled" ELSE "partiallyFilled"
ReportedLots(executed, lots) == IF Adapter = "alpaca" THEN executed ELSE lots

Execute(b, lots) ==
  LET executed == broker[b].executed + lots
      full == executed = broker[b].quantity
      reported == ReportedLots(executed, lots)
  IN  /\ broker[b].working
      /\ executed <= broker[b].quantity
      /\ broker' = [broker EXCEPT ![b].executed = executed, ![b].working = ~full,
                                  ![b].acked = (Adapter # "ib"), ![b].reported = @ + reported]
      /\ Send(b, ReportedStatus(full), reported)
      /\ UNCHANGED <<liveVars, doing, snapshot, losses, missed, fresh>>

Close(b) ==
  /\ broker[b].working
  /\ broker' = [broker EXCEPT ![b].working = FALSE]
  /\ \E status \in CloseStatuses \cup (IF broker[b].asked THEN {"cancelled"} ELSE {}) :
       Send(b, status, 0)
  /\ UNCHANGED <<liveVars, doing, snapshot, losses, missed, fresh>>

\* A report that never arrives.
Lose(b, i) ==
  /\ losses < MaxLost
  /\ losses' = losses + 1
  /\ wire' = [wire EXCEPT ![b] = RemoveAt(@, i)]
  /\ missed' = [missed EXCEPT ![b] = @ + wire[b][i].lots]
  /\ UNCHANGED <<liveVars, doing, snapshot, broker, fresh>>

\* get_open_orders() of Alpaca and Binance: the quantity they report for a working
\* order is the quantity ordered.  (Interactive Brokers' adapter answers with the
\* last report of every order it ever had: not modelled.)
OpenOrders ==
  {Report(b, IF broker[b].executed = 0 THEN "new" ELSE "partiallyFilled",
          broker[b].quantity) : b \in {n \in DOMAIN broker : broker[n].working}}

BrokerStep ==
  \/ PlaceForeign
  \/ \E b \in DOMAIN broker :
       \/ Acknowledge(b) \/ Close(b)
       \/ \E i \in DOMAIN wire[b] : Lose(b, i)
       \/ \E lots \in 1..(broker[b].quantity - broker[b].executed) : Execute(b, lots)
-----------------------------------------------------------------------------
(* submit_order(): the checks and the number, the call of the broker, and, *)
(* when it returns, the entry in orders_.                                  *)

Numbered(id) == IF id = 0 THEN nextId ELSE id

\* Mutant: a number chosen by the caller does not move the counter.
CounterIgnoresCallers(id) == IF id = 0 THEN nextId + 1 ELSE nextId

Counter(id) == IF id = 0 THEN nextId + 1 ELSE Greater(nextId, id + 1)

\* An active id and, within the window, a known fingerprint are refused.
MaySubmit(id, key) ==
  /\ doing = Idle
  /\ id \in DOMAIN orders => IsTerminal(orders[id].status)
  /\ key \notin recent
  /\ Counter(id) <= MaxId + 1

SubmitAccepted(id, key) ==
  /\ MaySubmit(id, key)
  /\ Place(QuantityOf[key], {key})
  /\ nextId' = Counter(id)
  /\ doing' = Submission("submit", Numbered(id), Len(broker) + 1, key)
  /\ fresh' = fresh \cup (IF Window THEN {Len(broker) + 1} ELSE {})
  /\ UNCHANGED <<orders, recent, snapshot, losses>>

\* The call fails after the broker took the order: the answer was late, lost or not
\* understood.  submit_order() returns before the order or its fingerprint is noted.
SubmitUnanswered(id, key) ==
  /\ MaySubmit(id, key)
  /\ Place(QuantityOf[key], {key})
  /\ nextId' = Counter(id)
  /\ UNCHANGED <<orders, recent, doing, snapshot, losses, fresh>>

\* The broker refuses, or is never reached; the number is used up.
SubmitRefused(id, key) ==
  /\ MaySubmit(id, key)
  /\ nextId' = Counter(id)
  /\ UNCHANGED <<orders, recent, doing, snapshot, brokerVars, losses, missed, fresh>>

StoreSubmitted ==
  /\ doing.op = "submit"
  /\ orders' = Put(orders, doing.id, LiveOrder(doing.number, "pendingNew"))
  /\ recent' = recent \cup (IF Window THEN {doing.key} ELSE {})
  /\ doing' = Idle
  /\ missed' = IF doing.id \in DOMAIN orders
                 THEN [missed EXCEPT ![orders[doing.id].number] = @ + orders[doing.id].filled]
                 ELSE missed
  /\ UNCHANGED <<nextId, snapshot, brokerVars, losses, fresh>>

\* Mutant: pruning forgets every fingerprint, not only the old one.
ElapseForgetsAll(key) ==
  /\ Window
  /\ doing.op = "submit" => doing.key # key
  /\ recent' = {}
  /\ fresh' = {b \in fresh : broker[b].key # {key}}
  /\ UNCHANGED <<orders, nextId, doing, snapshot, brokerVars, losses, missed>>

\* The window of a fingerprint ends; prune_duplicate_keys() forgets it before
\* the next look-up.  The window is longer than a call of submit_order().
Elapse(key) ==
  /\ Window
  /\ doing.op = "submit" => doing.key # key
  /\ recent' = recent \ {key}
  /\ fresh' = {b \in fresh : broker[b].key # {key}}
  /\ UNCHANGED <<orders, nextId, doing, snapshot, brokerVars, losses, missed>>
-----------------------------------------------------------------------------
(* The other calls of the event loop.                                      *)

Ask(numbers) ==
  broker' = [b \in DOMAIN broker |->
               IF b \in numbers THEN [broker[b] EXCEPT !.asked = TRUE] ELSE broker[b]]

\* cancel_order(): whatever the status, the broker is asked first.
CancelOrder(id) ==
  /\ doing = Idle
  /\ Ask({orders[id].number})
  /\ doing' = Cancellation(id)
  /\ UNCHANGED <<liveVars, snapshot, wire, losses, missed, fresh>>

FinishCancel ==
  /\ doing.op = "cancel"
  /\ orders' = [orders EXCEPT ![doing.id].status = "pendingCancel"]
  /\ doing' = Idle
  /\ UNCHANGED <<nextId, recent, snapshot, brokerVars, losses, missed, fresh>>

\* cancel_all_orders() asks for the open orders, cancel_orders() for those of
\* a symbol, in the order of a hash map, and both stop at the first error.
CancelMany ==
  /\ doing = Idle
  /\ \E ids \in SUBSET DOMAIN orders : Ask({orders[id].number : id \in ids})
  /\ UNCHANGED <<liveVars, doing, snapshot, wire, losses, missed, fresh>>

\* modify_order() changes nothing here, quantity included.
ModifyOrder(id, quantity) ==
  LET b == orders[id].number
  IN  /\ doing = Idle
      /\ broker[b].working
      /\ quantity > broker[b].executed
      /\ broker' = [broker EXCEPT ![b].quantity = quantity]
      /\ UNCHANGED <<liveVars, doing, snapshot, wire, losses, missed, fresh>>
-----------------------------------------------------------------------------
(* Reports.                                                                *)

\* Mutant: the lots are counted before the transition is looked at.
UpdatedBeforeCheck(order, report) ==
  [order EXCEPT !.status = IF IsValidTransition(@, report.status) THEN report.status
                                                                  ELSE "error",
                !.filled = @ + IF report.status \in Fills THEN report.lots ELSE 0]

\* update_order_state()
Updated(order, report) ==
  IF ~IsValidTransition(order.status, report.status)
    THEN [order EXCEPT !.status = "error"]
    ELSE [order EXCEPT !.status = report.status,
                       !.filled = @ + IF report.status \in Fills THEN report.lots ELSE 0]

IdsOf(number) == {id \in DOMAIN orders : orders[id].number = number}

\* handle_execution_report(): a report for no known order is dropped.
Deliver(b, i) ==
  /\ wire' = [wire EXCEPT ![b] = RemoveAt(@, i)]
  /\ LET report == wire[b][i]
     IN  \/ /\ IdsOf(b) = {}
            /\ missed' = [missed EXCEPT ![b] = @ + report.lots]
            /\ UNCHANGED orders
         \/ \E id \in IdsOf(b) :
              /\ orders' = [orders EXCEPT ![id] = Updated(@, report)]
              /\ missed' = [missed EXCEPT ![b] = @ +
                   IF IsValidTransition(orders[id].status, report.status)
                     THEN 0 ELSE report.lots]
  /\ UNCHANGED <<nextId, recent, doing, snapshot, broker, losses, fresh>>

Arrive(b) == \E i \in DOMAIN wire[b] : Deliver(b, i)

\* reconcile_with_broker(): the list is fetched once and gone through, while
\* reports keep coming.
StartReconcile ==
  /\ Reconciling /\ Adapter # "ib"
  /\ doing = Idle
  /\ \A id \in DOMAIN orders : orders[id].filled < MaxFilled
  /\ snapshot' = OpenOrders
  /\ doing' = Reconcile
  /\ UNCHANGED <<liveVars, brokerVars, losses, missed, fresh>>

ReconcileKnown(report) ==
  /\ \E id \in IdsOf(report.number) :
       /\ orders' = [orders EXCEPT ![id] = Updated(@, report)]
       /\ missed' = [missed EXCEPT ![report.number] =
                      @ + orders[id].filled - orders'[id].filled]
  /\ UNCHANGED nextId

\* Mutant: every order of the list is taken for a new one.
ReconcileAsNew(report) ==
  /\ nextId <= MaxId
  /\ orders' = Put(orders, nextId, LiveOrder(report.number, report.status))
  /\ nextId' = nextId + 1
  /\ UNCHANGED missed

ReconcileUnknown(report) ==
  /\ IdsOf(report.number) = {}
  /\ nextId <= MaxId
  /\ orders' = Put(orders, nextId, LiveOrder(report.number, report.status))
  /\ nextId' = nextId + 1
  /\ UNCHANGED missed

ReconcileOne ==
  /\ doing.op = "reconcile"
  /\ \E report \in snapshot :
       /\ ReconcileKnown(report) \/ ReconcileUnknown(report)
       /\ snapshot' = snapshot \ {report}
  /\ UNCHANGED <<recent, doing, brokerVars, losses, fresh>>

EndReconcile ==
  /\ doing.op = "reconcile"
  /\ snapshot = {}
  /\ doing' = Idle
  /\ UNCHANGED <<liveVars, snapshot, brokerVars, losses, missed, fresh>>
-----------------------------------------------------------------------------
Call ==
  \/ \E id \in CallerIds, key \in Keys : 
       \/ SubmitAccepted(id, key) \/ SubmitUnanswered(id, key) \/ SubmitRefused(id, key)
  \/ \E id \in DOMAIN orders :
       \/ CancelOrder(id)
       \/ \E quantity \in NewQuantities : ModifyOrder(id, quantity)
  \/ CancelMany

Finish == StoreSubmitted \/ FinishCancel \/ ReconcileOne \/ EndReconcile

Next ==
  \/ BrokerStep
  \/ Call
  \/ StartReconcile
  \/ Finish
  \/ \E key \in Keys : Elapse(key)
  \/ \E b \in DOMAIN broker : Arrive(b)

\* A call that was begun is finished, reconciliation comes round again, and a
\* report that is not lost is handled.  The broker owes nothing.
Fairness ==
  /\ WF_vars(Finish)
  /\ SF_vars(StartReconcile)
  /\ \A b \in 1..MaxPlaced : WF_vars(b \in DOMAIN broker /\ Arrive(b))

Spec == Init /\ [][Next]_vars

FairSpec == Spec /\ Fairness
-----------------------------------------------------------------------------
(* Properties.                                                             *)

LotsOf(reports) == SumOf([i \in DOMAIN reports |-> reports[i].lots])

Lots(b) == LotsOf(wire[b])

OrderRecord == [number : Nat \ {0}, status : Statuses, filled : Nat]
ReportRecord == [number : Nat \ {0}, status : Statuses, lots : Nat]
BrokerOrder ==
  [quantity : Nat \ {0}, executed : Nat, working : BOOLEAN, asked : BOOLEAN,
   acked : BOOLEAN, reported : Nat, key : SUBSET Keys]
Doings ==
  {Idle, Reconcile} \cup [op : {"cancel"}, id : DOMAIN orders]
  \cup [op : {"submit"}, id : 1..(nextId - 1), number : DOMAIN broker, key : Keys]

\* Internal ids lie below the counter, lists and histories have one entry per
\* order of the broker, and an open call names an order that exists.
TypeOK ==
  /\ nextId \in Nat \ {0}
  /\ DOMAIN orders \subseteq 1..(nextId - 1)
  /\ orders \in [DOMAIN orders -> OrderRecord]
  /\ recent \in SUBSET Keys
  /\ doing \in Doings
  /\ snapshot \in SUBSET ReportRecord
  /\ broker \in Seq(BrokerOrder)
  /\ wire \in Seq(Seq(ReportRecord)) /\ Len(wire) = Len(broker)
  /\ losses \in 0..MaxLost
  /\ missed \in Seq(Int) /\ Len(missed) = Len(broker)
  /\ fresh \in SUBSET DOMAIN broker

\* Submission and reconciliation both enter orders of the broker under new
\* ids, while reports come in between: no order of the broker is ever known
\* under two ids, so handle_execution_report(), which stops at the first match,
\* finds the one.
OneIdPerBrokerOrder ==
  \A id1, id2 \in DOMAIN orders : orders[id1].number = orders[id2].number => id1 = id2

\* Ids lie below the counter and orders of the broker have one each.
IdsAreConsistent ==
  /\ TypeOK
  /\ OneIdPerBrokerOrder

\* What this rests on between the two halves of submit_order(): the order the
\* broker has just taken is not known yet, and its id is still to be had.
SubmissionIsNew ==
  doing.op = "submit" =>
    /\ IdsOf(doing.number) = {}
    /\ doing.id \in DOMAIN orders => IsTerminal(orders[doing.id].status)

\* Every order and every report of a list is of an order the broker has.
KnownToBroker ==
  /\ \A id \in DOMAIN orders : orders[id].number \in DOMAIN broker
  /\ \A report \in snapshot : report.number \in DOMAIN broker

\* The conjunction, which is inductive.
LiveInv ==
  /\ TypeOK
  /\ OneIdPerBrokerOrder
  /\ SubmissionIsNew
  /\ KnownToBroker

\* Two sources number orders, the callers and next_order_id_.  submit_order()
\* looks the id up before the call of the broker and stores it after: still an
\* order that is not over is never replaced under its id by another.
ActiveOrderKeepsItsId ==
  [][\A id \in DOMAIN orders :
       ~IsTerminal(orders[id].status)
         => id \in DOMAIN orders' /\ orders'[id].number = orders[id].number]_vars

\* After an order that the broker answered, no call of submit_order() sends it another
\* with the same fingerprint within the duplicate-order window, whether that call is
\* answered or not.  (One that was left unanswered has no fingerprint on record, and
\* a retry does reach the broker: docs/live/resilience.md:37 does not say so.)
NoTwinInWindow ==
  \A b1 \in fresh, b2 \in DOMAIN broker : b1 < b2 => broker[b1].key # broker[b2].key

\* Every lot that is reported is counted once, and whatever is executed is reported:
\* the lots of a report are in the order, in a report under way, or in what was lost,
\* came before the order was stored, was refused as an invalid transition or went with
\* an order replaced under its id; reconciliation alone counts lots again.  That the
\* reports of both adapters together say more than was executed is FilledIsExecuted's.
LotsAreCountedOnce ==
  /\ \A id \in DOMAIN orders :
       LET b == orders[id].number
       IN  orders[id].filled + Lots(b) + missed[b] = broker[b].reported
  /\ \A b \in DOMAIN broker : broker[b].executed <= broker[b].reported

\* If the adapter reports each fill by its own lots, as documented, what is counted once
\* is what was executed.
ExecutedLotsAreCounted ==
  Adapter = "fills" =>
    \A id \in DOMAIN orders :
      LET b == orders[id].number
      IN  orders[id].filled + Lots(b) + missed[b] = broker[b].executed

\* An order that is over stays over, whatever reports come late or twice: only
\* cancel_order() brings it back, and a new order under its id.
OnlyCancelReopens ==
  [][\A id \in DOMAIN orders :
       IsTerminal(orders[id].status) /\ ~IsTerminal(orders'[id].status)
         => orders'[id].status = "pendingCancel" \/ orders'[id].number # orders[id].number]_vars

\* docs/reference/broker-message-types.md:40 calls the quantity of a report a
\* fill quantity: no order is counted as filled beyond what was executed.
FilledIsExecuted ==
  \A id \in DOMAIN orders : orders[id].filled <= broker[orders[id].number].executed

\* docs/explanation/live-order-reconciliation.md:22 says that reconciliation
\* makes the engine converge to broker truth although reports are delayed or
\* dropped: an order that is over at the broker is eventually over here.
Converges ==
  \A b \in 1..MaxPlaced :
    (b \in DOMAIN broker /\ ~broker[b].working)
      ~> (\A id \in IdsOf(b) : IsTerminal(orders[id].status))
=============================================================================
