----------------------------- MODULE LiveEngine -----------------------------
(***************************************************************************)
(* The orders of the live engine (src/live/live_engine.cpp): from the      *)
(* strategy's order manager through the Created callback and the live      *)
(* order manager to the broker, back from the reports to the portfolio and *)
(* the strategy's order, and across restarts through the reconciliation    *)
(* journal.                                                                *)
(*                                                                         *)
(* The event loop makes one submission at a time; its steps are split at   *)
(* the points where reports, which IB delivers on a thread of its own, or  *)
(* a crash can come in between.  A report is handled in steps too.  Orders *)
(* execute whole; prices and the way limits are computed are left out.     *)
(***************************************************************************)
EXTENDS Integers, Sequences, FiniteSets, SequencesExt, Sums, LiveOrderStatus

CONSTANTS
  Quantities,   \* what the strategy orders: lots, negative ones sold
  Refusals,     \* what the callback makes of an order it does not send
  Adapters,     \* "threaded" reports come on a thread of the adapter (IB),
                \* "polled" ones are fetched by the event loop (Alpaca, Binance)
  MaxOrders,    \* bound: orders of the strategy, one less in each further life
  MaxPlaced,    \* bound: orders at the broker
  MaxUpsets     \* bound: starts of the program, and orders at the broker that
                \* nobody here submitted

ASSUME LiveEngineAssumption ==
  /\ Quantities \subseteq Int \ {0}
  /\ Refusals \subseteq {"Rejected", "Cancelled"}
  /\ Adapters \subseteq {"threaded", "polled"}
  /\ {MaxOrders, MaxPlaced, MaxUpsets} \subseteq Nat

VARIABLES
  adapter,   \* the kind of adapter configured
  built,     \* whether there is an engine object
  running,   \* running_
  trading,   \* trading_enabled_
  sorders,   \* the order table of strategy_order_manager_; an id is a place
  live,      \* orders_ of the live order manager
  nextId,    \* next_order_id_ of the live order manager
  brokerOf,  \* broker_order_ids_
  idOf,      \* broker_to_order_ids_
  position,  \* portfolio_: the position in the symbol traded
  doing,     \* where the event loop is in a submission
  handling,  \* where the delivering thread is in handle_execution_report()
  journal,   \* the journal file: the last entry of each order of the broker
  broker,    \* external: the orders of the broker
  wire,      \* external: per order of the broker, the reports under way
  life,      \* history: how often the program was started
  credited   \* history: which fills were booked on which order of the strategy

memory == <<built, running, trading, sorders, live, nextId, brokerOf, idOf, position>>
maps == <<live, nextId, brokerOf, idOf>>
outside == <<journal, broker, wire>>
vars == <<adapter, memory, doing, handling, outside, life, credited>>

Nothing == [x \in {} |-> 0]
Idle == [op |-> "idle"]
Call(op, id, number) == [op |-> op, id |-> id, number |-> number]
Handle(op, id, number, status) == [op |-> op, id |-> id, number |-> number, status |-> status]

NewOrder(quantity) == [status |-> "Created", quantity |-> quantity, filled |-> 0]
LiveOrder(number, status) == [number |-> number, status |-> status]
Entry(id, status) == [id |-> id, status |-> status]

Init ==
  /\ adapter \in Adapters
  /\ built = FALSE /\ running = FALSE /\ trading = FALSE
  /\ sorders = <<>>
  /\ live = Nothing /\ nextId = 1
  /\ brokerOf = Nothing /\ idOf = Nothing
  /\ position = 0
  /\ doing = Idle /\ handling = Idle
  /\ journal = Nothing
  /\ broker = <<>> /\ wire = <<>>
  /\ life = 0 /\ credited = {}

\* The event loop is between two calls; a polled report is a call of its own.
LoopIsFree == doing = Idle /\ (adapter = "polled" => handling = Idle)

Without(f, k) == [x \in DOMAIN f \ {k} |-> f[x]]
-----------------------------------------------------------------------------
(* The broker.  Its callbacks reach the engine while that is connected.    *)
(* Acknowledgements, which no map depends on, are left out.                *)

\* by names the order of the strategy; foreign orders have none.
Place(quantity, by) ==
  /\ Len(broker) < MaxPlaced
  /\ broker' = Append(broker, [quantity |-> quantity, by |-> by, working |-> TRUE,
                               asked |-> FALSE, executed |-> FALSE])
  /\ wire' = Append(wire, <<>>)

Send(b, status) ==
  wire' = IF running THEN [wire EXCEPT ![b] = Append(@, status)] ELSE wire

Upsets == life + Cardinality({b \in DOMAIN broker : broker[b].by = <<>>})

PlaceForeign ==
  /\ Upsets < MaxUpsets
  /\ \E quantity \in Quantities : Place(quantity, <<>>)

Execute(b) ==
  /\ broker[b].working
  /\ broker' = [broker EXCEPT ![b].working = FALSE, ![b].executed = TRUE]
  /\ Send(b, "filled")

Cancel(b) ==
  /\ broker[b].working /\ broker[b].asked
  /\ broker' = [broker EXCEPT ![b].working = FALSE]
  /\ Send(b, "cancelled")

BrokerStep ==
  /\ \/ PlaceForeign
     \/ \E b \in DOMAIN broker : Execute(b) \/ Cancel(b)
  /\ UNCHANGED <<memory, doing, handling, journal, life, credited>>

\* get_positions() of the broker
BrokerPosition ==
  SumOf([b \in DOMAIN broker |-> IF broker[b].executed THEN broker[b].quantity ELSE 0])
-----------------------------------------------------------------------------
(* Life and death of the program.                                          *)

\* Mutant: the restored ids do not move the counter.
CountersForget(ids) == {1}

\* restore_order() keeps next_order_id_ above every restored id: the one number
\* it can be after them.
Counters(ids) == {n \in {id + 1 : id \in ids \cup {0}} : \A id \in ids : id < n}

\* The constructor restores from the journal the orders whose last entry is
\* not terminal; of two under one id, the one read last stays.
Construct ==
  LET kept == {b \in DOMAIN journal : ~IsTerminal(journal[b].status)}
      ids == {journal[b].id : b \in kept}
  IN  /\ ~built
      /\ Upsets < MaxUpsets
      /\ life' = life + 1
      /\ built' = TRUE
      /\ \E last \in [ids -> kept] :
           /\ \A id \in ids : journal[last[id]].id = id
           /\ brokerOf' = last
           /\ live' = [id \in ids |-> LiveOrder(last[id], journal[last[id]].status)]
      /\ idOf' = [b \in kept |-> journal[b].id]
      /\ nextId' \in Counters(ids)
      /\ UNCHANGED <<running, trading, sorders, position, doing, handling, outside, credited>>

\* start() takes the positions of the broker and switches trading on, whatever
\* switched it off before.  Its reconciliation is the first of the loop's.
Start ==
  /\ built /\ ~running
  /\ running' = TRUE
  /\ trading' = TRUE
  /\ position' = BrokerPosition
  /\ UNCHANGED <<built, sorders, maps, doing, handling, outside, life, credited>>

\* stop() joins the event loop and disconnects; the object lives on.  What the
\* broker had under way is lost; a report being handled is handled.
Stop ==
  /\ running /\ LoopIsFree
  /\ running' = FALSE
  /\ wire' = [b \in DOMAIN wire |-> <<>>]
  /\ UNCHANGED <<built, trading, sorders, maps, position, doing, handling, journal, broker,
                 life, credited>>

Crash ==
  /\ built
  /\ built' = FALSE /\ running' = FALSE /\ trading' = FALSE
  /\ sorders' = <<>>
  /\ live' = Nothing /\ nextId' = 1
  /\ brokerOf' = Nothing /\ idOf' = Nothing
  /\ position' = 0
  /\ doing' = Idle /\ handling' = Idle
  /\ wire' = [b \in DOMAIN wire |-> <<>>]
  /\ UNCHANGED <<journal, broker, life, credited>>
-----------------------------------------------------------------------------
(* A submission: the order is created, and the Created callback of the     *)
(* engine runs; then submit_order() of the strategy's order manager ends.  *)

\* What the order callback of the live order manager does to the two maps.
CallBack(id, number, status) ==
  /\ brokerOf' = Put(brokerOf, id, number)
  /\ idOf' = IF IsTerminal(status) THEN Without(idOf, number) ELSE Put(idOf, number, id)

SubmitOrder(quantity) ==
  /\ running /\ LoopIsFree
  /\ Len(sorders) + life =< MaxOrders
  /\ sorders' = Append(sorders, NewOrder(quantity))
  /\ doing' = Call("created", Len(sorders) + 1, 0)
  /\ UNCHANGED <<built, running, maps, position, handling, journal, wire, life, credited>>

\* The strategy, in a callback for market data.
StrategySubmits ==
  /\ \E quantity \in Quantities : SubmitOrder(quantity)
  /\ UNCHANGED <<trading, broker>>

\* cancel_order() of the strategy's context: of its callbacks the engine's
\* looks only at Created orders.
StrategyCancels(id) ==
  /\ running /\ LoopIsFree
  /\ sorders[id].status \in {"Created", "Pending", "PartiallyFilled"}
  /\ sorders' = [sorders EXCEPT ![id].status = "Cancelled"]
  /\ UNCHANGED <<built, running, trading, maps, position, doing, handling, outside, life,
                 credited>>

CheckTrading ==
  /\ doing.op = "created"
  /\ doing' = [doing EXCEPT !.op = IF trading THEN "checked" ELSE "submitted"]
  /\ UNCHANGED <<memory, handling, outside, life, credited>>

\* Rate limits, order value, risk, dry run, and errors of the live order
\* manager or the broker.
Refuse ==
  /\ doing.op = "checked"
  /\ \E status \in Refusals : sorders' = [sorders EXCEPT ![doing.id].status = status]
  /\ doing' = [doing EXCEPT !.op = "submitted"]
  /\ UNCHANGED <<built, running, trading, maps, position, handling, outside, life, credited>>

\* Mutant: only the live order manager looks whether the id is taken.
IsTakenHereOnly(id) == FALSE

\* An order of this id is, or was, at the broker.
IsTaken(id) == id \in DOMAIN brokerOf

SkipTaken ==
  /\ doing.op = "checked"
  /\ IsTaken(doing.id)
  /\ doing' = [doing EXCEPT !.op = "submitted"]
  /\ UNCHANGED <<memory, handling, outside, life, credited>>

\* submit_order() of the live order manager, up to the answer of the broker.
Accept ==
  /\ doing.op = "checked"
  /\ ~IsTaken(doing.id)
  /\ doing.id \in DOMAIN live => IsTerminal(live[doing.id].status)
  /\ Place(sorders[doing.id].quantity, <<life, doing.id>>)
  /\ nextId' = Greater(nextId, doing.id + 1)
  /\ doing' = [doing EXCEPT !.op = "accepted", !.number = Len(broker) + 1]
  /\ UNCHANGED <<built, running, trading, sorders, live, brokerOf, idOf, position, handling,
                 journal, life, credited>>

\* The order is stored and the callback enters it in the maps ...
Store ==
  /\ doing.op = "accepted"
  /\ live' = Put(live, doing.id, LiveOrder(doing.number, "pendingNew"))
  /\ CallBack(doing.id, doing.number, "pendingNew")
  /\ doing' = [doing EXCEPT !.op = "stored"]
  /\ UNCHANGED <<built, running, trading, sorders, nextId, position, handling, outside, life,
                 credited>>

\* Mutant: the entry names the number the live order manager would give.
WrittenUnderNext(call) == Entry(nextId, "pendingNew")

Written(call) == Entry(call.id, "pendingNew")

\* ... and in the journal, as it was when it was stored.
Write ==
  /\ doing.op = "stored"
  /\ journal' = Put(journal, doing.number, Written(doing))
  /\ doing' = [doing EXCEPT !.op = "written"]
  /\ UNCHANGED <<memory, handling, broker, wire, life, credited>>

\* The engine enters it in the maps once more,
Enter ==
  /\ doing.op = "written"
  /\ brokerOf' = Put(brokerOf, doing.id, doing.number)
  /\ idOf' = Put(idOf, doing.number, doing.id)
  /\ doing' = [doing EXCEPT !.op = "submitted"]
  /\ UNCHANGED <<built, running, trading, sorders, live, nextId, position, handling, outside,
                 life, credited>>

\* and the trailing change to Pending overwrites what became of it meanwhile.
MakePending ==
  /\ doing.op = "submitted"
  /\ sorders' = [sorders EXCEPT ![doing.id].status = "Pending"]
  /\ doing' = Idle
  /\ UNCHANGED <<built, running, trading, maps, position, handling, outside, life, credited>>

Submission ==
  CheckTrading \/ Refuse \/ SkipTaken \/ Accept \/ Store \/ Write \/ Enter \/ MakePending
-----------------------------------------------------------------------------
(* The trading switch.                                                     *)

\* cancel_all_orders() stops at the first error of the broker.
CancelAllOrders ==
  \E ids \in SUBSET {id \in DOMAIN live : IsOpen(live[id].status)} :
    broker' = [b \in DOMAIN broker |->
                 IF \E id \in ids : live[id].number = b
                   THEN [broker[b] EXCEPT !.asked = TRUE] ELSE broker[b]]

\* A failed reconciliation, or market data that is overdue.
FailClosed ==
  /\ running /\ LoopIsFree
  /\ trading' = FALSE
  /\ CancelAllOrders
  /\ UNCHANGED <<built, running, sorders, maps, position, doing, handling, journal, wire, life,
                 credited>>

\* The loss limit or a limit of the portfolio: close_all_positions() comes
\* after the switch.
BreachLimit ==
  /\ trading' = FALSE
  /\ CancelAllOrders
  /\ position # 0
  /\ SubmitOrder(-position)

\* close_all_positions() called by the owner of the engine.
CloseAllPositions ==
  /\ position # 0
  /\ SubmitOrder(-position)
  /\ UNCHANGED <<trading, broker>>

\* enable_trading() and disable_trading()
SwitchTrading ==
  /\ running
  /\ trading' = ~trading
  /\ UNCHANGED <<built, running, sorders, maps, position, doing, handling, outside, life,
                 credited>>
-----------------------------------------------------------------------------
(* Reports and reconciliation.                                             *)

IdsOf(number) == {id \in DOMAIN live : live[id].number = number}

Updated(order, status) ==
  [order EXCEPT !.status = IF IsValidTransition(order.status, status) THEN status ELSE "error"]

\* The live order manager takes the report and its callback changes the maps;
\* a fill of an order it does not know is booked on no order.
Deliver(b, i) ==
  LET status == wire[b][i]
  IN  /\ running /\ handling = Idle
      /\ adapter = "polled" => doing = Idle
      /\ wire' = [wire EXCEPT ![b] = RemoveAt(@, i)]
      /\ \/ /\ IdsOf(b) = {}
            /\ handling' = IF status = "filled" THEN Handle("fill", 0, b, status) ELSE Idle
            /\ UNCHANGED <<live, brokerOf, idOf>>
         \/ \E id \in IdsOf(b) :
              /\ live' = [live EXCEPT ![id] = Updated(@, status)]
              /\ CallBack(id, b, live'[id].status)
              /\ handling' = Handle(IF status = "filled" THEN "write and fill" ELSE "write",
                                    id, b, live'[id].status)
      /\ UNCHANGED <<built, running, trading, sorders, nextId, position, doing, journal, broker,
                     life, credited>>

\* The callback appends to the journal.
WriteUpdate ==
  /\ handling.op \in {"write", "write and fill"}
  /\ journal' = Put(journal, handling.number, Entry(handling.id, handling.status))
  /\ handling' = IF handling.op = "write" THEN Idle ELSE [handling EXCEPT !.op = "fill"]
  /\ UNCHANGED <<memory, doing, broker, wire, life, credited>>

\* process_fill() of the strategy's order manager
Filled(order, lots) ==
  LET Abs(n) == IF n < 0 THEN -n ELSE n
      filled == order.filled + Abs(lots)
  IN  [order EXCEPT !.filled = filled,
                    !.status = IF filled >= Abs(order.quantity) THEN "Filled" ELSE "PartiallyFilled"]

\* Mutant: fills of orders that left the map are booked under the broker's number.
OrderOfFillGuesses(b) == IF b \in DOMAIN idOf THEN idOf[b] ELSE b

\* The order of a fill: by the map, else by the live order manager; 0 if neither
\* knows.
OrderOfFill(b) ==
  IF b \in DOMAIN idOf THEN idOf[b]
  ELSE IF IdsOf(b) = {} THEN 0 ELSE CHOOSE id \in IdsOf(b) : TRUE

\* The fill: a found order is entered in the map again, the portfolio takes the
\* lots, and so does the strategy's order of that id.
BookFill ==
  LET b == handling.number
      id == OrderOfFill(b)
  IN  /\ handling.op = "fill"
      /\ idOf' = IF id # 0 THEN Put(idOf, b, id) ELSE idOf
      /\ position' = position + broker[b].quantity
      /\ sorders' = IF id \in DOMAIN sorders
                      THEN [sorders EXCEPT ![id] = Filled(@, broker[b].quantity)] ELSE sorders
      /\ credited' = IF id \in DOMAIN sorders
                       THEN credited \cup {[number |-> b, life |-> life, id |-> id]}
                       ELSE credited
      /\ handling' = Idle
      /\ UNCHANGED <<built, running, trading, live, nextId, brokerOf, doing, outside, life>>

\* Mutant: orders of the broker that are not in the table are passed over.
ReconciledIdsKnown(b) == IdsOf(b)

\* An order that works at the broker and is not in the table gets an id here.
ReconciledIds(b) == IF IdsOf(b) = {} THEN {nextId} ELSE IdsOf(b)

\* reconcile_with_broker(), one order that works at the broker at a time.
ReconcileOrder(b) ==
  /\ running /\ LoopIsFree
  /\ broker[b].working
  /\ \E id \in ReconciledIds(b) :
       /\ live' = Put(live, id, IF IdsOf(b) = {} THEN LiveOrder(b, "new")
                                ELSE Updated(live[id], "new"))
       /\ nextId' = Greater(nextId, id + 1)
       /\ CallBack(id, b, live'[id].status)
       /\ journal' = Put(journal, b, Entry(id, live'[id].status))
  /\ UNCHANGED <<built, running, trading, sorders, position, doing, handling, broker, wire, life,
                 credited>>

\* refresh_positions(), and the position updates of the broker.
RefreshPositions ==
  /\ running /\ LoopIsFree
  /\ position # BrokerPosition
  /\ position' = BrokerPosition
  /\ UNCHANGED <<built, running, trading, sorders, maps, doing, handling, outside, life,
                 credited>>

Arrive == \E b \in DOMAIN broker : \E i \in DOMAIN wire[b] : Deliver(b, i)

Handling == WriteUpdate \/ BookFill

Refreshing == RefreshPositions \/ \E b \in DOMAIN broker : ReconcileOrder(b)
-----------------------------------------------------------------------------
Step ==
  \/ BrokerStep
  \/ Construct \/ Start \/ Stop \/ Crash
  \/ StrategySubmits \/ CloseAllPositions \/ BreachLimit
  \/ \E id \in DOMAIN sorders : StrategyCancels(id)
  \/ Submission
  \/ FailClosed \/ SwitchTrading
  \/ Arrive \/ Handling
  \/ Refreshing

Configured == UNCHANGED adapter

Next == Step /\ Configured

\* What was begun is finished and what arrives is handled; the event loop comes
\* round to the orders and the positions again and again, as long as it runs.
\* Nobody is obliged to start, stop or trade, and the broker owes nothing.
Fairness ==
  /\ WF_vars(Submission /\ Configured)
  /\ SF_vars((Arrive \/ Handling) /\ Configured)
  /\ SF_vars(Refreshing /\ Configured)

Spec == Init /\ [][Next]_vars

FairSpec == Spec /\ Fairness
-----------------------------------------------------------------------------
(* Properties.                                                             *)

StrategyOrder ==
  [status : {"Created", "Pending", "PartiallyFilled", "Filled", "Cancelled", "Rejected"},
   quantity : Int \ {0}, filled : Nat]
Submissions ==
  {Idle} \cup [op : {"created", "checked"}, id : DOMAIN sorders, number : {0}]
  \cup [op : {"accepted", "stored", "written"}, id : DOMAIN sorders, number : DOMAIN broker]
  \cup [op : {"submitted"}, id : DOMAIN sorders, number : {0} \cup DOMAIN broker]
Handlings ==
  {Idle} \cup [op : {"write", "write and fill", "fill"}, id : Nat, number : DOMAIN broker,
               status : Statuses]

\* Numbers name orders of the broker and ids lie below the counter; a call under
\* way names an order of the strategy.
TypeOK ==
  /\ adapter \in Adapters
  /\ {built, running, trading} \subseteq BOOLEAN /\ (running => built)
  /\ sorders \in Seq(StrategyOrder)
  /\ nextId \in Nat \ {0}
  /\ DOMAIN live \subseteq 1..(nextId - 1)
  /\ live \in [DOMAIN live -> [number : DOMAIN broker, status : Statuses]]
  /\ brokerOf \in [DOMAIN brokerOf -> DOMAIN broker]
  /\ DOMAIN brokerOf \subseteq 1..(nextId - 1)
  /\ idOf \in [DOMAIN idOf -> 1..(nextId - 1)] /\ DOMAIN idOf \subseteq DOMAIN broker
  /\ position \in Int
  /\ doing \in Submissions
  /\ handling \in Handlings
  /\ DOMAIN journal \subseteq DOMAIN broker
  /\ journal \in [DOMAIN journal -> [id : Nat \ {0}, status : Statuses]]
  /\ Len(wire) = Len(broker)
  /\ wire \in Seq(Seq({"filled", "cancelled"}))
  /\ life \in 0..MaxUpsets

\* The two maps of the engine and the table of the live order manager change at
\* different moments, on two threads, and are restored from a file: they name
\* each other's orders all the same, so a report finds the order it is about.
MapsFollowTheTable ==
  /\ DOMAIN brokerOf = DOMAIN live
  /\ \A id \in DOMAIN live : brokerOf[id] = live[id].number
  /\ \A b \in DOMAIN idOf : idOf[b] \in DOMAIN live /\ live[idOf[b]].number = b

\* The strategy numbers its orders from 1 in every life, and reconciliation
\* numbers orders too; but two orders that a restart would restore never have
\* the same id in the journal, so none is lost when they are restored.
RestorableIdsAreUnique ==
  \A b1, b2 \in DOMAIN journal :
    /\ ~IsTerminal(journal[b1].status) /\ ~IsTerminal(journal[b2].status)
    /\ journal[b1].id = journal[b2].id
    => b1 = b2

\* A crash at any moment loses at most the step under way: what the journal has
\* of an order is what the table had, unless that order was just being stored or
\* its report handled.  (With a threaded adapter the entry of the submission can
\* come after that of the report, and the journal then says less.)
JournalMatchesTable ==
  adapter = "polled" =>
    \A id \in DOMAIN live :
      \/ doing.op = "stored" /\ doing.id = id
      \/ handling.op \in {"write", "write and fill"} /\ handling.id = id
      \/ /\ live[id].number \in DOMAIN journal
         /\ journal[live[id].number] = Entry(id, live[id].status)

\* A fill is booked on the order of the strategy that was sent as that order of
\* the broker and on no other, however report, submission and maps interleave.
\* (Orders of an earlier life and foreign ones may be booked on an order that
\* happens to have their id.)
FillsFindTheirOrder ==
  \A c \in credited :
    LET by == broker[c.number].by
    IN  by # <<>> /\ by[1] = c.life => by[2] = c.id

\* Ids mean one order each: in the maps, in the journal and in the books.
IdsAreConsistent ==
  /\ MapsFollowTheTable
  /\ RestorableIdsAreUnique
  /\ FillsFindTheirOrder

\* Every table has its types, and the journal says what the table says.
TablesAreConsistent ==
  /\ TypeOK
  /\ JournalMatchesTable

\* A fill is counted twice when the positions are refreshed between its
\* execution and its report, and not at all when its report is lost; an order is
\* unknown when a crash came between its acceptance and its entry in the journal.
\* In the end an engine that runs has the position of the broker and knows every
\* order that works there.
SettlesWithBroker ==
  <>[](running =>
         /\ position = BrokerPosition
         /\ \A b \in DOMAIN broker : broker[b].working => IdsOf(b) # {})

\* docs/api/strategy.md:81 calls cancel_order() "Cancel an order by ID": once
\* the call is over, an order of the strategy that is Cancelled no longer works
\* at the broker, or the broker was asked to cancel it.
CancelsReachTheBroker ==
  doing = Idle =>
    \A b \in DOMAIN broker :
      LET by == broker[b].by
      IN  /\ by # <<>> /\ by[1] = life /\ by[2] \in DOMAIN sorders
          /\ sorders[by[2]].status = "Cancelled"
          => broker[b].asked \/ ~broker[b].working
=============================================================================
