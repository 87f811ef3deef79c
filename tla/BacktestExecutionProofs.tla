----------------------- MODULE BacktestExecutionProofs -----------------------
(***************************************************************************)
(* Proofs about BacktestExecution, for any orders, plans, market data,     *)
(* latency and liquidity: its types, that the pipeline keeps open orders   *)
(* only, that it never drops one without an answer, and that it never      *)
(* fills more than it was handed.                                          *)
(***************************************************************************)
EXTENDS BacktestExecution, SumProofs, SequenceTheorems, FiniteSetTheorems, TLAPS

(***************************************************************************)
(* The inductive invariant of the types: whatever an event, a frame or the *)
(* pipeline names is in the order table.                                   *)
(***************************************************************************)
Placed == {id \in OrderIds : orders[id].status # "None"}

EventsAbout(ids) ==
    [time : Nat, priority : {kMarketPriority}, kind : {"Market"}, id : {0}, lots : Nat \ {0}]
    \cup [time : Nat, priority : {kOrderPriority}, kind : OrderEventKinds, id : ids, lots : Nat]

SnapshotsOf(ids) == {order \in Snapshot : order.id \in ids}

FramesAbout(ids) ==
    [op : {"callbacks", "accept"}, order : SnapshotsOf(ids)]
    \cup [op : {"pending"}, id : ids]
    \cup [op : {"match"}, ids : SUBSET ids, at : Nat, left : Nat]
    \cup [op : {"strategy"}, may : SUBSET StrategyOps]

OrdersInv ==
    /\ orders \in [OrderIds -> Snapshot \cup {NoOrder}]
    /\ \A id \in Placed : orders[id].id = id
    /\ Placed = 1 .. Cardinality(Placed)

PipelineInv ==
    /\ resting_orders \in [OrderIds -> RestingState]
    /\ event_queue \in Seq(EventsAbout(Placed))
    /\ Resting \subseteq Placed

CallsInv == calls \in Seq(FramesAbout(Placed))

\* What is counted of an order that is handed to the pipeline.
Counted == [times : 0 .. 2, lots : Nat, postponed : BOOLEAN]

ClockInv ==
    /\ priced \in BOOLEAN
    /\ current_time \in Nat /\ current_day \in Nat /\ ops \in 0 .. MaxCalls
    /\ accepted \in [OrderIds -> Counted]

TypeInv == OrdersInv /\ PipelineInv /\ CallsInv /\ ClockInv

(***************************************************************************)
(* Why what rests is open, if a strategy does no more than submit orders   *)
(* when it is told of an order update.  A frame of the stack may hand an   *)
(* order to the pipeline: every such order is open, no two frames do so    *)
(* for one order, and none waits below a call of the strategy that can     *)
(* cancel or modify.  So what ends an order finds no such frame of it, and *)
(* the callbacks it pushes take the order out of the pipeline.             *)
(***************************************************************************)
HandsOver(frame) ==
    \/ frame.op \in {"accept", "pending"}
    \/ frame.op = "callbacks" /\ frame.order.status = "Pending"
FrameId(frame) == IF frame.op = "pending" THEN frame.id ELSE frame.order.id
MayEnd(frame) == frame.op = "strategy" /\ ~(frame.may \subseteq {"submit"})

Consistent(stack, open) ==
    /\ \A i \in 1 .. Len(stack) : HandsOver(stack[i]) => FrameId(stack[i]) \in open
    /\ \A i \in 1 .. Len(stack) : \A j \in (i + 1) .. Len(stack) :
          HandsOver(stack[j]) =>
             /\ HandsOver(stack[i]) => FrameId(stack[i]) # FrameId(stack[j])
             /\ ~MayEnd(stack[i])

\* A frame that will take the order out of the pipeline.
Ends(frame, id) ==
    /\ frame.op = "callbacks" /\ frame.order.id = id
    /\ frame.order.status \in OverStatuses
Ended(stack, id) == \E i \in 1 .. Len(stack) : Ends(stack[i], id)

RestedInv == \A id \in Resting : id \in Open \/ Ended(calls, id)

StackInv == TypeInv /\ Consistent(calls, Open) /\ RestedInv

-----------------------------------------------------------------------------
(* Sequences.                                                              *)

\* Push keeps what the events are.
LEMMA PushKeepsType ==
  ASSUME NEW S, NEW queue \in Seq(S), NEW batch \in Seq(S)
  PROVE  Push(queue, batch) \in Seq(S)
<1>. DEFINE earlier == {i \in 1 .. Len(queue) : Before(queue[i], batch[1])}
            first == Cardinality(earlier)
<1>1. Len(queue) \in Nat
  BY LenProperties
<1>2. first \in 0 .. Len(queue)
  <2>. DEFINE n == Len(queue)
  <2>. HIDE DEF n
  <2>1. IsFiniteSet(1 .. n) /\ Cardinality(1 .. n) = IF 1 > n THEN 0 ELSE n - 1 + 1
    <3>1. 1 \in Int /\ n \in Int
      BY <1>1 DEF n
    <3>. QED BY <3>1, FS_Interval
  <2>3. IsFiniteSet(1 .. n) /\ Cardinality(1 .. n) = n
    BY <1>1, <2>1 DEF n
  <2>2. IsFiniteSet(earlier) /\ first <= Len(queue)
    BY <2>3, FS_Subset DEF n
  <2>. QED BY <1>1, <2>2, FS_CardinalityType
<1>. HIDE DEF first
<1>3. \A i \in 1 .. Len(queue) : queue[i] \in S
  BY ElementOfSeq
<1>4. SubSeq(queue, 1, first) \in Seq(S)
  BY <1>1, <1>2, <1>3, SubSeqProperties
<1>5. SubSeq(queue, first + 1, Len(queue)) \in Seq(S)
  BY <1>1, <1>2, <1>3, SubSeqProperties
<1>6. SubSeq(queue, 1, first) \o batch \o SubSeq(queue, first + 1, Len(queue)) \in Seq(S)
  BY <1>4, <1>5, ConcatProperties
<1>. QED BY <1>6 DEF Push, first, earlier

-----------------------------------------------------------------------------
(* The pipeline.                                                           *)

\* What every answer of the pipeline about an order keeps: types, and what
\* rests of other orders.
Answers(id, ids) ==
    /\ resting_orders' \in [OrderIds -> RestingState]
    /\ event_queue' \in Seq(EventsAbout(ids))
    /\ \A i \in OrderIds \ {id} : resting_orders'[i] = resting_orders[i]

LEMMA NotRestingType == NotResting \in RestingState
BY DEF NotResting, RestingState, OrderTypes, TimesInForce

LEMMA TriggeredType ==
  ASSUME NEW state \in RestingState
  PROVE  Triggered(state) \in RestingState
<1>1. (state.type \in StopTypes) \in BOOLEAN
  BY DEF StopTypes
<1>. DEFINE b == state.type \in StopTypes
<1>. HIDE DEF b
<1>2. [state EXCEPT !.stop_triggered = b] \in RestingState
  BY <1>1 DEF RestingState, b
<1>. QED BY <1>2 DEF Triggered, b

LEMMA OrderEventType ==
  ASSUME NEW ids, NEW id \in ids, NEW kind \in OrderEventKinds, NEW lots \in Nat, NEW at \in Nat
  PROVE  /\ OrderEvent(kind, id, lots, at) \in EventsAbout(ids)
         /\ <<OrderEvent(kind, id, lots, at)>> \in Seq(EventsAbout(ids))
<1>1. OrderEvent(kind, id, lots, at) \in EventsAbout(ids)
  BY DEF OrderEvent, EventsAbout
<1>. QED BY <1>1

\* Resting an order, or forgetting it, with some events.
LEMMA RestAnswers ==
  ASSUME NEW ids, NEW id \in OrderIds, NEW state \in RestingState,
         NEW events \in Seq(EventsAbout(ids)),
         resting_orders \in [OrderIds -> RestingState],
         event_queue \in Seq(EventsAbout(ids)),
         Rest(id, state), Emit(events)
  PROVE  Answers(id, ids)
<1>1. resting_orders' = [resting_orders EXCEPT ![id] = state]
  BY DEF Rest
<1>2. event_queue' = Push(event_queue, events)
  BY DEF Emit
<1>3. event_queue' \in Seq(EventsAbout(ids))
  BY <1>2, PushKeepsType
<1>. QED BY <1>1, <1>3 DEF Answers

\* The same without an event, and an event without a change.
LEMMA RestSilently ==
  ASSUME NEW ids, NEW id \in OrderIds, NEW state \in RestingState,
         resting_orders \in [OrderIds -> RestingState],
         event_queue \in Seq(EventsAbout(ids)),
         Rest(id, state), UNCHANGED event_queue
  PROVE  Answers(id, ids)
BY DEF Rest, Answers

LEMMA EmitOnly ==
  ASSUME NEW ids, NEW id \in OrderIds, NEW events \in Seq(EventsAbout(ids)),
         resting_orders \in [OrderIds -> RestingState],
         event_queue \in Seq(EventsAbout(ids)),
         Emit(events), UNCHANGED resting_orders
  PROVE  Answers(id, ids)
<1>1. event_queue' \in Seq(EventsAbout(ids))
  BY PushKeepsType DEF Emit
<1>. QED BY <1>1 DEF Answers

LEMMA FillEventsType ==
  ASSUME NEW ids, NEW id \in ids, NEW lots \in Nat, NEW at \in Nat,
         NEW fills \in FillEvents(id, lots, at)
  PROVE  fills \in Seq(EventsAbout(ids))
<1>1. OrderEvent("Fill", id, lots, at) \in EventsAbout(ids)
      /\ OrderEvent("Fill", id, 1, at) \in EventsAbout(ids)
  BY OrderEventType DEF OrderEventKinds
<1>2. <<>> \in Seq(EventsAbout(ids)) /\ <<OrderEvent("Fill", id, lots, at)>> \in Seq(EventsAbout(ids))
  BY <1>1
<1>3. [i \in 1 .. lots |-> OrderEvent("Fill", id, 1, at)] \in Seq(EventsAbout(ids))
  <2>. DEFINE e == OrderEvent("Fill", id, 1, at)
  <2>. HIDE DEF e
  <2>1. [i \in 1 .. lots |-> e] \in [1 .. lots -> EventsAbout(ids)]
    BY <1>1 DEF e
  <2>2. [i \in 1 .. lots |-> e] \in Seq(EventsAbout(ids))
    BY <2>1, SeqDef
  <2>. QED BY <2>2 DEF e
<1>4. \/ fills = <<>> \/ fills = <<OrderEvent("Fill", id, lots, at)>>
      \/ fills = [i \in 1 .. lots |-> OrderEvent("Fill", id, 1, at)]
  BY DEF FillEvents
<1>. QED BY <1>2, <1>3, <1>4

\* However an execution ends.
LEMMA ExecuteAnswers ==
  ASSUME NEW ids \in SUBSET OrderIds, NEW id \in ids, NEW state \in RestingState, NEW at \in Nat,
         resting_orders \in [OrderIds -> RestingState],
         event_queue \in Seq(EventsAbout(ids)),
         Execute(id, state, at)
  PROVE  Answers(id, ids)
<1>1. PICK found \in Liquidity :
         LET lots == IF found < state.quantity THEN found ELSE state.quantity
         IN  \E fills \in FillEvents(id, lots, at) : ExecuteLots(id, state, at, lots, fills)
  BY DEF Execute
<1>. DEFINE lots == IF found < state.quantity THEN found ELSE state.quantity
<1>2. PICK fills \in FillEvents(id, lots, at) : ExecuteLots(id, state, at, lots, fills)
  BY <1>1
<1>3. state.quantity \in Nat /\ found \in Nat
  BY PipelineAssumption DEF RestingState
<1>4. lots \in Nat /\ lots <= state.quantity
  BY <1>3
<1>. HIDE DEF lots
<1>5. fills \in Seq(EventsAbout(ids))
  BY <1>2, <1>4, FillEventsType
<1>6. /\ <<OrderEvent("Reject", id, 0, at)>> \in Seq(EventsAbout(ids))
      /\ <<OrderEvent("Cancel", id, 0, at)>> \in Seq(EventsAbout(ids))
      /\ <<OrderEvent("Update", id, lots, at)>> \in Seq(EventsAbout(ids))
  BY <1>4, OrderEventType DEF OrderEventKinds
<1>7. /\ fills \o <<OrderEvent("Cancel", id, 0, at)>> \in Seq(EventsAbout(ids))
      /\ fills \o <<OrderEvent("Update", id, lots, at)>> \in Seq(EventsAbout(ids))
  BY <1>5, <1>6, ConcatProperties
<1>8. id \in OrderIds
  OBVIOUS
<1>9. CASE RejectOrder(id, at)
  BY <1>6, <1>8, <1>9, RestAnswers, NotRestingType DEF RejectOrder, Erase
<1>10. CASE FillAndCancel(id, at, fills)
  BY <1>7, <1>8, <1>10, RestAnswers, NotRestingType DEF FillAndCancel, Erase
<1>11. CASE Erase(id) /\ Emit(fills)
  BY <1>5, <1>8, <1>11, RestAnswers, NotRestingType DEF Erase
<1>12. CASE FillAndRest(id, state, at, lots, fills)
  <2>. DEFINE rest == [state EXCEPT !.quantity = @ - lots, !.requested = TRUE]
  <2>1. rest \in RestingState
    <3>1. state.quantity - lots \in Nat
      BY <1>3, <1>4
    <3>2. rest = [[state EXCEPT !.quantity = state.quantity - lots] EXCEPT !.requested = TRUE]
      BY DEF RestingState
    <3>. QED BY <3>1, <3>2 DEF RestingState
  <2>2. Rest(id, rest) /\ Emit(fills \o <<OrderEvent("Update", id, lots, at)>>)
    BY <1>12 DEF FillAndRest
  <2>. HIDE DEF rest
  <2>. QED BY <1>7, <1>8, <2>1, <2>2, RestAnswers
<1>. QED BY <1>2, <1>9, <1>10, <1>11, <1>12 DEF ExecuteLots

\* on_order_submitted(), whether it postpones the order or answers it.
OnOrderSubmitted(order) == Postpone(order) \/ Answer(order)

\* on_order_submitted() changes nothing about other orders.
LEMMA SubmissionAnswers ==
  ASSUME NEW ids \in SUBSET OrderIds, NEW order \in SnapshotsOf(ids),
         resting_orders \in [OrderIds -> RestingState],
         event_queue \in Seq(EventsAbout(ids)), priced \in BOOLEAN,
         OnOrderSubmitted(order)
  PROVE  Answers(order.id, ids)
<1>. DEFINE state == Submitted(order)
            ready == Triggered(state)
            at == state.activation
<1>1. /\ order.id \in ids /\ order.id \in OrderIds
      /\ order.type \in OrderTypes /\ order.tif \in TimesInForce
      /\ order.quantity \in Nat /\ order.created_at \in Nat
  BY DEF SnapshotsOf, Snapshot
<1>2. EffectiveTif(order) \in TimesInForce
  BY <1>1, PipelineAssumption DEF EffectiveTif, TimesInForce
<1>3. order.created_at + Latency \in Nat
  BY <1>1, PipelineAssumption
<1>4. state \in RestingState
  BY <1>1, <1>2, <1>3 DEF Submitted, RestingState
<1>5. at \in Nat
  BY <1>4 DEF RestingState
<1>. HIDE DEF state, at
<1>6. ready \in RestingState
  BY <1>4, TriggeredType
<1>. HIDE DEF ready
<1>7. ASSUME NEW s \in RestingState, Unfillable(order.id, s, at)
      PROVE  Answers(order.id, ids)
  <2>1. /\ <<OrderEvent("Cancel", order.id, 0, at)>> \in Seq(EventsAbout(ids))
        /\ <<OrderEvent("Reject", order.id, 0, at)>> \in Seq(EventsAbout(ids))
    BY <1>1, <1>5, OrderEventType DEF OrderEventKinds
  <2>2. <<OrderEvent(IF s.tif = "IOC" THEN "Cancel" ELSE "Reject", order.id, 0, at)>>
           \in Seq(EventsAbout(ids))
    BY <2>1
  <2>. QED BY <1>1, <1>7, <2>2, EmitOnly, RestSilently DEF Unfillable
<1>8. CASE Rest(order.id, state) /\ UNCHANGED event_queue
  BY <1>1, <1>4, <1>8, RestSilently
<1>9. CASE Rest(order.id, ready) /\ UNCHANGED event_queue
  BY <1>1, <1>6, <1>9, RestSilently
<1>10. CASE Execute(order.id, ready, at)
  BY <1>1, <1>5, <1>6, <1>10, ExecuteAnswers
<1>. QED BY <1>4, <1>6, <1>7, <1>8, <1>9, <1>10 DEF OnOrderSubmitted, Postpone, Answer, state, ready, at

\* Neither does process_resting_order(), which puts nothing new to rest.
LEMMA MatchingAnswers ==
  ASSUME NEW ids \in SUBSET OrderIds, NEW id \in ids, NEW at \in Nat,
         resting_orders \in [OrderIds -> RestingState],
         event_queue \in Seq(EventsAbout(ids)),
         ProcessRestingOrder(id, at)
  PROVE  Answers(id, ids) /\ (id \notin Resting => UNCHANGED resting_orders)
<1>. DEFINE state == resting_orders[id]
            ready == Triggered(state)
<1>1. state \in RestingState
  OBVIOUS
<1>. HIDE DEF state
<1>2. ready \in RestingState
  BY <1>1, TriggeredType
<1>. HIDE DEF ready
<1>3. id \in OrderIds
  OBVIOUS
<1>4. CASE UNCHANGED <<resting_orders, event_queue>>
  BY <1>4 DEF Answers
<1>5. CASE id \in Resting /\ Rest(id, ready) /\ UNCHANGED event_queue
  BY <1>2, <1>3, <1>5, RestSilently
<1>6. CASE id \in Resting /\ Drifts(id, ready, at)
  <2>1. /\ <<OrderEvent("Reject", id, 0, at)>> \in Seq(EventsAbout(ids))
        /\ <<OrderEvent("Update", id, 0, at)>> \in Seq(EventsAbout(ids))
    BY OrderEventType DEF OrderEventKinds
  <2>. QED BY <1>2, <1>3, <1>6, <2>1, RestAnswers, NotRestingType DEF Drifts, RejectOrder, Erase
<1>7. CASE id \in Resting /\ Execute(id, ready, at)
  BY <1>2, <1>7, ExecuteAnswers
<1>. QED BY <1>4, <1>5, <1>6, <1>7 DEF ProcessRestingOrder, state, ready

-----------------------------------------------------------------------------
(* Types.                                                                  *)

LEMMA PlacedSnapshots ==
  ASSUME OrdersInv
  PROVE  /\ \A id \in Placed : orders[id] \in SnapshotsOf(Placed) /\ orders[id].id = id
         /\ Placed \subseteq OrderIds
BY DEF OrdersInv, Placed, SnapshotsOf, NoOrder

\* A new version of an order that is in the table.
LEMMA OrderChanges ==
  ASSUME OrdersInv, NEW id \in Placed, NEW updated \in Snapshot, updated.id = id,
         orders' = [orders EXCEPT ![id] = updated]
  PROVE  OrdersInv' /\ Placed' = Placed
<1>1. updated.status # "None" /\ id \in OrderIds
  BY DEF Snapshot, Placed
<1>2. orders' \in [OrderIds -> Snapshot \cup {NoOrder}]
  BY <1>1 DEF OrdersInv
<1>3. Placed' = Placed
  BY <1>1 DEF OrdersInv, Placed
<1>4. \A i \in Placed : orders'[i].id = i
  BY <1>1 DEF OrdersInv, Placed
<1>. QED BY <1>2, <1>3, <1>4 DEF OrdersInv

LEMMA StatusChanges ==
  ASSUME OrdersInv, NEW id \in Placed, NEW status \in Statuses \ {"None"}
  PROVE  /\ [orders[id] EXCEPT !.status = status] \in SnapshotsOf(Placed)
         /\ [orders[id] EXCEPT !.status = status].id = id
         /\ [orders[id] EXCEPT !.status = status].status = status
<1>. DEFINE order == orders[id]
<1>1. order \in Snapshot /\ order.id = id
  BY PlacedSnapshots DEF SnapshotsOf
<1>. HIDE DEF order
<1>2. [order EXCEPT !.status = status] \in Snapshot
  BY <1>1 DEF Snapshot
<1>3. /\ [order EXCEPT !.status = status].id = id
      /\ [order EXCEPT !.status = status].status = status
  BY <1>1 DEF Snapshot
<1>. QED BY <1>2, <1>3 DEF order, SnapshotsOf

LEMMA CallbacksType ==
  ASSUME NEW ids, NEW order \in SnapshotsOf(ids)
  PROVE  /\ Callbacks(order) \in FramesAbout(ids)
         /\ Accept(order) \in FramesAbout(ids)
         /\ <<Callbacks(order)>> \in Seq(FramesAbout(ids))
         /\ <<Accept(order)>> \in Seq(FramesAbout(ids))
<1>1. Callbacks(order) \in FramesAbout(ids) /\ Accept(order) \in FramesAbout(ids)
  BY DEF Callbacks, Accept, FramesAbout
<1>. QED BY <1>1

LEMMA StrategyType ==
  ASSUME NEW ids, NEW may \in SUBSET StrategyOps
  PROVE  Strategy(may) \in Seq(FramesAbout(ids))
<1>1. [op |-> "strategy", may |-> may] \in FramesAbout(ids)
  BY DEF FramesAbout
<1>. QED BY <1>1 DEF Strategy

LEMMA FrameForms ==
  ASSUME NEW ids, NEW frame \in FramesAbout(ids)
  PROVE  /\ frame.op \in {"callbacks", "accept", "pending", "match", "strategy"}
         /\ frame.op \in {"callbacks", "accept"} => frame.order \in SnapshotsOf(ids)
         /\ frame.op = "pending" => frame.id \in ids
         /\ frame.op = "match" =>
              /\ frame.ids \subseteq ids /\ frame.at \in Nat /\ frame.left \in Nat
         /\ frame.op = "strategy" => frame.may \subseteq StrategyOps
BY DEF FramesAbout

LEMMA TopFrame ==
  ASSUME CallsInv, calls # << >>
  PROVE  /\ Head(calls) \in FramesAbout(Placed)
         /\ Tail(calls) \in Seq(FramesAbout(Placed))
BY HeadTailProperties DEF CallsInv

\* update_order_status() of an order that is in the table.
LEMMA UpdateKeepsTypes ==
  ASSUME OrdersInv, NEW id \in Placed, NEW status \in Statuses \ {"None"},
         NEW rest \in Seq(FramesAbout(Placed)), UpdateOrderStatus(id, status, rest)
  PROVE  OrdersInv' /\ CallsInv' /\ Placed' = Placed
<1>. DEFINE updated == [orders[id] EXCEPT !.status = status]
<1>1. updated \in SnapshotsOf(Placed) /\ updated.id = id
  BY StatusChanges
<1>2. orders' = [orders EXCEPT ![id] = updated] /\ calls' = <<Callbacks(updated)>> \o rest
  BY DEF UpdateOrderStatus
<1>. HIDE DEF updated
<1>3. updated \in Snapshot
  BY <1>1 DEF SnapshotsOf
<1>4. OrdersInv' /\ Placed' = Placed
  BY <1>1, <1>2, <1>3, OrderChanges
<1>5. <<Callbacks(updated)>> \in Seq(FramesAbout(Placed))
  BY <1>1, CallbacksType
<1>6. calls' \in Seq(FramesAbout(Placed))
  BY <1>2, <1>5, ConcatProperties
<1>. QED BY <1>4, <1>6 DEF CallsInv

LEMMA PipelineUnchanged ==
  ASSUME PipelineInv, Placed' = Placed, UNCHANGED <<resting_orders, event_queue>>
  PROVE  PipelineInv'
BY DEF PipelineInv, Resting

LEMMA AnswersKeepPipeline ==
  ASSUME PipelineInv, Placed' = Placed, NEW id \in Placed, Answers(id, Placed)
  PROVE  PipelineInv'
<1>1. Resting' \subseteq Placed
  BY DEF PipelineInv, Answers, Resting
<1>2. event_queue' \in Seq(EventsAbout(Placed))
  BY DEF Answers
<1>3. resting_orders' \in [OrderIds -> RestingState]
  BY DEF Answers
<1>. QED BY <1>1, <1>2, <1>3 DEF PipelineInv

LEMMA TypesAtStart ==
  ASSUME Init
  PROVE  TypeInv
<1>1. Placed = {} /\ Resting = {}
  BY DEF Init, Placed, NoOrder, Resting
<1>2. OrdersInv
  <2>1. Cardinality(Placed) = 0
    BY <1>1, FS_EmptySet
  <2>2. 1 .. 0 = {}
    OBVIOUS
  <2>. QED BY <1>1, <2>1, <2>2 DEF Init, OrdersInv
<1>3. PipelineInv
  <2>1. \A i \in 1 .. Len(Feed) : Feed[i].at \in Nat /\ Feed[i].ticks \in Nat \ {0}
    <3>. DEFINE S == [at : Nat \ {0}, ticks : Nat \ {0}]
    <3>2. Feed \in Seq(S)
      BY BacktestAssumption
    <3>. HIDE DEF S
    <3>1. \A i \in 1 .. Len(Feed) : Feed[i] \in S
      BY <3>2, ElementOfSeq
    <3>. QED BY <3>1 DEF S
  <2>2. \A i \in 1 .. Len(Feed) : MarketEvent(Feed[i].at, Feed[i].ticks) \in EventsAbout(Placed)
    BY <2>1 DEF MarketEvent, EventsAbout
  <2>3. Len(Feed) \in Nat
    BY LenProperties, BacktestAssumption
  <2>4. event_queue \in [1 .. Len(Feed) -> EventsAbout(Placed)]
    BY <2>2 DEF Init
  <2>5. event_queue \in Seq(EventsAbout(Placed))
    BY <2>3, <2>4, SeqDef
  <2>6. resting_orders \in [OrderIds -> RestingState]
    BY NotRestingType DEF Init
  <2>. QED BY <1>1, <2>5, <2>6 DEF PipelineInv
<1>4. CallsInv
  <2>1. StartOps \in SUBSET StrategyOps
    BY BacktestAssumption
  <2>. QED BY <2>1, StrategyType DEF Init, CallsInv
<1>5. ClockInv
  <2>1. MaxCalls \in Nat
    BY BacktestAssumption
  <2>2. accepted \in [OrderIds -> Counted]
    <3>1. [times |-> 0, lots |-> 0, postponed |-> FALSE] \in Counted
      BY DEF Counted
    <3>. QED BY <3>1 DEF Init
  <2>3. priced \in BOOLEAN
    BY DEF Init
  <2>4. current_time = 0 /\ current_day = 0 /\ ops = 0
    BY DEF Init
  <2>. QED BY <2>1, <2>2, <2>3, <2>4 DEF ClockInv
<1>. QED BY <1>2, <1>3, <1>4, <1>5 DEF TypeInv

\* Orders are numbered without a gap, so a submission takes a new id.
LEMMA SubmissionIsNew ==
  ASSUME TypeInv, NEW plan \in Plans, SubmitOrder(plan)
  PROVE  /\ OrdersInv'
         /\ \E order \in Snapshot :
              /\ order.quantity = plan.quantity /\ order.filled_quantity = 0
              /\ order.status = "Created" /\ order.id \in OrderIds \ Placed
              /\ Placed' = Placed \cup {order.id}
              /\ orders' = [orders EXCEPT ![order.id] = order]
              /\ calls' = <<Callbacks(order), MakePending(order.id)>> \o calls
<1>. DEFINE c == Cardinality(Placed)
            id == 1 + c
            created == IF current_time = 0 THEN WallClock ELSE current_time
            order == [id |-> id, type |-> plan.type, tif |-> plan.tif,
                      quantity |-> plan.quantity, expire_at |-> plan.expire_at,
                      status |-> "Created", filled_quantity |-> 0, created_at |-> created]
<1>1. /\ id \in OrderIds /\ orders' = [orders EXCEPT ![id] = order]
      /\ calls' = <<Callbacks(order), MakePending(id)>> \o calls
  BY DEF SubmitOrder, Placed
<1>2. created \in Nat
  BY BacktestAssumption DEF TypeInv, ClockInv
<1>3. plan \in PlanType
  BY BacktestAssumption
<1>. HIDE DEF created
<1>4. c \in Nat /\ Placed = 1 .. c
  <2>1. IsFiniteSet(OrderIds) /\ Placed \subseteq OrderIds
    BY PipelineAssumption DEF Placed
  <2>2. IsFiniteSet(Placed)
    BY <2>1, FS_Subset
  <2>. QED BY <2>2, FS_CardinalityType DEF TypeInv, OrdersInv
<1>. HIDE DEF c
<1>5. id \in OrderIds \ Placed
  BY <1>1, <1>4
<1>6. MaxFilled \in Nat
  BY BacktestAssumption
<1>7. order \in Snapshot
  BY <1>1, <1>2, <1>3, <1>6 DEF Snapshot, PlanType, Statuses
<1>8. /\ order.id = id /\ order.status = "Created"
      /\ order.quantity = plan.quantity /\ order.filled_quantity = 0
  OBVIOUS
<1>. HIDE DEF order
<1>9. orders \in [OrderIds -> Snapshot \cup {NoOrder}]
  BY DEF TypeInv, OrdersInv
<1>10. Placed' = Placed \cup {id}
  BY <1>1, <1>5, <1>8, <1>9 DEF Placed
<1>11. OrdersInv'
  <2>1. orders' \in [OrderIds -> Snapshot \cup {NoOrder}]
    BY <1>1, <1>7, <1>9
  <2>2. \A i \in Placed' : orders'[i].id = i
    BY <1>1, <1>5, <1>8, <1>9, <1>10 DEF TypeInv, OrdersInv
  <2>3. Placed' = 1 .. (c + 1)
    BY <1>4, <1>10
  <2>4. Cardinality(1 .. (c + 1)) = c + 1
    <3>. DEFINE n == c + 1
    <3>1. n \in Nat /\ 1 \in Int /\ n \in Int
      BY <1>4
    <3>. HIDE DEF n
    <3>2. Cardinality(1 .. n) = IF 1 > n THEN 0 ELSE n - 1 + 1
      BY <3>1, FS_Interval
    <3>3. Cardinality(1 .. n) = n
      BY <3>1, <3>2
    <3>. QED BY <3>3 DEF n
  <2>5. Placed' = 1 .. Cardinality(Placed')
    BY <2>3, <2>4
  <2>. QED BY <2>1, <2>2, <2>5 DEF OrdersInv
<1>. QED BY <1>1, <1>5, <1>7, <1>8, <1>10, <1>11

LEMMA SubmitKeepsTypes ==
  ASSUME TypeInv, NEW plan \in Plans, SubmitOrder(plan)
  PROVE  TypeInv'
<1>1. PICK order \in Snapshot :
         /\ order.status = "Created" /\ order.id \in OrderIds \ Placed
         /\ Placed' = Placed \cup {order.id}
         /\ orders' = [orders EXCEPT ![order.id] = order]
         /\ calls' = <<Callbacks(order), MakePending(order.id)>> \o calls
  BY SubmissionIsNew
<1>2. OrdersInv'
  BY SubmissionIsNew
<1>3. PipelineInv'
  <2>1. EventsAbout(Placed) \subseteq EventsAbout(Placed')
    BY <1>1 DEF EventsAbout
  <2>2. event_queue \in Seq(EventsAbout(Placed'))
    BY <2>1, SeqMonotonic DEF TypeInv, PipelineInv
  <2>. QED BY <1>1, <2>2 DEF SubmitOrder, TypeInv, PipelineInv, Resting
<1>4. CallsInv'
  <2>1. FramesAbout(Placed) \subseteq FramesAbout(Placed')
    BY <1>1 DEF FramesAbout, SnapshotsOf
  <2>2. calls \in Seq(FramesAbout(Placed'))
    BY <2>1, SeqMonotonic DEF TypeInv, CallsInv
  <2>3. Callbacks(order) \in FramesAbout(Placed')
    BY <1>1, CallbacksType DEF SnapshotsOf
  <2>4. MakePending(order.id) \in FramesAbout(Placed')
    BY <1>1 DEF MakePending, FramesAbout
  <2>5. <<Callbacks(order), MakePending(order.id)>> \in Seq(FramesAbout(Placed'))
    BY <2>3, <2>4
  <2>6. calls' \in Seq(FramesAbout(Placed'))
    BY <1>1, <2>2, <2>5, ConcatProperties
  <2>. QED BY <2>6 DEF CallsInv
<1>5. ClockInv'
  BY BacktestAssumption DEF SubmitOrder, StrategyMay, TypeInv, ClockInv
<1>. QED BY <1>2, <1>3, <1>4, <1>5 DEF TypeInv

LEMMA CancelKeepsTypes ==
  ASSUME TypeInv, NEW id \in OrderIds, CancelOrder(id)
  PROVE  TypeInv' /\ Placed' = Placed /\ id \in Placed
<1>1. id \in Placed
  BY DEF CancelOrder, Open, OpenStatuses, Placed
<1>2. OrdersInv' /\ CallsInv' /\ Placed' = Placed
  BY <1>1, UpdateKeepsTypes DEF CancelOrder, TypeInv, CallsInv, Statuses, OverStatuses
<1>3. PipelineInv'
  BY <1>2, PipelineUnchanged DEF CancelOrder, TypeInv
<1>4. ClockInv'
  BY BacktestAssumption DEF CancelOrder, StrategyMay, TypeInv, ClockInv
<1>. QED BY <1>1, <1>2, <1>3, <1>4 DEF TypeInv

LEMMA ModifyKeepsTypes ==
  ASSUME TypeInv, NEW id \in OrderIds, NEW quantity \in Quantities, ModifyOrder(id, quantity)
  PROVE  /\ TypeInv' /\ Placed' = Placed /\ id \in Placed
         /\ \E updated \in SnapshotsOf(Placed) :
               /\ updated.id = id /\ updated.status = orders[id].status
               /\ orders' = [orders EXCEPT ![id] = updated]
               /\ calls' = <<Callbacks(updated)>> \o calls
<1>. DEFINE order == orders[id]
            updated == [order EXCEPT !.quantity = quantity]
<1>1. id \in Placed
  BY DEF ModifyOrder, Open, OpenStatuses, Placed
<1>2. orders' = [orders EXCEPT ![id] = updated] /\ calls' = <<Callbacks(updated)>> \o calls
  BY DEF ModifyOrder
<1>3. order \in Snapshot /\ order.id = id
  BY <1>1, PlacedSnapshots DEF TypeInv, SnapshotsOf
<1>. HIDE DEF order
<1>4. quantity \in Nat \ {0}
  BY BacktestAssumption
<1>5. updated \in Snapshot /\ updated.id = id /\ updated.status = order.status
  BY <1>3, <1>4 DEF Snapshot
<1>. HIDE DEF updated
<1>6. OrdersInv' /\ Placed' = Placed
  BY <1>1, <1>2, <1>5, OrderChanges DEF TypeInv
<1>7. updated \in SnapshotsOf(Placed)
  BY <1>1, <1>5 DEF SnapshotsOf
<1>8. CallsInv'
  BY <1>2, <1>6, <1>7, CallbacksType, ConcatProperties DEF TypeInv, CallsInv
<1>9. PipelineInv'
  BY <1>6, PipelineUnchanged DEF ModifyOrder, TypeInv
<1>10. ClockInv'
  BY BacktestAssumption DEF ModifyOrder, StrategyMay, TypeInv, ClockInv
<1>. QED BY <1>1, <1>2, <1>5, <1>6, <1>7, <1>8, <1>9, <1>10 DEF TypeInv, order

\* The calls that leave the order table and the pipeline alone.
LEMMA StrategyReturnsKeepsTypes ==
  ASSUME TypeInv, StrategyReturns
  PROVE  TypeInv' /\ Placed' = Placed
<1>1. calls' \in Seq(FramesAbout(Placed))
  BY TopFrame DEF StrategyReturns, Running, Return, TypeInv
<1>2. Placed' = Placed
  BY DEF StrategyReturns, Placed
<1>3. OrdersInv'
  BY <1>2 DEF StrategyReturns, TypeInv, OrdersInv
<1>4. PipelineInv'
  BY <1>2, PipelineUnchanged DEF StrategyReturns, TypeInv
<1>5. ClockInv'
  BY DEF StrategyReturns, TypeInv, ClockInv
<1>. QED BY <1>1, <1>2, <1>3, <1>4, <1>5 DEF TypeInv, CallsInv

LEMMA NextTickKeepsTypes ==
  ASSUME TypeInv, NextTick
  PROVE  TypeInv' /\ Placed' = Placed
<1>. DEFINE frame == Head(calls)
            next == Match(Resting, frame.at + 1, frame.left - 1)
<1>1. frame \in FramesAbout(Placed) /\ Tail(calls) \in Seq(FramesAbout(Placed))
  BY TopFrame DEF NextTick, Running, TypeInv
<1>2. frame.at \in Nat /\ frame.left \in Nat
  BY <1>1, FrameForms DEF NextTick, Running
<1>3. calls' = (IF frame.left > 0 THEN <<next>> ELSE << >>) \o Tail(calls)
  BY DEF NextTick
<1>4. ASSUME frame.left > 0 PROVE next \in FramesAbout(Placed)
  <2>1. frame.at + 1 \in Nat /\ frame.left - 1 \in Nat
    BY <1>2, <1>4
  <2>. QED BY <2>1 DEF Match, FramesAbout, TypeInv, PipelineInv
<1>. HIDE DEF next, frame
<1>5. (IF frame.left > 0 THEN <<next>> ELSE << >>) \in Seq(FramesAbout(Placed))
  BY <1>4
<1>6. calls' \in Seq(FramesAbout(Placed))
  BY <1>1, <1>3, <1>5, ConcatProperties
<1>7. Placed' = Placed
  BY DEF NextTick, Placed
<1>8. OrdersInv'
  BY <1>7 DEF NextTick, TypeInv, OrdersInv
<1>9. PipelineInv'
  BY <1>7, PipelineUnchanged DEF NextTick, TypeInv
<1>10. ClockInv'
  BY DEF NextTick, TypeInv, ClockInv
<1>. QED BY <1>6, <1>7, <1>8, <1>9, <1>10 DEF TypeInv, CallsInv

\* The calls that reach the pipeline.
LEMMA RunCallbacksKeepsTypes ==
  ASSUME TypeInv, RunCallbacks
  PROVE  TypeInv' /\ Placed' = Placed
<1>. DEFINE order == Head(calls).order
            accept == IF order.status = "Pending" THEN <<Accept(order)>> ELSE << >>
<1>1. order \in SnapshotsOf(Placed) /\ Tail(calls) \in Seq(FramesAbout(Placed))
  BY TopFrame, FrameForms DEF RunCallbacks, Running, TypeInv
<1>2. /\ OnOrderUpdate(order)
      /\ calls' = Strategy(UpdateOps) \o accept \o Tail(calls)
  BY DEF RunCallbacks
<1>3. Strategy(UpdateOps) \in Seq(FramesAbout(Placed))
  BY StrategyType, BacktestAssumption
<1>4. accept \in Seq(FramesAbout(Placed))
  BY <1>1, CallbacksType
<1>. HIDE DEF accept, order
<1>5. calls' \in Seq(FramesAbout(Placed))
  BY <1>1, <1>2, <1>3, <1>4, ConcatProperties
<1>6. Placed' = Placed
  BY DEF RunCallbacks, Placed
<1>7. OrdersInv'
  BY <1>6 DEF RunCallbacks, TypeInv, OrdersInv
<1>8. order.id \in Placed /\ order.id \in OrderIds
  BY <1>1 DEF SnapshotsOf, Placed
<1>9. PipelineInv'
  <2>1. UNCHANGED event_queue
    BY DEF RunCallbacks
  <2>2. CASE Erase(order.id)
    <3>1. Answers(order.id, Placed)
      BY <1>8, <2>1, <2>2, RestSilently, NotRestingType DEF Erase, TypeInv, PipelineInv
    <3>. QED BY <1>6, <1>8, <3>1, AnswersKeepPipeline DEF TypeInv
  <2>3. CASE UNCHANGED resting_orders
    BY <1>6, <2>1, <2>3, PipelineUnchanged DEF TypeInv
  <2>. QED BY <1>2, <2>2, <2>3 DEF OnOrderUpdate
<1>10. ClockInv'
  BY DEF RunCallbacks, TypeInv, ClockInv
<1>. QED BY <1>5, <1>6, <1>7, <1>9, <1>10 DEF TypeInv, CallsInv

LEMMA CountType ==
  ASSUME NEW order \in Snapshot,
         accepted \in [OrderIds -> Counted]
  PROVE  \A postponed \in BOOLEAN : Count(order, postponed) \in [OrderIds -> Counted]
<1>1. order.id \in OrderIds /\ order.quantity \in Nat
  BY DEF Snapshot
<1>2. \A postponed \in BOOLEAN :
        /\ [times |-> 1, lots |-> order.quantity, postponed |-> postponed] \in Counted
        /\ [times |-> 2, lots |-> 0, postponed |-> FALSE] \in Counted
  BY <1>1 DEF Counted
<1>. QED BY <1>1, <1>2 DEF Count

LEMMA AcceptKeepsTypes ==
  ASSUME TypeInv, AcceptOrder
  PROVE  TypeInv' /\ Placed' = Placed
<1>. DEFINE order == Head(calls).order
<1>1. order \in SnapshotsOf(Placed) /\ Tail(calls) \in Seq(FramesAbout(Placed))
  BY TopFrame, FrameForms DEF AcceptOrder, Running, TypeInv
<1>2. PICK postponed \in BOOLEAN :
        /\ OnOrderSubmitted(order) /\ accepted' = Count(order, postponed) /\ calls' = Tail(calls)
  BY DEF AcceptOrder, Return, OnOrderSubmitted
<1>. HIDE DEF order
<1>3. Placed' = Placed /\ Placed \in SUBSET OrderIds
  BY DEF AcceptOrder, Placed
<1>4. OrdersInv'
  BY <1>3 DEF AcceptOrder, TypeInv, OrdersInv
<1>5. Answers(order.id, Placed)
  BY <1>1, <1>2, <1>3, SubmissionAnswers DEF TypeInv, PipelineInv, ClockInv
<1>6. PipelineInv'
  BY <1>1, <1>3, <1>5, AnswersKeepPipeline DEF TypeInv, SnapshotsOf
<1>7. Count(order, postponed) \in [OrderIds -> Counted]
  BY <1>1, CountType DEF TypeInv, ClockInv, SnapshotsOf
<1>8. ClockInv'
  BY <1>2, <1>7 DEF AcceptOrder, TypeInv, ClockInv
<1>. QED BY <1>1, <1>2, <1>3, <1>4, <1>6, <1>8 DEF TypeInv, CallsInv

LEMMA MatchKeepsTypes ==
  ASSUME TypeInv, MatchOrder
  PROVE  TypeInv' /\ Placed' = Placed
<1>. DEFINE frame == Head(calls)
<1>1. frame \in FramesAbout(Placed) /\ Tail(calls) \in Seq(FramesAbout(Placed))
  BY TopFrame DEF MatchOrder, Running, TypeInv
<1>2. frame.ids \subseteq Placed /\ frame.at \in Nat /\ frame.left \in Nat
  BY <1>1, FrameForms DEF MatchOrder, Running
<1>3. PICK id \in frame.ids :
         /\ ProcessRestingOrder(id, frame.at)
         /\ calls' = <<Match(frame.ids \ {id}, frame.at, frame.left)>> \o Tail(calls)
  BY DEF MatchOrder
<1>. HIDE DEF frame
<1>4. Match(frame.ids \ {id}, frame.at, frame.left) \in FramesAbout(Placed)
  BY <1>2 DEF Match, FramesAbout
<1>5. calls' \in Seq(FramesAbout(Placed))
  BY <1>1, <1>3, <1>4, ConcatProperties
<1>6. Placed' = Placed /\ Placed \in SUBSET OrderIds
  BY DEF MatchOrder, Placed
<1>7. OrdersInv'
  BY <1>6 DEF MatchOrder, TypeInv, OrdersInv
<1>8. Answers(id, Placed)
  BY <1>2, <1>3, <1>6, MatchingAnswers DEF TypeInv, PipelineInv
<1>9. PipelineInv'
  BY <1>2, <1>6, <1>8, AnswersKeepPipeline DEF TypeInv
<1>10. ClockInv'
  BY DEF MatchOrder, TypeInv, ClockInv
<1>. QED BY <1>5, <1>6, <1>7, <1>9, <1>10 DEF TypeInv, CallsInv

\* The calls that update a status.
LEMMA RefuseKeepsTypes ==
  ASSUME TypeInv, RefuseOrder
  PROVE  TypeInv' /\ Placed' = Placed
<1>. DEFINE id == Head(calls).order.id
<1>1. id \in Placed /\ Tail(calls) \in Seq(FramesAbout(Placed))
  BY TopFrame, FrameForms DEF RefuseOrder, Running, TypeInv, SnapshotsOf
<1>2. UpdateOrderStatus(id, "Rejected", Tail(calls)) /\ "Rejected" \in Statuses \ {"None"}
  BY DEF RefuseOrder, Statuses, OverStatuses
<1>. HIDE DEF id
<1>3. OrdersInv' /\ CallsInv' /\ Placed' = Placed
  BY <1>1, <1>2, UpdateKeepsTypes DEF TypeInv
<1>4. PipelineInv'
  BY <1>3, PipelineUnchanged DEF RefuseOrder, TypeInv
<1>5. ClockInv'
  BY DEF RefuseOrder, TypeInv, ClockInv
<1>. QED BY <1>3, <1>4, <1>5 DEF TypeInv

LEMMA SubmittedKeepsTypes ==
  ASSUME TypeInv, SubmittedIsPending
  PROVE  TypeInv' /\ Placed' = Placed
<1>. DEFINE id == Head(calls).id
<1>1. id \in Placed /\ Tail(calls) \in Seq(FramesAbout(Placed))
  BY TopFrame, FrameForms DEF SubmittedIsPending, Running, TypeInv
<1>2. UpdateOrderStatus(id, "Pending", Tail(calls)) /\ "Pending" \in Statuses \ {"None"}
  BY DEF SubmittedIsPending, Statuses
<1>. HIDE DEF id
<1>3. OrdersInv' /\ CallsInv' /\ Placed' = Placed
  BY <1>1, <1>2, UpdateKeepsTypes DEF TypeInv
<1>4. PipelineInv'
  BY <1>3, PipelineUnchanged DEF SubmittedIsPending, TypeInv
<1>5. ClockInv'
  BY DEF SubmittedIsPending, TypeInv, ClockInv
<1>. QED BY <1>3, <1>4, <1>5 DEF TypeInv

\* The event at the head of the queue.
LEMMA HeadEvent ==
  ASSUME TypeInv, Dispatching
  PROVE  /\ Tail(event_queue) \in Seq(EventsAbout(Placed))
         /\ Head(event_queue).time \in Nat
         /\ Head(event_queue).kind = "Market" => Head(event_queue).lots \in Nat \ {0}
         /\ Head(event_queue).kind # "Market" =>
              /\ Head(event_queue).kind \in OrderEventKinds
              /\ Head(event_queue).id \in Placed /\ Head(event_queue).lots \in Nat
<1>1. /\ Head(event_queue) \in EventsAbout(Placed)
      /\ Tail(event_queue) \in Seq(EventsAbout(Placed))
  BY HeadTailProperties DEF TypeInv, PipelineInv, Dispatching
<1>. DEFINE event == Head(event_queue)
<1>. HIDE DEF event
<1>2. ASSUME event \in EventsAbout(Placed)
      PROVE  /\ event.time \in Nat
             /\ event.kind = "Market" => event.lots \in Nat \ {0}
             /\ event.kind # "Market" =>
                  event.kind \in OrderEventKinds /\ event.id \in Placed /\ event.lots \in Nat
  BY <1>2 DEF EventsAbout, OrderEventKinds
<1>. QED BY <1>1, <1>2 DEF event

LEMMA DayType ==
  ASSUME NEW at \in Nat
  PROVE  Day(at) \in Nat
<1>1. DayLength \in Nat /\ DayLength > 0
  BY BacktestAssumption
<1>2. at \div DayLength \in Int /\ at \div DayLength >= 0
  BY <1>1, SMT
<1>. QED BY <1>2 DEF Day

\* The cancels of expired orders.
LEMMA CancelsType ==
  ASSUME NEW at \in Nat, NEW cancels \in Cancels(Expired(at), at)
  PROVE  /\ cancels \in Seq(EventsAbout(Placed))
         /\ \A i \in 1 .. Len(cancels) : cancels[i].kind = "Cancel"
<1>. DEFINE ids == Expired(at)
            n == Cardinality(ids)
<1>1. ids \subseteq Placed /\ ids \subseteq OrderIds
  BY DEF Expired, Open, OpenStatuses, Placed
<1>2. n \in Nat
  BY <1>1, PipelineAssumption, FS_Subset, FS_CardinalityType
<1>3. cancels \in Cancels(ids, at)
  OBVIOUS
<1>. HIDE DEF n, ids
<1>4. PICK s \in [1 .. n -> ids] :
         cancels = [i \in DOMAIN s |-> OrderEvent("Cancel", s[i], 0, at)]
  BY <1>3 DEF Cancels, n
<1>5. \A i \in 1 .. n : OrderEvent("Cancel", s[i], 0, at) \in EventsAbout(Placed)
  BY <1>1, OrderEventType DEF OrderEventKinds
<1>6. cancels \in [1 .. n -> EventsAbout(Placed)]
  BY <1>4, <1>5
<1>7. cancels \in Seq(EventsAbout(Placed))
  BY <1>2, <1>6, SeqDef
<1>8. 1 .. Len(cancels) = 1 .. n
  BY <1>6, <1>7, LenProperties
<1>9. \A i \in 1 .. n : cancels[i].kind = "Cancel"
  BY <1>4 DEF OrderEvent
<1>. QED BY <1>7, <1>8, <1>9

LEMMA HandleMarketKeepsTypes ==
  ASSUME TypeInv, HandleMarket
  PROVE  TypeInv' /\ Placed' = Placed
<1>. DEFINE event == Head(event_queue)
<1>1. /\ Tail(event_queue) \in Seq(EventsAbout(Placed))
      /\ event.time \in Nat /\ event.lots \in Nat \ {0}
  BY HeadEvent DEF HandleMarket
<1>2. /\ event_queue' \in {Push(Tail(event_queue), cancels) :
                              cancels \in Cancels(Expired(event.time), event.time)}
      /\ calls' = <<Match(Resting, event.time, event.lots - 1)>> \o Strategy(MarketOps)
      /\ current_day' = Day(event.time) /\ current_time' = event.time /\ priced' = TRUE
      /\ UNCHANGED <<resting_orders, orders, ops, accepted>>
  BY DEF HandleMarket
<1>. HIDE DEF event
<1>3. PICK cancels \in Cancels(Expired(event.time), event.time) :
         event_queue' = Push(Tail(event_queue), cancels)
  BY <1>2
<1>4. cancels \in Seq(EventsAbout(Placed))
  BY <1>1, CancelsType
<1>5. event_queue' \in Seq(EventsAbout(Placed))
  BY <1>1, <1>3, <1>4, PushKeepsType
<1>6. Placed' = Placed
  BY <1>2 DEF Placed
<1>7. OrdersInv'
  BY <1>2, <1>6 DEF TypeInv, OrdersInv
<1>8. PipelineInv'
  BY <1>2, <1>5, <1>6 DEF TypeInv, PipelineInv, Resting
<1>9. CallsInv'
  <2>1. event.lots - 1 \in Nat
    BY <1>1
  <2>2. Match(Resting, event.time, event.lots - 1) \in FramesAbout(Placed)
    BY <1>1, <2>1 DEF Match, FramesAbout, TypeInv, PipelineInv
  <2>3. Strategy(MarketOps) \in Seq(FramesAbout(Placed))
    BY StrategyType, BacktestAssumption
  <2>4. calls' \in Seq(FramesAbout(Placed))
    BY <1>2, <2>2, <2>3, ConcatProperties
  <2>. QED BY <1>6, <2>4 DEF CallsInv
<1>10. ClockInv'
  <2>1. Day(event.time) \in Nat
    BY <1>1, DayType
  <2>. QED BY <1>1, <1>2, <2>1 DEF TypeInv, ClockInv
<1>. QED BY <1>6, <1>7, <1>8, <1>9, <1>10 DEF TypeInv

\* A fill counts at most MaxFilled lots, so the snapshot stays one.
LEMMA HandleFillKeepsTypes ==
  ASSUME TypeInv, HandleFill
  PROVE  /\ TypeInv' /\ Placed' = Placed
         /\ Head(event_queue).id \in Placed
         /\ \E updated \in SnapshotsOf(Placed) :
               /\ updated.status \in {"Filled", "PartiallyFilled"}
               /\ updated.id = Head(event_queue).id
               /\ updated.quantity = orders[updated.id].quantity
               /\ updated.filled_quantity =
                     IF orders[updated.id].filled_quantity + Head(event_queue).lots < MaxFilled
                     THEN orders[updated.id].filled_quantity + Head(event_queue).lots
                     ELSE MaxFilled
               /\ orders' = [orders EXCEPT ![updated.id] = updated]
               /\ calls' = Strategy(FillOps) \o <<Callbacks(updated)>>
<1>. DEFINE event == Head(event_queue)
            order == orders[event.id]
            filled == order.filled_quantity + event.lots
            counted == IF filled < MaxFilled THEN filled ELSE MaxFilled
            status == IF filled >= order.quantity THEN "Filled" ELSE "PartiallyFilled"
            updated == [order EXCEPT !.filled_quantity = counted, !.status = status]
<1>1. /\ Tail(event_queue) \in Seq(EventsAbout(Placed))
      /\ event.time \in Nat /\ event.id \in Placed /\ event.lots \in Nat
  BY HeadEvent DEF HandleFill
<1>2. /\ orders' = [orders EXCEPT ![event.id] = updated]
      /\ calls' = Strategy(FillOps) \o <<Callbacks(updated)>>
      /\ event_queue' = Tail(event_queue) /\ current_time' = event.time
      /\ UNCHANGED <<resting_orders, priced, current_day, ops, accepted>>
  BY DEF HandleFill
<1>3. order \in Snapshot /\ order.id = event.id
  BY <1>1, PlacedSnapshots DEF TypeInv, SnapshotsOf
<1>. HIDE DEF event, order
<1>4. MaxFilled \in Nat
  BY BacktestAssumption
<1>5. order.filled_quantity \in 0 .. MaxFilled
  BY <1>3 DEF Snapshot
<1>6. filled \in Nat
  BY <1>1, <1>4, <1>5
<1>. HIDE DEF filled
<1>7. counted \in 0 .. MaxFilled /\ status \in {"Filled", "PartiallyFilled"}
  BY <1>4, <1>6
<1>. HIDE DEF counted, status
<1>8. /\ updated \in Snapshot /\ updated.id = event.id /\ updated.status = status
      /\ updated.quantity = order.quantity /\ updated.filled_quantity = counted
  <2>1. status \in Statuses \ {"None"}
    BY <1>7 DEF Statuses, OverStatuses
  <2>2. [order EXCEPT !.filled_quantity = counted] \in Snapshot
    BY <1>3, <1>7 DEF Snapshot
  <2>. DEFINE half == [order EXCEPT !.filled_quantity = counted]
  <2>3. half.id = event.id /\ half.quantity = order.quantity /\ half.filled_quantity = counted
    BY <1>3 DEF Snapshot
  <2>4. updated = [half EXCEPT !.status = status]
    BY <1>3 DEF Snapshot
  <2>. HIDE DEF half
  <2>5. half \in Snapshot
    BY <2>2 DEF half
  <2>. QED BY <2>1, <2>3, <2>4, <2>5 DEF Snapshot
<1>. HIDE DEF updated
<1>9. OrdersInv' /\ Placed' = Placed
  BY <1>1, <1>2, <1>8, OrderChanges DEF TypeInv
<1>10. updated \in SnapshotsOf(Placed)
  BY <1>1, <1>8 DEF SnapshotsOf
<1>11. CallsInv'
  <2>1. Strategy(FillOps) \in Seq(FramesAbout(Placed))
    BY StrategyType, BacktestAssumption
  <2>2. <<Callbacks(updated)>> \in Seq(FramesAbout(Placed))
    BY <1>10, CallbacksType
  <2>3. calls' \in Seq(FramesAbout(Placed))
    BY <1>2, <2>1, <2>2, ConcatProperties
  <2>. QED BY <1>9, <2>3 DEF CallsInv
<1>12. PipelineInv'
  BY <1>1, <1>2, <1>9 DEF TypeInv, PipelineInv, Resting
<1>13. ClockInv'
  BY <1>1, <1>2 DEF TypeInv, ClockInv
<1>14. /\ updated.quantity = orders[updated.id].quantity
       /\ updated.filled_quantity =
             IF orders[updated.id].filled_quantity + event.lots < MaxFilled
             THEN orders[updated.id].filled_quantity + event.lots ELSE MaxFilled
  BY <1>8 DEF order, counted, filled
<1>. QED BY <1>1, <1>2, <1>7, <1>8, <1>9, <1>10, <1>11, <1>12, <1>13, <1>14 DEF TypeInv, event

LEMMA HandleStatusKeepsTypes ==
  ASSUME TypeInv, HandleStatus
  PROVE  TypeInv' /\ Placed' = Placed /\ Head(event_queue).id \in Placed
<1>. DEFINE event == Head(event_queue)
<1>1. /\ Tail(event_queue) \in Seq(EventsAbout(Placed))
      /\ event.time \in Nat /\ event.id \in Placed
  BY HeadEvent DEF HandleStatus
<1>2. /\ UpdateOrderStatus(event.id, StatusOf(event.kind), << >>)
      /\ event_queue' = Tail(event_queue) /\ current_time' = event.time
      /\ UNCHANGED <<resting_orders, priced, current_day, ops, accepted>>
      /\ event.kind \in {"Cancel", "Reject", "Update"}
  BY DEF HandleStatus
<1>. HIDE DEF event
<1>3. StatusOf(event.kind) \in Statuses \ {"None"}
  BY <1>2 DEF StatusOf, Statuses, OverStatuses
<1>4. << >> \in Seq(FramesAbout(Placed))
  OBVIOUS
<1>5. OrdersInv' /\ CallsInv' /\ Placed' = Placed
  BY <1>1, <1>2, <1>3, <1>4, UpdateKeepsTypes DEF TypeInv
<1>6. PipelineInv'
  BY <1>1, <1>2, <1>5 DEF TypeInv, PipelineInv, Resting
<1>7. ClockInv'
  BY <1>1, <1>2 DEF TypeInv, ClockInv
<1>. QED BY <1>1, <1>5, <1>6, <1>7 DEF TypeInv, event

\* A step leaves every variable alone or is one of the above.
LEMMA TypesStep ==
  ASSUME TypeInv, [Next]_vars
  PROVE  TypeInv'
<1>1. CASE UNCHANGED vars
  BY <1>1 DEF vars, TypeInv, OrdersInv, PipelineInv, CallsInv, ClockInv, Placed, Resting
<1>2. ASSUME NEW plan \in Plans, SubmitOrder(plan) PROVE TypeInv'
  BY <1>2, SubmitKeepsTypes
<1>3. ASSUME NEW id \in OrderIds, CancelOrder(id) PROVE TypeInv'
  BY <1>3, CancelKeepsTypes
<1>4. ASSUME NEW id \in OrderIds, NEW quantity \in Quantities, ModifyOrder(id, quantity)
      PROVE  TypeInv'
  BY <1>4, ModifyKeepsTypes
<1>5. CASE StrategyReturns
  BY <1>5, StrategyReturnsKeepsTypes
<1>6. CASE RunCallbacks
  BY <1>6, RunCallbacksKeepsTypes
<1>7. CASE AcceptOrder
  BY <1>7, AcceptKeepsTypes
<1>8. CASE RefuseOrder
  BY <1>8, RefuseKeepsTypes
<1>9. CASE SubmittedIsPending
  BY <1>9, SubmittedKeepsTypes
<1>10. CASE MatchOrder
  BY <1>10, MatchKeepsTypes
<1>11. CASE NextTick
  BY <1>11, NextTickKeepsTypes
<1>12. CASE HandleMarket
  BY <1>12, HandleMarketKeepsTypes
<1>13. CASE HandleFill
  BY <1>13, HandleFillKeepsTypes
<1>14. CASE HandleStatus
  BY <1>14, HandleStatusKeepsTypes
<1>. QED
  BY <1>1, <1>2, <1>3, <1>4, <1>5, <1>6, <1>7, <1>8, <1>9, <1>10, <1>11, <1>12, <1>13, <1>14
  DEF Next

LEMMA TypesInvariant == Spec => []TypeInv
<1>1. Init => TypeInv
  BY TypesAtStart
<1>2. TypeInv /\ [Next]_vars => TypeInv'
  BY TypesStep
<1>. QED BY <1>1, <1>2, PTL DEF Spec

\* The order table, the resting orders, the queue and the stack have their types:
\* whatever is interleaved, the pipeline, the events and the calls only name orders
\* the strategy has submitted, and an order's snapshots keep its id.
THEOREM TypeCorrect == Spec => []TypeOK
<1>1. TypeInv => TypeOK
  <2>. SUFFICES ASSUME TypeInv PROVE TypeOK
    OBVIOUS
  <2>1. Placed \subseteq OrderIds
    BY DEF Placed
  <2>2. event_queue \in Seq(Event)
    <3>1. EventsAbout(Placed) \subseteq Event
      BY <2>1 DEF EventsAbout, Event
    <3>. QED BY <3>1, SeqMonotonic DEF TypeInv, PipelineInv
  <2>3. calls \in Seq(Frame)
    <3>1. FramesAbout(Placed) \subseteq Frame
      BY <2>1 DEF FramesAbout, SnapshotsOf, Frame
    <3>. QED BY <3>1, SeqMonotonic DEF TypeInv, CallsInv
  <2>4. \A id \in OrderIds : orders[id] # NoOrder => orders[id].id = id
    BY DEF TypeInv, OrdersInv, Placed, Snapshot
  <2>. QED BY <2>2, <2>3, <2>4 DEF TypeOK, TypeInv, OrdersInv, PipelineInv, ClockInv, Counted
<1>. QED BY <1>1, TypesInvariant, PTL

-----------------------------------------------------------------------------
(* The stack.                                                              *)

LEMMA PushedFrame ==
  ASSUME NEW S, NEW stack \in Seq(S), NEW frame \in S
  PROVE  LET pushed == <<frame>> \o stack
         IN  /\ pushed \in Seq(S) /\ Len(stack) \in Nat /\ Len(pushed) = Len(stack) + 1
             /\ pushed[1] = frame
             /\ \A i \in 1 .. Len(stack) : pushed[i + 1] = stack[i]
             /\ \A i \in 2 .. Len(pushed) :
                   i - 1 \in 1 .. Len(stack) /\ pushed[i] = stack[i - 1]
<1>. DEFINE pushed == <<frame>> \o stack
<1>1. <<frame>> \in Seq(S) /\ Len(<<frame>>) = 1 /\ <<frame>>[1] = frame
  OBVIOUS
<1>2. /\ pushed \in Seq(S) /\ Len(pushed) = 1 + Len(stack)
      /\ \A i \in 1 .. 1 + Len(stack) :
            pushed[i] = IF i <= 1 THEN <<frame>>[i] ELSE stack[i - 1]
  BY <1>1, ConcatProperties
<1>3. Len(stack) \in Nat
  BY LenProperties
<1>. HIDE DEF pushed
<1>. QED BY <1>1, <1>2, <1>3 DEF pushed

LEMMA PushKeepsConsistent ==
  ASSUME NEW S, NEW stack \in Seq(S), NEW frame \in S, NEW open, Consistent(stack, open),
         HandsOver(frame) => FrameId(frame) \in open,
         \A j \in 1 .. Len(stack) :
            HandsOver(stack[j]) =>
               /\ HandsOver(frame) => FrameId(frame) # FrameId(stack[j])
               /\ ~MayEnd(frame)
  PROVE  Consistent(<<frame>> \o stack, open)
<1>. DEFINE pushed == <<frame>> \o stack
<1>1. /\ Len(stack) \in Nat /\ Len(pushed) = Len(stack) + 1
      /\ pushed[1] = frame
      /\ \A i \in 2 .. Len(pushed) : i - 1 \in 1 .. Len(stack) /\ pushed[i] = stack[i - 1]
  BY PushedFrame
<1>. HIDE DEF pushed
<1>2. ASSUME NEW i \in 1 .. Len(pushed), HandsOver(pushed[i])
      PROVE  FrameId(pushed[i]) \in open
  <2>1. i = 1 \/ i \in 2 .. Len(pushed)
    BY <1>1
  <2>. QED BY <1>1, <1>2, <2>1 DEF Consistent
<1>3. ASSUME NEW i \in 1 .. Len(pushed), NEW j \in (i + 1) .. Len(pushed), HandsOver(pushed[j])
      PROVE  /\ HandsOver(pushed[i]) => FrameId(pushed[i]) # FrameId(pushed[j])
             /\ ~MayEnd(pushed[i])
  <2>1. j \in 2 .. Len(pushed) /\ j - 1 \in 1 .. Len(stack) /\ pushed[j] = stack[j - 1]
    BY <1>1
  <2>2. CASE i = 1
    BY <1>1, <1>3, <2>1, <2>2
  <2>3. CASE i \in 2 .. Len(pushed)
    <3>1. i - 1 \in 1 .. Len(stack) /\ pushed[i] = stack[i - 1]
      BY <1>1, <2>3
    <3>2. j - 1 \in (i - 1 + 1) .. Len(stack)
      BY <1>1, <2>1, <3>1
    <3>. QED BY <1>3, <2>1, <3>1, <3>2 DEF Consistent
  <2>. QED BY <1>1, <2>2, <2>3
<1>. QED BY <1>2, <1>3 DEF Consistent, pushed

LEMMA PopKeepsConsistent ==
  ASSUME NEW S, NEW stack \in Seq(S), stack # << >>, NEW open, Consistent(stack, open)
  PROVE  /\ Consistent(Tail(stack), open)
         /\ HandsOver(Head(stack)) => FrameId(Head(stack)) \in open
         /\ \A j \in 1 .. Len(Tail(stack)) :
               HandsOver(Tail(stack)[j]) =>
                  /\ HandsOver(Head(stack)) => FrameId(Head(stack)) # FrameId(Tail(stack)[j])
                  /\ ~MayEnd(Head(stack))
<1>. DEFINE popped == Tail(stack)
<1>1. /\ Len(stack) \in Nat \ {0} /\ Len(popped) = Len(stack) - 1
      /\ \A i \in 1 .. Len(popped) : popped[i] = stack[i + 1]
      /\ Head(stack) = stack[1]
  BY EmptySeq, HeadTailProperties
<1>. HIDE DEF popped
<1>2. \A i \in 1 .. Len(popped) : i + 1 \in 2 .. Len(stack)
  BY <1>1
<1>3. Consistent(popped, open)
  <2>1. ASSUME NEW i \in 1 .. Len(popped), HandsOver(popped[i])
        PROVE  FrameId(popped[i]) \in open
    BY <1>1, <1>2, <2>1 DEF Consistent
  <2>2. ASSUME NEW i \in 1 .. Len(popped), NEW j \in (i + 1) .. Len(popped),
               HandsOver(popped[j])
        PROVE  /\ HandsOver(popped[i]) => FrameId(popped[i]) # FrameId(popped[j])
               /\ ~MayEnd(popped[i])
    <3>1. j \in 1 .. Len(popped) /\ i + 1 \in 1 .. Len(stack)
          /\ j + 1 \in (i + 1 + 1) .. Len(stack)
      BY <1>1
    <3>. QED BY <1>1, <2>2, <3>1 DEF Consistent
  <2>. QED BY <2>1, <2>2 DEF Consistent
<1>4. HandsOver(Head(stack)) => FrameId(Head(stack)) \in open
  BY <1>1 DEF Consistent
<1>5. ASSUME NEW j \in 1 .. Len(popped), HandsOver(popped[j])
      PROVE  /\ HandsOver(Head(stack)) => FrameId(Head(stack)) # FrameId(popped[j])
             /\ ~MayEnd(Head(stack))
  <2>1. 1 \in 1 .. Len(stack) /\ j + 1 \in (1 + 1) .. Len(stack)
    BY <1>1
  <2>. QED BY <1>1, <1>5, <2>1 DEF Consistent
<1>. QED BY <1>3, <1>4, <1>5 DEF popped

\* The strategy is called above frames that hand over only if it may not end orders.
LEMMA CallKeepsConsistent ==
  ASSUME NEW ids, NEW stack \in Seq(FramesAbout(ids)), NEW open, Consistent(stack, open),
         NEW may \in SUBSET StrategyOps,
         may \subseteq {"submit"} \/ \A j \in 1 .. Len(stack) : ~HandsOver(stack[j])
  PROVE  /\ Strategy(may) \o stack \in Seq(FramesAbout(ids))
         /\ Consistent(Strategy(may) \o stack, open)
<1>. DEFINE frame == [op |-> "strategy", may |-> may]
<1>1. CASE may = {}
  <2>1. << >> \o stack = stack
    BY ConcatEmptySeq
  <2>. QED BY <1>1, <2>1 DEF Strategy
<1>2. CASE may # {}
  <2>1. Strategy(may) = <<frame>>
    BY <1>2 DEF Strategy
  <2>2. frame \in FramesAbout(ids)
    BY DEF FramesAbout
  <2>3. ~HandsOver(frame) /\ (MayEnd(frame) => ~(may \subseteq {"submit"}))
    BY DEF HandsOver, MayEnd
  <2>. HIDE DEF frame
  <2>4. Consistent(<<frame>> \o stack, open)
    BY <2>2, <2>3, PushKeepsConsistent
  <2>5. <<frame>> \o stack \in Seq(FramesAbout(ids))
    BY <2>2, PushedFrame
  <2>. QED BY <2>1, <2>4, <2>5
<1>. QED BY <1>1, <1>2

LEMMA EndedBelow ==
  ASSUME NEW S, NEW stack \in Seq(S), NEW new \in Seq(S), NEW id, Ended(stack, id)
  PROVE  Ended(new \o stack, id)
<1>. DEFINE pushed == new \o stack
<1>1. /\ Len(pushed) = Len(new) + Len(stack)
      /\ \A i \in 1 .. Len(new) + Len(stack) :
            pushed[i] = IF i <= Len(new) THEN new[i] ELSE stack[i - Len(new)]
  BY ConcatProperties
<1>2. Len(new) \in Nat /\ Len(stack) \in Nat
  BY LenProperties
<1>3. PICK i \in 1 .. Len(stack) : Ends(stack[i], id)
  BY DEF Ended
<1>. HIDE DEF pushed
<1>. DEFINE k == i + Len(new)
<1>4. k \in 1 .. Len(pushed) /\ ~(k <= Len(new)) /\ k - Len(new) = i
  BY <1>1, <1>2
<1>5. pushed[k] = stack[i]
  BY <1>1, <1>4
<1>. QED BY <1>3, <1>4, <1>5 DEF Ended, pushed

LEMMA EndedOnTop ==
  ASSUME NEW S, NEW stack \in Seq(S), NEW frame \in S, NEW id, Ends(frame, id)
  PROVE  Ended(<<frame>> \o stack, id)
<1>. DEFINE pushed == <<frame>> \o stack
<1>1. pushed[1] = frame /\ Len(stack) \in Nat /\ Len(pushed) = Len(stack) + 1
  BY PushedFrame
<1>. HIDE DEF pushed
<1>2. 1 \in 1 .. Len(pushed)
  BY <1>1
<1>. QED BY <1>1, <1>2 DEF Ended, pushed

LEMMA EndedAfterPop ==
  ASSUME NEW S, NEW stack \in Seq(S), stack # << >>, NEW id, Ended(stack, id),
         ~Ends(Head(stack), id)
  PROVE  Ended(Tail(stack), id)
<1>. DEFINE popped == Tail(stack)
<1>1. /\ Len(stack) \in Nat \ {0} /\ Len(popped) = Len(stack) - 1
      /\ \A i \in 1 .. Len(popped) : popped[i] = stack[i + 1]
      /\ Head(stack) = stack[1]
  BY EmptySeq, HeadTailProperties
<1>. HIDE DEF popped
<1>2. PICK i \in 1 .. Len(stack) : Ends(stack[i], id)
  BY DEF Ended
<1>. DEFINE k == i - 1
<1>3. k \in 1 .. Len(popped) /\ k + 1 = i
  BY <1>1, <1>2
<1>4. popped[k] = stack[i]
  BY <1>1, <1>3
<1>. QED BY <1>2, <1>3, <1>4 DEF Ended, popped

-----------------------------------------------------------------------------
(* Every step keeps the stack invariant.                                   *)

\* An order gets a new version, and its callbacks go on top of what waits: nothing
\* that waits hands the order over, so whether it ends or not does not matter.
LEMMA NewVersion ==
  ASSUME TypeInv, NEW id \in Placed, NEW updated \in SnapshotsOf(Placed), updated.id = id,
         orders' = [orders EXCEPT ![id] = updated],
         NEW rest \in Seq(FramesAbout(Placed)), Consistent(rest, Open),
         \A j \in 1 .. Len(rest) : HandsOver(rest[j]) => FrameId(rest[j]) # id,
         \A i \in Resting \ {id} : i \in Open \/ Ended(rest, i)
  PROVE  LET stack == <<Callbacks(updated)>> \o rest
         IN  /\ stack \in Seq(FramesAbout(Placed))
             /\ Consistent(stack, Open')
             /\ \A i \in Resting : i \in Open' \/ Ended(stack, i)
<1>. DEFINE frame == Callbacks(updated)
            stack == <<frame>> \o rest
<1>1. frame \in FramesAbout(Placed)
  BY CallbacksType
<1>2. /\ frame.op = "callbacks" /\ frame.order = updated
  BY DEF Callbacks
<1>3. updated.status \in OpenStatuses \cup OverStatuses
  BY DEF SnapshotsOf, Snapshot, Statuses, OpenStatuses, OverStatuses
<1>. HIDE DEF frame
<1>4. id \in OrderIds /\ orders'[id] = updated
      /\ \A i \in OrderIds \ {id} : orders'[i] = orders[i]
  BY DEF TypeInv, OrdersInv, Placed
<1>5. /\ id \in Open' <=> updated.status \in OpenStatuses
      /\ \A i \in OrderIds \ {id} : i \in Open' <=> i \in Open
  BY <1>4 DEF Open
<1>6. Open \subseteq OrderIds
  BY DEF Open
<1>7. Consistent(rest, Open')
  BY <1>5, <1>6 DEF Consistent
<1>8. HandsOver(frame) => FrameId(frame) = id /\ updated.status = "Pending"
  BY <1>2 DEF HandsOver, FrameId
<1>9. ~MayEnd(frame)
  BY <1>2 DEF MayEnd
<1>10. HandsOver(frame) => FrameId(frame) \in Open'
  BY <1>5, <1>8 DEF OpenStatuses
<1>11. Consistent(stack, Open')
  BY <1>1, <1>7, <1>8, <1>9, <1>10, PushKeepsConsistent
<1>12. <<frame>> \in Seq(FramesAbout(Placed)) /\ stack \in Seq(FramesAbout(Placed))
  BY <1>1, PushedFrame
<1>13. ASSUME NEW i \in Resting PROVE i \in Open' \/ Ended(stack, i)
  <2>1. CASE i = id
    <3>1. updated.status \in OverStatuses => Ends(frame, id)
      BY <1>2 DEF Ends
    <3>. QED BY <1>1, <1>3, <1>5, <2>1, <3>1, EndedOnTop
  <2>2. CASE i # id
    <3>1. i \in OrderIds
      BY DEF Resting
    <3>2. Ended(rest, i) => Ended(stack, i)
      BY <1>12, EndedBelow
    <3>. QED BY <1>5, <2>2, <3>1, <3>2
  <2>. QED BY <2>1, <2>2
<1>. QED BY <1>11, <1>12, <1>13 DEF frame

\* The same for update_order_status().
LEMMA NewStatus ==
  ASSUME TypeInv, NEW id \in Placed, NEW status \in Statuses \ {"None"},
         NEW rest \in Seq(FramesAbout(Placed)), UpdateOrderStatus(id, status, rest),
         Consistent(rest, Open), UNCHANGED resting_orders,
         \A j \in 1 .. Len(rest) : HandsOver(rest[j]) => FrameId(rest[j]) # id,
         \A i \in Resting \ {id} : i \in Open \/ Ended(rest, i)
  PROVE  Consistent(calls', Open') /\ RestedInv'
<1>. DEFINE updated == [orders[id] EXCEPT !.status = status]
<1>1. updated \in SnapshotsOf(Placed) /\ updated.id = id
  BY StatusChanges DEF TypeInv
<1>2. orders' = [orders EXCEPT ![id] = updated] /\ calls' = <<Callbacks(updated)>> \o rest
  BY DEF UpdateOrderStatus
<1>. HIDE DEF updated
<1>3. /\ Consistent(calls', Open')
      /\ \A i \in Resting : i \in Open' \/ Ended(calls', i)
  BY <1>1, <1>2, NewVersion
<1>4. Resting' = Resting
  BY DEF Resting
<1>. QED BY <1>3, <1>4 DEF RestedInv

\* What holds of the frames below the top one.
LEMMA BelowTop ==
  ASSUME StackInv, calls # << >>
  PROVE  /\ Tail(calls) \in Seq(FramesAbout(Placed))
         /\ Consistent(Tail(calls), Open)
         /\ \A i \in Resting :
               i \in Open \/ Ends(Head(calls), i) \/ Ended(Tail(calls), i)
<1>1. calls \in Seq(FramesAbout(Placed))
  BY DEF StackInv, TypeInv, CallsInv
<1>. QED BY <1>1, TopFrame, PopKeepsConsistent, EndedAfterPop
         DEF StackInv, RestedInv, TypeInv

\* A strategy that may cancel or modify is above no frame that hands over.
LEMMA NothingHandedOver ==
  ASSUME StackInv, Running("strategy"), ~(Head(calls).may \subseteq {"submit"})
  PROVE  \A j \in 1 .. Len(calls) : ~HandsOver(calls[j])
<1>1. calls \in Seq(FramesAbout(Placed)) /\ calls # << >>
  BY DEF StackInv, TypeInv, CallsInv, Running
<1>2. Len(calls) \in Nat \ {0} /\ Head(calls) = calls[1]
  BY <1>1, EmptySeq, HeadTailProperties
<1>3. MayEnd(calls[1]) /\ ~HandsOver(calls[1])
  BY <1>2 DEF Running, MayEnd, HandsOver
<1>4. ASSUME NEW j \in 1 .. Len(calls), HandsOver(calls[j]) PROVE FALSE
  <2>1. 1 \in 1 .. Len(calls) /\ (j = 1 \/ j \in (1 + 1) .. Len(calls))
    BY <1>2
  <2>. QED BY <1>3, <1>4, <2>1 DEF StackInv, Consistent
<1>. QED BY <1>4

LEMMA SubmitKeepsStack ==
  ASSUME StackInv, NEW plan \in Plans, SubmitOrder(plan)
  PROVE  StackInv'
<1>1. PICK order \in Snapshot :
         /\ order.status = "Created" /\ order.id \in OrderIds \ Placed
         /\ Placed' = Placed \cup {order.id}
         /\ orders' = [orders EXCEPT ![order.id] = order]
         /\ calls' = <<Callbacks(order), MakePending(order.id)>> \o calls
  BY SubmissionIsNew DEF StackInv
<1>. DEFINE created == Callbacks(order)
            pending == MakePending(order.id)
            S == FramesAbout(Placed')
<1>2. created \in S /\ pending \in S /\ calls \in Seq(S)
  <2>1. FramesAbout(Placed) \subseteq S
    BY <1>1 DEF FramesAbout, SnapshotsOf
  <2>2. calls \in Seq(FramesAbout(Placed))
    BY DEF StackInv, TypeInv, CallsInv
  <2>3. calls \in Seq(S)
    BY <2>1, <2>2, SeqMonotonic
  <2>4. created \in S
    BY <1>1, CallbacksType DEF SnapshotsOf
  <2>5. pending \in S
    BY <1>1 DEF MakePending, FramesAbout
  <2>. QED BY <2>3, <2>4, <2>5
<1>3. /\ created.op = "callbacks" /\ created.order = order
      /\ pending.op = "pending" /\ pending.id = order.id
  BY DEF Callbacks, MakePending
<1>. HIDE DEF created, pending, S
<1>4. /\ ~HandsOver(created) /\ ~MayEnd(created) /\ ~MayEnd(pending)
      /\ FrameId(pending) = order.id
  BY <1>1, <1>3 DEF HandsOver, MayEnd, FrameId
<1>5. Open' = Open \cup {order.id} /\ Open \subseteq Placed
  BY <1>1 DEF Open, OpenStatuses, Placed, StackInv, TypeInv, OrdersInv
<1>6. Consistent(calls, Open') /\ \A j \in 1 .. Len(calls) :
         HandsOver(calls[j]) => FrameId(calls[j]) # order.id
  BY <1>1, <1>5 DEF StackInv, Consistent
<1>7. Consistent(<<pending>> \o calls, Open')
  BY <1>2, <1>4, <1>5, <1>6, PushKeepsConsistent
<1>8. <<pending>> \o calls \in Seq(S)
  BY <1>2, PushedFrame
<1>9. Consistent(<<created>> \o (<<pending>> \o calls), Open')
  BY <1>2, <1>4, <1>7, <1>8, PushKeepsConsistent
<1>10. calls' = <<created>> \o (<<pending>> \o calls)
  <2>1. <<created>> \in Seq(S) /\ <<pending>> \in Seq(S)
    BY <1>2
  <2>2. <<created>> \o <<pending>> = <<created, pending>>
    <3>. DEFINE both == <<created, pending>>
    <3>1. both \in Seq(S) /\ Len(both) = 2 /\ both[1] = created /\ both[2] = pending
      BY <1>2
    <3>2. /\ Len(<<pending>>) = 1 /\ <<pending>>[1] = pending
          /\ <<pending>> \in Seq(S)
      BY <1>2
    <3>. DEFINE pushed == <<created>> \o <<pending>>
    <3>3. /\ pushed \in Seq(S) /\ Len(pushed) = 2
          /\ pushed[1] = created /\ pushed[2] = pending
      BY <1>2, <3>2, PushedFrame
    <3>. HIDE DEF both, pushed
    <3>4. \A i \in 1 .. Len(pushed) : pushed[i] = both[i]
      BY <3>1, <3>3
    <3>. QED BY <3>1, <3>3, <3>4, SeqEqual DEF both, pushed
  <2>3. (<<created>> \o <<pending>>) \o calls = <<created>> \o (<<pending>> \o calls)
    BY <1>2, <2>1, ConcatAssociative
  <2>. QED BY <1>1, <2>2, <2>3 DEF created, pending
<1>11. RestedInv'
  <2>1. <<created, pending>> \in Seq(S) /\ calls' = <<created, pending>> \o calls
    BY <1>1, <1>2 DEF created, pending
  <2>2. Resting' = Resting
    BY DEF SubmitOrder, Resting
  <2>. QED BY <1>2, <1>5, <2>1, <2>2, EndedBelow DEF StackInv, RestedInv
<1>12. TypeInv'
  BY SubmitKeepsTypes DEF StackInv
<1>. QED BY <1>9, <1>10, <1>11, <1>12 DEF StackInv

LEMMA CancelKeepsStack ==
  ASSUME StackInv, NEW id \in OrderIds, CancelOrder(id)
  PROVE  StackInv'
<1>1. TypeInv' /\ id \in Placed
  BY CancelKeepsTypes DEF StackInv
<1>2. \A j \in 1 .. Len(calls) : ~HandsOver(calls[j])
  BY NothingHandedOver DEF CancelOrder, StrategyMay
<1>3. UpdateOrderStatus(id, "Cancelled", calls) /\ UNCHANGED resting_orders
      /\ "Cancelled" \in Statuses \ {"None"}
  BY DEF CancelOrder, Statuses, OverStatuses
<1>4. Consistent(calls', Open') /\ RestedInv'
  BY <1>1, <1>2, <1>3, NewStatus DEF StackInv, RestedInv, TypeInv, CallsInv
<1>. QED BY <1>1, <1>4 DEF StackInv

LEMMA ModifyKeepsStack ==
  ASSUME StackInv, NEW id \in OrderIds, NEW quantity \in Quantities, ModifyOrder(id, quantity)
  PROVE  StackInv'
<1>1. TypeInv' /\ id \in Placed
  BY ModifyKeepsTypes DEF StackInv
<1>2. PICK updated \in SnapshotsOf(Placed) :
         /\ updated.id = id
         /\ orders' = [orders EXCEPT ![id] = updated]
         /\ calls' = <<Callbacks(updated)>> \o calls
  BY ModifyKeepsTypes DEF StackInv
<1>3. \A j \in 1 .. Len(calls) : ~HandsOver(calls[j])
  BY NothingHandedOver DEF ModifyOrder, StrategyMay
<1>4. /\ Consistent(calls', Open')
      /\ \A i \in Resting : i \in Open' \/ Ended(calls', i)
  BY <1>1, <1>2, <1>3, NewVersion DEF StackInv, RestedInv, TypeInv, CallsInv
<1>5. Resting' = Resting
  BY DEF ModifyOrder, Resting
<1>. QED BY <1>1, <1>4, <1>5 DEF StackInv, RestedInv

LEMMA StrategyReturnsKeepsStack ==
  ASSUME StackInv, StrategyReturns
  PROVE  StackInv'
<1>1. TypeInv' /\ calls # << >> /\ calls' = Tail(calls)
  BY StrategyReturnsKeepsTypes DEF StackInv, StrategyReturns, Running, Return
<1>2. \A i : ~Ends(Head(calls), i)
  BY DEF StrategyReturns, Running, Ends
<1>3. Open' = Open /\ Resting' = Resting
  BY DEF StrategyReturns, Open, Resting
<1>. QED BY <1>1, <1>2, <1>3, BelowTop DEF StackInv, RestedInv

LEMMA MatchFrame ==
  ASSUME NEW ids, NEW at, NEW left
  PROVE  ~HandsOver(Match(ids, at, left)) /\ ~MayEnd(Match(ids, at, left))
BY DEF Match, HandsOver, MayEnd

\* Matching puts nothing to rest that did not rest.
LEMMA MatchKeepsStack ==
  ASSUME StackInv, MatchOrder
  PROVE  StackInv'
<1>. DEFINE frame == Head(calls)
<1>1. TypeInv' /\ calls # << >> /\ frame.op = "match"
  BY MatchKeepsTypes DEF StackInv, MatchOrder, Running
<1>2. frame \in FramesAbout(Placed)
  BY <1>1, TopFrame DEF StackInv, TypeInv
<1>3. frame.ids \subseteq Placed /\ frame.at \in Nat /\ frame.left \in Nat
  BY <1>1, <1>2, FrameForms
<1>4. PICK id \in frame.ids :
         /\ ProcessRestingOrder(id, frame.at)
         /\ calls' = <<Match(frame.ids \ {id}, frame.at, frame.left)>> \o Tail(calls)
  BY DEF MatchOrder
<1>5. \A i : ~Ends(frame, i)
  BY <1>1 DEF Ends
<1>. HIDE DEF frame
<1>. DEFINE next == Match(frame.ids \ {id}, frame.at, frame.left)
<1>6. next \in FramesAbout(Placed) /\ ~HandsOver(next) /\ ~MayEnd(next)
  <2>1. next \in FramesAbout(Placed)
    BY <1>3 DEF Match, FramesAbout
  <2>. QED BY <2>1, MatchFrame
<1>7. Open' = Open
  BY DEF MatchOrder, Open
<1>8. Resting' \subseteq Resting
  <2>1. Answers(id, Placed) /\ (id \notin Resting => UNCHANGED resting_orders)
    BY <1>3, <1>4, MatchingAnswers DEF StackInv, TypeInv, PipelineInv, Placed
  <2>. QED BY <2>1 DEF Answers, Resting
<1>. HIDE DEF next
<1>9. /\ Tail(calls) \in Seq(FramesAbout(Placed)) /\ Consistent(Tail(calls), Open)
      /\ \A i \in Resting : i \in Open \/ Ended(Tail(calls), i)
  BY <1>1, <1>5, BelowTop DEF frame
<1>10. Consistent(<<next>> \o Tail(calls), Open)
  BY <1>6, <1>9, PushKeepsConsistent
<1>11. <<next>> \in Seq(FramesAbout(Placed))
  BY <1>6
<1>12. \A i \in Resting : i \in Open \/ Ended(<<next>> \o Tail(calls), i)
  BY <1>9, <1>11, EndedBelow
<1>. QED BY <1>1, <1>4, <1>7, <1>8, <1>10, <1>12 DEF StackInv, RestedInv, next

LEMMA NextTickKeepsStack ==
  ASSUME StackInv, NextTick
  PROVE  StackInv'
<1>. DEFINE frame == Head(calls)
            next == Match(Resting, frame.at + 1, frame.left - 1)
<1>1. TypeInv' /\ calls # << >> /\ frame.op = "match"
  BY NextTickKeepsTypes DEF StackInv, NextTick, Running
<1>2. frame \in FramesAbout(Placed)
  BY <1>1, TopFrame DEF StackInv, TypeInv
<1>3. \A i : ~Ends(frame, i)
  BY <1>1 DEF Ends
<1>4. calls' = (IF frame.left > 0 THEN <<next>> ELSE << >>) \o Tail(calls)
  BY DEF NextTick
<1>5. frame.at \in Nat /\ frame.left \in Nat
  BY <1>1, <1>2, FrameForms
<1>6. ~HandsOver(next) /\ ~MayEnd(next)
  BY MatchFrame
<1>7. frame.left > 0 => next \in FramesAbout(Placed)
  <2>1. frame.left > 0 => frame.at + 1 \in Nat /\ frame.left - 1 \in Nat
    BY <1>5
  <2>. QED BY <2>1 DEF Match, FramesAbout, StackInv, TypeInv, PipelineInv
<1>8. Open' = Open /\ Resting' = Resting
  BY DEF NextTick, Open, Resting
<1>9. /\ Tail(calls) \in Seq(FramesAbout(Placed)) /\ Consistent(Tail(calls), Open)
      /\ \A i \in Resting : i \in Open \/ Ended(Tail(calls), i)
  BY <1>1, <1>3, BelowTop
<1>. HIDE DEF frame, next
<1>10. CASE frame.left > 0
  <2>1. <<next>> \in Seq(FramesAbout(Placed)) /\ calls' = <<next>> \o Tail(calls)
    <3>1. next \in FramesAbout(Placed)
      BY <1>7, <1>10
    <3>2. <<next>> \in Seq(FramesAbout(Placed))
      BY <3>1
    <3>3. (IF frame.left > 0 THEN <<next>> ELSE << >>) = <<next>>
      BY <1>10
    <3>. QED BY <1>4, <3>2, <3>3
  <2>2. Consistent(calls', Open)
    BY <1>6, <1>7, <1>9, <1>10, <2>1, PushKeepsConsistent
  <2>3. \A i \in Resting : i \in Open \/ Ended(calls', i)
    BY <1>9, <2>1, EndedBelow
  <2>. QED BY <1>1, <1>8, <2>2, <2>3 DEF StackInv, RestedInv
<1>11. CASE ~(frame.left > 0)
  <2>1. calls' = Tail(calls)
    BY <1>4, <1>9, <1>11, ConcatEmptySeq
  <2>. QED BY <1>1, <1>8, <1>9, <2>1 DEF StackInv, RestedInv
<1>. QED BY <1>10, <1>11

\* The callbacks of an order that is over take it out of the pipeline; those of a
\* Pending one are followed by the frame that hands it over.
LEMMA RunCallbacksKeepsStack ==
  ASSUME StackInv, RunCallbacks, UpdateOps \subseteq {"submit"}
  PROVE  StackInv'
<1>. DEFINE frame == Head(calls)
            order == frame.order
            below == Tail(calls)
            handed == IF order.status = "Pending" THEN <<Accept(order)>> ELSE << >>
            S == FramesAbout(Placed)
<1>1. TypeInv' /\ calls # << >> /\ frame.op = "callbacks"
  BY RunCallbacksKeepsTypes DEF StackInv, RunCallbacks, Running
<1>2. frame \in S
  BY <1>1, TopFrame DEF StackInv, TypeInv
<1>3. order \in SnapshotsOf(Placed)
  BY <1>1, <1>2, FrameForms
<1>4. /\ OnOrderUpdate(order)
      /\ calls' = Strategy(UpdateOps) \o handed \o below
  BY DEF RunCallbacks
<1>5. /\ below \in Seq(S) /\ Consistent(below, Open)
      /\ \A i \in Resting : i \in Open \/ Ends(frame, i) \/ Ended(below, i)
  BY <1>1, BelowTop
<1>6. order.status = "Pending" =>
         /\ order.id \in Open
         /\ \A j \in 1 .. Len(below) : HandsOver(below[j]) => order.id # FrameId(below[j])
  <2>1. order.status = "Pending" => HandsOver(frame) /\ FrameId(frame) = order.id
    BY <1>1 DEF HandsOver, FrameId
  <2>2. calls \in Seq(S)
    BY DEF StackInv, TypeInv, CallsInv
  <2>. QED BY <1>1, <2>1, <2>2, PopKeepsConsistent DEF StackInv
<1>7. /\ Accept(order) \in S /\ handed \in Seq(S)
      /\ HandsOver(Accept(order)) /\ ~MayEnd(Accept(order))
      /\ FrameId(Accept(order)) = order.id
  BY <1>3, CallbacksType DEF Accept, HandsOver, MayEnd, FrameId
<1>8. \A i : Ends(frame, i) => order.id = i /\ order.status \in OverStatuses
  BY DEF Ends
<1>. HIDE DEF below, order, frame, S
<1>9. handed \o below \in Seq(S) /\ Consistent(handed \o below, Open)
  <2>1. CASE order.status = "Pending"
    BY <1>5, <1>6, <1>7, <2>1, PushKeepsConsistent, PushedFrame
  <2>2. CASE order.status # "Pending"
    BY <1>5, <2>2, ConcatEmptySeq
  <2>. QED BY <2>1, <2>2
<1>10. Strategy(UpdateOps) \in Seq(S)
  BY StrategyType, BacktestAssumption DEF S
<1>11. calls' = Strategy(UpdateOps) \o (handed \o below)
  <2>. DEFINE first == Strategy(UpdateOps)
  <2>1. first \in Seq(S) /\ handed \in Seq(S) /\ below \in Seq(S)
    BY <1>5, <1>7, <1>10
  <2>. HIDE DEF first, handed
  <2>2. (first \o handed) \o below = first \o (handed \o below)
    BY <2>1, ConcatAssociative
  <2>. QED BY <1>4, <2>2 DEF first
<1>12. Consistent(calls', Open)
  BY <1>9, <1>11, CallKeepsConsistent, BacktestAssumption DEF S
<1>13. Open' = Open
  BY DEF RunCallbacks, Open
<1>14. Resting' \subseteq Resting /\ \A i \in Resting' : ~Ends(frame, i)
  <2>1. order.id \in OrderIds
    BY <1>3 DEF SnapshotsOf, Snapshot
  <2>2. resting_orders \in [OrderIds -> RestingState]
    BY DEF StackInv, TypeInv, PipelineInv
  <2>. QED BY <1>4, <1>8, <2>1, <2>2 DEF OnOrderUpdate, Erase, Rest, Resting
<1>15. \A i \in Resting' : i \in Open \/ Ended(calls', i)
  BY <1>5, <1>7, <1>9, <1>10, <1>11, <1>14, EndedBelow
<1>. QED BY <1>1, <1>12, <1>13, <1>15 DEF StackInv, RestedInv

\* What is handed over is open.
LEMMA AcceptKeepsStack ==
  ASSUME StackInv, AcceptOrder
  PROVE  StackInv'
<1>. DEFINE frame == Head(calls)
            order == frame.order
<1>1. TypeInv' /\ calls # << >> /\ frame.op = "accept" /\ calls' = Tail(calls)
  BY AcceptKeepsTypes DEF StackInv, AcceptOrder, Running, Return
<1>2. frame \in FramesAbout(Placed)
  BY <1>1, TopFrame DEF StackInv, TypeInv
<1>3. order \in SnapshotsOf(Placed)
  BY <1>1, <1>2, FrameForms
<1>4. HandsOver(frame) /\ FrameId(frame) = order.id /\ \A i : ~Ends(frame, i)
  BY <1>1 DEF HandsOver, FrameId, Ends
<1>5. order.id \in Open
  <2>1. calls \in Seq(FramesAbout(Placed))
    BY DEF StackInv, TypeInv, CallsInv
  <2>. QED BY <1>1, <1>4, <2>1, PopKeepsConsistent DEF StackInv
<1>6. Resting' \subseteq Resting \cup {order.id}
  <2>1. OnOrderSubmitted(order)
    BY DEF AcceptOrder, OnOrderSubmitted
  <2>2. Answers(order.id, Placed)
    BY <1>3, <2>1, SubmissionAnswers DEF StackInv, TypeInv, PipelineInv, ClockInv, Placed
  <2>. QED BY <2>2 DEF Answers, Resting
<1>7. Open' = Open
  BY DEF AcceptOrder, Open
<1>8. /\ Consistent(calls', Open)
      /\ \A i \in Resting : i \in Open \/ Ended(calls', i)
  BY <1>1, <1>4, BelowTop
<1>. HIDE DEF order, frame
<1>. QED BY <1>1, <1>5, <1>6, <1>7, <1>8 DEF StackInv, RestedInv

\* The order that is refused is handed over by no other frame.
LEMMA RefuseKeepsStack ==
  ASSUME StackInv, RefuseOrder
  PROVE  StackInv'
<1>. DEFINE frame == Head(calls)
            id == frame.order.id
            below == Tail(calls)
<1>1. TypeInv' /\ calls # << >> /\ frame.op = "accept"
  BY RefuseKeepsTypes DEF StackInv, RefuseOrder, Running
<1>2. frame \in FramesAbout(Placed)
  BY <1>1, TopFrame DEF StackInv, TypeInv
<1>3. id \in Placed
  BY <1>1, <1>2, FrameForms DEF SnapshotsOf
<1>4. HandsOver(frame) /\ FrameId(frame) = id /\ \A i : ~Ends(frame, i)
  BY <1>1 DEF HandsOver, FrameId, Ends
<1>5. \A j \in 1 .. Len(below) : HandsOver(below[j]) => FrameId(below[j]) # id
  <2>1. calls \in Seq(FramesAbout(Placed))
    BY DEF StackInv, TypeInv, CallsInv
  <2>. QED BY <1>1, <1>4, <2>1, PopKeepsConsistent DEF StackInv
<1>6. /\ below \in Seq(FramesAbout(Placed)) /\ Consistent(below, Open)
      /\ \A i \in Resting : i \in Open \/ Ended(below, i)
  BY <1>1, <1>4, BelowTop
<1>7. /\ UpdateOrderStatus(id, "Rejected", below) /\ UNCHANGED resting_orders
      /\ "Rejected" \in Statuses \ {"None"}
  BY DEF RefuseOrder, Statuses, OverStatuses
<1>. HIDE DEF id, below
<1>8. Consistent(calls', Open') /\ RestedInv'
  BY <1>3, <1>5, <1>6, <1>7, NewStatus DEF StackInv
<1>. QED BY <1>1, <1>8 DEF StackInv

LEMMA SubmittedKeepsStack ==
  ASSUME StackInv, SubmittedIsPending
  PROVE  StackInv'
<1>. DEFINE frame == Head(calls)
            id == frame.id
            below == Tail(calls)
<1>1. TypeInv' /\ calls # << >> /\ frame.op = "pending"
  BY SubmittedKeepsTypes DEF StackInv, SubmittedIsPending, Running
<1>2. frame \in FramesAbout(Placed)
  BY <1>1, TopFrame DEF StackInv, TypeInv
<1>3. id \in Placed
  BY <1>1, <1>2, FrameForms
<1>4. HandsOver(frame) /\ FrameId(frame) = id /\ \A i : ~Ends(frame, i)
  BY <1>1 DEF HandsOver, FrameId, Ends
<1>5. \A j \in 1 .. Len(below) : HandsOver(below[j]) => FrameId(below[j]) # id
  <2>1. calls \in Seq(FramesAbout(Placed))
    BY DEF StackInv, TypeInv, CallsInv
  <2>. QED BY <1>1, <1>4, <2>1, PopKeepsConsistent DEF StackInv
<1>6. /\ below \in Seq(FramesAbout(Placed)) /\ Consistent(below, Open)
      /\ \A i \in Resting : i \in Open \/ Ended(below, i)
  BY <1>1, <1>4, BelowTop
<1>7. /\ UpdateOrderStatus(id, "Pending", below) /\ UNCHANGED resting_orders
      /\ "Pending" \in Statuses \ {"None"}
  BY DEF SubmittedIsPending, Statuses
<1>. HIDE DEF id, below
<1>8. Consistent(calls', Open') /\ RestedInv'
  BY <1>3, <1>5, <1>6, <1>7, NewStatus DEF StackInv
<1>. QED BY <1>1, <1>8 DEF StackInv

\* An event is handled when nothing is left of the last one.
LEMMA NoCalls ==
  ASSUME StackInv, Dispatching
  PROVE  /\ calls = << >> /\ << >> \in Seq(FramesAbout(Placed))
         /\ \A open : Consistent(<< >>, open)
         /\ \A j \in 1 .. Len(<< >>) : FALSE
         /\ \A i \in Resting : i \in Open
<1>1. 1 .. Len(<< >>) = {}
  BY EmptySeq
<1>. QED BY <1>1 DEF Dispatching, Consistent, StackInv, RestedInv, Ended

LEMMA HandleMarketKeepsStack ==
  ASSUME StackInv, HandleMarket
  PROVE  StackInv'
<1>. DEFINE at == Head(event_queue).time
            frame == Match(Resting, at, Head(event_queue).lots - 1)
            S == FramesAbout(Placed)
<1>1. TypeInv'
  BY HandleMarketKeepsTypes DEF StackInv
<1>2. calls' = <<frame>> \o Strategy(MarketOps)
  BY DEF HandleMarket
<1>3. frame \in S
  <2>1. at \in Nat /\ Head(event_queue).lots \in Nat \ {0}
    BY HeadEvent DEF HandleMarket, StackInv
  <2>2. Head(event_queue).lots - 1 \in Nat
    BY <2>1
  <2>. QED BY <2>1, <2>2 DEF Match, FramesAbout, StackInv, TypeInv, PipelineInv
<1>4. ~HandsOver(frame) /\ ~MayEnd(frame)
  BY MatchFrame
<1>5. Open' = Open /\ Resting' = Resting
  BY DEF HandleMarket, Open, Resting
<1>. HIDE DEF frame, S
<1>6. /\ << >> \in Seq(S) /\ Consistent(<< >>, Open)
      /\ \A j \in 1 .. Len(<< >>) : FALSE
      /\ \A i \in Resting : i \in Open
  BY NoCalls DEF HandleMarket, S
<1>7. Strategy(MarketOps) \in Seq(S)
  BY StrategyType, BacktestAssumption DEF S
<1>8. Consistent(Strategy(MarketOps) \o << >>, Open)
  BY <1>6, CallKeepsConsistent, BacktestAssumption DEF S
<1>9. Strategy(MarketOps) \o << >> = Strategy(MarketOps)
  BY <1>7, ConcatEmptySeq
<1>10. Consistent(calls', Open)
  BY <1>2, <1>3, <1>4, <1>7, <1>8, <1>9, PushKeepsConsistent
<1>. QED BY <1>1, <1>5, <1>6, <1>10 DEF StackInv, RestedInv

LEMMA HandleFillKeepsStack ==
  ASSUME StackInv, HandleFill
  PROVE  StackInv'
<1>. DEFINE S == FramesAbout(Placed)
<1>1. PICK updated \in SnapshotsOf(Placed) :
         /\ updated.status \in {"Filled", "PartiallyFilled"}
         /\ orders' = [orders EXCEPT ![updated.id] = updated]
         /\ calls' = Strategy(FillOps) \o <<Callbacks(updated)>>
  BY HandleFillKeepsTypes DEF StackInv
<1>. DEFINE frame == Callbacks(updated)
<1>2. TypeInv'
  BY HandleFillKeepsTypes DEF StackInv
<1>3. updated.id \in Placed
  BY DEF SnapshotsOf
<1>4. /\ << >> \in Seq(S) /\ Consistent(<< >>, Open)
      /\ \A j \in 1 .. Len(<< >>) : FALSE
      /\ \A i \in Resting : i \in Open
  BY NoCalls DEF HandleFill
<1>5. frame \in S /\ ~HandsOver(frame)
  BY <1>1, CallbacksType DEF HandsOver, Callbacks
<1>6. /\ <<frame>> \o << >> \in Seq(S)
      /\ Consistent(<<frame>> \o << >>, Open')
      /\ \A i \in Resting : i \in Open' \/ Ended(<<frame>> \o << >>, i)
  BY <1>1, <1>3, <1>4, NewVersion DEF StackInv
<1>. HIDE DEF frame
<1>7. <<frame>> \o << >> = <<frame>> /\ <<frame>> \in Seq(S)
      /\ Len(<<frame>>) = 1 /\ <<frame>>[1] = frame
  BY <1>5, ConcatEmptySeq
<1>8. \A j \in 1 .. Len(<<frame>>) : ~HandsOver(<<frame>>[j])
  BY <1>5, <1>7
<1>. DEFINE stack == <<frame>>
<1>. HIDE DEF stack
<1>9. /\ stack \in Seq(S) /\ Consistent(stack, Open')
      /\ \A j \in 1 .. Len(stack) : ~HandsOver(stack[j])
      /\ \A i \in Resting : i \in Open' \/ Ended(stack, i)
  BY <1>6, <1>7, <1>8 DEF stack
<1>10. Consistent(Strategy(FillOps) \o stack, Open')
  BY <1>9, CallKeepsConsistent, BacktestAssumption
<1>11. Strategy(FillOps) \in Seq(S)
  BY StrategyType, BacktestAssumption
<1>. HIDE DEF S
<1>12. \A i \in Resting : i \in Open' \/ Ended(Strategy(FillOps) \o stack, i)
  BY <1>9, <1>11, EndedBelow
<1>13. Resting' = Resting
  BY DEF HandleFill, Resting
<1>14. calls' = Strategy(FillOps) \o stack
  BY <1>1 DEF stack, frame
<1>. QED BY <1>2, <1>10, <1>12, <1>13, <1>14 DEF StackInv, RestedInv

LEMMA HandleStatusKeepsStack ==
  ASSUME StackInv, HandleStatus
  PROVE  StackInv'
<1>. DEFINE event == Head(event_queue)
<1>1. TypeInv' /\ event.id \in Placed
  BY HandleStatusKeepsTypes DEF StackInv
<1>2. /\ << >> \in Seq(FramesAbout(Placed)) /\ Consistent(<< >>, Open)
      /\ \A j \in 1 .. Len(<< >>) : FALSE
      /\ \A i \in Resting : i \in Open
  BY NoCalls DEF HandleStatus
<1>3. /\ UpdateOrderStatus(event.id, StatusOf(event.kind), << >>)
      /\ UNCHANGED resting_orders /\ event.kind \in {"Cancel", "Reject", "Update"}
  BY DEF HandleStatus
<1>. HIDE DEF event
<1>4. StatusOf(event.kind) \in Statuses \ {"None"}
  BY <1>3 DEF StatusOf, Statuses, OverStatuses
<1>5. Consistent(calls', Open') /\ RestedInv'
  BY <1>1, <1>2, <1>3, <1>4, NewStatus DEF StackInv
<1>. QED BY <1>1, <1>5 DEF StackInv

LEMMA StackAtStart ==
  ASSUME Init
  PROVE  StackInv
<1>1. TypeInv /\ Resting = {}
  BY TypesAtStart DEF Init, Resting
<1>. DEFINE S == FramesAbout(Placed)
<1>2. << >> \in Seq(S) /\ 1 .. Len(<< >>) = {}
  BY EmptySeq
<1>3. Consistent(<< >>, Open)
  BY <1>2 DEF Consistent
<1>4. Consistent(Strategy(StartOps) \o << >>, Open)
  BY <1>2, <1>3, CallKeepsConsistent, BacktestAssumption
<1>5. Strategy(StartOps) \in Seq(S)
  BY StrategyType, BacktestAssumption
<1>6. Strategy(StartOps) \o << >> = calls
  BY <1>5, ConcatEmptySeq DEF Init
<1>. QED BY <1>1, <1>4, <1>6 DEF StackInv, RestedInv

LEMMA StackStep ==
  ASSUME StackInv, [Next]_vars, UpdateOps \subseteq {"submit"}
  PROVE  StackInv'
<1>1. CASE UNCHANGED vars
  <2>1. TypeInv'
    BY <1>1, TypesStep DEF StackInv
  <2>. QED BY <1>1, <2>1 DEF vars, StackInv, RestedInv, Open, Resting
<1>2. ASSUME NEW plan \in Plans, SubmitOrder(plan) PROVE StackInv'
  BY <1>2, SubmitKeepsStack
<1>3. ASSUME NEW id \in OrderIds, CancelOrder(id) PROVE StackInv'
  BY <1>3, CancelKeepsStack
<1>4. ASSUME NEW id \in OrderIds, NEW quantity \in Quantities, ModifyOrder(id, quantity)
      PROVE  StackInv'
  BY <1>4, ModifyKeepsStack
<1>5. CASE StrategyReturns
  BY <1>5, StrategyReturnsKeepsStack
<1>6. CASE RunCallbacks
  BY <1>6, RunCallbacksKeepsStack
<1>7. CASE AcceptOrder
  BY <1>7, AcceptKeepsStack
<1>8. CASE RefuseOrder
  BY <1>8, RefuseKeepsStack
<1>9. CASE SubmittedIsPending
  BY <1>9, SubmittedKeepsStack
<1>10. CASE MatchOrder
  BY <1>10, MatchKeepsStack
<1>11. CASE NextTick
  BY <1>11, NextTickKeepsStack
<1>12. CASE HandleMarket
  BY <1>12, HandleMarketKeepsStack
<1>13. CASE HandleFill
  BY <1>13, HandleFillKeepsStack
<1>14. CASE HandleStatus
  BY <1>14, HandleStatusKeepsStack
<1>. QED
  BY <1>1, <1>2, <1>3, <1>4, <1>5, <1>6, <1>7, <1>8, <1>9, <1>10, <1>11, <1>12, <1>13, <1>14
  DEF Next

\* Between two events the pipeline keeps only orders that are open, whatever the
\* strategy does on market data and fills, and if it does no more than submit
\* orders in on_order_update(): no later market update executes an order that is
\* over.  (A strategy that cancels there is the case that breaks it: see the README.)
THEOREM RestingOrdersAreOpen ==
  UpdateOps \subseteq {"submit"} => (Spec => []RestingIsOpen)
<1>. SUFFICES ASSUME UpdateOps \subseteq {"submit"} PROVE Spec => []RestingIsOpen
  OBVIOUS
<1>1. Init => StackInv
  BY StackAtStart
<1>2. StackInv /\ [Next]_vars => StackInv'
  BY StackStep
<1>3. StackInv => RestingIsOpen
  <2>1. 1 .. Len(<< >>) = {}
    BY EmptySeq
  <2>. QED BY <2>1 DEF StackInv, RestedInv, Ended, RestingIsOpen, Idle
<1>. QED BY <1>1, <1>2, <1>3, PTL DEF Spec

\* With such a strategy, order table, event queue and resting orders fit together
\* at every moment.
THEOREM BacktestOrdersAreConsistent ==
  UpdateOps \subseteq {"submit"} => (Spec => []OrdersAreConsistent)
<1>1. TypeOK /\ RestingIsOpen => OrdersAreConsistent
  BY DEF OrdersAreConsistent
<1>. QED BY <1>1, TypeCorrect, RestingOrdersAreOpen, PTL

-----------------------------------------------------------------------------
(***************************************************************************)
(* Why orders are worked on, and their lots conserved.  Of the events of   *)
(* an order on their way count the lots of its fills, and whether another  *)
(* event of it comes after them: that event ends the order in the order    *)
(* table or makes it Pending again, whatever the fills leave of it.        *)
(***************************************************************************)
Closes(event, id) == event.id = id /\ event.kind # "Fill"
Closing(queue, id) == \E i \in 1 .. Len(queue) : Closes(queue[i], id)
Closed(queue, id) ==
    \A i \in 1 .. Len(queue) :
        Fills(queue[i], id) => \E j \in (i + 1) .. Len(queue) : Closes(queue[j], id)
Filling(queue, id) == \E i \in 1 .. Len(queue) : Fills(queue[i], id)
Heard(queue, id) == \E i \in 1 .. Len(queue) : queue[i].id = id

Lots(queue, id) ==
    [i \in 1 .. Len(queue) |-> IF Fills(queue[i], id) THEN queue[i].lots ELSE 0]

-----------------------------------------------------------------------------
(* Queues of events.                                                       *)

LEMMA EventForms ==
  ASSUME NEW ids, NEW event \in EventsAbout(ids)
  PROVE  /\ event.lots \in Nat
         /\ event.kind \in OrderEventKinds => event.id \in ids
         /\ event.kind \notin OrderEventKinds => event.kind = "Market" /\ event.id = 0
<1>1. CASE event \in [time : Nat, priority : {kMarketPriority}, kind : {"Market"}, id : {0},
                      lots : Nat \ {0}]
  BY <1>1 DEF OrderEventKinds
<1>2. CASE event \in [time : Nat, priority : {kOrderPriority}, kind : OrderEventKinds,
                      id : ids, lots : Nat]
  BY <1>2
<1>. QED BY <1>1, <1>2 DEF EventsAbout

LEMMA LotsType ==
  ASSUME NEW ids, NEW queue \in Seq(EventsAbout(ids)), NEW id
  PROVE  /\ Len(queue) \in Nat
         /\ Lots(queue, id) \in Seq(Nat) /\ Lots(queue, id) \in Seq(Int)
         /\ Len(Lots(queue, id)) = Len(queue)
         /\ LotsOf(queue, id) = SumOf(Lots(queue, id))
         /\ LotsOf(queue, id) \in Nat
<1>1. Len(queue) \in Nat
  BY LenProperties
<1>2. \A i \in 1 .. Len(queue) : queue[i].lots \in Nat
  BY ElementOfSeq, EventForms
<1>3. Lots(queue, id) \in [1 .. Len(queue) -> Nat]
  BY <1>2 DEF Lots
<1>4. Lots(queue, id) \in Seq(Nat)
  BY <1>1, <1>3, SeqDef
<1>5. Lots(queue, id) \in Seq(Int)
  BY <1>4, SeqMonotonic
<1>6. LotsOf(queue, id) = SumOf(Lots(queue, id))
  BY DEF LotsOf, Lots
<1>7. Len(Lots(queue, id)) = Len(queue)
  <2>1. DOMAIN Lots(queue, id) = 1 .. Len(queue)
    BY DEF Lots
  <2>. QED BY <1>1, <1>4, <2>1, LenProperties
<1>. QED BY <1>1, <1>4, <1>5, <1>6, <1>7, SumOfNaturals

LEMMA LotsOfConcat ==
  ASSUME NEW ids, NEW q \in Seq(EventsAbout(ids)), NEW r \in Seq(EventsAbout(ids)), NEW id
  PROVE  LotsOf(q \o r, id) = LotsOf(q, id) + LotsOf(r, id)
<1>. DEFINE p == q \o r
<1>1. /\ p \in Seq(EventsAbout(ids)) /\ Len(p) = Len(q) + Len(r)
      /\ \A i \in 1 .. Len(q) + Len(r) : p[i] = IF i <= Len(q) THEN q[i] ELSE r[i - Len(q)]
  BY ConcatProperties
<1>. HIDE DEF p
<1>2. /\ Len(q) \in Nat /\ Len(r) \in Nat
      /\ Lots(q, id) \in Seq(Int) /\ Len(Lots(q, id)) = Len(q)
      /\ Lots(r, id) \in Seq(Int) /\ Len(Lots(r, id)) = Len(r)
      /\ Lots(p, id) \in Seq(Int) /\ Len(Lots(p, id)) = Len(q) + Len(r)
  BY <1>1, LotsType
<1>. DEFINE a == Lots(q, id)
            b == Lots(r, id)
            c == Lots(p, id)
<1>. HIDE DEF a, b, c
<1>3. /\ a \o b \in Seq(Int) /\ Len(a \o b) = Len(q) + Len(r)
      /\ \A i \in 1 .. Len(q) + Len(r) :
            (a \o b)[i] = IF i <= Len(q) THEN a[i] ELSE b[i - Len(q)]
  BY <1>2, ConcatProperties, SMTT(30) DEF a, b
<1>4. ASSUME NEW i \in 1 .. Len(q) + Len(r) PROVE c[i] = (a \o b)[i]
  <2>1. c[i] = IF Fills(p[i], id) THEN p[i].lots ELSE 0
    BY <1>1 DEF c, Lots
  <2>2. CASE i <= Len(q)
    <3>1. i \in 1 .. Len(q) /\ p[i] = q[i] /\ (a \o b)[i] = a[i]
      BY <1>1, <1>2, <1>3, <2>2
    <3>. QED BY <2>1, <3>1 DEF a, Lots
  <2>3. CASE ~(i <= Len(q))
    <3>1. i - Len(q) \in 1 .. Len(r)
      BY <1>2, <2>3
    <3>2. p[i] = r[i - Len(q)] /\ (a \o b)[i] = b[i - Len(q)]
      BY <1>1, <1>3, <2>3
    <3>. QED BY <2>1, <3>1, <3>2 DEF b, Lots
  <2>. QED BY <2>2, <2>3
<1>5. c = a \o b
  BY <1>2, <1>3, <1>4, SeqEqual DEF c
<1>6. SumOf(c) = SumOf(a) + SumOf(b)
  BY <1>2, <1>5, SumOfConcat DEF a, b
<1>. QED BY <1>1, <1>6, LotsType DEF a, b, c, p

\* The events of one that is pushed are found after those of another: a queue falls
\* into two parts, and what is pushed goes between them.
Splits(queue, batch, S) ==
    \E before \in Seq(S) : \E after \in Seq(S) :
        queue = before \o after /\ Push(queue, batch) = before \o batch \o after

LEMMA PushSplits ==
  ASSUME NEW S, NEW queue \in Seq(S), NEW batch \in Seq(S)
  PROVE  Splits(queue, batch, S)
<1>1. CASE batch = << >>
  <2>1. << >> \in Seq(S) /\ queue \o << >> = queue /\ (queue \o << >>) \o << >> = queue
    BY ConcatEmptySeq
  <2>2. Push(queue, batch) = queue
    BY <1>1 DEF Push
  <2>. QED BY <1>1, <2>1, <2>2 DEF Splits
<1>2. CASE batch # << >>
  <2>. DEFINE earlier == {i \in 1 .. Len(queue) : Before(queue[i], batch[1])}
              first == Cardinality(earlier)
  <2>1. Len(queue) \in Nat
    BY LenProperties
  <2>2. first \in 0 .. Len(queue)
    <3>. DEFINE n == Len(queue)
    <3>. HIDE DEF n
    <3>1. IsFiniteSet(1 .. n) /\ Cardinality(1 .. n) = IF 1 > n THEN 0 ELSE n - 1 + 1
      <4>1. 1 \in Int /\ n \in Int
        BY <2>1 DEF n
      <4>. QED BY <4>1, FS_Interval
    <3>2. IsFiniteSet(1 .. n) /\ Cardinality(1 .. n) = n
      BY <2>1, <3>1 DEF n
    <3>3. IsFiniteSet(earlier) /\ first <= Len(queue)
      BY <3>2, FS_Subset DEF n
    <3>. QED BY <2>1, <3>3, FS_CardinalityType
  <2>3. Push(queue, batch) =
           SubSeq(queue, 1, first) \o batch \o SubSeq(queue, first + 1, Len(queue))
    BY <1>2 DEF Push
  <2>. HIDE DEF first
  <2>4. \A i \in 1 .. Len(queue) : queue[i] \in S
    BY ElementOfSeq
  <2>5. /\ SubSeq(queue, 1, first) \in Seq(S)
        /\ SubSeq(queue, first + 1, Len(queue)) \in Seq(S)
    BY <2>1, <2>2, <2>4, SubSeqProperties
  <2>6. SubSeq(queue, 1, first) \o SubSeq(queue, first + 1, Len(queue)) = queue
    <3>. DEFINE n == Len(queue)
    <3>. HIDE DEF n
    <3>1. 1 \in 1 .. n + 1 /\ first \in (1 - 1) .. n /\ n \in first .. n
      BY <2>1, <2>2 DEF n
    <3>2. SubSeq(queue, 1, first) \o SubSeq(queue, first + 1, n) = SubSeq(queue, 1, n)
      BY <3>1, ConcatAdjacentSubSeq DEF n
    <3>. QED BY <3>2, SubSeqFull DEF n
  <2>. QED BY <2>3, <2>5, <2>6 DEF Splits
<1>. QED BY <1>1, <1>2

\* So every event of the queue is found again, in its order.
LEMMA PushPlaces ==
  ASSUME NEW S, NEW queue \in Seq(S), NEW batch \in Seq(S)
  PROVE  LET pushed == Push(queue, batch)
             n == Len(queue)
             m == Len(batch)
         IN  /\ n \in Nat /\ m \in Nat /\ pushed \in Seq(S) /\ Len(pushed) = n + m
             /\ \E k \in 0 .. n :
                   \A i \in 1 .. n + m :
                      pushed[i] = IF i <= k THEN queue[i]
                                  ELSE IF i <= k + m THEN batch[i - k] ELSE queue[i - m]
<1>. DEFINE pushed == Push(queue, batch)
            n == Len(queue)
            m == Len(batch)
<1>0. PICK before \in Seq(S) : \E tail \in Seq(S) :
         queue = before \o tail /\ pushed = before \o batch \o tail
  <2>1. Splits(queue, batch, S)
    BY PushSplits
  <2>. QED BY <2>1 DEF Splits
<1>1. PICK after \in Seq(S) : queue = before \o after /\ pushed = before \o batch \o after
  BY <1>0
<1>. DEFINE k == Len(before)
            l == Len(after)
            half == before \o batch
<1>2. k \in Nat /\ l \in Nat /\ m \in Nat /\ n \in Nat
  BY LenProperties
<1>3. /\ n = k + l
      /\ \A i \in 1 .. k + l : queue[i] = IF i <= k THEN before[i] ELSE after[i - k]
  BY <1>1, ConcatProperties
<1>4. /\ half \in Seq(S) /\ Len(half) = k + m
      /\ \A i \in 1 .. k + m : half[i] = IF i <= k THEN before[i] ELSE batch[i - k]
  BY ConcatProperties
<1>5. pushed = half \o after
  BY <1>1
<1>. HIDE DEF half, pushed, n, k, l, m
<1>6. /\ pushed \in Seq(S) /\ Len(pushed) = (k + m) + l
      /\ \A i \in 1 .. (k + m) + l :
            pushed[i] = IF i <= k + m THEN half[i] ELSE after[i - (k + m)]
  <2>. DEFINE whole == half \o after
  <2>1. /\ whole \in Seq(S) /\ Len(whole) = Len(half) + Len(after)
        /\ \A i \in 1 .. Len(half) + Len(after) :
              whole[i] = IF i <= Len(half) THEN half[i] ELSE after[i - Len(half)]
    BY <1>4, ConcatProperties
  <2>. HIDE DEF whole
  <2>. QED BY <1>4, <1>5, <2>1 DEF l, whole
<1>7. ASSUME NEW i \in 1 .. n + m
      PROVE  pushed[i] = IF i <= k THEN queue[i]
                         ELSE IF i <= k + m THEN batch[i - k] ELSE queue[i - m]
  <2>0. i \in 1 .. (k + m) + l
    BY <1>2, <1>3
  <2>1. CASE i <= k
    <3>1. i \in 1 .. k + l /\ i \in 1 .. k + m /\ i <= k + m
      BY <1>2, <2>1
    <3>2. pushed[i] = half[i] /\ half[i] = before[i] /\ queue[i] = before[i]
      BY <1>3, <1>4, <1>6, <2>0, <2>1, <3>1
    <3>. QED BY <2>1, <3>2
  <2>2. CASE ~(i <= k) /\ i <= k + m
    <3>1. i \in 1 .. k + m
      BY <1>2, <2>2
    <3>. QED BY <1>4, <1>6, <2>0, <2>2, <3>1
  <2>3. CASE ~(i <= k + m)
    <3>1. i - m \in 1 .. k + l /\ ~(i - m <= k) /\ (i - m) - k = i - (k + m) /\ ~(i <= k)
      BY <1>2, <1>3, <2>3
    <3>2. pushed[i] = after[i - (k + m)]
      BY <1>6, <2>0, <2>3
    <3>3. queue[i - m] = after[i - (k + m)]
      BY <1>3, <3>1
    <3>. QED BY <2>3, <3>1, <3>2, <3>3
  <2>. QED BY <2>1, <2>2, <2>3
<1>8. k \in 0 .. n /\ Len(pushed) = n + m
  BY <1>2, <1>3, <1>6
<1>. QED BY <1>2, <1>6, <1>7, <1>8 DEF pushed, n, m

LEMMA LotsOfPush ==
  ASSUME NEW ids, NEW queue \in Seq(EventsAbout(ids)), NEW batch \in Seq(EventsAbout(ids)),
         NEW id
  PROVE  LotsOf(Push(queue, batch), id) = LotsOf(queue, id) + LotsOf(batch, id)
<1>. DEFINE S == EventsAbout(ids)
<1>0. PICK before \in Seq(S) : \E tail \in Seq(S) :
         queue = before \o tail /\ Push(queue, batch) = before \o batch \o tail
  <2>1. Splits(queue, batch, S)
    BY PushSplits
  <2>. QED BY <2>1 DEF Splits
<1>1. PICK after \in Seq(S) :
         queue = before \o after /\ Push(queue, batch) = before \o batch \o after
  BY <1>0
<1>2. before \o batch \in Seq(S)
  BY ConcatProperties
<1>3. LotsOf(queue, id) = LotsOf(before, id) + LotsOf(after, id)
  BY <1>1, LotsOfConcat
<1>4. LotsOf(before \o batch, id) = LotsOf(before, id) + LotsOf(batch, id)
  BY LotsOfConcat
<1>5. LotsOf((before \o batch) \o after, id) = LotsOf(before \o batch, id) + LotsOf(after, id)
  BY <1>2, LotsOfConcat
<1>6. LotsOf(before, id) \in Nat /\ LotsOf(batch, id) \in Nat /\ LotsOf(after, id) \in Nat
  BY LotsType
<1>. QED BY <1>1, <1>3, <1>4, <1>5, <1>6

\* The first event is handled.
LEMMA LotsOfTail ==
  ASSUME NEW ids, NEW queue \in Seq(EventsAbout(ids)), queue # << >>, NEW id
  PROVE  LotsOf(queue, id) =
            (IF Fills(Head(queue), id) THEN Head(queue).lots ELSE 0) + LotsOf(Tail(queue), id)
<1>. DEFINE q == Lots(queue, id)
            r == Lots(Tail(queue), id)
            n == Len(queue)
<1>1. /\ Head(queue) \in EventsAbout(ids) /\ Head(queue) = queue[1]
      /\ Tail(queue) \in Seq(EventsAbout(ids)) /\ Len(Tail(queue)) = n - 1
      /\ \A i \in 1 .. Len(Tail(queue)) : Tail(queue)[i] = queue[i + 1]
  BY HeadTailProperties
<1>2. /\ q \in Seq(Int) /\ Len(q) = n /\ LotsOf(queue, id) = SumOf(q)
      /\ n \in Nat
  BY LotsType, SMTT(30)
<1>3. /\ r \in Seq(Int) /\ Len(r) = n - 1 /\ LotsOf(Tail(queue), id) = SumOf(r)
  BY <1>1, LotsType
<1>4. n >= 1 /\ n \in Nat
  BY EmptySeq
<1>5. q[1] = (IF Fills(Head(queue), id) THEN Head(queue).lots ELSE 0)
  BY <1>1, <1>4 DEF Lots
<1>6. ASSUME NEW j \in 1 .. n - 1 PROVE r[j] = q[j + 1]
  <2>1. j + 1 \in 1 .. n
    BY <1>4
  <2>. QED BY <1>1, <2>1 DEF Lots
<1>. HIDE DEF q, r, n
<1>7. \A j \in 1 .. Len(r) : r[j] = IF j < 1 THEN q[j] ELSE q[j + 1]
  BY <1>3, <1>4, <1>6
<1>8. 1 \in 1 .. Len(q) /\ Len(r) = Len(q) - 1
  BY <1>2, <1>3, <1>4
<1>9. SumOf(r) = SumOf(q) - q[1]
  BY <1>2, <1>3, <1>7, <1>8, SumOfRemoved
<1>10. SumOf(q) \in Int /\ SumOf(r) \in Int /\ q[1] \in Int
  BY <1>2, <1>3, <1>8, SumType, ElementOfSeq
<1>. QED BY <1>2, <1>3, <1>5, <1>9, <1>10

\* A queue with no fill of the order.
LEMMA NoLots ==
  ASSUME NEW ids, NEW queue \in Seq(EventsAbout(ids)), NEW id, ~Filling(queue, id)
  PROVE  LotsOf(queue, id) = 0
<1>. DEFINE s == Lots(queue, id)
            g == [i \in 0 .. Len(s) |-> 0]
<1>1. s \in Seq(Int) /\ Len(s) = Len(queue) /\ LotsOf(queue, id) = SumOf(s) /\ Len(s) \in Nat
  BY LotsType
<1>2. \A i \in 1 .. Len(s) : s[i] = 0
  BY <1>1 DEF Lots, Filling
<1>. HIDE DEF s
<1>3. g \in [0 .. Len(s) -> Int] /\ \A i \in 1 .. Len(s) : g[i] = g[i - 1] + s[i]
  BY <1>1, <1>2
<1>4. g[Len(s)] = 0 /\ g[0] = 0
  BY <1>1
<1>. HIDE DEF g
<1>5. SumOf(s) \in Int /\ g[Len(s)] = g[0] + SumOf(s)
  BY <1>1, <1>3, SumUnique
<1>. QED BY <1>1, <1>4, <1>5

\* What pushing a batch does to the events of an order.
LEMMA PushKeepsClosed ==
  ASSUME NEW S, NEW queue \in Seq(S), NEW batch \in Seq(S), NEW id, Closed(queue, id),
         ~Filling(batch, id) \/ (batch # << >> /\ Closes(batch[Len(batch)], id))
  PROVE  Closed(Push(queue, batch), id)
<1>. DEFINE p == Push(queue, batch)
            n == Len(queue)
            m == Len(batch)
<1>1. n \in Nat /\ m \in Nat /\ Len(p) = n + m
  BY PushPlaces
<1>2. PICK k \in 0 .. n :
         \A i \in 1 .. n + m :
            p[i] = IF i <= k THEN queue[i]
                   ELSE IF i <= k + m THEN batch[i - k] ELSE queue[i - m]
  BY PushPlaces
<1>0. batch # << >> => m >= 1
  BY EmptySeq
<1>. HIDE DEF p, n, m
<1>3. SUFFICES ASSUME NEW i \in 1 .. n + m, Fills(p[i], id)
               PROVE  \E j \in (i + 1) .. (n + m) : Closes(p[j], id)
  BY <1>1 DEF Closed, p
<1>4. ASSUME NEW i0 \in 1 .. n, Fills(queue[i0], id)
      PROVE  \E j \in (i0 + 1) .. n : Closes(queue[j], id)
  BY <1>4 DEF Closed, n
<1>5. CASE i <= k
  <2>1. Fills(queue[i], id) /\ i \in 1 .. n
    BY <1>1, <1>2, <1>3, <1>5
  <2>2. PICK j \in (i + 1) .. n : Closes(queue[j], id)
    BY <1>4, <2>1
  <2>3. CASE j <= k
    <3>1. j \in 1 .. n + m /\ j \in (i + 1) .. (n + m)
      BY <1>1, <2>1
    <3>. QED BY <1>2, <2>2, <2>3, <3>1
  <2>4. CASE ~(j <= k)
    <3>. DEFINE l == j + m
    <3>1. l \in 1 .. n + m /\ l \in (i + 1) .. (n + m) /\ ~(l <= k) /\ ~(l <= k + m) /\ l - m = j
      BY <1>1, <2>1, <2>4
    <3>2. p[l] = queue[j]
      BY <1>2, <3>1
    <3>. QED BY <2>2, <3>1, <3>2
  <2>. QED BY <2>3, <2>4
<1>6. CASE ~(i <= k) /\ i <= k + m
  <2>1. Fills(batch[i - k], id) /\ i - k \in 1 .. m
    BY <1>1, <1>2, <1>3, <1>6
  <2>2. batch # << >> /\ Closes(batch[m], id)
    BY <2>1 DEF Filling, m
  <2>3. i - k # m
    BY <2>1, <2>2 DEF Fills, Closes
  <2>. DEFINE l == k + m
  <2>4. l \in 1 .. n + m /\ l \in (i + 1) .. (n + m) /\ ~(l <= k) /\ l <= k + m /\ l - k = m
    BY <1>0, <1>1, <1>6, <2>1, <2>2, <2>3
  <2>5. p[l] = batch[m]
    BY <1>2, <2>4
  <2>. QED BY <2>2, <2>4, <2>5
<1>7. CASE ~(i <= k + m)
  <2>1. ~(i <= k) /\ i - m \in 1 .. n
    BY <1>1, <1>7
  <2>2. Fills(queue[i - m], id)
    BY <1>2, <1>3, <1>7, <2>1
  <2>3. PICK j \in ((i - m) + 1) .. n : Closes(queue[j], id)
    BY <1>4, <2>1, <2>2
  <2>. DEFINE l == j + m
  <2>4. l \in 1 .. n + m /\ l \in (i + 1) .. (n + m) /\ ~(l <= k) /\ ~(l <= k + m) /\ l - m = j
    BY <1>1, <1>7, <2>1
  <2>5. p[l] = queue[j]
    BY <1>2, <2>4
  <2>. QED BY <2>3, <2>4, <2>5
<1>. QED BY <1>1, <1>5, <1>6, <1>7

\* Every event of the two is in the queue, and no other.
Merges(pushed, queue, batch) ==
    /\ \A i \in 1 .. Len(queue) : \E j \in 1 .. Len(pushed) : pushed[j] = queue[i]
    /\ \A i \in 1 .. Len(batch) : \E j \in 1 .. Len(pushed) : pushed[j] = batch[i]
    /\ \A j \in 1 .. Len(pushed) :
          \/ \E i \in 1 .. Len(queue) : pushed[j] = queue[i]
          \/ \E i \in 1 .. Len(batch) : pushed[j] = batch[i]

LEMMA PushedEvents ==
  ASSUME NEW S, NEW queue \in Seq(S), NEW batch \in Seq(S)
  PROVE  Merges(Push(queue, batch), queue, batch)
<1>. DEFINE p == Push(queue, batch)
            n == Len(queue)
            m == Len(batch)
<1>1. n \in Nat /\ m \in Nat /\ Len(p) = n + m
  BY PushPlaces
<1>2. PICK k \in 0 .. n :
         \A i \in 1 .. n + m :
            p[i] = IF i <= k THEN queue[i]
                   ELSE IF i <= k + m THEN batch[i - k] ELSE queue[i - m]
  BY PushPlaces
<1>. HIDE DEF p, n, m
<1>3. ASSUME NEW i \in 1 .. n PROVE \E j \in 1 .. n + m : p[j] = queue[i]
  <2>1. CASE i <= k
    <3>1. i \in 1 .. n + m
      BY <1>1
    <3>. QED BY <1>2, <2>1, <3>1
  <2>2. CASE ~(i <= k)
    <3>. DEFINE j == i + m
    <3>1. j \in 1 .. n + m /\ ~(j <= k) /\ ~(j <= k + m) /\ j - m = i
      BY <1>1, <2>2
    <3>2. p[j] = queue[i]
      BY <1>2, <3>1
    <3>. QED BY <3>1, <3>2
  <2>. QED BY <2>1, <2>2
<1>4. ASSUME NEW i \in 1 .. m PROVE \E j \in 1 .. n + m : p[j] = batch[i]
  <2>. DEFINE j == i + k
  <2>1. j \in 1 .. n + m /\ ~(j <= k) /\ j <= k + m /\ j - k = i
    BY <1>1
  <2>2. p[j] = batch[i]
    BY <1>2, <2>1
  <2>. QED BY <2>1, <2>2
<1>5. ASSUME NEW j \in 1 .. n + m
      PROVE  \/ \E i \in 1 .. n : p[j] = queue[i]
             \/ \E i \in 1 .. m : p[j] = batch[i]
  <2>1. CASE j <= k
    <3>1. j \in 1 .. n /\ p[j] = queue[j]
      BY <1>1, <1>2, <2>1
    <3>. QED BY <3>1
  <2>2. CASE ~(j <= k) /\ j <= k + m
    <3>1. j - k \in 1 .. m /\ p[j] = batch[j - k]
      BY <1>1, <1>2, <2>2
    <3>. QED BY <3>1
  <2>3. CASE ~(j <= k + m)
    <3>1. j - m \in 1 .. n /\ ~(j <= k)
      BY <1>1, <2>3
    <3>2. p[j] = queue[j - m]
      BY <1>2, <2>3, <3>1
    <3>. QED BY <3>1, <3>2
  <2>. QED BY <2>1, <2>2, <2>3
<1>. QED BY <1>1, <1>3, <1>4, <1>5 DEF Merges, p, n, m

LEMMA PushFacts ==
  ASSUME NEW S, NEW queue \in Seq(S), NEW batch \in Seq(S), NEW id
  PROVE  LET pushed == Push(queue, batch)
         IN  /\ Filling(pushed, id) => Filling(queue, id) \/ Filling(batch, id)
             /\ Closing(queue, id) \/ Closing(batch, id) => Closing(pushed, id)
             /\ Heard(queue, id) \/ Heard(batch, id) => Heard(pushed, id)
<1>. DEFINE pushed == Push(queue, batch)
<1>1. Merges(pushed, queue, batch)
  BY PushedEvents
<1>. HIDE DEF pushed
<1>2. Filling(pushed, id) => Filling(queue, id) \/ Filling(batch, id)
  BY <1>1, Zenon DEF Merges, Filling
<1>3. Closing(queue, id) => Closing(pushed, id)
  BY <1>1, Zenon DEF Merges, Closing
<1>4. Closing(batch, id) => Closing(pushed, id)
  BY <1>1, Zenon DEF Merges, Closing
<1>5. Heard(queue, id) => Heard(pushed, id)
  BY <1>1, Zenon DEF Merges, Heard
<1>6. Heard(batch, id) => Heard(pushed, id)
  BY <1>1, ZenonT(40) DEF Merges, Heard
<1>. QED BY <1>2, <1>3, <1>4, <1>5, <1>6 DEF pushed

\* What handling the first event does to those of an order.
LEMMA TailFacts ==
  ASSUME NEW S, NEW queue \in Seq(S), queue # << >>, NEW id
  PROVE  LET rest == Tail(queue)
             event == Head(queue)
         IN  /\ Filling(rest, id) => Filling(queue, id)
             /\ Fills(event, id) => Filling(queue, id)
             /\ Closed(queue, id) => Closed(rest, id)
             /\ Closed(queue, id) /\ Fills(event, id) => Closing(rest, id)
             /\ Closing(queue, id) /\ ~Closes(event, id) => Closing(rest, id)
             /\ Heard(queue, id) /\ event.id # id => Heard(rest, id)
<1>. DEFINE rest == Tail(queue)
            event == Head(queue)
            n == Len(queue)
<1>1. /\ n \in Nat /\ n >= 1 /\ Len(rest) = n - 1 /\ event = queue[1]
      /\ \A i \in 1 .. n - 1 : rest[i] = queue[i + 1]
  BY EmptySeq, HeadTailProperties
<1>. HIDE DEF rest, event, n
<1>2. /\ 1 \in 1 .. n
      /\ \A i \in 1 .. n - 1 : i + 1 \in 1 .. n
      /\ \A i \in 1 .. n : i = 1 \/ (i - 1 \in 1 .. n - 1 /\ (i - 1) + 1 = i)
  BY <1>1
<1>3. Filling(rest, id) => Filling(queue, id)
  BY <1>1, <1>2 DEF Filling, n
<1>4. Fills(event, id) => Filling(queue, id)
  BY <1>1, <1>2 DEF Filling, n
<1>5. ASSUME Closed(queue, id) PROVE Closed(rest, id)
  <2>1. SUFFICES ASSUME NEW i \in 1 .. n - 1, Fills(rest[i], id)
                 PROVE  \E j \in (i + 1) .. (n - 1) : Closes(rest[j], id)
    BY <1>1 DEF Closed
  <2>2. i + 1 \in 1 .. n /\ Fills(queue[i + 1], id)
    BY <1>1, <1>2, <2>1
  <2>3. PICK j \in ((i + 1) + 1) .. n : Closes(queue[j], id)
    BY <1>5, <2>2 DEF Closed, n
  <2>. DEFINE l == j - 1
  <2>4. l \in (i + 1) .. (n - 1) /\ l \in 1 .. n - 1 /\ l + 1 = j
    BY <1>1, <2>3
  <2>5. rest[l] = queue[j]
    BY <1>1, <2>4
  <2>. QED BY <2>3, <2>4, <2>5
<1>6. ASSUME Closed(queue, id), Fills(event, id) PROVE Closing(rest, id)
  <2>1. PICK j \in (1 + 1) .. n : Closes(queue[j], id)
    BY <1>1, <1>2, <1>6 DEF Closed, n
  <2>. DEFINE l == j - 1
  <2>2. l \in 1 .. n - 1 /\ l + 1 = j
    BY <1>1, <2>1
  <2>3. rest[l] = queue[j]
    BY <1>1, <2>2
  <2>. QED BY <1>1, <2>1, <2>2, <2>3 DEF Closing
<1>7. ASSUME Closing(queue, id), ~Closes(event, id) PROVE Closing(rest, id)
  <2>1. PICK i \in 1 .. n : Closes(queue[i], id)
    BY <1>7 DEF Closing, n
  <2>2. i - 1 \in 1 .. n - 1 /\ (i - 1) + 1 = i
    BY <1>1, <1>2, <1>7, <2>1
  <2>3. rest[i - 1] = queue[i]
    BY <1>1, <2>2
  <2>. QED BY <1>1, <2>1, <2>2, <2>3 DEF Closing
<1>8. ASSUME Heard(queue, id), event.id # id PROVE Heard(rest, id)
  <2>1. PICK i \in 1 .. n : queue[i].id = id
    BY <1>8 DEF Heard, n
  <2>2. i - 1 \in 1 .. n - 1 /\ (i - 1) + 1 = i
    BY <1>1, <1>2, <1>8, <2>1
  <2>3. rest[i - 1] = queue[i]
    BY <1>1, <2>2
  <2>. QED BY <1>1, <2>1, <2>2, <2>3 DEF Heard
<1>. QED BY <1>3, <1>4, <1>5, <1>6, <1>7, <1>8 DEF rest, event

-----------------------------------------------------------------------------
(* What the pipeline answers about an order.                               *)

About(batch, id) == \A i \in 1 .. Len(batch) : batch[i].id = id
LastCloses(batch, id) == batch # << >> /\ Closes(batch[Len(batch)], id)

\* The fills of a batch and what rests add up to the quantity the pipeline had of
\* the order, unless the batch ends with another event; what rests was announced.
Shares(id, quantity, batch) ==
    LET left == resting_orders'[id].quantity
        sum == left + LotsOf(batch, id)
    IN  /\ sum <= quantity
        /\ LastCloses(batch, id) \/ sum = quantity
        /\ id \in Resting' =>
              /\ left > 0 /\ sum = quantity
              /\ batch = << >> \/ LastCloses(batch, id)
        /\ batch # << >> \/ id \in Resting'

Outcome(id, quantity, ids) ==
    \E batch \in Seq(EventsAbout(ids)) :
        /\ event_queue' = Push(event_queue, batch) /\ About(batch, id)
        /\ Shares(id, quantity, batch)

LEMMA FillBatch ==
  ASSUME NEW ids, NEW id \in ids, NEW lots \in Nat, NEW at \in Nat,
         NEW fills \in FillEvents(id, lots, at)
  PROVE  /\ fills \in Seq(EventsAbout(ids)) /\ About(fills, id)
         /\ LotsOf(fills, id) = lots
<1>0. fills \in Seq(EventsAbout(ids))
  BY FillEventsType
<1>. DEFINE whole == OrderEvent("Fill", id, lots, at)
            one == OrderEvent("Fill", id, 1, at)
            s == Lots(fills, id)
            n == Len(fills)
<1>1. /\ n \in Nat /\ s \in Seq(Int) /\ Len(s) = n /\ LotsOf(fills, id) = SumOf(s)
  BY <1>0, LotsType
<1>2. /\ whole.id = id /\ whole.kind = "Fill" /\ whole.lots = lots
      /\ one.id = id /\ one.kind = "Fill" /\ one.lots = 1
  BY DEF OrderEvent
<1>3. \/ fills = << >> /\ lots = 0
      \/ fills = <<whole>>
      \/ fills = [i \in 1 .. lots |-> one]
  BY DEF FillEvents
<1>. HIDE DEF whole, one
<1>4. CASE fills = << >> /\ lots = 0
  <2>1. n = 0
    BY <1>4
  <2>2. ~Filling(fills, id) /\ About(fills, id)
    BY <1>4, <2>1 DEF Filling, About
  <2>. QED BY <1>0, <1>4, <2>2, NoLots
<1>5. CASE fills = <<whole>>
  <2>1. n = 1 /\ fills[1] = whole
    BY <1>5
  <2>2. s = <<lots>>
    <3>1. <<lots>> \in Seq(Int) /\ Len(<<lots>>) = 1 /\ <<lots>>[1] = lots
      OBVIOUS
    <3>2. s[1] = lots
      BY <1>2, <2>1 DEF Lots, Fills
    <3>3. \A i \in 1 .. Len(s) : s[i] = <<lots>>[i]
      BY <1>1, <2>1, <3>1, <3>2
    <3>. HIDE DEF s, n
    <3>. QED BY <1>1, <2>1, <3>1, <3>3, SeqEqual
  <2>3. SumOf(<<lots>>) = lots
    <3>. DEFINE none == << >>
                single == <<lots>>
    <3>1. single = Append(none, lots) /\ none \in Seq(Int) /\ lots \in Int
      OBVIOUS
    <3>2. SumOf(none) = 0
      BY SumOfEmpty
    <3>. HIDE DEF none, single
    <3>3. SumOf(Append(none, lots)) = SumOf(none) + lots
      BY <3>1, SumOfAppend
    <3>4. SumOf(single) = lots
      BY <3>1, <3>2, <3>3
    <3>. QED BY <3>4 DEF single
  <2>4. About(fills, id)
    BY <1>2, <2>1 DEF About
  <2>. QED BY <1>0, <1>1, <2>2, <2>3, <2>4
<1>6. CASE fills = [i \in 1 .. lots |-> one]
  <2>1. n = lots /\ \A i \in 1 .. lots : fills[i] = one
    <3>1. DOMAIN fills = 1 .. lots
      BY <1>6
    <3>2. DOMAIN fills = 1 .. n
      BY <1>0, LenProperties
    <3>. QED BY <1>1, <1>6, <3>1, <3>2
  <2>2. \A i \in 1 .. lots : s[i] = 1
    BY <1>2, <2>1 DEF Lots, Fills
  <2>. DEFINE g == [i \in 0 .. lots |-> i]
  <2>3. g \in [0 .. lots -> Int] /\ g[0] = 0 /\ g[lots] = lots
    OBVIOUS
  <2>. HIDE DEF s, n
  <2>4. \A i \in 1 .. lots : g[i] = g[i - 1] + s[i]
    BY <2>2
  <2>. HIDE DEF g
  <2>5. SumOf(s) \in Int /\ g[Len(s)] = g[0] + SumOf(s)
    BY <1>1, <2>1, <2>3, <2>4, SumUnique
  <2>6. About(fills, id)
    BY <1>2, <2>1 DEF About, n
  <2>. QED BY <1>0, <1>1, <2>1, <2>3, <2>5, <2>6
<1>. QED BY <1>3, <1>4, <1>5, <1>6

\* An event that is no fill, after some fills.
LEMMA ClosingBatch ==
  ASSUME NEW ids, NEW id \in ids, NEW kind \in {"Cancel", "Reject", "Update"},
         NEW lots \in Nat, NEW at \in Nat, NEW fills \in Seq(EventsAbout(ids)), About(fills, id)
  PROVE  LET batch == fills \o <<OrderEvent(kind, id, lots, at)>>
         IN  /\ batch \in Seq(EventsAbout(ids)) /\ About(batch, id) /\ LastCloses(batch, id)
             /\ batch # << >> /\ LotsOf(batch, id) = LotsOf(fills, id)
<1>. DEFINE e == OrderEvent(kind, id, lots, at)
            last == <<e>>
            batch == fills \o last
            n == Len(fills)
<1>1. e.id = id /\ e.kind # "Fill" /\ e \in EventsAbout(ids) /\ last \in Seq(EventsAbout(ids))
  <2>1. kind \in OrderEventKinds
    BY DEF OrderEventKinds
  <2>. QED BY <2>1, OrderEventType DEF OrderEvent
<1>2. Len(last) = 1 /\ last[1] = e
  OBVIOUS
<1>. HIDE DEF e, last
<1>3. /\ batch \in Seq(EventsAbout(ids)) /\ Len(batch) = n + 1 /\ n \in Nat
      /\ \A i \in 1 .. n + 1 : batch[i] = IF i <= n THEN fills[i] ELSE last[i - n]
  BY <1>1, <1>2, ConcatProperties, LenProperties, SMTT(30)
<1>4. LotsOf(last, id) = 0
  <2>1. ~Filling(last, id)
    BY <1>1, <1>2 DEF Filling, Fills
  <2>. QED BY <1>1, <2>1, NoLots
<1>5. LotsOf(batch, id) = LotsOf(fills, id)
  <2>1. LotsOf(batch, id) = LotsOf(fills, id) + LotsOf(last, id)
    BY <1>1, LotsOfConcat
  <2>2. LotsOf(fills, id) \in Nat
    BY LotsType
  <2>. QED BY <1>4, <2>1, <2>2
<1>. HIDE DEF batch, n
<1>6. batch[n + 1] = e
  BY <1>2, <1>3
<1>7. batch # << >>
  <2>1. Len(batch) # 0
    BY <1>3
  <2>. QED BY <2>1
<1>8. About(batch, id)
  <2>1. ASSUME NEW i \in 1 .. n + 1 PROVE batch[i].id = id
    <3>1. CASE i <= n
      <4>1. i \in 1 .. n /\ batch[i] = fills[i]
        BY <1>3, <3>1
      <4>. QED BY <4>1 DEF About, n
    <3>2. CASE i = n + 1
      BY <1>1, <1>6, <3>2
    <3>. QED BY <1>3, <3>1, <3>2
  <2>. QED BY <1>3, <2>1 DEF About
<1>9. LastCloses(batch, id)
  BY <1>1, <1>3, <1>6, <1>7 DEF LastCloses, Closes
<1>. QED BY <1>3, <1>5, <1>7, <1>8, <1>9 DEF batch, last, e

\* The event alone.
LEMMA ClosingEvent ==
  ASSUME NEW ids, NEW id \in ids, NEW kind \in {"Cancel", "Reject", "Update"},
         NEW lots \in Nat, NEW at \in Nat
  PROVE  LET batch == <<OrderEvent(kind, id, lots, at)>>
         IN  /\ batch \in Seq(EventsAbout(ids)) /\ About(batch, id) /\ LastCloses(batch, id)
             /\ batch # << >> /\ LotsOf(batch, id) = 0
<1>. DEFINE batch == <<OrderEvent(kind, id, lots, at)>>
            none == << >>
<1>1. none \in Seq(EventsAbout(ids)) /\ About(none, id) /\ LotsOf(none, id) = 0
  <2>1. Len(none) = 0 /\ none \in Seq(EventsAbout(ids))
    OBVIOUS
  <2>2. ~Filling(none, id) /\ About(none, id)
    BY <2>1 DEF Filling, About
  <2>. QED BY <2>1, <2>2, NoLots
<1>2. OrderEvent(kind, id, lots, at) \in EventsAbout(ids)
  BY OrderEventType DEF OrderEventKinds
<1>3. none \o batch = batch
  BY <1>2
<1>. HIDE DEF none
<1>4. /\ none \o batch \in Seq(EventsAbout(ids)) /\ About(none \o batch, id)
      /\ LastCloses(none \o batch, id)
      /\ none \o batch # << >> /\ LotsOf(none \o batch, id) = LotsOf(none, id)
  BY <1>1, ClosingBatch
<1>. QED BY <1>1, <1>3, <1>4

LEMMA RestOfErased ==
  ASSUME NEW id \in OrderIds, resting_orders \in [OrderIds -> RestingState], Erase(id)
  PROVE  id \notin Resting' /\ resting_orders'[id].quantity = 0
<1>1. resting_orders'[id] = NotResting
  BY DEF Erase, Rest
<1>. QED BY <1>1 DEF Resting, NotResting

LEMMA RestOfRested ==
  ASSUME NEW id \in OrderIds, resting_orders \in [OrderIds -> RestingState],
         NEW state, state.quantity \in Nat \ {0}, Rest(id, state)
  PROVE  id \in Resting' /\ resting_orders'[id].quantity = state.quantity
<1>1. resting_orders'[id] = state
  BY DEF Rest
<1>2. state # NotResting
  BY DEF NotResting
<1>. QED BY <1>1, <1>2 DEF Resting

\* The order is put to rest without an event.
LEMMA SilentOutcome ==
  ASSUME NEW ids, NEW id \in OrderIds, resting_orders \in [OrderIds -> RestingState],
         NEW state, state.quantity \in Nat \ {0}, Rest(id, state), UNCHANGED event_queue
  PROVE  Outcome(id, state.quantity, ids)
<1>. DEFINE none == << >>
<1>1. Len(none) = 0 /\ none \in Seq(EventsAbout(ids))
  OBVIOUS
<1>2. ~Filling(none, id) /\ About(none, id)
  BY <1>1 DEF Filling, About
<1>3. LotsOf(none, id) = 0
  BY <1>1, <1>2, NoLots
<1>4. event_queue' = Push(event_queue, none)
  BY DEF Push
<1>5. id \in Resting' /\ resting_orders'[id].quantity = state.quantity
  BY RestOfRested
<1>6. Shares(id, state.quantity, none)
  <2>1. state.quantity + 0 = state.quantity /\ state.quantity > 0
        /\ state.quantity <= state.quantity
    OBVIOUS
  <2>. HIDE DEF none
  <2>2. none = << >>
    BY DEF none
  <2>. QED BY <1>3, <1>5, <2>1, <2>2 DEF Shares
<1>. HIDE DEF none
<1>. QED BY <1>1, <1>2, <1>4, <1>6 DEF Outcome

\* However an execution ends, its fills, what rests and what is cancelled make up
\* the quantity.
LEMMA ExecuteOutcome ==
  ASSUME NEW ids \in SUBSET OrderIds, NEW id \in ids, NEW state \in RestingState, NEW at \in Nat,
         state.quantity > 0, resting_orders \in [OrderIds -> RestingState],
         Execute(id, state, at)
  PROVE  Outcome(id, state.quantity, ids)
<1>. DEFINE q == state.quantity
<1>1. PICK found \in Liquidity :
         LET lots == IF found < q THEN found ELSE q
         IN  \E fills \in FillEvents(id, lots, at) : ExecuteLots(id, state, at, lots, fills)
  BY DEF Execute
<1>. DEFINE lots == IF found < q THEN found ELSE q
<1>2. PICK fills \in FillEvents(id, lots, at) : ExecuteLots(id, state, at, lots, fills)
  BY <1>1
<1>3. q \in Nat \ {0} /\ found \in Nat /\ id \in OrderIds
  BY PipelineAssumption DEF RestingState
<1>4. lots \in Nat /\ lots <= q
  BY <1>3
<1>. HIDE DEF lots
<1>5. fills \in Seq(EventsAbout(ids)) /\ About(fills, id) /\ LotsOf(fills, id) = lots
  BY <1>2, <1>4, FillBatch
<1>6. CASE RejectOrder(id, at)
  <2>. DEFINE batch == <<OrderEvent("Reject", id, 0, at)>>
  <2>1. /\ batch \in Seq(EventsAbout(ids)) /\ About(batch, id) /\ LastCloses(batch, id)
        /\ batch # << >> /\ LotsOf(batch, id) = 0
    BY ClosingEvent
  <2>2. Erase(id) /\ event_queue' = Push(event_queue, batch)
    BY <1>6 DEF RejectOrder, Emit
  <2>. HIDE DEF batch
  <2>3. id \notin Resting' /\ resting_orders'[id].quantity = 0
    BY <1>3, <2>2, RestOfErased
  <2>4. Shares(id, q, batch)
    BY <1>3, <2>1, <2>3 DEF Shares
  <2>. QED BY <2>1, <2>2, <2>4 DEF Outcome
<1>7. CASE FillAndCancel(id, at, fills)
  <2>. DEFINE batch == fills \o <<OrderEvent("Cancel", id, 0, at)>>
  <2>1. /\ batch \in Seq(EventsAbout(ids)) /\ About(batch, id) /\ LastCloses(batch, id)
        /\ batch # << >> /\ LotsOf(batch, id) = lots
    BY <1>5, ClosingBatch
  <2>2. Erase(id) /\ event_queue' = Push(event_queue, batch)
    BY <1>7 DEF FillAndCancel, Emit
  <2>. HIDE DEF batch
  <2>3. id \notin Resting' /\ resting_orders'[id].quantity = 0
    BY <1>3, <2>2, RestOfErased
  <2>4. Shares(id, q, batch)
    BY <1>3, <1>4, <2>1, <2>3 DEF Shares
  <2>. QED BY <2>1, <2>2, <2>4 DEF Outcome
<1>8. CASE lots = q /\ Erase(id) /\ Emit(fills)
  <2>1. id \notin Resting' /\ resting_orders'[id].quantity = 0
    BY <1>3, <1>8, RestOfErased
  <2>2. fills # << >>
    <3>1. ASSUME fills = << >> PROVE FALSE
      <4>1. Len(fills) = 0
        BY <3>1
      <4>2. ~Filling(fills, id)
        BY <4>1 DEF Filling
      <4>3. LotsOf(fills, id) = 0
        BY <1>5, <4>2, NoLots
      <4>. QED BY <1>3, <1>5, <1>8, <4>3
    <3>. QED BY <3>1
  <2>3. Shares(id, q, fills)
    BY <1>3, <1>5, <1>8, <2>1, <2>2 DEF Shares
  <2>4. event_queue' = Push(event_queue, fills)
    BY <1>8 DEF Emit
  <2>. QED BY <1>5, <2>3, <2>4 DEF Outcome
<1>9. CASE lots < q /\ FillAndRest(id, state, at, lots, fills)
  <2>. DEFINE batch == fills \o <<OrderEvent("Update", id, lots, at)>>
              rest == [state EXCEPT !.quantity = @ - lots, !.requested = TRUE]
  <2>1. /\ batch \in Seq(EventsAbout(ids)) /\ About(batch, id) /\ LastCloses(batch, id)
        /\ batch # << >> /\ LotsOf(batch, id) = lots
    BY <1>4, <1>5, ClosingBatch
  <2>2. Rest(id, rest) /\ event_queue' = Push(event_queue, batch)
    BY <1>9 DEF FillAndRest, Emit
  <2>3. rest.quantity = q - lots
    BY DEF RestingState
  <2>. HIDE DEF batch, rest
  <2>4. rest.quantity \in Nat \ {0} /\ rest.quantity + lots = q
    BY <1>3, <1>4, <1>9, <2>3
  <2>5. id \in Resting' /\ resting_orders'[id].quantity = rest.quantity
    BY <1>3, <2>2, <2>4, RestOfRested
  <2>6. Shares(id, q, batch)
    BY <1>3, <1>4, <2>1, <2>4, <2>5 DEF Shares
  <2>. QED BY <2>1, <2>2, <2>6 DEF Outcome
<1>. QED BY <1>2, <1>6, <1>7, <1>8, <1>9 DEF ExecuteLots

\* process_resting_order() leaves the order alone or answers for what rests of it.
LEMMA MatchingOutcome ==
  ASSUME NEW ids \in SUBSET OrderIds, NEW id \in ids, NEW at \in Nat,
         resting_orders \in [OrderIds -> RestingState],
         id \in Resting => resting_orders[id].quantity > 0,
         ProcessRestingOrder(id, at)
  PROVE  \/ UNCHANGED <<resting_orders, event_queue>>
         \/ id \in Resting /\ Outcome(id, resting_orders[id].quantity, ids)
<1>. DEFINE state == resting_orders[id]
            ready == Triggered(state)
            q == state.quantity
<1>1. state \in RestingState /\ id \in OrderIds
  OBVIOUS
<1>2. ready \in RestingState
  BY <1>1, TriggeredType
<1>3. ready.quantity = q /\ q \in Nat
  BY <1>1 DEF Triggered, RestingState
<1>4. id \in Resting => q > 0
  OBVIOUS
<1>. HIDE DEF state, ready, q
<1>5. CASE id \in Resting /\ Rest(id, ready) /\ UNCHANGED event_queue
  <2>1. ready.quantity \in Nat \ {0}
    BY <1>3, <1>4, <1>5
  <2>2. Outcome(id, ready.quantity, ids)
    BY <1>1, <1>5, <2>1, SilentOutcome
  <2>. QED BY <1>3, <1>5, <2>2 DEF q, state
<1>6. CASE id \in Resting /\ Drifts(id, ready, at)
  <2>1. q \in Nat \ {0}
    BY <1>3, <1>4, <1>6
  <2>2. CASE RejectOrder(id, at)
    <3>. DEFINE batch == <<OrderEvent("Reject", id, 0, at)>>
    <3>1. /\ batch \in Seq(EventsAbout(ids)) /\ About(batch, id) /\ LastCloses(batch, id)
          /\ batch # << >> /\ LotsOf(batch, id) = 0
      BY ClosingEvent
    <3>2. Erase(id) /\ event_queue' = Push(event_queue, batch)
      BY <2>2 DEF RejectOrder, Emit
    <3>. HIDE DEF batch
    <3>3. id \notin Resting' /\ resting_orders'[id].quantity = 0
      BY <1>1, <3>2, RestOfErased
    <3>4. Shares(id, q, batch)
      BY <2>1, <3>1, <3>3 DEF Shares
    <3>5. Outcome(id, q, ids)
      BY <3>1, <3>2, <3>4 DEF Outcome
    <3>. QED BY <1>6, <3>5 DEF q, state
  <2>3. CASE Rest(id, ready) /\ Emit(<<OrderEvent("Update", id, 0, at)>>)
    <3>. DEFINE batch == <<OrderEvent("Update", id, 0, at)>>
    <3>1. /\ batch \in Seq(EventsAbout(ids)) /\ About(batch, id) /\ LastCloses(batch, id)
          /\ batch # << >> /\ LotsOf(batch, id) = 0
      BY ClosingEvent
    <3>2. Rest(id, ready) /\ event_queue' = Push(event_queue, batch)
      BY <2>3 DEF Emit
    <3>. HIDE DEF batch
    <3>3. id \in Resting' /\ resting_orders'[id].quantity = q
      BY <1>1, <1>3, <2>1, <3>2, RestOfRested
    <3>4. Shares(id, q, batch)
      BY <2>1, <3>1, <3>3 DEF Shares
    <3>5. Outcome(id, q, ids)
      BY <3>1, <3>2, <3>4 DEF Outcome
    <3>. QED BY <1>6, <3>5 DEF q, state
  <2>. QED BY <1>6, <2>2, <2>3 DEF Drifts
<1>7. CASE id \in Resting /\ Execute(id, ready, at)
  <2>1. ready.quantity > 0
    BY <1>3, <1>4, <1>7
  <2>2. Outcome(id, ready.quantity, ids)
    BY <1>2, <1>7, <2>1, ExecuteOutcome
  <2>. QED BY <1>3, <1>7, <2>2 DEF q, state
<1>. QED BY <1>5, <1>6, <1>7 DEF ProcessRestingOrder, state, ready

\* An order that cannot be filled now and may not wait is told so.
Denied(id, ids) ==
    /\ UNCHANGED resting_orders
    /\ \E batch \in Seq(EventsAbout(ids)) :
          /\ event_queue' = Push(event_queue, batch) /\ About(batch, id)
          /\ batch # << >> /\ LastCloses(batch, id) /\ LotsOf(batch, id) = 0

\* on_order_submitted() answers for the quantity of the order.
LEMMA SubmissionOutcome ==
  ASSUME NEW ids \in SUBSET OrderIds, NEW order \in SnapshotsOf(ids),
         resting_orders \in [OrderIds -> RestingState], priced \in BOOLEAN,
         OnOrderSubmitted(order)
  PROVE  Denied(order.id, ids) \/ Outcome(order.id, order.quantity, ids)
<1>. DEFINE state == Submitted(order)
            ready == Triggered(state)
            at == state.activation
            id == order.id
            q == order.quantity
<1>1. /\ id \in ids /\ id \in OrderIds
      /\ order.type \in OrderTypes /\ order.tif \in TimesInForce
      /\ q \in Nat \ {0} /\ order.created_at \in Nat
  BY DEF SnapshotsOf, Snapshot
<1>2. EffectiveTif(order) \in TimesInForce
  BY <1>1, PipelineAssumption DEF EffectiveTif, TimesInForce
<1>3. order.created_at + Latency \in Nat
  BY <1>1, PipelineAssumption
<1>4. state \in RestingState /\ state.quantity = q
  BY <1>1, <1>2, <1>3 DEF Submitted, RestingState
<1>5. at \in Nat
  BY <1>4 DEF RestingState
<1>. HIDE DEF state, at
<1>6. ready \in RestingState
  BY <1>4, TriggeredType
<1>7. ready.quantity = q
  BY <1>4 DEF Triggered, RestingState
<1>. HIDE DEF ready
<1>8. ASSUME NEW s \in RestingState, s.quantity = q, Unfillable(id, s, at)
      PROVE  Denied(id, ids) \/ Outcome(id, q, ids)
  <2>1. CASE /\ Emit(<<OrderEvent(IF s.tif = "IOC" THEN "Cancel" ELSE "Reject", id, 0, at)>>)
             /\ UNCHANGED resting_orders
    <3>. DEFINE kind == IF s.tif = "IOC" THEN "Cancel" ELSE "Reject"
                batch == <<OrderEvent(kind, id, 0, at)>>
    <3>1. kind \in {"Cancel", "Reject", "Update"}
      OBVIOUS
    <3>2. event_queue' = Push(event_queue, batch)
      BY <2>1 DEF Emit
    <3>. HIDE DEF kind
    <3>3. /\ batch \in Seq(EventsAbout(ids)) /\ About(batch, id) /\ LastCloses(batch, id)
          /\ batch # << >> /\ LotsOf(batch, id) = 0
      BY <1>1, <1>5, <3>1, ClosingEvent
    <3>. HIDE DEF batch
    <3>. QED BY <2>1, <3>2, <3>3 DEF Denied
  <2>2. CASE Rest(id, s) /\ UNCHANGED event_queue
    BY <1>1, <1>8, <2>2, SilentOutcome
  <2>. QED BY <1>8, <2>1, <2>2 DEF Unfillable
<1>9. CASE Rest(id, state) /\ UNCHANGED event_queue
  BY <1>1, <1>4, <1>9, SilentOutcome
<1>10. CASE Rest(id, ready) /\ UNCHANGED event_queue
  BY <1>1, <1>7, <1>10, SilentOutcome
<1>11. CASE Execute(id, ready, at)
  <2>1. ready.quantity > 0
    BY <1>1, <1>7
  <2>2. Outcome(id, ready.quantity, ids)
    BY <1>1, <1>5, <1>6, <1>11, <2>1, ExecuteOutcome
  <2>. QED BY <1>7, <2>2
<1>. QED BY <1>4, <1>6, <1>7, <1>8, <1>9, <1>10, <1>11 DEF OnOrderSubmitted, Postpone, Answer, state, ready, at

-----------------------------------------------------------------------------
(* The inductive invariant.  On the stack, an order whose end is still to  *)
(* be told is over and is handed to the pipeline by no call before that.   *)

Over == {id \in OrderIds : orders[id].status \in OverStatuses}

EndsLast(stack, over) ==
    \A i \in 1 .. Len(stack) : \A id \in OrderIds :
        Ends(stack[i], id) =>
           /\ id \in over
           /\ \A j \in 1 .. (i - 1) : HandsOver(stack[j]) => FrameId(stack[j]) # id

\* The bound on what is counted as filled is beyond every order.
SmallFrame(frame) ==
    frame.op \in {"callbacks", "accept"} => frame.order.quantity < MaxFilled
SmallOnes(stack) == \A i \in 1 .. Len(stack) : SmallFrame(stack[i])

Fine(stack, over) == EndsLast(stack, over) /\ SmallOnes(stack)

Waits(stack, id) == \E i \in 1 .. Len(stack) : HandsOver(stack[i]) /\ FrameId(stack[i]) = id

SmallOrders == \A id \in Placed : orders[id].quantity < MaxFilled
RestsLots == \A id \in Resting : resting_orders[id].quantity > 0
PendingIsTracked ==
    \A id \in OrderIds :
        orders[id].status = "Pending" =>
            id \in Resting \/ Heard(event_queue, id) \/ Waits(calls, id)

Sum(id) ==
    orders[id].filled_quantity + LotsOf(event_queue, id) + resting_orders[id].quantity

\* Nothing of an order is filled or rests before it is handed to the pipeline.
NotHanded(id) ==
    accepted[id].times = 0 =>
        /\ ~Filling(event_queue, id) /\ id \notin Resting
        /\ orders[id].filled_quantity = 0 /\ orders[id].status # "PartiallyFilled"

\* Once it was, its lots add up, unless an event after the last fill ends it.
HandedOnce(id) ==
    accepted[id].times = 1 =>
        /\ accepted[id].lots < MaxFilled
        /\ Sum(id) <= accepted[id].lots
        /\ Closed(event_queue, id) \/ Sum(id) = accepted[id].lots
        /\ id \in Resting => Closed(event_queue, id) /\ Sum(id) = accepted[id].lots
        /\ orders[id].status = "PartiallyFilled" =>
              Sum(id) = accepted[id].lots \/ Closing(event_queue, id)

LotsInv == \A id \in OrderIds : NotHanded(id) /\ HandedOnce(id)

WorkInv ==
    /\ TypeInv
    /\ Fine(calls, Over) /\ SmallOrders
    /\ RestsLots /\ PendingIsTracked /\ LotsInv

-----------------------------------------------------------------------------
(* The stack.                                                              *)

LEMMA PushKeepsFine ==
  ASSUME NEW S, NEW stack \in Seq(S), NEW frame \in S, NEW over, Fine(stack, over),
         SmallFrame(frame), \A id \in OrderIds : Ends(frame, id) => id \in over,
         HandsOver(frame) => \A i \in 1 .. Len(stack) : ~Ends(stack[i], FrameId(frame))
  PROVE  Fine(<<frame>> \o stack, over)
<1>. DEFINE pushed == <<frame>> \o stack
<1>1. /\ Len(stack) \in Nat /\ Len(pushed) = Len(stack) + 1
      /\ pushed[1] = frame
      /\ \A i \in 2 .. Len(pushed) : i - 1 \in 1 .. Len(stack) /\ pushed[i] = stack[i - 1]
  BY PushedFrame
<1>. HIDE DEF pushed
<1>2. ASSUME NEW i \in 1 .. Len(pushed), NEW id \in OrderIds, Ends(pushed[i], id)
      PROVE  /\ id \in over
             /\ \A j \in 1 .. (i - 1) : HandsOver(pushed[j]) => FrameId(pushed[j]) # id
  <2>1. CASE i = 1
    <3>1. 1 .. (i - 1) = {}
      BY <2>1
    <3>. QED BY <1>1, <1>2, <2>1, <3>1
  <2>2. CASE i \in 2 .. Len(pushed)
    <3>1. i - 1 \in 1 .. Len(stack) /\ Ends(stack[i - 1], id)
      BY <1>1, <1>2, <2>2
    <3>2. /\ id \in over
          /\ \A j \in 1 .. ((i - 1) - 1) : HandsOver(stack[j]) => FrameId(stack[j]) # id
      BY <3>1 DEF Fine, EndsLast
    <3>3. ASSUME NEW j \in 1 .. (i - 1), HandsOver(pushed[j]) PROVE FrameId(pushed[j]) # id
      <4>1. CASE j = 1
        BY <1>1, <3>1, <3>3, <4>1
      <4>2. CASE j # 1
        <5>1. j \in 2 .. Len(pushed) /\ j - 1 \in 1 .. ((i - 1) - 1)
          BY <1>1, <2>2, <4>2
        <5>. QED BY <1>1, <3>2, <3>3, <5>1
      <4>. QED BY <4>1, <4>2
    <3>. QED BY <3>2, <3>3
  <2>. QED BY <1>1, <2>1, <2>2
<1>3. ASSUME NEW i \in 1 .. Len(pushed) PROVE SmallFrame(pushed[i])
  <2>1. i = 1 \/ i \in 2 .. Len(pushed)
    BY <1>1
  <2>. QED BY <1>1, <2>1 DEF Fine, SmallOnes
<1>. QED BY <1>2, <1>3 DEF Fine, EndsLast, SmallOnes, pushed

LEMMA PopKeepsFine ==
  ASSUME NEW S, NEW stack \in Seq(S), stack # << >>, NEW over, Fine(stack, over)
  PROVE  /\ Fine(Tail(stack), over) /\ SmallFrame(Head(stack))
         /\ \A id \in OrderIds : Ends(Head(stack), id) => id \in over
         /\ HandsOver(Head(stack)) /\ FrameId(Head(stack)) \in OrderIds =>
              \A i \in 1 .. Len(Tail(stack)) : ~Ends(Tail(stack)[i], FrameId(Head(stack)))
<1>. DEFINE popped == Tail(stack)
            frame == Head(stack)
<1>1. /\ Len(stack) \in Nat \ {0} /\ Len(popped) = Len(stack) - 1
      /\ \A i \in 1 .. Len(popped) : popped[i] = stack[i + 1]
      /\ frame = stack[1]
  BY EmptySeq, HeadTailProperties
<1>. HIDE DEF popped, frame
<1>2. \A i \in 1 .. Len(popped) : i + 1 \in 1 .. Len(stack)
  BY <1>1
<1>3. ASSUME NEW i \in 1 .. Len(popped), NEW id \in OrderIds, Ends(popped[i], id)
      PROVE  /\ id \in over /\ (HandsOver(frame) => FrameId(frame) # id)
             /\ \A j \in 1 .. (i - 1) : HandsOver(popped[j]) => FrameId(popped[j]) # id
  <2>1. i + 1 \in 1 .. Len(stack) /\ Ends(stack[i + 1], id)
    BY <1>1, <1>2, <1>3
  <2>2. /\ id \in over
        /\ \A j \in 1 .. ((i + 1) - 1) : HandsOver(stack[j]) => FrameId(stack[j]) # id
    BY <2>1 DEF Fine, EndsLast
  <2>3. 1 \in 1 .. ((i + 1) - 1)
    OBVIOUS
  <2>4. ASSUME NEW j \in 1 .. (i - 1), HandsOver(popped[j]) PROVE FrameId(popped[j]) # id
    <3>1. j \in 1 .. Len(popped) /\ j + 1 \in 1 .. ((i + 1) - 1)
      BY <1>1
    <3>. QED BY <1>1, <2>2, <2>4, <3>1
  <2>. QED BY <1>1, <2>2, <2>3, <2>4
<1>4. \A i \in 1 .. Len(popped) : SmallFrame(popped[i])
  BY <1>1, <1>2 DEF Fine, SmallOnes
<1>5. 1 \in 1 .. Len(stack)
  BY <1>1
<1>6. SmallFrame(frame) /\ \A id \in OrderIds : Ends(frame, id) => id \in over
  BY <1>1, <1>5 DEF Fine, EndsLast, SmallOnes
<1>7. Fine(popped, over)
  BY <1>3, <1>4 DEF Fine, EndsLast, SmallOnes
<1>. QED BY <1>3, <1>6, <1>7 DEF popped, frame

LEMMA NothingIsFine == \A over : Fine(<< >>, over)
<1>1. 1 .. Len(<< >>) = {}
  OBVIOUS
<1>. QED BY <1>1 DEF Fine, EndsLast, SmallOnes

\* The strategy may be called above anything.
LEMMA CallIsFine ==
  ASSUME NEW ids, NEW stack \in Seq(FramesAbout(ids)), NEW over, Fine(stack, over),
         NEW may \in SUBSET StrategyOps
  PROVE  Fine(Strategy(may) \o stack, over)
<1>. DEFINE frame == [op |-> "strategy", may |-> may]
<1>1. CASE may = {}
  <2>1. << >> \o stack = stack
    BY ConcatEmptySeq
  <2>. QED BY <1>1, <2>1 DEF Strategy
<1>2. CASE may # {}
  <2>1. Strategy(may) = <<frame>>
    BY <1>2 DEF Strategy
  <2>2. frame \in FramesAbout(ids)
    BY DEF FramesAbout
  <2>3. ~HandsOver(frame) /\ SmallFrame(frame) /\ \A id : ~Ends(frame, id)
    BY DEF HandsOver, SmallFrame, Ends
  <2>. HIDE DEF frame
  <2>4. Fine(<<frame>> \o stack, over)
    BY <2>2, <2>3, PushKeepsFine
  <2>. QED BY <2>1, <2>4
<1>. QED BY <1>1, <1>2

LEMMA MatchIsFine ==
  ASSUME NEW S, NEW stack \in Seq(S), NEW over, Fine(stack, over),
         NEW ids, NEW at, NEW left, Match(ids, at, left) \in S
  PROVE  Fine(<<Match(ids, at, left)>> \o stack, over)
<1>. DEFINE frame == Match(ids, at, left)
<1>1. ~HandsOver(frame) /\ SmallFrame(frame) /\ \A id : ~Ends(frame, id)
  BY DEF HandsOver, SmallFrame, Ends, Match
<1>. HIDE DEF frame
<1>2. frame \in S
  BY DEF frame
<1>3. Fine(<<frame>> \o stack, over)
  BY <1>1, <1>2, PushKeepsFine
<1>. QED BY <1>3 DEF frame

LEMMA WaitsBelow ==
  ASSUME NEW S, NEW stack \in Seq(S), NEW new \in Seq(S), NEW id, Waits(stack, id)
  PROVE  Waits(new \o stack, id)
<1>. DEFINE pushed == new \o stack
<1>1. /\ Len(pushed) = Len(new) + Len(stack)
      /\ \A i \in 1 .. Len(new) + Len(stack) :
            pushed[i] = IF i <= Len(new) THEN new[i] ELSE stack[i - Len(new)]
  BY ConcatProperties
<1>2. Len(new) \in Nat /\ Len(stack) \in Nat
  BY LenProperties
<1>3. PICK i \in 1 .. Len(stack) : HandsOver(stack[i]) /\ FrameId(stack[i]) = id
  BY DEF Waits
<1>. HIDE DEF pushed
<1>. DEFINE k == i + Len(new)
<1>4. k \in 1 .. Len(pushed) /\ ~(k <= Len(new)) /\ k - Len(new) = i
  BY <1>1, <1>2
<1>5. pushed[k] = stack[i]
  BY <1>1, <1>4
<1>. QED BY <1>3, <1>4, <1>5 DEF Waits, pushed

LEMMA WaitsOnTop ==
  ASSUME NEW S, NEW stack \in Seq(S), NEW frame \in S, NEW id, HandsOver(frame), FrameId(frame) = id
  PROVE  Waits(<<frame>> \o stack, id)
<1>. DEFINE pushed == <<frame>> \o stack
<1>1. pushed[1] = frame /\ Len(stack) \in Nat /\ Len(pushed) = Len(stack) + 1
  BY PushedFrame
<1>. HIDE DEF pushed
<1>2. 1 \in 1 .. Len(pushed)
  BY <1>1
<1>. QED BY <1>1, <1>2 DEF Waits, pushed

LEMMA WaitsAfterPop ==
  ASSUME NEW S, NEW stack \in Seq(S), stack # << >>, NEW id, Waits(stack, id),
         ~(HandsOver(Head(stack)) /\ FrameId(Head(stack)) = id)
  PROVE  Waits(Tail(stack), id)
<1>. DEFINE popped == Tail(stack)
<1>1. /\ Len(stack) \in Nat \ {0} /\ Len(popped) = Len(stack) - 1
      /\ \A i \in 1 .. Len(popped) : popped[i] = stack[i + 1]
      /\ Head(stack) = stack[1]
  BY EmptySeq, HeadTailProperties
<1>. HIDE DEF popped
<1>2. PICK i \in 1 .. Len(stack) : HandsOver(stack[i]) /\ FrameId(stack[i]) = id
  BY DEF Waits
<1>. DEFINE k == i - 1
<1>3. k \in 1 .. Len(popped) /\ k + 1 = i
  BY <1>1, <1>2
<1>4. popped[k] = stack[i]
  BY <1>1, <1>3
<1>. QED BY <1>2, <1>3, <1>4 DEF Waits, popped

-----------------------------------------------------------------------------
(* Every step keeps the invariant.                                         *)

\* An order whose lots, rest and fills do not change.
LEMMA LotsUntouched ==
  ASSUME NEW id \in OrderIds, NotHanded(id), HandedOnce(id),
         accepted'[id] = accepted[id], resting_orders'[id] = resting_orders[id],
         orders'[id].filled_quantity = orders[id].filled_quantity,
         orders'[id].status = "PartiallyFilled" =>
            /\ orders[id].status = "PartiallyFilled"
            /\ Closing(event_queue, id) => Closing(event_queue', id),
         LotsOf(event_queue', id) = LotsOf(event_queue, id),
         Filling(event_queue', id) => Filling(event_queue, id),
         Closed(event_queue, id) => Closed(event_queue', id)
  PROVE  NotHanded(id)' /\ HandedOnce(id)'
<1>1. id \in Resting' <=> id \in Resting
  BY DEF Resting
<1>2. Sum(id)' = Sum(id)
  BY DEF Sum
<1>3. NotHanded(id)'
  BY <1>1 DEF NotHanded
<1>4. HandedOnce(id)'
  BY <1>1, <1>2 DEF HandedOnce
<1>. QED BY <1>3, <1>4

LEMMA OverSnapshots ==
  ASSUME TypeInv, NEW id \in Over
  PROVE  id \in Placed /\ orders[id] \in Snapshot
<1>1. id \in OrderIds /\ orders[id].status # "None"
  BY DEF Over, OverStatuses
<1>2. id \in Placed
  BY <1>1 DEF Placed
<1>. QED BY <1>2, PlacedSnapshots DEF TypeInv, SnapshotsOf

\* The pipeline and the queue are left alone.
LEMMA PipelineIdle ==
  ASSUME LotsInv, RestsLots, UNCHANGED <<resting_orders, event_queue, accepted>>,
         \A id \in OrderIds :
            /\ orders'[id].filled_quantity = orders[id].filled_quantity
            /\ orders'[id].status = "PartiallyFilled" => orders[id].status = "PartiallyFilled"
  PROVE  RestsLots' /\ LotsInv'
<1>1. RestsLots'
  BY DEF RestsLots, Resting
<1>2. ASSUME NEW id \in OrderIds PROVE NotHanded(id)' /\ HandedOnce(id)'
  BY LotsUntouched DEF LotsInv
<1>. QED BY <1>1, <1>2 DEF LotsInv

\* An order gets a new version, and its callbacks go on the stack.
LEMMA NewVersionIsFine ==
  ASSUME TypeInv, SmallOrders, NEW id \in Placed, NEW updated \in SnapshotsOf(Placed),
         updated.id = id, updated.quantity < MaxFilled,
         orders' = [orders EXCEPT ![id] = updated],
         NEW rest \in Seq(FramesAbout(Placed)), Fine(rest, Over),
         updated.status \in OverStatuses \/ \A i \in 1 .. Len(rest) : ~Ends(rest[i], id)
  PROVE  LET stack == <<Callbacks(updated)>> \o rest
         IN  /\ Fine(stack, Over') /\ SmallOrders'
             /\ \A i : Waits(rest, i) => Waits(stack, i)
             /\ updated.status = "Pending" => Waits(stack, id)
<1>. DEFINE frame == Callbacks(updated)
            stack == <<frame>> \o rest
<1>1. frame \in FramesAbout(Placed) /\ <<frame>> \in Seq(FramesAbout(Placed))
  BY CallbacksType
<1>2. frame.op = "callbacks" /\ frame.order = updated
  BY DEF Callbacks
<1>. HIDE DEF frame
<1>3. id \in OrderIds /\ orders'[id] = updated
      /\ \A i \in OrderIds \ {id} : orders'[i] = orders[i]
  BY DEF TypeInv, OrdersInv, Placed
<1>4. /\ id \in Over' <=> updated.status \in OverStatuses
      /\ \A i \in OrderIds \ {id} : i \in Over' <=> i \in Over
  BY <1>3 DEF Over
<1>5. Fine(rest, Over')
  <2>1. ASSUME NEW i \in 1 .. Len(rest), NEW k \in OrderIds, Ends(rest[i], k)
        PROVE  k \in Over'
    <3>1. k \in Over
      BY <2>1 DEF Fine, EndsLast
    <3>2. k = id => updated.status \in OverStatuses
      BY <2>1
    <3>. QED BY <1>4, <3>1, <3>2
  <2>. QED BY <2>1 DEF Fine, EndsLast
<1>6. SmallFrame(frame)
  BY <1>2 DEF SmallFrame
<1>7. \A k \in OrderIds : Ends(frame, k) => k \in Over'
  BY <1>2, <1>4 DEF Ends
<1>8. HandsOver(frame) => FrameId(frame) = id /\ updated.status = "Pending"
  BY <1>2 DEF HandsOver, FrameId
<1>9. updated.status = "Pending" => HandsOver(frame) /\ FrameId(frame) = id
  BY <1>2 DEF HandsOver, FrameId
<1>10. "Pending" \notin OverStatuses
  BY DEF OverStatuses
<1>11. Fine(stack, Over')
  BY <1>1, <1>5, <1>6, <1>7, <1>8, <1>10, PushKeepsFine
<1>12. SmallOrders'
  <2>1. updated \in Snapshot
    BY DEF SnapshotsOf
  <2>2. Placed' = Placed
    BY <2>1, OrderChanges DEF TypeInv
  <2>3. ASSUME NEW k \in Placed PROVE orders'[k].quantity < MaxFilled
    <3>1. k \in OrderIds
      BY DEF Placed
    <3>. QED BY <1>3, <3>1 DEF SmallOrders
  <2>. QED BY <2>2, <2>3 DEF SmallOrders
<1>13. \A i : Waits(rest, i) => Waits(stack, i)
  BY <1>1, WaitsBelow
<1>14. updated.status = "Pending" => Waits(stack, id)
  BY <1>1, <1>9, WaitsOnTop
<1>. QED BY <1>11, <1>12, <1>13, <1>14 DEF frame

\* update_order_status() of an order that is in the table, to a status that is not
\* one of partial fills.
LEMMA NewStatusIsFine ==
  ASSUME TypeInv, SmallOrders, NEW id \in Placed, NEW status \in Statuses \ {"None"},
         status # "PartiallyFilled",
         NEW rest \in Seq(FramesAbout(Placed)), UpdateOrderStatus(id, status, rest),
         Fine(rest, Over), status \in OverStatuses \/ \A i \in 1 .. Len(rest) : ~Ends(rest[i], id)
  PROVE  /\ Fine(calls', Over') /\ SmallOrders'
         /\ \A i : Waits(rest, i) => Waits(calls', i)
         /\ status = "Pending" => Waits(calls', id)
         /\ orders'[id].status = status
         /\ \A i \in OrderIds \ {id} : orders'[i] = orders[i]
         /\ \A i \in OrderIds :
               /\ orders'[i].filled_quantity = orders[i].filled_quantity
               /\ orders'[i].status = "PartiallyFilled" => orders[i].status = "PartiallyFilled"
<1>. DEFINE order == orders[id]
            updated == [order EXCEPT !.status = status]
<1>1. updated \in SnapshotsOf(Placed) /\ updated.id = id /\ updated.status = status
  BY StatusChanges DEF TypeInv
<1>2. orders' = [orders EXCEPT ![id] = updated] /\ calls' = <<Callbacks(updated)>> \o rest
  BY DEF UpdateOrderStatus
<1>3. order \in Snapshot
  BY PlacedSnapshots DEF TypeInv, SnapshotsOf
<1>4. order.quantity < MaxFilled
  BY DEF SmallOrders
<1>5. orders \in [OrderIds -> Snapshot \cup {NoOrder}] /\ id \in OrderIds
  BY DEF TypeInv, OrdersInv, Placed
<1>6. \A i \in OrderIds \ {id} : orders'[i] = orders[i]
  BY <1>2, <1>5
<1>7. orders'[id] = updated
  BY <1>2, <1>5
<1>. DEFINE table == orders
<1>. HIDE DEF order
<1>8. updated.quantity = order.quantity /\ updated.filled_quantity = order.filled_quantity
  BY <1>3 DEF Snapshot
<1>. HIDE DEF updated
<1>9. updated.quantity < MaxFilled
  BY <1>4, <1>8 DEF order
<1>10. /\ Fine(<<Callbacks(updated)>> \o rest, Over') /\ SmallOrders'
       /\ \A i : Waits(rest, i) => Waits(<<Callbacks(updated)>> \o rest, i)
       /\ updated.status = "Pending" => Waits(<<Callbacks(updated)>> \o rest, id)
  BY <1>1, <1>2, <1>9, NewVersionIsFine
<1>11. ASSUME NEW i \in OrderIds
       PROVE  /\ orders'[i].filled_quantity = orders[i].filled_quantity
              /\ orders'[i].status = "PartiallyFilled" => orders[i].status = "PartiallyFilled"
  <2>1. CASE i = id
    BY <1>1, <1>7, <1>8, <2>1 DEF order
  <2>2. CASE i # id
    BY <1>6, <2>2
  <2>. QED BY <2>1, <2>2
<1>. QED BY <1>1, <1>2, <1>6, <1>7, <1>10, <1>11

\* What is known of the frames below the top one.
LEMMA BelowIsFine ==
  ASSUME WorkInv, calls # << >>
  PROVE  /\ calls \in Seq(FramesAbout(Placed))
         /\ Head(calls) \in FramesAbout(Placed)
         /\ Tail(calls) \in Seq(FramesAbout(Placed))
         /\ Fine(Tail(calls), Over) /\ SmallFrame(Head(calls))
         /\ \A id \in OrderIds : Ends(Head(calls), id) => id \in Over
         /\ HandsOver(Head(calls)) /\ FrameId(Head(calls)) \in OrderIds =>
              \A i \in 1 .. Len(Tail(calls)) : ~Ends(Tail(calls)[i], FrameId(Head(calls)))
         /\ \A id : Waits(calls, id) =>
              \/ HandsOver(Head(calls)) /\ FrameId(Head(calls)) = id
              \/ Waits(Tail(calls), id)
<1>1. calls \in Seq(FramesAbout(Placed))
  BY DEF WorkInv, TypeInv, CallsInv
<1>2. Head(calls) \in FramesAbout(Placed) /\ Tail(calls) \in Seq(FramesAbout(Placed))
  BY TopFrame DEF WorkInv, TypeInv
<1>3. Fine(calls, Over)
  BY DEF WorkInv
<1>4. /\ Fine(Tail(calls), Over) /\ SmallFrame(Head(calls))
      /\ \A id \in OrderIds : Ends(Head(calls), id) => id \in Over
      /\ HandsOver(Head(calls)) /\ FrameId(Head(calls)) \in OrderIds =>
            \A i \in 1 .. Len(Tail(calls)) : ~Ends(Tail(calls)[i], FrameId(Head(calls)))
  BY <1>1, <1>3, PopKeepsFine
<1>5. ASSUME NEW id, Waits(calls, id),
             ~(HandsOver(Head(calls)) /\ FrameId(Head(calls)) = id)
      PROVE  Waits(Tail(calls), id)
  BY <1>1, <1>5, WaitsAfterPop
<1>. QED BY <1>1, <1>2, <1>4, <1>5

\* A new status for an order, nothing else: Pending orders are still known about.
LEMMA StatusKeepsWork ==
  ASSUME WorkInv, TypeInv', NEW id \in Placed, NEW status \in Statuses \ {"None"},
         status # "PartiallyFilled",
         NEW rest \in Seq(FramesAbout(Placed)), UpdateOrderStatus(id, status, rest),
         Fine(rest, Over),
         status \in OverStatuses \/ \A i \in 1 .. Len(rest) : ~Ends(rest[i], id),
         UNCHANGED <<resting_orders, event_queue, accepted>>,
         \A i : i # id /\ Waits(calls, i) => Waits(rest, i)
  PROVE  WorkInv'
<1>1. /\ Fine(calls', Over') /\ SmallOrders'
      /\ \A i : Waits(rest, i) => Waits(calls', i)
      /\ status = "Pending" => Waits(calls', id)
      /\ orders'[id].status = status
      /\ \A i \in OrderIds \ {id} : orders'[i] = orders[i]
      /\ \A i \in OrderIds :
            /\ orders'[i].filled_quantity = orders[i].filled_quantity
            /\ orders'[i].status = "PartiallyFilled" => orders[i].status = "PartiallyFilled"
  BY NewStatusIsFine DEF WorkInv
<1>2. RestsLots' /\ LotsInv'
  BY <1>1, PipelineIdle DEF WorkInv
<1>3. PendingIsTracked'
  <2>1. Resting' = Resting
    BY DEF Resting
  <2>2. ASSUME NEW i \in OrderIds, orders'[i].status = "Pending"
        PROVE  i \in Resting' \/ Heard(event_queue, i)' \/ Waits(calls, i)'
    <3>1. CASE i = id
      BY <1>1, <2>2, <3>1
    <3>2. CASE i # id
      <4>1. i \in Resting \/ Heard(event_queue, i) \/ Waits(calls, i)
        BY <1>1, <2>2, <3>2 DEF WorkInv, PendingIsTracked
      <4>. QED BY <1>1, <2>1, <3>2, <4>1
    <3>. QED BY <3>1, <3>2
  <2>. QED BY <2>2 DEF PendingIsTracked
<1>. QED BY <1>1, <1>2, <1>3 DEF WorkInv

LEMMA CancelKeepsWork ==
  ASSUME WorkInv, NEW id \in OrderIds, CancelOrder(id)
  PROVE  WorkInv'
<1>1. TypeInv' /\ id \in Placed
  BY CancelKeepsTypes DEF WorkInv
<1>2. /\ UpdateOrderStatus(id, "Cancelled", calls)
      /\ UNCHANGED <<resting_orders, event_queue, accepted>>
  BY DEF CancelOrder
<1>3. "Cancelled" \in Statuses \ {"None"} /\ "Cancelled" \in OverStatuses
  BY DEF Statuses, OverStatuses
<1>4. calls \in Seq(FramesAbout(Placed)) /\ Fine(calls, Over)
  BY DEF WorkInv, TypeInv, CallsInv
<1>. QED BY <1>1, <1>2, <1>3, <1>4, StatusKeepsWork

LEMMA RefuseKeepsWork ==
  ASSUME WorkInv, RefuseOrder
  PROVE  WorkInv'
<1>. DEFINE frame == Head(calls)
            id == frame.order.id
            below == Tail(calls)
<1>1. TypeInv' /\ calls # << >> /\ frame.op = "accept"
  BY RefuseKeepsTypes DEF WorkInv, RefuseOrder, Running
<1>2. /\ frame \in FramesAbout(Placed) /\ below \in Seq(FramesAbout(Placed)) /\ Fine(below, Over)
      /\ \A i : Waits(calls, i) => (HandsOver(frame) /\ FrameId(frame) = i) \/ Waits(below, i)
  BY <1>1, BelowIsFine
<1>3. id \in Placed /\ FrameId(frame) = id
  BY <1>1, <1>2, FrameForms DEF SnapshotsOf, FrameId
<1>4. /\ UpdateOrderStatus(id, "Rejected", below)
      /\ UNCHANGED <<resting_orders, event_queue, accepted>>
  BY DEF RefuseOrder
<1>5. "Rejected" \in Statuses \ {"None"} /\ "Rejected" \in OverStatuses
  BY DEF Statuses, OverStatuses
<1>. HIDE DEF frame, id, below
<1>6. \A i : i # id /\ Waits(calls, i) => Waits(below, i)
  BY <1>2, <1>3
<1>. QED BY <1>1, <1>2, <1>3, <1>4, <1>5, <1>6, StatusKeepsWork

LEMMA SubmittedKeepsWork ==
  ASSUME WorkInv, SubmittedIsPending
  PROVE  WorkInv'
<1>. DEFINE frame == Head(calls)
            id == frame.id
            below == Tail(calls)
<1>1. TypeInv' /\ calls # << >> /\ frame.op = "pending"
  BY SubmittedKeepsTypes DEF WorkInv, SubmittedIsPending, Running
<1>2. /\ frame \in FramesAbout(Placed) /\ below \in Seq(FramesAbout(Placed)) /\ Fine(below, Over)
      /\ \A i : Waits(calls, i) => (HandsOver(frame) /\ FrameId(frame) = i) \/ Waits(below, i)
      /\ HandsOver(frame) /\ FrameId(frame) \in OrderIds =>
            \A i \in 1 .. Len(below) : ~Ends(below[i], FrameId(frame))
  BY <1>1, BelowIsFine
<1>3. id \in Placed /\ FrameId(frame) = id /\ HandsOver(frame)
  BY <1>1, <1>2, FrameForms DEF FrameId, HandsOver
<1>4. /\ UpdateOrderStatus(id, "Pending", below)
      /\ UNCHANGED <<resting_orders, event_queue, accepted>>
  BY DEF SubmittedIsPending
<1>5. "Pending" \in Statuses \ {"None"}
  BY DEF Statuses
<1>. HIDE DEF frame, id, below
<1>6. \A i : i # id /\ Waits(calls, i) => Waits(below, i)
  BY <1>2, <1>3
<1>7. \A i \in 1 .. Len(below) : ~Ends(below[i], id)
  BY <1>2, <1>3 DEF Placed
<1>. QED BY <1>1, <1>2, <1>3, <1>4, <1>5, <1>6, <1>7, StatusKeepsWork

LEMMA ModifyKeepsWork ==
  ASSUME WorkInv, NEW id \in OrderIds, NEW quantity \in Quantities, ModifyOrder(id, quantity)
  PROVE  WorkInv'
<1>1. PICK updated \in SnapshotsOf(Placed) :
         /\ updated.id = id /\ updated.status = orders[id].status
         /\ orders' = [orders EXCEPT ![id] = updated]
         /\ calls' = <<Callbacks(updated)>> \o calls
  BY ModifyKeepsTypes DEF WorkInv
<1>2. TypeInv' /\ Placed' = Placed /\ id \in Placed
  BY ModifyKeepsTypes DEF WorkInv
<1>3. orders \in [OrderIds -> Snapshot \cup {NoOrder}] /\ orders[id] \in Snapshot
  BY <1>2, PlacedSnapshots DEF WorkInv, TypeInv, OrdersInv, SnapshotsOf
<1>4. updated.quantity = quantity /\ updated.filled_quantity = orders[id].filled_quantity
  <2>. DEFINE order == orders[id]
  <2>1. orders' = [orders EXCEPT ![id] = [order EXCEPT !.quantity = quantity]]
    BY DEF ModifyOrder
  <2>2. orders'[id] = updated
    BY <1>1, <1>3
  <2>3. orders'[id] = [order EXCEPT !.quantity = quantity]
    BY <1>3, <2>1
  <2>4. order \in Snapshot
    BY <1>3
  <2>. HIDE DEF order
  <2>5. /\ [order EXCEPT !.quantity = quantity].quantity = quantity
        /\ [order EXCEPT !.quantity = quantity].filled_quantity = order.filled_quantity
    BY <2>4 DEF Snapshot
  <2>. QED BY <2>2, <2>3, <2>5 DEF order
<1>5. quantity < MaxFilled
  BY BacktestAssumption
<1>6. calls \in Seq(FramesAbout(Placed)) /\ Fine(calls, Over)
  BY DEF WorkInv, TypeInv, CallsInv
<1>7. \A i \in 1 .. Len(calls) : ~Ends(calls[i], id)
  <2>1. id \notin Over
    BY DEF ModifyOrder, Open, Over, OpenStatuses, OverStatuses
  <2>. QED BY <1>6, <2>1 DEF Fine, EndsLast
<1>8. /\ Fine(calls', Over') /\ SmallOrders'
      /\ \A i : Waits(calls, i) => Waits(calls', i)
  BY <1>1, <1>2, <1>4, <1>5, <1>6, <1>7, NewVersionIsFine DEF WorkInv
<1>9. \A i \in OrderIds :
         /\ orders'[i].filled_quantity = orders[i].filled_quantity
         /\ orders'[i].status = orders[i].status
  BY <1>1, <1>3, <1>4
<1>10. UNCHANGED <<resting_orders, event_queue, accepted>>
  BY DEF ModifyOrder
<1>11. RestsLots' /\ LotsInv'
  BY <1>9, <1>10, PipelineIdle DEF WorkInv
<1>12. PendingIsTracked'
  BY <1>8, <1>9, <1>10 DEF WorkInv, PendingIsTracked, Resting
<1>. QED BY <1>2, <1>8, <1>11, <1>12 DEF WorkInv

LEMMA SubmitKeepsWork ==
  ASSUME WorkInv, NEW plan \in Plans, SubmitOrder(plan)
  PROVE  WorkInv'
<1>1. PICK order \in Snapshot :
         /\ order.quantity = plan.quantity /\ order.filled_quantity = 0
         /\ order.status = "Created" /\ order.id \in OrderIds \ Placed
         /\ Placed' = Placed \cup {order.id}
         /\ orders' = [orders EXCEPT ![order.id] = order]
         /\ calls' = <<Callbacks(order), MakePending(order.id)>> \o calls
  BY SubmissionIsNew DEF WorkInv
<1>. DEFINE id == order.id
            S == FramesAbout(Placed')
            top == Callbacks(order)
            next == MakePending(id)
<1>2. TypeInv'
  BY SubmitKeepsTypes DEF WorkInv
<1>3. orders \in [OrderIds -> Snapshot \cup {NoOrder}] /\ id \in OrderIds \ Placed
  BY <1>1 DEF WorkInv, TypeInv, OrdersInv
<1>4. orders'[id] = order /\ \A i \in OrderIds \ {id} : orders'[i] = orders[i]
  BY <1>1, <1>3
<1>5. orders[id].status = "None" /\ orders[id].filled_quantity = 0
  <2>1. orders[id].status = "None"
    BY <1>3 DEF Placed
  <2>2. orders[id] = NoOrder
    BY <1>3, <2>1 DEF Snapshot
  <2>. QED BY <2>2 DEF NoOrder
<1>6. Over' = Over /\ id \notin Over
  BY <1>1, <1>3, <1>4, <1>5 DEF Over, OverStatuses
<1>7. /\ top \in S /\ next \in S /\ calls \in Seq(S)
  <2>1. FramesAbout(Placed) \subseteq S
    BY <1>1 DEF FramesAbout, SnapshotsOf
  <2>2. calls \in Seq(S)
    BY <2>1, SeqMonotonic DEF WorkInv, TypeInv, CallsInv
  <2>3. top \in S
    BY <1>1, CallbacksType DEF SnapshotsOf
  <2>4. next \in S
    BY <1>1 DEF MakePending, FramesAbout
  <2>. QED BY <2>2, <2>3, <2>4
<1>8. /\ HandsOver(next) /\ FrameId(next) = id /\ SmallFrame(next) /\ \A i : ~Ends(next, i)
      /\ ~HandsOver(top) /\ SmallFrame(top) /\ \A i : ~Ends(top, i)
  <2>1. next.op = "pending" /\ next.id = id /\ top.op = "callbacks" /\ top.order = order
    BY DEF MakePending, Callbacks
  <2>2. order.quantity < MaxFilled
    BY <1>1, BacktestAssumption
  <2>. HIDE DEF next, top
  <2>. QED BY <1>1, <2>1, <2>2 DEF HandsOver, FrameId, SmallFrame, Ends, OverStatuses
<1>9. calls' = <<top>> \o (<<next>> \o calls) /\ <<next>> \o calls \in Seq(S)
  <2>1. calls' = <<top, next>> \o calls
    BY <1>1
  <2>2. <<top>> \in Seq(S) /\ <<next>> \in Seq(S) /\ <<top, next>> = <<top>> \o <<next>>
    BY <1>7
  <2>. HIDE DEF top, next, S
  <2>3. (<<top>> \o <<next>>) \o calls = <<top>> \o (<<next>> \o calls)
    BY <1>7, <2>2, ConcatAssociative
  <2>4. <<next>> \o calls \in Seq(S)
    BY <1>7, PushedFrame
  <2>. QED BY <2>1, <2>2, <2>3, <2>4
<1>. HIDE DEF top, next, S, id
<1>10. Fine(<<next>> \o calls, Over)
  <2>1. \A i \in 1 .. Len(calls) : ~Ends(calls[i], id)
    BY <1>3, <1>6 DEF WorkInv, Fine, EndsLast
  <2>. QED BY <1>7, <1>8, <2>1, PushKeepsFine DEF WorkInv
<1>11. Fine(calls', Over')
  <2>1. Fine(<<top>> \o (<<next>> \o calls), Over)
    BY <1>7, <1>8, <1>9, <1>10, PushKeepsFine
  <2>. QED BY <1>6, <1>9, <2>1
<1>12. \A i : Waits(calls, i) => Waits(calls', i)
  <2>1. <<top>> \in Seq(S) /\ <<next>> \in Seq(S)
    BY <1>7
  <2>2. \A i : Waits(calls, i) => Waits(<<next>> \o calls, i)
    BY <1>7, <2>1, WaitsBelow
  <2>3. \A i : Waits(<<next>> \o calls, i) => Waits(<<top>> \o (<<next>> \o calls), i)
    BY <1>9, <2>1, WaitsBelow
  <2>. QED BY <1>9, <2>2, <2>3
<1>13. SmallOrders'
  <2>1. order.quantity < MaxFilled
    BY <1>1, BacktestAssumption
  <2>2. Placed' = Placed \cup {id} /\ Placed \subseteq OrderIds
    BY <1>1 DEF id, Placed
  <2>. QED BY <1>3, <1>4, <2>1, <2>2 DEF WorkInv, SmallOrders
<1>14. UNCHANGED <<resting_orders, event_queue, accepted>>
  BY DEF SubmitOrder
<1>15. RestsLots' /\ LotsInv'
  <2>1. \A i \in OrderIds :
           /\ orders'[i].filled_quantity = orders[i].filled_quantity
           /\ orders'[i].status = "PartiallyFilled" => orders[i].status = "PartiallyFilled"
    BY <1>1, <1>3, <1>4, <1>5
  <2>. QED BY <1>14, <2>1, PipelineIdle DEF WorkInv
<1>16. PendingIsTracked'
  <2>1. \A i \in OrderIds : orders'[i].status = "Pending" => orders[i].status = "Pending"
    BY <1>1, <1>3, <1>4
  <2>. QED BY <1>12, <1>14, <2>1 DEF WorkInv, PendingIsTracked, Resting
<1>. QED BY <1>2, <1>11, <1>13, <1>15, <1>16 DEF WorkInv

\* Only the stack changes, and every order is handed over as before.
LEMMA StackOnlyKeepsWork ==
  ASSUME WorkInv, TypeInv', UNCHANGED <<resting_orders, event_queue, orders, accepted>>,
         Fine(calls', Over), \A i : Waits(calls, i) => Waits(calls', i)
  PROVE  WorkInv'
<1>1. Over' = Over /\ SmallOrders'
  BY DEF Over, WorkInv, SmallOrders, Placed
<1>2. RestsLots' /\ LotsInv'
  BY PipelineIdle DEF WorkInv
<1>3. PendingIsTracked'
  BY DEF WorkInv, PendingIsTracked, Resting
<1>. QED BY <1>1, <1>2, <1>3 DEF WorkInv

LEMMA StrategyReturnsKeepsWork ==
  ASSUME WorkInv, StrategyReturns
  PROVE  WorkInv'
<1>1. TypeInv' /\ calls # << >> /\ Head(calls).op = "strategy" /\ calls' = Tail(calls)
  BY StrategyReturnsKeepsTypes DEF WorkInv, StrategyReturns, Running, Return
<1>2. UNCHANGED <<resting_orders, event_queue, orders, accepted>>
  BY DEF StrategyReturns
<1>3. ~HandsOver(Head(calls))
  BY <1>1 DEF HandsOver
<1>4. Fine(calls', Over) /\ \A i : Waits(calls, i) => Waits(calls', i)
  BY <1>1, <1>3, BelowIsFine
<1>. QED BY <1>1, <1>2, <1>4, StackOnlyKeepsWork

\* A frame of market updates takes the place of another.
LEMMA MatchFrameIsFine ==
  ASSUME WorkInv, Running("match"), NEW ids, NEW at, NEW left,
         Match(ids, at, left) \in FramesAbout(Placed)
  PROVE  LET stack == <<Match(ids, at, left)>> \o Tail(calls)
         IN  /\ Fine(stack, Over) /\ \A i : Waits(calls, i) => Waits(stack, i)
             /\ Fine(Tail(calls), Over) /\ \A i : Waits(calls, i) => Waits(Tail(calls), i)
<1>. DEFINE frame == Match(ids, at, left)
            below == Tail(calls)
<1>1. calls # << >> /\ Head(calls).op = "match"
  BY DEF Running
<1>2. ~HandsOver(Head(calls))
  BY <1>1 DEF HandsOver
<1>3. /\ below \in Seq(FramesAbout(Placed)) /\ Fine(below, Over)
      /\ \A i : Waits(calls, i) => Waits(below, i)
  BY <1>1, <1>2, BelowIsFine
<1>. HIDE DEF below
<1>4. Fine(<<frame>> \o below, Over)
  BY <1>3, MatchIsFine
<1>. HIDE DEF frame
<1>5. <<frame>> \in Seq(FramesAbout(Placed))
  BY DEF frame
<1>6. \A i : Waits(below, i) => Waits(<<frame>> \o below, i)
  BY <1>3, <1>5, WaitsBelow
<1>. QED BY <1>3, <1>4, <1>6 DEF below, frame

LEMMA NextTickKeepsWork ==
  ASSUME WorkInv, NextTick
  PROVE  WorkInv'
<1>. DEFINE frame == Head(calls)
            next == Match(Resting, frame.at + 1, frame.left - 1)
            below == Tail(calls)
<1>1. TypeInv' /\ Running("match") /\ UNCHANGED <<resting_orders, event_queue, orders, accepted>>
  BY NextTickKeepsTypes DEF WorkInv, NextTick
<1>2. frame \in FramesAbout(Placed) /\ below \in Seq(FramesAbout(Placed))
  BY TopFrame DEF NextTick, Running, WorkInv, TypeInv
<1>3. frame.at \in Nat /\ frame.left \in Nat
  BY <1>2, FrameForms DEF NextTick, Running
<1>4. calls' = (IF frame.left > 0 THEN <<next>> ELSE << >>) \o below
  BY DEF NextTick
<1>5. CASE frame.left > 0
  <2>1. next \in FramesAbout(Placed)
    <3>1. frame.at + 1 \in Nat /\ frame.left - 1 \in Nat
      BY <1>3, <1>5
    <3>. QED BY <3>1 DEF Match, FramesAbout, WorkInv, TypeInv, PipelineInv
  <2>2. Fine(<<next>> \o below, Over) /\ \A i : Waits(calls, i) => Waits(<<next>> \o below, i)
    BY <1>1, <2>1, MatchFrameIsFine
  <2>3. calls' = <<next>> \o below
    BY <1>4, <1>5
  <2>. HIDE DEF next, below
  <2>. QED BY <1>1, <2>2, <2>3, StackOnlyKeepsWork
<1>6. CASE ~(frame.left > 0)
  <2>1. calls' = below
    BY <1>2, <1>4, <1>6, ConcatEmptySeq
  <2>2. ~HandsOver(frame) /\ calls # << >>
    BY <1>1 DEF Running, HandsOver
  <2>3. Fine(below, Over) /\ \A i : Waits(calls, i) => Waits(below, i)
    BY <2>2, BelowIsFine
  <2>. HIDE DEF below
  <2>. QED BY <1>1, <2>1, <2>3, StackOnlyKeepsWork
<1>. QED BY <1>5, <1>6

\* The pipeline forgets an order that is over.
LEMMA ErasedKeepsWork ==
  ASSUME WorkInv, TypeInv', NEW id \in OrderIds, id \in Over, Erase(id),
         UNCHANGED <<event_queue, orders, accepted>>,
         Fine(calls', Over), \A i : Waits(calls, i) => Waits(calls', i)
  PROVE  WorkInv'
<1>1. resting_orders \in [OrderIds -> RestingState]
  BY DEF WorkInv, TypeInv, PipelineInv
<1>2. /\ id \notin Resting' /\ resting_orders'[id].quantity = 0
      /\ \A i \in OrderIds \ {id} : resting_orders'[i] = resting_orders[i]
  BY <1>1, RestOfErased DEF Erase, Rest
<1>3. orders[id].status # "Pending" /\ orders[id].status # "PartiallyFilled"
  BY DEF Over, OverStatuses
<1>4. Over' = Over /\ SmallOrders'
  BY DEF Over, WorkInv, SmallOrders, Placed
<1>5. RestsLots'
  BY <1>2 DEF WorkInv, RestsLots, Resting
<1>6. PendingIsTracked'
  <2>1. ASSUME NEW i \in OrderIds, orders'[i].status = "Pending"
        PROVE  i \in Resting' \/ Heard(event_queue, i)' \/ Waits(calls, i)'
    <3>1. i # id /\ orders[i].status = "Pending"
      BY <1>3, <2>1
    <3>2. i \in Resting \/ Heard(event_queue, i) \/ Waits(calls, i)
      BY <3>1 DEF WorkInv, PendingIsTracked
    <3>3. i \in Resting => i \in Resting'
      BY <1>2, <3>1 DEF Resting
    <3>4. Heard(event_queue, i) => Heard(event_queue, i)'
      BY DEF Heard
    <3>. QED BY <3>2, <3>3, <3>4
  <2>. QED BY <2>1 DEF PendingIsTracked
<1>7. ASSUME NEW i \in OrderIds, i # id PROVE NotHanded(i)' /\ HandedOnce(i)'
  <2>1. NotHanded(i) /\ HandedOnce(i)
    BY DEF WorkInv, LotsInv
  <2>. QED BY <1>2, <1>7, <2>1, LotsUntouched
<1>8. NotHanded(id)'
  <2>1. NotHanded(id)
    BY DEF WorkInv, LotsInv
  <2>. QED BY <1>2, <2>1 DEF NotHanded
<1>9. HandedOnce(id)'
  <2>1. HandedOnce(id)
    BY DEF WorkInv, LotsInv
  <2>2. resting_orders[id].quantity \in Nat
    BY <1>1 DEF RestingState
  <2>3. id \notin Resting => resting_orders[id].quantity = 0
    BY DEF Resting, NotResting
  <2>4. orders[id].filled_quantity \in Nat
    <3>1. orders[id] \in Snapshot
      BY OverSnapshots DEF WorkInv
    <3>. QED BY <3>1, BacktestAssumption DEF Snapshot
  <2>5. LotsOf(event_queue, id) \in Nat
    BY LotsType DEF WorkInv, TypeInv, PipelineInv
  <2>6. accepted[id].lots \in Nat
    BY DEF WorkInv, TypeInv, ClockInv, Counted
  <2>7. /\ Sum(id) = orders[id].filled_quantity + LotsOf(event_queue, id)
                        + resting_orders[id].quantity
        /\ Sum(id)' = orders[id].filled_quantity + LotsOf(event_queue, id) + 0
    BY <1>2 DEF Sum
  <2>8. /\ Sum(id)' <= Sum(id) /\ (id \notin Resting => Sum(id)' = Sum(id))
        /\ Sum(id) \in Nat /\ Sum(id)' \in Nat
    BY <2>2, <2>3, <2>4, <2>5, <2>7
  <2>9. ASSUME accepted[id].times = 1
        PROVE  /\ accepted[id].lots < MaxFilled
               /\ Sum(id)' <= accepted[id].lots
               /\ Closed(event_queue, id) \/ Sum(id)' = accepted[id].lots
    <3>1. /\ accepted[id].lots < MaxFilled /\ Sum(id) <= accepted[id].lots
          /\ Closed(event_queue, id) \/ Sum(id) = accepted[id].lots
          /\ id \in Resting => Closed(event_queue, id)
      BY <2>1, <2>9 DEF HandedOnce
    <3>. QED BY <2>6, <2>8, <3>1
  <2>. QED BY <1>2, <1>3, <2>9 DEF HandedOnce
<1>10. LotsInv'
  BY <1>7, <1>8, <1>9 DEF LotsInv
<1>. QED BY <1>4, <1>5, <1>6, <1>10 DEF WorkInv

\* The callbacks of an order that is over take it out of the pipeline; those of a
\* Pending one are followed by the frame that hands it over.
LEMMA RunCallbacksKeepsWork ==
  ASSUME WorkInv, RunCallbacks
  PROVE  WorkInv'
<1>. DEFINE frame == Head(calls)
            order == frame.order
            id == order.id
            below == Tail(calls)
            handed == IF order.status = "Pending" THEN <<Accept(order)>> ELSE << >>
            S == FramesAbout(Placed)
<1>1. TypeInv' /\ calls # << >> /\ frame.op = "callbacks"
  BY RunCallbacksKeepsTypes DEF WorkInv, RunCallbacks, Running
<1>2. /\ frame \in S /\ below \in Seq(S) /\ Fine(below, Over) /\ SmallFrame(frame)
      /\ \A i \in OrderIds : Ends(frame, i) => i \in Over
      /\ HandsOver(frame) /\ FrameId(frame) \in OrderIds =>
           \A i \in 1 .. Len(below) : ~Ends(below[i], FrameId(frame))
      /\ \A i : Waits(calls, i) => (HandsOver(frame) /\ FrameId(frame) = i) \/ Waits(below, i)
  BY <1>1, BelowIsFine
<1>3. order \in SnapshotsOf(Placed) /\ id \in Placed /\ id \in OrderIds
  BY <1>1, <1>2, FrameForms DEF SnapshotsOf, Placed
<1>4. /\ OnOrderUpdate(order)
      /\ calls' = Strategy(UpdateOps) \o handed \o below
      /\ UNCHANGED <<event_queue, orders, accepted>>
  BY DEF RunCallbacks
<1>5. /\ HandsOver(frame) <=> order.status = "Pending"
      /\ FrameId(frame) = id
      /\ Ends(frame, id) <=> order.status \in OverStatuses
  BY <1>1 DEF HandsOver, FrameId, Ends
<1>6. /\ Accept(order) \in S /\ handed \in Seq(S)
      /\ HandsOver(Accept(order)) /\ FrameId(Accept(order)) = id
      /\ SmallFrame(Accept(order)) /\ \A i : ~Ends(Accept(order), i)
  <2>1. Accept(order) \in S /\ handed \in Seq(S)
    BY <1>3, CallbacksType
  <2>2. HandsOver(Accept(order)) /\ FrameId(Accept(order)) = id
    BY DEF Accept, HandsOver, FrameId
  <2>3. SmallFrame(Accept(order)) /\ \A i : ~Ends(Accept(order), i)
    BY <1>1, <1>2 DEF Accept, SmallFrame, Ends
  <2>. QED BY <2>1, <2>2, <2>3
<1>. HIDE DEF below, order, frame, S, id
<1>7. handed \o below \in Seq(S) /\ Fine(handed \o below, Over)
  <2>1. CASE order.status = "Pending"
    <3>1. \A i \in 1 .. Len(below) : ~Ends(below[i], id)
      BY <1>2, <1>3, <1>5, <2>1
    <3>2. <<Accept(order)>> \o below \in Seq(S)
      BY <1>2, <1>6, PushedFrame
    <3>3. Fine(<<Accept(order)>> \o below, Over)
      BY <1>2, <1>6, <3>1, PushKeepsFine
    <3>. QED BY <2>1, <3>2, <3>3
  <2>2. CASE order.status # "Pending"
    BY <1>2, <2>2, ConcatEmptySeq
  <2>. QED BY <2>1, <2>2
<1>8. \A i : Waits(calls, i) => Waits(handed \o below, i)
  <2>1. ASSUME NEW i, HandsOver(frame), FrameId(frame) = i PROVE Waits(handed \o below, i)
    <3>1. order.status = "Pending" /\ i = id
      BY <1>5, <2>1
    <3>2. Waits(<<Accept(order)>> \o below, id)
      BY <1>2, <1>6, WaitsOnTop
    <3>. QED BY <3>1, <3>2
  <2>. HIDE DEF handed
  <2>2. ASSUME NEW i, Waits(below, i) PROVE Waits(handed \o below, i)
    BY <1>2, <1>6, <2>2, WaitsBelow
  <2>. QED BY <1>2, <2>1, <2>2
<1>9. Strategy(UpdateOps) \in Seq(S)
  BY StrategyType, BacktestAssumption DEF S
<1>10. calls' = Strategy(UpdateOps) \o (handed \o below)
  <2>. DEFINE first == Strategy(UpdateOps)
  <2>1. first \in Seq(S) /\ handed \in Seq(S) /\ below \in Seq(S)
    BY <1>2, <1>6, <1>9
  <2>. HIDE DEF first, handed
  <2>2. (first \o handed) \o below = first \o (handed \o below)
    BY <2>1, ConcatAssociative
  <2>. QED BY <1>4, <2>2 DEF first
<1>. DEFINE after == handed \o below
<1>. HIDE DEF handed
<1>11. Fine(calls', Over)
  <2>1. after \in Seq(FramesAbout(Placed)) /\ Fine(after, Over)
    BY <1>7 DEF S
  <2>. HIDE DEF after
  <2>2. Fine(Strategy(UpdateOps) \o after, Over)
    BY <2>1, CallIsFine, BacktestAssumption
  <2>. QED BY <1>10, <2>2 DEF after
<1>12. \A i : Waits(calls, i) => Waits(calls', i)
  <2>1. after \in Seq(S) /\ \A i : Waits(calls, i) => Waits(after, i)
    BY <1>7, <1>8
  <2>2. calls' = Strategy(UpdateOps) \o after
    BY <1>10
  <2>. HIDE DEF after
  <2>. QED BY <1>9, <2>1, <2>2, WaitsBelow
<1>13. CASE UNCHANGED resting_orders
  BY <1>1, <1>4, <1>11, <1>12, <1>13, StackOnlyKeepsWork
<1>14. CASE order.status \in OverStatuses /\ Erase(id)
  <2>1. id \in Over
    BY <1>2, <1>3, <1>5, <1>14
  <2>. QED BY <1>1, <1>3, <1>4, <1>11, <1>12, <1>14, <2>1, ErasedKeepsWork
<1>. QED BY <1>4, <1>13, <1>14 DEF OnOrderUpdate, id

\* Events pushed that are no fills of an order leave what counts of it.
LEMMA PushNoFills ==
  ASSUME NEW ids, NEW queue \in Seq(EventsAbout(ids)), NEW batch \in Seq(EventsAbout(ids)),
         NEW id, ~Filling(batch, id)
  PROVE  LET pushed == Push(queue, batch)
         IN  /\ LotsOf(pushed, id) = LotsOf(queue, id)
             /\ Filling(pushed, id) => Filling(queue, id)
             /\ Closed(queue, id) => Closed(pushed, id)
             /\ Closing(queue, id) => Closing(pushed, id)
             /\ Heard(queue, id) => Heard(pushed, id)
<1>1. LotsOf(batch, id) = 0 /\ LotsOf(queue, id) \in Nat
  BY NoLots, LotsType
<1>2. LotsOf(Push(queue, batch), id) = LotsOf(queue, id)
  BY <1>1, LotsOfPush
<1>3. Closed(queue, id) => Closed(Push(queue, batch), id)
  BY PushKeepsClosed
<1>. QED BY <1>2, <1>3, PushFacts

\* The pipeline has answered for an order: what it was given of the order is what
\* is missing of its lots.
LEMMA AnsweredOnce ==
  ASSUME TypeInv, NEW id \in OrderIds, NEW quantity \in Nat, Outcome(id, quantity, Placed),
         UNCHANGED orders, accepted'[id].lots < MaxFilled, Closed(event_queue, id),
         resting_orders'[id].quantity \in Nat, orders[id].filled_quantity \in Nat,
         orders[id].filled_quantity + LotsOf(event_queue, id) + quantity = accepted'[id].lots
  PROVE  HandedOnce(id)'
<1>1. PICK batch \in Seq(EventsAbout(Placed)) :
         /\ event_queue' = Push(event_queue, batch) /\ About(batch, id)
         /\ Shares(id, quantity, batch)
  BY DEF Outcome
<1>. DEFINE left == resting_orders'[id].quantity
            filled == orders[id].filled_quantity
<1>2. event_queue \in Seq(EventsAbout(Placed))
  BY DEF TypeInv, PipelineInv
<1>3. LotsOf(event_queue, id) \in Nat /\ LotsOf(batch, id) \in Nat
  BY <1>2, LotsType
<1>4. LotsOf(event_queue', id) = LotsOf(event_queue, id) + LotsOf(batch, id)
  BY <1>1, <1>2, LotsOfPush
<1>5. Sum(id)' = filled + (LotsOf(event_queue, id) + LotsOf(batch, id)) + left
  BY <1>4 DEF Sum
<1>6. /\ left + LotsOf(batch, id) <= quantity
      /\ LastCloses(batch, id) \/ left + LotsOf(batch, id) = quantity
      /\ id \in Resting' =>
            /\ left + LotsOf(batch, id) = quantity
            /\ batch = << >> \/ LastCloses(batch, id)
  BY <1>1 DEF Shares
<1>7. /\ Sum(id)' <= accepted'[id].lots
      /\ left + LotsOf(batch, id) = quantity => Sum(id)' = accepted'[id].lots
  <2>. DEFINE queued == LotsOf(event_queue, id)
              new == LotsOf(batch, id)
              lots == accepted'[id].lots
              sum == Sum(id)'
  <2>1. queued \in Nat /\ new \in Nat /\ left \in Nat /\ filled \in Nat
        /\ filled + queued + quantity = lots /\ sum = filled + (queued + new) + left
        /\ left + new <= quantity
    BY <1>3, <1>5, <1>6
  <2>. HIDE DEF queued, new, lots, sum, left, filled
  <2>2. sum <= lots /\ (left + new = quantity => sum = lots)
    BY <2>1
  <2>. QED BY <2>2 DEF sum, lots, new, left
<1>. HIDE DEF left, filled
<1>8. LastCloses(batch, id) => Closed(event_queue', id) /\ Closing(event_queue', id)
  <2>. SUFFICES ASSUME LastCloses(batch, id)
                PROVE  Closed(event_queue', id) /\ Closing(event_queue', id)
    OBVIOUS
  <2>1. batch # << >> /\ Closes(batch[Len(batch)], id)
    BY DEF LastCloses
  <2>2. Closed(event_queue', id)
    BY <1>1, <1>2, <2>1, PushKeepsClosed
  <2>3. Len(batch) \in 1 .. Len(batch)
    BY <2>1, EmptySeq, LenProperties
  <2>4. Closing(batch, id)
    BY <2>1, <2>3 DEF Closing
  <2>5. Closing(event_queue', id)
    BY <1>1, <1>2, <2>4, PushFacts
  <2>. QED BY <2>2, <2>5
<1>9. batch = << >> => Closed(event_queue', id)
  <2>. SUFFICES ASSUME batch = << >> PROVE Closed(event_queue', id)
    OBVIOUS
  <2>1. event_queue' = event_queue
    BY <1>1 DEF Push
  <2>. QED BY <2>1
<1>. QED BY <1>6, <1>7, <1>8, <1>9 DEF HandedOnce

\* The pipeline has denied an order that it was given once, and new.
LEMMA DeniedOnce ==
  ASSUME TypeInv, NEW id \in OrderIds, Denied(id, Placed), UNCHANGED orders,
         accepted'[id].lots < MaxFilled, accepted'[id].lots \in Nat,
         Closed(event_queue, id), LotsOf(event_queue, id) = 0,
         id \notin Resting, orders[id].filled_quantity = 0
  PROVE  HandedOnce(id)'
<1>1. PICK batch \in Seq(EventsAbout(Placed)) :
         /\ event_queue' = Push(event_queue, batch) /\ About(batch, id)
         /\ batch # << >> /\ LastCloses(batch, id) /\ LotsOf(batch, id) = 0
  BY DEF Denied
<1>2. event_queue \in Seq(EventsAbout(Placed))
  BY DEF TypeInv, PipelineInv
<1>3. LotsOf(event_queue', id) = 0
  BY <1>1, <1>2, LotsOfPush
<1>4. id \notin Resting' /\ resting_orders'[id].quantity = 0
  BY DEF Denied, Resting, NotResting
<1>5. Sum(id)' = 0
  BY <1>3, <1>4 DEF Sum
<1>6. Closes(batch[Len(batch)], id)
  BY <1>1 DEF LastCloses
<1>7. Closed(event_queue', id)
  BY <1>1, <1>2, <1>6, PushKeepsClosed
<1>8. Closing(event_queue', id)
  <2>1. Len(batch) \in 1 .. Len(batch)
    BY <1>1, EmptySeq, LenProperties
  <2>2. Closing(batch, id)
    BY <1>6, <2>1 DEF Closing
  <2>. QED BY <1>1, <1>2, <2>2, PushFacts
<1>. QED BY <1>4, <1>5, <1>7, <1>8 DEF HandedOnce

\* What an answer of the pipeline is, whatever it says.
Answered(id, quantity) ==
    \E batch \in Seq(EventsAbout(Placed)) :
        /\ event_queue' = Push(event_queue, batch) /\ About(batch, id)
        /\ batch # << >> \/ id \in Resting'
        /\ id \in Resting' => resting_orders'[id].quantity > 0
        /\ Denied(id, Placed) \/ Outcome(id, quantity, Placed)

LEMMA AnsweredForms ==
  ASSUME WorkInv, NEW id \in OrderIds, NEW quantity,
         Denied(id, Placed) \/ Outcome(id, quantity, Placed)
  PROVE  Answered(id, quantity)
<1>1. CASE Denied(id, Placed)
  <2>1. id \in Resting' => resting_orders'[id].quantity > 0
    BY <1>1 DEF Denied, WorkInv, RestsLots, Resting
  <2>. QED BY <1>1, <2>1 DEF Denied, Answered
<1>2. CASE Outcome(id, quantity, Placed)
  BY <1>2 DEF Outcome, Shares, Answered
<1>. QED BY <1>1, <1>2

\* The pipeline answers for an order; the events and the rest of others stay.
LEMMA AnswerKeepsWork ==
  ASSUME WorkInv, TypeInv', NEW id \in OrderIds, NEW quantity, Answered(id, quantity),
         Answers(id, Placed), UNCHANGED orders,
         \A i \in OrderIds \ {id} : accepted'[i] = accepted[i],
         Fine(calls', Over), \A i : i # id /\ Waits(calls, i) => Waits(calls', i),
         NotHanded(id)' /\ HandedOnce(id)'
  PROVE  WorkInv'
<1>1. PICK batch \in Seq(EventsAbout(Placed)) :
         /\ event_queue' = Push(event_queue, batch) /\ About(batch, id)
         /\ batch # << >> \/ id \in Resting'
         /\ id \in Resting' => resting_orders'[id].quantity > 0
  BY DEF Answered
<1>2. event_queue \in Seq(EventsAbout(Placed))
  BY DEF WorkInv, TypeInv, PipelineInv
<1>3. \A i \in OrderIds \ {id} : resting_orders'[i] = resting_orders[i]
  BY DEF Answers
<1>4. Over' = Over /\ SmallOrders'
  BY DEF Over, WorkInv, SmallOrders, Placed
<1>5. RestsLots'
  BY <1>1, <1>3 DEF WorkInv, RestsLots, Resting
<1>6. \A i \in OrderIds \ {id} : ~Filling(batch, i)
  BY <1>1 DEF About, Filling, Fills
<1>7. PendingIsTracked'
  <2>1. ASSUME NEW i \in OrderIds, orders'[i].status = "Pending"
        PROVE  i \in Resting' \/ Heard(event_queue', i) \/ Waits(calls', i)
    <3>1. CASE i = id /\ batch # << >>
      <4>1. 1 \in 1 .. Len(batch)
        BY <3>1, EmptySeq, LenProperties
      <4>2. Heard(batch, id)
        BY <1>1, <4>1 DEF About, Heard
      <4>. QED BY <1>1, <1>2, <3>1, <4>2, PushFacts
    <3>2. CASE i = id /\ batch = << >>
      BY <1>1, <3>2
    <3>3. CASE i # id
      <4>1. i \in Resting \/ Heard(event_queue, i) \/ Waits(calls, i)
        BY <2>1 DEF WorkInv, PendingIsTracked
      <4>2. i \in Resting => i \in Resting'
        BY <1>3, <3>3 DEF Resting
      <4>3. Heard(event_queue, i) => Heard(event_queue', i)
        BY <1>1, <1>2, PushFacts
      <4>. QED BY <3>3, <4>1, <4>2, <4>3
    <3>. QED BY <3>1, <3>2, <3>3
  <2>2. \A i : Heard(event_queue, i)' <=> Heard(event_queue', i)
    BY DEF Heard
  <2>3. \A i : Waits(calls, i)' <=> Waits(calls', i)
    BY DEF Waits
  <2>. QED BY <2>1, <2>2, <2>3 DEF PendingIsTracked
<1>8. ASSUME NEW i \in OrderIds, i # id PROVE NotHanded(i)' /\ HandedOnce(i)'
  <2>1. NotHanded(i) /\ HandedOnce(i)
    BY DEF WorkInv, LotsInv
  <2>2. ~Filling(batch, i)
    BY <1>6, <1>8
  <2>3. /\ LotsOf(event_queue', i) = LotsOf(event_queue, i)
        /\ Filling(event_queue', i) => Filling(event_queue, i)
        /\ Closed(event_queue, i) => Closed(event_queue', i)
        /\ Closing(event_queue, i) => Closing(event_queue', i)
    BY <1>1, <1>2, <2>2, PushNoFills
  <2>. QED BY <1>3, <1>8, <2>1, <2>3, LotsUntouched
<1>9. LotsInv'
  BY <1>8 DEF LotsInv
<1>. QED BY <1>4, <1>5, <1>7, <1>9 DEF WorkInv

\* What the lots of an order are made of.
LEMMA LotTypes ==
  ASSUME TypeInv, NEW id \in Placed
  PROVE  /\ orders[id].filled_quantity \in Nat /\ LotsOf(event_queue, id) \in Nat
         /\ resting_orders[id].quantity \in Nat /\ accepted[id].lots \in Nat
<1>1. orders[id] \in Snapshot /\ id \in OrderIds
  BY PlacedSnapshots DEF TypeInv, SnapshotsOf, Placed
<1>2. orders[id].filled_quantity \in Nat
  BY <1>1, BacktestAssumption DEF Snapshot
<1>3. LotsOf(event_queue, id) \in Nat
  BY LotsType DEF TypeInv, PipelineInv
<1>4. resting_orders[id].quantity \in Nat
  BY <1>1 DEF TypeInv, PipelineInv, RestingState
<1>5. accepted[id].lots \in Nat
  BY <1>1 DEF TypeInv, ClockInv, Counted
<1>. QED BY <1>2, <1>3, <1>4, <1>5

LEMMA CountForms ==
  ASSUME NEW order \in Snapshot, accepted \in [OrderIds -> Counted],
         NEW postponed \in BOOLEAN, accepted' = Count(order, postponed)
  PROVE  /\ \A i \in OrderIds \ {order.id} : accepted'[i] = accepted[i]
         /\ accepted[order.id].times = 0 =>
              accepted'[order.id].times = 1 /\ accepted'[order.id].lots = order.quantity
         /\ accepted[order.id].times # 0 => accepted'[order.id].times = 2
<1>1. order.id \in OrderIds
  BY DEF Snapshot
<1>. QED BY <1>1 DEF Count

\* The first time an order is handed over, nothing of it is filled or rests.
LEMMA FirstAnswer ==
  ASSUME WorkInv, NEW id \in OrderIds, NEW quantity \in Nat, quantity < MaxFilled,
         Denied(id, Placed) \/ Outcome(id, quantity, Placed), UNCHANGED orders,
         resting_orders'[id].quantity \in Nat,
         accepted[id].times = 0, accepted'[id].lots = quantity
  PROVE  HandedOnce(id)'
<1>1. /\ ~Filling(event_queue, id) /\ id \notin Resting
      /\ orders[id].filled_quantity = 0
  BY DEF WorkInv, LotsInv, NotHanded
<1>2. Closed(event_queue, id)
  BY <1>1 DEF Closed, Filling
<1>3. LotsOf(event_queue, id) = 0
  BY <1>1, NoLots DEF WorkInv, TypeInv, PipelineInv
<1>4. CASE Denied(id, Placed)
  BY <1>1, <1>2, <1>3, <1>4, DeniedOnce DEF WorkInv
<1>5. CASE Outcome(id, quantity, Placed)
  <2>1. orders[id].filled_quantity \in Nat /\ accepted'[id].lots < MaxFilled
    BY <1>1
  <2>2. orders[id].filled_quantity + LotsOf(event_queue, id) + quantity = accepted'[id].lots
    BY <1>1, <1>3
  <2>. QED BY <1>2, <1>5, <2>1, <2>2, AnsweredOnce DEF WorkInv
<1>. QED BY <1>4, <1>5

LEMMA AcceptKeepsWork ==
  ASSUME WorkInv, AcceptOrder
  PROVE  WorkInv'
<1>. DEFINE frame == Head(calls)
            order == frame.order
            below == Tail(calls)
<1>1. TypeInv' /\ calls # << >> /\ frame.op = "accept"
  BY AcceptKeepsTypes DEF WorkInv, AcceptOrder, Running
<1>2. /\ frame \in FramesAbout(Placed) /\ Fine(below, Over) /\ SmallFrame(frame)
      /\ \A i : Waits(calls, i) => (HandsOver(frame) /\ FrameId(frame) = i) \/ Waits(below, i)
  BY <1>1, BelowIsFine
<1>3. order \in SnapshotsOf(Placed) /\ FrameId(frame) = order.id /\ order.quantity < MaxFilled
  BY <1>1, <1>2, FrameForms DEF FrameId, SmallFrame
<1>4. PICK postponed \in BOOLEAN :
         /\ OnOrderSubmitted(order) /\ accepted' = Count(order, postponed) /\ calls' = below
         /\ UNCHANGED orders
  BY DEF AcceptOrder, Return, OnOrderSubmitted
<1>. HIDE DEF frame, order, below
<1>5. Placed \in SUBSET OrderIds
  BY DEF Placed
<1>6. PICK id \in Placed : id = order.id
  BY <1>3 DEF SnapshotsOf
<1>7. PICK quantity \in Nat : quantity = order.quantity
  BY <1>3 DEF SnapshotsOf, Snapshot
<1>8. /\ resting_orders \in [OrderIds -> RestingState] /\ priced \in BOOLEAN
      /\ event_queue \in Seq(EventsAbout(Placed))
      /\ accepted \in [OrderIds -> Counted]
  BY DEF WorkInv, TypeInv, PipelineInv, ClockInv
<1>9. Denied(id, Placed) \/ Outcome(id, quantity, Placed)
  <2>1. Denied(order.id, Placed) \/ Outcome(order.id, order.quantity, Placed)
    BY <1>3, <1>4, <1>5, <1>8, SubmissionOutcome
  <2>. QED BY <1>6, <1>7, <2>1
<1>10. Answers(id, Placed)
  <2>1. Answers(order.id, Placed)
    BY <1>3, <1>4, <1>5, <1>8, SubmissionAnswers
  <2>. QED BY <1>6, <2>1
<1>11. id \in OrderIds /\ Answered(id, quantity)
  BY <1>5, <1>9, AnsweredForms
<1>12. /\ \A i \in OrderIds \ {id} : accepted'[i] = accepted[i]
       /\ accepted[id].times = 0 => accepted'[id].times = 1 /\ accepted'[id].lots = quantity
       /\ accepted[id].times # 0 => accepted'[id].times = 2
  BY <1>3, <1>4, <1>6, <1>7, <1>8, CountForms DEF SnapshotsOf
<1>13. \A i : i # id /\ Waits(calls, i) => Waits(calls', i)
  BY <1>2, <1>3, <1>4, <1>6
<1>14. resting_orders'[id].quantity \in Nat
  BY <1>10, <1>11 DEF Answers, RestingState
<1>15. NotHanded(id)'
  BY <1>12 DEF NotHanded
<1>16. HandedOnce(id)'
  <2>1. CASE accepted[id].times = 0
    <3>1. quantity < MaxFilled /\ accepted'[id].lots = quantity
      BY <1>3, <1>7, <1>12, <2>1
    <3>. QED BY <1>4, <1>9, <1>11, <1>14, <2>1, <3>1, FirstAnswer
  <2>2. CASE accepted[id].times # 0
    BY <1>12, <2>2 DEF HandedOnce
  <2>. QED BY <2>1, <2>2
<1>17. Fine(calls', Over)
  BY <1>2, <1>4
<1>. QED
  BY <1>1, <1>4, <1>10, <1>11, <1>12, <1>13, <1>15, <1>16, <1>17, AnswerKeepsWork

\* Whatever the pipeline does with an order that rests, it had all of its lots that
\* are neither filled nor on their way.
LEMMA MatchKeepsWork ==
  ASSUME WorkInv, MatchOrder
  PROVE  WorkInv'
<1>. DEFINE frame == Head(calls)
            below == Tail(calls)
<1>1. TypeInv' /\ Running("match") /\ UNCHANGED <<orders, accepted>>
  BY MatchKeepsTypes DEF WorkInv, MatchOrder
<1>2. frame \in FramesAbout(Placed)
  BY <1>1, TopFrame DEF Running, WorkInv, TypeInv
<1>3. frame.ids \subseteq Placed /\ frame.at \in Nat /\ frame.left \in Nat
  BY <1>1, <1>2, FrameForms DEF Running
<1>4. PICK id \in frame.ids :
         /\ ProcessRestingOrder(id, frame.at)
         /\ calls' = <<Match(frame.ids \ {id}, frame.at, frame.left)>> \o below
  BY DEF MatchOrder
<1>. HIDE DEF frame
<1>. DEFINE next == Match(frame.ids \ {id}, frame.at, frame.left)
<1>5. next \in FramesAbout(Placed)
  BY <1>3 DEF Match, FramesAbout
<1>6. Fine(calls', Over) /\ \A i : Waits(calls, i) => Waits(calls', i)
  BY <1>1, <1>4, <1>5, MatchFrameIsFine
<1>. HIDE DEF next, below
<1>7. Placed \in SUBSET OrderIds /\ id \in Placed /\ id \in OrderIds
  BY <1>3 DEF Placed
<1>8. /\ resting_orders \in [OrderIds -> RestingState]
      /\ event_queue \in Seq(EventsAbout(Placed))
  BY DEF WorkInv, TypeInv, PipelineInv
<1>9. id \in Resting => resting_orders[id].quantity > 0
  BY DEF WorkInv, RestsLots
<1>10. CASE UNCHANGED <<resting_orders, event_queue>>
  BY <1>1, <1>6, <1>10, StackOnlyKeepsWork
<1>11. CASE id \in Resting /\ Outcome(id, resting_orders[id].quantity, Placed)
  <2>1. PICK quantity \in Nat : quantity = resting_orders[id].quantity
    BY <1>7, <1>8 DEF RestingState
  <2>2. Outcome(id, quantity, Placed)
    BY <1>11, <2>1
  <2>3. Answered(id, quantity)
    BY <1>7, <2>2, AnsweredForms
  <2>4. Answers(id, Placed)
    BY <1>3, <1>4, <1>7, <1>8, MatchingAnswers
  <2>5. NotHanded(id)'
    <3>1. NotHanded(id)
      BY <1>7 DEF WorkInv, LotsInv
    <3>2. accepted[id].times # 0
      BY <1>11, <3>1 DEF NotHanded
    <3>. QED BY <1>1, <3>2 DEF NotHanded
  <2>6. HandedOnce(id)'
    <3>1. CASE accepted[id].times = 1
      <4>1. HandedOnce(id)
        BY <1>7 DEF WorkInv, LotsInv
      <4>2. /\ accepted[id].lots < MaxFilled /\ Closed(event_queue, id)
            /\ Sum(id) = accepted[id].lots
        BY <1>11, <3>1, <4>1 DEF HandedOnce
      <4>3. orders[id].filled_quantity + LotsOf(event_queue, id) + quantity = accepted[id].lots
        BY <2>1, <4>2 DEF Sum
      <4>4. orders[id].filled_quantity \in Nat
        BY <1>7, LotTypes DEF WorkInv
      <4>5. resting_orders'[id].quantity \in Nat
        BY <1>7, <2>4 DEF Answers, RestingState
      <4>6. accepted'[id].lots = accepted[id].lots
        BY <1>1
      <4>. QED BY <1>1, <1>7, <2>2, <4>2, <4>3, <4>4, <4>5, <4>6, AnsweredOnce DEF WorkInv
    <3>2. CASE accepted[id].times # 1
      BY <1>1, <3>2 DEF HandedOnce
    <3>. QED BY <3>1, <3>2
  <2>7. \A i \in OrderIds \ {id} : accepted'[i] = accepted[i]
    BY <1>1
  <2>. QED BY <1>1, <1>6, <1>7, <2>3, <2>4, <2>5, <2>6, <2>7, AnswerKeepsWork
<1>. QED BY <1>3, <1>4, <1>7, <1>8, <1>9, <1>10, <1>11, MatchingOutcome

\* What counts of an order when an event that is none of its fills is handled.
LEMMA DispatchNoFills ==
  ASSUME NEW ids, NEW queue \in Seq(EventsAbout(ids)), queue # << >>,
         NEW id, ~Fills(Head(queue), id)
  PROVE  LET rest == Tail(queue)
         IN  /\ rest \in Seq(EventsAbout(ids))
             /\ LotsOf(rest, id) = LotsOf(queue, id)
             /\ Filling(rest, id) => Filling(queue, id)
             /\ Closed(queue, id) => Closed(rest, id)
             /\ Closing(queue, id) /\ Head(queue).id # id => Closing(rest, id)
             /\ Heard(queue, id) /\ Head(queue).id # id => Heard(rest, id)
<1>1. Tail(queue) \in Seq(EventsAbout(ids))
  BY HeadTailProperties
<1>2. LotsOf(Tail(queue), id) = LotsOf(queue, id)
  <2>1. LotsOf(queue, id) = 0 + LotsOf(Tail(queue), id)
    BY LotsOfTail
  <2>2. LotsOf(Tail(queue), id) \in Nat
    BY <1>1, LotsType
  <2>. QED BY <2>1, <2>2
<1>3. Head(queue).id # id => ~Closes(Head(queue), id)
  BY DEF Closes
<1>. QED BY <1>1, <1>2, <1>3, TailFacts

LEMMA HandleMarketKeepsWork ==
  ASSUME WorkInv, HandleMarket
  PROVE  WorkInv'
<1>. DEFINE event == Head(event_queue)
            frame == Match(Resting, event.time, event.lots - 1)
            called == Strategy(MarketOps)
<1>1. /\ TypeInv' /\ calls = << >> /\ event_queue # << >> /\ event.kind = "Market"
      /\ event.time \in Nat /\ event.lots \in Nat \ {0}
  BY HandleMarketKeepsTypes, HeadEvent DEF WorkInv, HandleMarket, Dispatching
<1>2. /\ event_queue' \in {Push(Tail(event_queue), cancels) :
                              cancels \in Cancels(Expired(event.time), event.time)}
      /\ calls' = <<frame>> \o called
      /\ UNCHANGED <<resting_orders, orders, accepted>>
  BY DEF HandleMarket
<1>3. PICK cancels \in Cancels(Expired(event.time), event.time) :
         event_queue' = Push(Tail(event_queue), cancels)
  BY <1>2
<1>4. event_queue \in Seq(EventsAbout(Placed)) /\ event \in EventsAbout(Placed)
  BY <1>1, HeadTailProperties DEF WorkInv, TypeInv, PipelineInv
<1>5. cancels \in Seq(EventsAbout(Placed)) /\ \A i : ~Filling(cancels, i)
  <2>1. /\ cancels \in Seq(EventsAbout(Placed))
        /\ \A i \in 1 .. Len(cancels) : cancels[i].kind = "Cancel"
    BY <1>1, CancelsType
  <2>. QED BY <2>1 DEF Filling, Fills
<1>6. \A i \in OrderIds : event.id # i
  <2>1. event.id = 0
    BY <1>1, <1>4, EventForms DEF OrderEventKinds
  <2>. QED BY <2>1, PipelineAssumption
<1>7. frame \in FramesAbout(Placed) /\ called \in Seq(FramesAbout(Placed)) /\ Fine(called, Over)
  <2>1. event.lots - 1 \in Nat
    BY <1>1
  <2>2. frame \in FramesAbout(Placed)
    BY <1>1, <2>1 DEF Match, FramesAbout, WorkInv, TypeInv, PipelineInv
  <2>3. called \in Seq(FramesAbout(Placed))
    BY StrategyType, BacktestAssumption
  <2>4. Fine(<< >>, Over) /\ << >> \in Seq(FramesAbout(Placed))
    BY NothingIsFine
  <2>5. Fine(called \o << >>, Over)
    BY <2>4, CallIsFine, BacktestAssumption
  <2>6. called \o << >> = called
    BY <2>3, ConcatEmptySeq
  <2>. QED BY <2>2, <2>3, <2>5, <2>6
<1>8. Fine(calls', Over)
  <2>1. Fine(<<frame>> \o called, Over)
    BY <1>7, MatchIsFine
  <2>. QED BY <1>2, <2>1
<1>. HIDE DEF event, frame, called
<1>9. Over' = Over /\ SmallOrders' /\ RestsLots'
  BY <1>2 DEF Over, WorkInv, SmallOrders, Placed, RestsLots, Resting
<1>10. ASSUME NEW i \in OrderIds
       PROVE  /\ LotsOf(event_queue', i) = LotsOf(event_queue, i)
              /\ Filling(event_queue', i) => Filling(event_queue, i)
              /\ Closed(event_queue, i) => Closed(event_queue', i)
              /\ Closing(event_queue, i) => Closing(event_queue', i)
              /\ Heard(event_queue, i) => Heard(event_queue', i)
  <2>. DEFINE rest == Tail(event_queue)
  <2>1. ~Fills(event, i) /\ event.id # i
    BY <1>6 DEF Fills
  <2>2. /\ rest \in Seq(EventsAbout(Placed)) /\ LotsOf(rest, i) = LotsOf(event_queue, i)
        /\ Filling(rest, i) => Filling(event_queue, i)
        /\ Closed(event_queue, i) => Closed(rest, i)
        /\ Closing(event_queue, i) => Closing(rest, i)
        /\ Heard(event_queue, i) => Heard(rest, i)
    BY <1>1, <1>4, <2>1, DispatchNoFills DEF event
  <2>3. event_queue' = Push(rest, cancels) /\ ~Filling(cancels, i)
    BY <1>3, <1>5
  <2>. HIDE DEF rest
  <2>4. /\ LotsOf(event_queue', i) = LotsOf(rest, i)
        /\ Filling(event_queue', i) => Filling(rest, i)
        /\ Closed(rest, i) => Closed(event_queue', i)
        /\ Closing(rest, i) => Closing(event_queue', i)
        /\ Heard(rest, i) => Heard(event_queue', i)
    BY <1>5, <2>2, <2>3, PushNoFills
  <2>. QED BY <2>2, <2>4
<1>11. PendingIsTracked'
  <2>1. ASSUME NEW i \in OrderIds, orders'[i].status = "Pending"
        PROVE  i \in Resting' \/ Heard(event_queue', i)
    <3>1. i \in Resting \/ Heard(event_queue, i) \/ Waits(calls, i)
      BY <1>2, <2>1 DEF WorkInv, PendingIsTracked
    <3>2. ~Waits(calls, i)
      BY <1>1 DEF Waits
    <3>3. i \in Resting => i \in Resting'
      BY <1>2 DEF Resting
    <3>. QED BY <1>10, <3>1, <3>2, <3>3
  <2>2. \A i : Heard(event_queue, i)' <=> Heard(event_queue', i)
    BY DEF Heard
  <2>. QED BY <2>1, <2>2 DEF PendingIsTracked
<1>12. ASSUME NEW i \in OrderIds PROVE NotHanded(i)' /\ HandedOnce(i)'
  <2>1. NotHanded(i) /\ HandedOnce(i)
    BY DEF WorkInv, LotsInv
  <2>2. /\ accepted'[i] = accepted[i] /\ resting_orders'[i] = resting_orders[i]
        /\ orders'[i] = orders[i]
    BY <1>2
  <2>. QED BY <1>10, <2>1, <2>2, LotsUntouched
<1>13. LotsInv'
  BY <1>12 DEF LotsInv
<1>. QED BY <1>1, <1>8, <1>9, <1>11, <1>13 DEF WorkInv

LEMMA HandleStatusKeepsWork ==
  ASSUME WorkInv, HandleStatus
  PROVE  WorkInv'
<1>. DEFINE event == Head(event_queue)
            status == StatusOf(event.kind)
<1>1. /\ TypeInv' /\ event.id \in Placed /\ calls = << >> /\ event_queue # << >>
      /\ event.kind \in {"Cancel", "Reject", "Update"}
  BY HandleStatusKeepsTypes DEF WorkInv, HandleStatus, Dispatching
<1>2. /\ UpdateOrderStatus(event.id, status, << >>)
      /\ event_queue' = Tail(event_queue)
      /\ UNCHANGED <<resting_orders, accepted>>
  BY DEF HandleStatus
<1>3. PICK id \in Placed : id = event.id
  BY <1>1
<1>4. status \in Statuses \ {"None"} /\ status # "PartiallyFilled"
  BY <1>1 DEF StatusOf, Statuses, OverStatuses
<1>5. event_queue \in Seq(EventsAbout(Placed))
  BY DEF WorkInv, TypeInv, PipelineInv
<1>6. \A i : ~Fills(event, i)
  BY <1>1 DEF Fills
<1>. HIDE DEF event, status
<1>. DEFINE none == << >>
<1>7. /\ none \in Seq(FramesAbout(Placed)) /\ Fine(none, Over)
      /\ \A i \in 1 .. Len(none) : ~Ends(none[i], id)
  BY NothingIsFine
<1>8. UpdateOrderStatus(id, status, none)
  BY <1>2, <1>3
<1>. HIDE DEF none
<1>9. /\ Fine(calls', Over') /\ SmallOrders'
      /\ status = "Pending" => Waits(calls', id)
      /\ orders'[id].status = status
      /\ \A i \in OrderIds \ {id} : orders'[i] = orders[i]
      /\ \A i \in OrderIds :
            /\ orders'[i].filled_quantity = orders[i].filled_quantity
            /\ orders'[i].status = "PartiallyFilled" => orders[i].status = "PartiallyFilled"
  BY <1>4, <1>7, <1>8, NewStatusIsFine DEF WorkInv
<1>10. ASSUME NEW i \in OrderIds
       PROVE  /\ LotsOf(event_queue', i) = LotsOf(event_queue, i)
              /\ Filling(event_queue', i) => Filling(event_queue, i)
              /\ Closed(event_queue, i) => Closed(event_queue', i)
              /\ i # id /\ Closing(event_queue, i) => Closing(event_queue', i)
              /\ i # id /\ Heard(event_queue, i) => Heard(event_queue', i)
  BY <1>1, <1>2, <1>3, <1>5, <1>6, DispatchNoFills DEF event
<1>11. RestsLots'
  BY <1>2 DEF WorkInv, RestsLots, Resting
<1>12. PendingIsTracked'
  <2>1. ASSUME NEW i \in OrderIds, orders'[i].status = "Pending"
        PROVE  i \in Resting' \/ Heard(event_queue', i) \/ Waits(calls', i)
    <3>1. CASE i = id
      BY <1>9, <2>1, <3>1
    <3>2. CASE i # id
      <4>1. i \in Resting \/ Heard(event_queue, i) \/ Waits(calls, i)
        BY <1>9, <2>1, <3>2 DEF WorkInv, PendingIsTracked
      <4>2. ~Waits(calls, i)
        BY <1>1 DEF Waits
      <4>3. i \in Resting => i \in Resting'
        BY <1>2 DEF Resting
      <4>. QED BY <1>10, <3>2, <4>1, <4>2, <4>3
    <3>. QED BY <3>1, <3>2
  <2>2. \A i : Heard(event_queue, i)' <=> Heard(event_queue', i)
    BY DEF Heard
  <2>3. \A i : Waits(calls, i)' <=> Waits(calls', i)
    BY DEF Waits
  <2>. QED BY <2>1, <2>2, <2>3 DEF PendingIsTracked
<1>13. ASSUME NEW i \in OrderIds PROVE NotHanded(i)' /\ HandedOnce(i)'
  <2>1. NotHanded(i) /\ HandedOnce(i)
    BY DEF WorkInv, LotsInv
  <2>2. accepted'[i] = accepted[i] /\ resting_orders'[i] = resting_orders[i]
    BY <1>2
  <2>3. orders'[i].status = "PartiallyFilled" =>
           /\ orders[i].status = "PartiallyFilled"
           /\ Closing(event_queue, i) => Closing(event_queue', i)
    BY <1>4, <1>9, <1>10
  <2>. QED BY <1>9, <1>10, <2>1, <2>2, <2>3, LotsUntouched
<1>14. LotsInv'
  BY <1>13 DEF LotsInv
<1>. QED BY <1>1, <1>9, <1>11, <1>12, <1>14 DEF WorkInv

\* The fill of an order handed over once moves lots from the queue to the table.
LEMMA FillMovesLots ==
  ASSUME TypeInv, NEW id \in Placed, HandedOnce(id), accepted[id].times = 1,
         event_queue # << >>, Fills(Head(event_queue), id),
         event_queue' = Tail(event_queue), UNCHANGED <<resting_orders, accepted>>,
         NEW filled, filled = orders[id].filled_quantity + Head(event_queue).lots,
         orders'[id].filled_quantity = IF filled < MaxFilled THEN filled ELSE MaxFilled
  PROVE  HandedOnce(id)'
<1>. DEFINE rest == Tail(event_queue)
            lots == Head(event_queue).lots
            old == orders[id].filled_quantity
            queued == LotsOf(rest, id)
            left == resting_orders[id].quantity
            all == accepted[id].lots
            sum == Sum(id)
<1>1. /\ event_queue \in Seq(EventsAbout(Placed)) /\ rest \in Seq(EventsAbout(Placed))
      /\ Head(event_queue) \in EventsAbout(Placed)
  BY HeadTailProperties DEF TypeInv, PipelineInv
<1>2. lots \in Nat
  BY <1>1, EventForms
<1>3. old \in Nat /\ left \in Nat /\ all \in Nat /\ queued \in Nat
  BY <1>1, LotTypes, LotsType
<1>4. sum = old + (lots + queued) + left
  <2>1. LotsOf(event_queue, id) = lots + queued
    BY <1>1, LotsOfTail
  <2>. QED BY <2>1 DEF Sum
<1>5. /\ all < MaxFilled /\ sum <= all
      /\ Closed(event_queue, id) \/ sum = all
      /\ id \in Resting => Closed(event_queue, id) /\ sum = all
  BY DEF HandedOnce
<1>6. filled = old + lots /\ MaxFilled \in Nat
  BY BacktestAssumption
<1>7. orders'[id].filled_quantity = old + lots
  <2>. HIDE DEF old, lots, left, all, queued, sum
  <2>1. filled < MaxFilled
    BY <1>2, <1>3, <1>4, <1>5, <1>6
  <2>. QED BY <1>6, <2>1
<1>8. Sum(id)' = sum
  <2>1. Sum(id)' = (old + lots) + queued + left
    BY <1>7 DEF Sum
  <2>. HIDE DEF old, lots, left, queued, sum
  <2>. QED BY <1>2, <1>3, <1>4, <2>1
<1>9. /\ Closed(event_queue, id) => Closed(rest, id)
      /\ Closed(event_queue, id) => Closing(rest, id)
  BY <1>1, TailFacts
<1>10. /\ Closed(event_queue', id) <=> Closed(rest, id)
       /\ Closing(event_queue', id) <=> Closing(rest, id)
       /\ accepted'[id].lots = all
       /\ id \in Resting' <=> id \in Resting
  BY DEF Resting
<1>. HIDE DEF rest, all, sum
<1>. QED BY <1>5, <1>8, <1>9, <1>10 DEF HandedOnce

LEMMA HandleFillKeepsWork ==
  ASSUME WorkInv, HandleFill
  PROVE  WorkInv'
<1>. DEFINE event == Head(event_queue)
<1>1. /\ TypeInv' /\ calls = << >> /\ event_queue # << >> /\ event.kind = "Fill"
      /\ event_queue' = Tail(event_queue) /\ UNCHANGED <<resting_orders, accepted>>
  BY HandleFillKeepsTypes DEF WorkInv, HandleFill, Dispatching
<1>2. PICK updated \in SnapshotsOf(Placed) :
         /\ updated.status \in {"Filled", "PartiallyFilled"}
         /\ updated.id = event.id
         /\ updated.quantity = orders[updated.id].quantity
         /\ updated.filled_quantity =
               IF orders[updated.id].filled_quantity + event.lots < MaxFilled
               THEN orders[updated.id].filled_quantity + event.lots ELSE MaxFilled
         /\ orders' = [orders EXCEPT ![updated.id] = updated]
         /\ calls' = Strategy(FillOps) \o <<Callbacks(updated)>>
  BY HandleFillKeepsTypes DEF WorkInv
<1>. HIDE DEF event
<1>3. PICK id \in Placed : id = updated.id
  BY DEF SnapshotsOf
<1>4. orders \in [OrderIds -> Snapshot \cup {NoOrder}] /\ id \in OrderIds
  BY DEF WorkInv, TypeInv, OrdersInv, Placed
<1>5. orders'[id] = updated /\ \A i \in OrderIds \ {id} : orders'[i] = orders[i]
  BY <1>2, <1>3, <1>4
<1>6. updated.quantity < MaxFilled
  BY <1>2, <1>3 DEF WorkInv, SmallOrders
<1>7. event_queue \in Seq(EventsAbout(Placed))
  BY DEF WorkInv, TypeInv, PipelineInv
<1>8. Fills(event, id) /\ \A i : i # id => ~Fills(event, i) /\ event.id # i
  BY <1>1, <1>2, <1>3 DEF Fills
<1>. DEFINE none == << >>
            top == <<Callbacks(updated)>>
<1>9. /\ none \in Seq(FramesAbout(Placed)) /\ Fine(none, Over)
      /\ \A i \in 1 .. Len(none) : ~Ends(none[i], id)
  BY NothingIsFine
<1>10. top \in Seq(FramesAbout(Placed)) /\ top \o none = top
  BY CallbacksType, ConcatEmptySeq
<1>. HIDE DEF none
<1>11. Fine(top, Over') /\ SmallOrders'
  <2>1. orders' = [orders EXCEPT ![id] = updated] /\ updated.id = id
    BY <1>2, <1>3
  <2>2. Fine(<<Callbacks(updated)>> \o none, Over') /\ SmallOrders'
    BY <1>6, <1>9, <2>1, NewVersionIsFine DEF WorkInv
  <2>. QED BY <1>10, <2>2
<1>12. Fine(calls', Over')
  <2>. HIDE DEF top
  <2>1. Fine(Strategy(FillOps) \o top, Over')
    BY <1>10, <1>11, CallIsFine, BacktestAssumption
  <2>. QED BY <1>2, <2>1 DEF top
<1>13. RestsLots'
  BY <1>1 DEF WorkInv, RestsLots, Resting
<1>14. PendingIsTracked'
  <2>1. ASSUME NEW i \in OrderIds, orders'[i].status = "Pending"
        PROVE  i \in Resting' \/ Heard(event_queue', i)
    <3>1. i # id /\ orders[i].status = "Pending"
      BY <1>2, <1>5, <2>1
    <3>2. i \in Resting \/ Heard(event_queue, i) \/ Waits(calls, i)
      BY <3>1 DEF WorkInv, PendingIsTracked
    <3>3. ~Waits(calls, i)
      BY <1>1 DEF Waits
    <3>4. i \in Resting => i \in Resting'
      BY <1>1 DEF Resting
    <3>5. Heard(event_queue, i) => Heard(event_queue', i)
      BY <1>1, <1>7, <1>8, <3>1, DispatchNoFills DEF event
    <3>. QED BY <3>2, <3>3, <3>4, <3>5
  <2>2. \A i : Heard(event_queue, i)' <=> Heard(event_queue', i)
    BY DEF Heard
  <2>. QED BY <2>1, <2>2 DEF PendingIsTracked
<1>15. ASSUME NEW i \in OrderIds, i # id PROVE NotHanded(i)' /\ HandedOnce(i)'
  <2>1. NotHanded(i) /\ HandedOnce(i)
    BY DEF WorkInv, LotsInv
  <2>2. /\ LotsOf(event_queue', i) = LotsOf(event_queue, i)
        /\ Filling(event_queue', i) => Filling(event_queue, i)
        /\ Closed(event_queue, i) => Closed(event_queue', i)
        /\ Closing(event_queue, i) => Closing(event_queue', i)
    BY <1>1, <1>7, <1>8, <1>15, DispatchNoFills DEF event
  <2>3. /\ accepted'[i] = accepted[i] /\ resting_orders'[i] = resting_orders[i]
        /\ orders'[i] = orders[i]
    BY <1>1, <1>5, <1>15
  <2>. QED BY <2>1, <2>2, <2>3, LotsUntouched
<1>16. accepted[id].times # 0
  <2>1. Filling(event_queue, id)
    BY <1>1, <1>7, <1>8, TailFacts DEF event
  <2>2. NotHanded(id)
    BY <1>4 DEF WorkInv, LotsInv
  <2>. QED BY <2>1, <2>2 DEF NotHanded
<1>17. NotHanded(id)'
  BY <1>1, <1>16 DEF NotHanded
<1>18. HandedOnce(id)'
  <2>1. CASE accepted[id].times = 1
    <3>1. HandedOnce(id)
      BY <1>4 DEF WorkInv, LotsInv
    <3>. DEFINE filled == orders[id].filled_quantity + Head(event_queue).lots
    <3>2. orders'[id].filled_quantity = IF filled < MaxFilled THEN filled ELSE MaxFilled
      BY <1>2, <1>3, <1>5 DEF event
    <3>3. Fills(Head(event_queue), id)
      BY <1>8 DEF event
    <3>. QED BY <1>1, <2>1, <3>1, <3>2, <3>3, FillMovesLots DEF WorkInv
  <2>2. CASE accepted[id].times # 1
    BY <1>1, <2>2 DEF HandedOnce
  <2>. QED BY <2>1, <2>2
<1>19. LotsInv'
  BY <1>15, <1>17, <1>18 DEF LotsInv
<1>. QED BY <1>1, <1>11, <1>12, <1>13, <1>14, <1>19 DEF WorkInv

\* Nothing is handed over at the start, and the market events are no fills.
LEMMA WorkAtStart ==
  ASSUME Init
  PROVE  WorkInv
<1>1. TypeInv
  BY TypesAtStart
<1>2. calls = Strategy(StartOps) /\ orders = [id \in OrderIds |-> NoOrder]
      /\ resting_orders = [id \in OrderIds |-> NotResting]
      /\ accepted = [id \in OrderIds |-> [times |-> 0, lots |-> 0, postponed |-> FALSE]]
      /\ event_queue = [i \in 1 .. Len(Feed) |-> MarketEvent(Feed[i].at, Feed[i].ticks)]
  BY DEF Init
<1>3. Resting = {} /\ Placed = {}
  BY <1>2 DEF Resting, Placed, NoOrder
<1>4. Fine(calls, Over)
  <2>. DEFINE called == Strategy(StartOps)
  <2>1. called \in Seq(FramesAbout(Placed))
    BY StrategyType, BacktestAssumption
  <2>2. Fine(<< >>, Over) /\ << >> \in Seq(FramesAbout(Placed))
    BY NothingIsFine
  <2>3. Fine(called \o << >>, Over)
    BY <2>2, CallIsFine, BacktestAssumption
  <2>4. called \o << >> = called
    BY <2>1, ConcatEmptySeq
  <2>. QED BY <1>2, <2>3, <2>4
<1>5. SmallOrders /\ RestsLots
  BY <1>3 DEF SmallOrders, RestsLots
<1>6. PendingIsTracked
  BY <1>2 DEF PendingIsTracked, NoOrder
<1>7. ASSUME NEW id \in OrderIds PROVE ~Filling(event_queue, id)
  <2>1. 1 .. Len(event_queue) = 1 .. Len(Feed)
    <3>1. Len(event_queue) \in Nat /\ DOMAIN event_queue = 1 .. Len(event_queue)
      BY <1>1, LenProperties DEF TypeInv, PipelineInv
    <3>. QED BY <1>2, <3>1
  <2>2. \A i \in 1 .. Len(Feed) : event_queue[i].kind = "Market"
    BY <1>2 DEF MarketEvent
  <2>. QED BY <2>1, <2>2 DEF Filling, Fills
<1>8. LotsInv
  <2>1. ASSUME NEW id \in OrderIds PROVE NotHanded(id) /\ HandedOnce(id)
    <3>1. /\ accepted[id].times = 0 /\ orders[id].filled_quantity = 0
          /\ orders[id].status = "None"
      BY <1>2 DEF NoOrder
    <3>. QED BY <1>3, <1>7, <3>1 DEF NotHanded, HandedOnce
  <2>. QED BY <2>1 DEF LotsInv
<1>. QED BY <1>1, <1>4, <1>5, <1>6, <1>8 DEF WorkInv

LEMMA WorkStep ==
  ASSUME WorkInv, [Next]_vars
  PROVE  WorkInv'
<1>1. CASE UNCHANGED vars
  <2>1. TypeInv'
    BY <1>1, TypesStep DEF WorkInv
  <2>2. UNCHANGED <<resting_orders, event_queue, orders, accepted, calls>>
    BY <1>1 DEF vars
  <2>3. Fine(calls', Over) /\ \A i : Waits(calls, i) => Waits(calls', i)
    BY <2>2 DEF WorkInv
  <2>. QED BY <2>1, <2>2, <2>3, StackOnlyKeepsWork
<1>2. ASSUME NEW plan \in Plans, SubmitOrder(plan) PROVE WorkInv'
  BY <1>2, SubmitKeepsWork
<1>3. ASSUME NEW id \in OrderIds, CancelOrder(id) PROVE WorkInv'
  BY <1>3, CancelKeepsWork
<1>4. ASSUME NEW id \in OrderIds, NEW quantity \in Quantities, ModifyOrder(id, quantity)
      PROVE  WorkInv'
  BY <1>4, ModifyKeepsWork
<1>5. CASE StrategyReturns
  BY <1>5, StrategyReturnsKeepsWork
<1>6. CASE RunCallbacks
  BY <1>6, RunCallbacksKeepsWork
<1>7. CASE AcceptOrder
  BY <1>7, AcceptKeepsWork
<1>8. CASE RefuseOrder
  BY <1>8, RefuseKeepsWork
<1>9. CASE SubmittedIsPending
  BY <1>9, SubmittedKeepsWork
<1>10. CASE MatchOrder
  BY <1>10, MatchKeepsWork
<1>11. CASE NextTick
  BY <1>11, NextTickKeepsWork
<1>12. CASE HandleMarket
  BY <1>12, HandleMarketKeepsWork
<1>13. CASE HandleFill
  BY <1>13, HandleFillKeepsWork
<1>14. CASE HandleStatus
  BY <1>14, HandleStatusKeepsWork
<1>. QED
  BY <1>1, <1>2, <1>3, <1>4, <1>5, <1>6, <1>7, <1>8, <1>9, <1>10, <1>11, <1>12, <1>13, <1>14
  DEF Next

LEMMA WorkInvariant == Spec => []WorkInv
<1>1. Init => WorkInv
  BY WorkAtStart
<1>2. WorkInv /\ [Next]_vars => WorkInv'
  BY WorkStep
<1>. QED BY <1>1, <1>2, PTL DEF Spec

\* The lots of an order handed to the pipeline once are conserved, for any orders,
\* market data, execution model and latency, and whatever the strategy submits,
\* cancels or modifies in which callback: what is counted as filled, what fill
\* events carry and what rests never exceeds what was handed over.
THEOREM LotsStayConserved == Spec => []LotsAreConserved
<1>1. WorkInv => LotsAreConserved
  BY DEF WorkInv, LotsInv, HandedOnce, Sum, LotsAreConserved, QueuedLots
<1>. QED BY <1>1, WorkInvariant, PTL

\* An order that is Pending, or partially filled by fewer lots than were handed over,
\* is never dropped: unless it rests, an event about it or a call that hands it to
\* the pipeline is still to come.
THEOREM WorkingStaysTracked == Spec => []WorkingIsTracked
<1>1. WorkInv => WorkingIsTracked
  <2>. SUFFICES ASSUME WorkInv, NEW id \in OrderIds, Settled(id),
                       \/ orders[id].status = "Pending"
                       \/ /\ orders[id].status = "PartiallyFilled"
                          /\ accepted[id].times = 1
                          /\ orders[id].filled_quantity < accepted[id].lots
                PROVE  id \in Resting
    BY DEF WorkingIsTracked
  <2>1. /\ calls = << >>
        /\ \A i \in 1 .. Len(event_queue) : event_queue[i].id # id
    BY DEF Settled, Idle, Queued
  <2>2. ~Waits(calls, id) /\ ~Heard(event_queue, id) /\ ~Closing(event_queue, id)
        /\ ~Filling(event_queue, id)
    BY <2>1 DEF Waits, Heard, Closing, Closes, Filling, Fills
  <2>3. CASE orders[id].status = "Pending"
    BY <2>2, <2>3 DEF WorkInv, PendingIsTracked
  <2>4. CASE /\ orders[id].status = "PartiallyFilled" /\ accepted[id].times = 1
             /\ orders[id].filled_quantity < accepted[id].lots
    <3>1. LotsOf(event_queue, id) = 0
      BY <2>2, NoLots DEF WorkInv, TypeInv, PipelineInv
    <3>2. Sum(id) = accepted[id].lots
      BY <2>2, <2>4 DEF WorkInv, LotsInv, HandedOnce
    <3>3. resting_orders[id].quantity # 0
      <4>1. id \in Placed
        BY <2>4 DEF Placed
      <4>2. /\ orders[id].filled_quantity \in Nat /\ resting_orders[id].quantity \in Nat
            /\ accepted[id].lots \in Nat
        BY <4>1, LotTypes DEF WorkInv
      <4>. QED BY <2>4, <3>1, <3>2, <4>2 DEF Sum
    <3>4. resting_orders[id] # NotResting
      BY <3>3 DEF NotResting
    <3>. QED BY <3>4 DEF Resting
  <2>. QED BY <2>3, <2>4
<1>. QED BY <1>1, WorkInvariant, PTL

-----------------------------------------------------------------------------
(* Fill-or-kill orders are filled whole or not at all.                     *)

\* Snapshots on the stack have the time in force that the order was given.
TrueFrames ==
    {frame \in FramesAbout(Placed) :
        frame.op \in {"callbacks", "accept"} =>
            frame.order.tif = orders[frame.order.id].tif}

\* While a fill-or-kill order rests, all of it does; then all of it is filled or none.
WholeOrNone(id) ==
    accepted[id].times = 1 /\ EffectiveTif(orders[id]) = "FOK" =>
        /\ id \in Resting =>
              resting_orders[id].tif = "FOK" /\ resting_orders[id].quantity = accepted[id].lots
        /\ id \notin Resting =>
              orders[id].filled_quantity + LotsOf(event_queue, id) \in {0, accepted[id].lots}

WholeInv == WorkInv /\ calls \in Seq(TrueFrames) /\ \A id \in OrderIds : WholeOrNone(id)

\* The time in force of an order never changes.
LEMMA FramesStayTrue ==
  ASSUME TypeInv, Placed \subseteq Placed',
         \A id \in Placed : orders'[id].tif = orders[id].tif
  PROVE  TrueFrames \subseteq TrueFrames' /\ Seq(TrueFrames) \subseteq Seq(TrueFrames')
<1>1. ASSUME NEW frame \in TrueFrames PROVE frame \in TrueFrames'
  <2>1. frame \in FramesAbout(Placed)
    BY DEF TrueFrames
  <2>2. FramesAbout(Placed) \subseteq FramesAbout(Placed')
    BY DEF FramesAbout, SnapshotsOf
  <2>3. FramesAbout(Placed') = FramesAbout(Placed)'
    BY DEF FramesAbout, SnapshotsOf
  <2>4. ASSUME frame.op \in {"callbacks", "accept"}
        PROVE  frame.order.tif = orders'[frame.order.id].tif
    <3>1. frame.order.id \in Placed
      BY <2>1, <2>4, FrameForms DEF SnapshotsOf
    <3>. QED BY <2>4, <3>1 DEF TrueFrames
  <2>. QED BY <2>1, <2>2, <2>3, <2>4 DEF TrueFrames
<1>2. TrueFrames \subseteq TrueFrames'
  BY <1>1
<1>. QED BY <1>2, SeqMonotonic

\* The callbacks of a new version of an order, with the time in force it had.
LEMMA NewVersionIsTrue ==
  ASSUME TypeInv, NEW id \in Placed, NEW updated \in SnapshotsOf(Placed), updated.id = id,
         orders' = [orders EXCEPT ![id] = updated], updated.tif = orders[id].tif,
         NEW rest \in Seq(TrueFrames)
  PROVE  /\ <<Callbacks(updated)>> \o rest \in Seq(TrueFrames')
         /\ \A i \in OrderIds : orders'[i].tif = orders[i].tif
<1>1. Placed' = Placed
  BY OrderChanges DEF TypeInv, SnapshotsOf
<1>2. \A i \in OrderIds : orders'[i].tif = orders[i].tif
  BY DEF TypeInv, OrdersInv
<1>3. rest \in Seq(TrueFrames')
  BY <1>1, <1>2, FramesStayTrue DEF Placed
<1>. DEFINE frame == Callbacks(updated)
<1>4. frame \in FramesAbout(Placed)
  BY CallbacksType
<1>5. frame.order = updated
  BY DEF Callbacks
<1>6. updated.tif = orders'[updated.id].tif
  BY <1>2 DEF Placed
<1>. HIDE DEF frame
<1>7. frame \in TrueFrames'
  <2>1. frame \in FramesAbout(Placed)'
    BY <1>1, <1>4 DEF FramesAbout, SnapshotsOf
  <2>. QED BY <1>5, <1>6, <2>1 DEF TrueFrames
<1>8. <<frame>> \o rest \in Seq(TrueFrames')
  BY <1>3, <1>7, PushedFrame
<1>. QED BY <1>2, <1>8 DEF frame

LEMMA NewStatusIsTrue ==
  ASSUME TypeInv, NEW id \in Placed, NEW status \in Statuses \ {"None"},
         NEW rest \in Seq(TrueFrames), UpdateOrderStatus(id, status, rest)
  PROVE  /\ calls' \in Seq(TrueFrames')
         /\ \A i \in OrderIds :
               /\ orders'[i].tif = orders[i].tif
               /\ orders'[i].filled_quantity = orders[i].filled_quantity
<1>. DEFINE order == orders[id]
            updated == [order EXCEPT !.status = status]
<1>1. /\ updated \in SnapshotsOf(Placed) /\ updated.id = id
      /\ orders' = [orders EXCEPT ![id] = updated]
      /\ calls' = <<Callbacks(updated)>> \o rest
  BY StatusChanges DEF TypeInv, UpdateOrderStatus
<1>2. order \in Snapshot
  BY PlacedSnapshots DEF TypeInv, SnapshotsOf
<1>3. updated.tif = order.tif /\ updated.filled_quantity = order.filled_quantity
  <2>. HIDE DEF order
  <2>. QED BY <1>2 DEF Snapshot
<1>. HIDE DEF updated
<1>4. /\ calls' \in Seq(TrueFrames')
      /\ \A i \in OrderIds : orders'[i].tif = orders[i].tif
  BY <1>1, <1>3, NewVersionIsTrue
<1>5. \A i \in OrderIds : orders'[i].filled_quantity = orders[i].filled_quantity
  BY <1>1, <1>3 DEF TypeInv, OrdersInv
<1>. QED BY <1>4, <1>5

LEMMA TopIsTrue ==
  ASSUME WholeInv, calls # << >>
  PROVE  /\ Head(calls) \in TrueFrames /\ Tail(calls) \in Seq(TrueFrames)
         /\ Head(calls).op \in {"callbacks", "accept"} =>
               /\ Head(calls).order \in SnapshotsOf(Placed)
               /\ Head(calls).order.tif = orders[Head(calls).order.id].tif
<1>1. Head(calls) \in TrueFrames /\ Tail(calls) \in Seq(TrueFrames)
  BY HeadTailProperties DEF WholeInv
<1>. QED BY <1>1, FrameForms DEF TrueFrames

\* What is true of an order stays true while its lots stay where they are.
LEMMA WholeUntouched ==
  ASSUME NEW id \in OrderIds, WholeOrNone(id),
         accepted'[id] = accepted[id], resting_orders'[id] = resting_orders[id],
         orders'[id].tif = orders[id].tif,
         orders'[id].filled_quantity = orders[id].filled_quantity,
         LotsOf(event_queue', id) = LotsOf(event_queue, id)
  PROVE  WholeOrNone(id)'
<1>1. EffectiveTif(orders'[id]) = EffectiveTif(orders[id])
  BY DEF EffectiveTif
<1>2. id \in Resting' <=> id \in Resting
  BY DEF Resting
<1>. QED BY <1>1, <1>2 DEF WholeOrNone

LEMMA WholeWhileIdle ==
  ASSUME WholeInv, WorkInv', UNCHANGED <<resting_orders, accepted>>, calls' \in Seq(TrueFrames'),
         \A i \in OrderIds :
            /\ orders'[i].tif = orders[i].tif
            /\ orders'[i].filled_quantity = orders[i].filled_quantity
            /\ LotsOf(event_queue', i) = LotsOf(event_queue, i)
  PROVE  WholeInv'
<1>1. ASSUME NEW i \in OrderIds PROVE WholeOrNone(i)'
  BY WholeUntouched DEF WholeInv
<1>. QED BY <1>1 DEF WholeInv

\* Only the stack and the queue change.
LEMMA TrueWhileIdle ==
  ASSUME WholeInv, UNCHANGED orders
  PROVE  TrueFrames' = TrueFrames
BY DEF TrueFrames, FramesAbout, SnapshotsOf, Placed

LEMMA StrategyIsTrue ==
  ASSUME NEW may \in SUBSET StrategyOps
  PROVE  Strategy(may) \in Seq(TrueFrames)
<1>1. ASSUME may # {} PROVE [op |-> "strategy", may |-> may] \in TrueFrames
  BY DEF TrueFrames, FramesAbout
<1>. QED BY <1>1 DEF Strategy

LEMMA MatchIsTrue ==
  ASSUME NEW ids, NEW at, NEW left, Match(ids, at, left) \in FramesAbout(Placed)
  PROVE  Match(ids, at, left) \in TrueFrames
BY DEF TrueFrames, Match

LEMMA CancelStaysWhole ==
  ASSUME WholeInv, NEW id \in OrderIds, CancelOrder(id)
  PROVE  WholeInv'
<1>1. WorkInv' /\ id \in Placed
  BY CancelKeepsWork, CancelKeepsTypes DEF WholeInv, WorkInv
<1>2. /\ UpdateOrderStatus(id, "Cancelled", calls) /\ calls \in Seq(TrueFrames)
      /\ UNCHANGED <<resting_orders, event_queue, accepted>>
  BY DEF CancelOrder, WholeInv
<1>3. "Cancelled" \in Statuses \ {"None"}
  BY DEF Statuses, OverStatuses
<1>4. /\ calls' \in Seq(TrueFrames')
      /\ \A i \in OrderIds :
            /\ orders'[i].tif = orders[i].tif
            /\ orders'[i].filled_quantity = orders[i].filled_quantity
  BY <1>1, <1>2, <1>3, NewStatusIsTrue DEF WholeInv, WorkInv
<1>. QED BY <1>1, <1>2, <1>4, WholeWhileIdle

LEMMA RefuseStaysWhole ==
  ASSUME WholeInv, RefuseOrder
  PROVE  WholeInv'
<1>. DEFINE id == Head(calls).order.id
<1>1. WorkInv' /\ calls # << >> /\ Head(calls).op = "accept"
  BY RefuseKeepsWork DEF WholeInv, RefuseOrder, Running
<1>2. id \in Placed /\ Tail(calls) \in Seq(TrueFrames)
  BY <1>1, TopIsTrue DEF SnapshotsOf
<1>3. /\ UpdateOrderStatus(id, "Rejected", Tail(calls))
      /\ UNCHANGED <<resting_orders, event_queue, accepted>>
  BY DEF RefuseOrder
<1>4. "Rejected" \in Statuses \ {"None"}
  BY DEF Statuses, OverStatuses
<1>5. /\ calls' \in Seq(TrueFrames')
      /\ \A i \in OrderIds :
            /\ orders'[i].tif = orders[i].tif
            /\ orders'[i].filled_quantity = orders[i].filled_quantity
  BY <1>2, <1>3, <1>4, NewStatusIsTrue DEF WholeInv, WorkInv
<1>. QED BY <1>1, <1>3, <1>5, WholeWhileIdle

LEMMA SubmittedStaysWhole ==
  ASSUME WholeInv, SubmittedIsPending
  PROVE  WholeInv'
<1>. DEFINE id == Head(calls).id
<1>1. WorkInv' /\ calls # << >> /\ Head(calls).op = "pending"
  BY SubmittedKeepsWork DEF WholeInv, SubmittedIsPending, Running
<1>2. Tail(calls) \in Seq(TrueFrames) /\ Head(calls) \in FramesAbout(Placed)
  BY <1>1, TopIsTrue DEF TrueFrames
<1>3. id \in Placed
  BY <1>1, <1>2, FrameForms
<1>4. /\ UpdateOrderStatus(id, "Pending", Tail(calls))
      /\ UNCHANGED <<resting_orders, event_queue, accepted>>
  BY DEF SubmittedIsPending
<1>5. "Pending" \in Statuses \ {"None"}
  BY DEF Statuses
<1>6. /\ calls' \in Seq(TrueFrames')
      /\ \A i \in OrderIds :
            /\ orders'[i].tif = orders[i].tif
            /\ orders'[i].filled_quantity = orders[i].filled_quantity
  BY <1>2, <1>3, <1>4, <1>5, NewStatusIsTrue DEF WholeInv, WorkInv
<1>. QED BY <1>1, <1>4, <1>6, WholeWhileIdle

LEMMA ModifyStaysWhole ==
  ASSUME WholeInv, NEW id \in OrderIds, NEW quantity \in Quantities, ModifyOrder(id, quantity)
  PROVE  WholeInv'
<1>1. PICK updated \in SnapshotsOf(Placed) :
         /\ updated.id = id /\ orders' = [orders EXCEPT ![id] = updated]
         /\ calls' = <<Callbacks(updated)>> \o calls
  BY ModifyKeepsTypes DEF WholeInv, WorkInv
<1>2. WorkInv' /\ id \in Placed
  BY ModifyKeepsTypes, ModifyKeepsWork DEF WholeInv, WorkInv
<1>3. orders \in [OrderIds -> Snapshot \cup {NoOrder}] /\ orders[id] \in Snapshot
  BY <1>2, PlacedSnapshots DEF WholeInv, WorkInv, TypeInv, OrdersInv, SnapshotsOf
<1>4. updated.tif = orders[id].tif /\ updated.filled_quantity = orders[id].filled_quantity
  <2>. DEFINE order == orders[id]
  <2>1. orders' = [orders EXCEPT ![id] = [order EXCEPT !.quantity = quantity]]
    BY DEF ModifyOrder
  <2>2. orders'[id] = updated
    BY <1>1, <1>3
  <2>3. orders'[id] = [order EXCEPT !.quantity = quantity]
    BY <1>3, <2>1
  <2>4. order \in Snapshot
    BY <1>3
  <2>. HIDE DEF order
  <2>5. /\ [order EXCEPT !.quantity = quantity].tif = order.tif
        /\ [order EXCEPT !.quantity = quantity].filled_quantity = order.filled_quantity
    BY <2>4 DEF Snapshot
  <2>. QED BY <2>2, <2>3, <2>5 DEF order
<1>5. calls \in Seq(TrueFrames) /\ UNCHANGED <<resting_orders, event_queue, accepted>>
  BY DEF WholeInv, ModifyOrder
<1>6. calls' \in Seq(TrueFrames') /\ \A i \in OrderIds : orders'[i].tif = orders[i].tif
  BY <1>1, <1>2, <1>4, <1>5, NewVersionIsTrue DEF WholeInv, WorkInv
<1>7. \A i \in OrderIds : orders'[i].filled_quantity = orders[i].filled_quantity
  BY <1>1, <1>3, <1>4
<1>. QED BY <1>2, <1>5, <1>6, <1>7, WholeWhileIdle

LEMMA StrategyReturnsStaysWhole ==
  ASSUME WholeInv, StrategyReturns
  PROVE  WholeInv'
<1>1. /\ WorkInv' /\ calls # << >> /\ calls' = Tail(calls)
      /\ UNCHANGED <<resting_orders, event_queue, orders, accepted>>
  BY StrategyReturnsKeepsWork DEF WholeInv, StrategyReturns, Running, Return
<1>2. calls' \in Seq(TrueFrames')
  BY <1>1, TopIsTrue, TrueWhileIdle
<1>. QED BY <1>1, <1>2, WholeWhileIdle

LEMMA NextTickStaysWhole ==
  ASSUME WholeInv, NextTick
  PROVE  WholeInv'
<1>. DEFINE below == Tail(calls)
            frame == Match(Resting, Head(calls).at + 1, Head(calls).left - 1)
<1>1. /\ WorkInv' /\ calls # << >> /\ Head(calls).op = "match"
      /\ UNCHANGED <<resting_orders, event_queue, orders, accepted>>
      /\ calls' = (IF Head(calls).left > 0 THEN <<frame>> ELSE << >>) \o below
  BY NextTickKeepsWork DEF WholeInv, NextTick, Running
<1>2. below \in Seq(TrueFrames) /\ Head(calls) \in FramesAbout(Placed)
  BY <1>1, TopIsTrue DEF TrueFrames
<1>3. ASSUME Head(calls).left > 0 PROVE frame \in TrueFrames
  <2>1. Head(calls).at + 1 \in Nat /\ Head(calls).left - 1 \in Nat
    BY <1>1, <1>2, <1>3, FrameForms
  <2>2. frame \in FramesAbout(Placed)
    BY <2>1 DEF Match, FramesAbout, WholeInv, WorkInv, TypeInv, PipelineInv
  <2>. QED BY <2>2, MatchIsTrue
<1>. HIDE DEF below, frame
<1>4. calls' \in Seq(TrueFrames)
  <2>1. CASE Head(calls).left > 0
    <3>1. calls' = <<frame>> \o below
      BY <1>1, <2>1
    <3>. QED BY <1>2, <1>3, <2>1, <3>1, PushedFrame
  <2>2. CASE ~(Head(calls).left > 0)
    <3>1. calls' = << >> \o below
      BY <1>1, <2>2
    <3>. QED BY <1>2, <3>1, ConcatEmptySeq
  <2>. QED BY <2>1, <2>2
<1>. QED BY <1>1, <1>4, TrueWhileIdle, WholeWhileIdle

\* A new order is handed over by no one yet; nothing of it is filled.
LEMMA SubmitStaysWhole ==
  ASSUME WholeInv, NEW plan \in Plans, SubmitOrder(plan)
  PROVE  WholeInv'
<1>1. PICK order \in Snapshot :
         /\ order.filled_quantity = 0 /\ order.id \in OrderIds \ Placed
         /\ Placed' = Placed \cup {order.id}
         /\ orders' = [orders EXCEPT ![order.id] = order]
         /\ calls' = <<Callbacks(order), MakePending(order.id)>> \o calls
  BY SubmissionIsNew DEF WholeInv, WorkInv
<1>2. PICK id \in OrderIds \ Placed : id = order.id
  BY <1>1
<1>3. WorkInv' /\ UNCHANGED <<resting_orders, event_queue, accepted>>
  BY SubmitKeepsWork DEF WholeInv, SubmitOrder
<1>4. orders \in [OrderIds -> Snapshot \cup {NoOrder}]
  BY DEF WholeInv, WorkInv, TypeInv, OrdersInv
<1>5. orders'[id] = order /\ \A i \in OrderIds \ {id} : orders'[i] = orders[i]
  BY <1>1, <1>2, <1>4
<1>6. \A i \in OrderIds : LotsOf(event_queue', i) = LotsOf(event_queue, i)
  BY <1>3
<1>7. ASSUME NEW i \in OrderIds PROVE WholeOrNone(i)'
  <2>1. CASE i = id
    <3>1. id \notin Resting
      BY DEF WholeInv, WorkInv, TypeInv, PipelineInv
    <3>2. id \notin Resting'
      BY <1>3, <3>1 DEF Resting
    <3>3. LotsOf(event_queue, id) = 0
      <4>1. event_queue \in Seq(EventsAbout(Placed))
        BY DEF WholeInv, WorkInv, TypeInv, PipelineInv
      <4>2. \A j \in 1 .. Len(event_queue) : ~Fills(event_queue[j], id)
        <5>1. ASSUME NEW j \in 1 .. Len(event_queue), Fills(event_queue[j], id) PROVE FALSE
          <6>1. event_queue[j] \in EventsAbout(Placed)
            BY <4>1, ElementOfSeq
          <6>2. event_queue[j].id = id /\ event_queue[j].kind = "Fill"
            BY <5>1 DEF Fills
          <6>. QED BY <6>1, <6>2 DEF EventsAbout
        <5>. QED BY <5>1
      <4>. QED BY <4>1, <4>2, NoLots DEF Filling
    <3>4. orders'[id].filled_quantity + LotsOf(event_queue', id) = 0
      BY <1>1, <1>5, <1>6, <3>3
    <3>. QED BY <2>1, <3>2, <3>4 DEF WholeOrNone
  <2>2. CASE i # id
    BY <1>3, <1>5, <1>6, <2>2, WholeUntouched DEF WholeInv
  <2>. QED BY <2>1, <2>2
<1>8. calls' \in Seq(TrueFrames')
  <2>. DEFINE top == Callbacks(order)
              next == MakePending(order.id)
  <2>1. calls \in Seq(TrueFrames')
    <3>1. \A i \in Placed : orders'[i].tif = orders[i].tif
      BY <1>2, <1>5 DEF Placed
    <3>. QED BY <1>1, <3>1, FramesStayTrue DEF WholeInv, WorkInv
  <2>2. top \in TrueFrames'
    <3>1. order \in SnapshotsOf(Placed)'
      BY <1>1 DEF SnapshotsOf
    <3>2. top \in FramesAbout(Placed)' /\ top.order = order
      BY <3>1 DEF Callbacks, FramesAbout, SnapshotsOf
    <3>. HIDE DEF top
    <3>. QED BY <1>2, <1>5, <3>2 DEF TrueFrames
  <2>3. next \in TrueFrames'
    <3>1. next \in FramesAbout(Placed)' /\ next.op = "pending"
      BY <1>1 DEF MakePending, FramesAbout
    <3>. HIDE DEF next
    <3>. QED BY <3>1 DEF TrueFrames
  <2>. HIDE DEF top, next
  <2>4. <<top, next>> \in Seq(TrueFrames')
    BY <2>2, <2>3
  <2>5. <<top, next>> \o calls \in Seq(TrueFrames')
    BY <2>1, <2>4, ConcatProperties
  <2>. QED BY <1>1, <2>5 DEF top, next
<1>. QED BY <1>3, <1>7, <1>8 DEF WholeInv

\* An order that rests whole has nothing filled and no fills on their way.
LEMMA RestingIsUnfilled ==
  ASSUME WorkInv, NEW id \in Resting, WholeOrNone(id), accepted[id].times = 1,
         EffectiveTif(orders[id]) = "FOK"
  PROVE  /\ orders[id].filled_quantity = 0 /\ LotsOf(event_queue, id) = 0
         /\ resting_orders[id].quantity = accepted[id].lots
<1>1. id \in Placed /\ id \in OrderIds
  BY DEF WorkInv, TypeInv, PipelineInv, Placed
<1>2. /\ resting_orders[id].quantity = accepted[id].lots
      /\ orders[id].filled_quantity + LotsOf(event_queue, id)
            + resting_orders[id].quantity <= accepted[id].lots
  BY <1>1 DEF WholeOrNone, WorkInv, LotsInv, HandedOnce, Sum
<1>3. /\ orders[id].filled_quantity \in Nat /\ LotsOf(event_queue, id) \in Nat
      /\ resting_orders[id].quantity \in Nat /\ accepted[id].lots \in Nat
  BY <1>1, LotTypes DEF WorkInv
<1>. QED BY <1>2, <1>3

LEMMA RunCallbacksStaysWhole ==
  ASSUME WholeInv, RunCallbacks
  PROVE  WholeInv'
<1>. DEFINE order == Head(calls).order
            below == Tail(calls)
            handed == IF order.status = "Pending" THEN <<Accept(order)>> ELSE << >>
            first == Strategy(UpdateOps)
<1>1. WorkInv' /\ calls # << >> /\ Head(calls).op = "callbacks"
  BY RunCallbacksKeepsWork DEF WholeInv, RunCallbacks, Running
<1>2. /\ below \in Seq(TrueFrames) /\ order \in SnapshotsOf(Placed)
      /\ order.tif = orders[order.id].tif
  BY <1>1, TopIsTrue
<1>3. /\ OnOrderUpdate(order) /\ calls' = first \o handed \o below
      /\ UNCHANGED <<event_queue, orders, accepted>>
  BY DEF RunCallbacks
<1>. HIDE DEF order, below
<1>4. handed \in Seq(TrueFrames)
  <2>1. Accept(order) \in FramesAbout(Placed) /\ Accept(order).order = order
    BY <1>2, CallbacksType DEF Accept
  <2>2. Accept(order) \in TrueFrames
    BY <1>2, <2>1 DEF TrueFrames
  <2>. QED BY <2>2
<1>5. first \in Seq(TrueFrames)
  BY StrategyIsTrue, BacktestAssumption
<1>. HIDE DEF handed, first
<1>6. calls' \in Seq(TrueFrames')
  <2>1. first \o handed \in Seq(TrueFrames)
    BY <1>4, <1>5, ConcatProperties
  <2>2. (first \o handed) \o below \in Seq(TrueFrames)
    BY <1>2, <2>1, ConcatProperties
  <2>. QED BY <1>3, <2>2, TrueWhileIdle
<1>7. CASE UNCHANGED resting_orders
  BY <1>1, <1>3, <1>6, <1>7, WholeWhileIdle
<1>8. CASE Erase(order.id)
  <2>1. PICK id \in Placed : id = order.id
    BY <1>2 DEF SnapshotsOf
  <2>2. id \in OrderIds /\ resting_orders \in [OrderIds -> RestingState]
    BY DEF Placed, WholeInv, WorkInv, TypeInv, PipelineInv
  <2>3. id \notin Resting' /\ \A i \in OrderIds \ {id} : resting_orders'[i] = resting_orders[i]
    BY <1>8, <2>1, <2>2, RestOfErased DEF Erase, Rest
  <2>4. WholeOrNone(id)'
    <3>1. SUFFICES ASSUME accepted[id].times = 1, EffectiveTif(orders[id]) = "FOK"
                   PROVE  orders[id].filled_quantity + LotsOf(event_queue, id)
                             \in {0, accepted[id].lots}
      BY <1>3, <2>3 DEF WholeOrNone
    <3>2. WholeOrNone(id)
      BY <2>2 DEF WholeInv
    <3>3. CASE id \in Resting
      BY <3>1, <3>2, <3>3, RestingIsUnfilled DEF WholeInv
    <3>4. CASE id \notin Resting
      BY <3>1, <3>2, <3>4 DEF WholeOrNone
    <3>. QED BY <3>3, <3>4
  <2>5. ASSUME NEW i \in OrderIds, i # id PROVE WholeOrNone(i)'
    BY <1>3, <2>3, <2>5, WholeUntouched DEF WholeInv
  <2>. QED BY <1>1, <1>6, <2>4, <2>5 DEF WholeInv
<1>. QED BY <1>3, <1>7, <1>8 DEF OnOrderUpdate

LEMMA HandleMarketStaysWhole ==
  ASSUME WholeInv, HandleMarket
  PROVE  WholeInv'
<1>. DEFINE event == Head(event_queue)
            rest == Tail(event_queue)
            frame == Match(Resting, event.time, event.lots - 1)
            called == Strategy(MarketOps)
<1>1. /\ WorkInv' /\ event_queue # << >> /\ event.kind = "Market"
      /\ event.time \in Nat /\ event.lots \in Nat \ {0}
  BY HandleMarketKeepsWork, HeadEvent
  DEF WholeInv, WorkInv, HandleMarket, Dispatching
<1>2. /\ event_queue' \in {Push(rest, cancels) :
                              cancels \in Cancels(Expired(event.time), event.time)}
      /\ calls' = <<frame>> \o called
      /\ UNCHANGED <<resting_orders, orders, accepted>>
  BY DEF HandleMarket
<1>3. PICK cancels \in Cancels(Expired(event.time), event.time) :
         event_queue' = Push(rest, cancels)
  BY <1>2
<1>4. event_queue \in Seq(EventsAbout(Placed))
  BY DEF WholeInv, WorkInv, TypeInv, PipelineInv
<1>5. cancels \in Seq(EventsAbout(Placed)) /\ \A i : ~Filling(cancels, i)
  <2>1. /\ cancels \in Seq(EventsAbout(Placed))
        /\ \A i \in 1 .. Len(cancels) : cancels[i].kind = "Cancel"
    BY <1>1, CancelsType
  <2>. QED BY <2>1 DEF Filling, Fills
<1>6. calls' \in Seq(TrueFrames')
  <2>1. event.lots - 1 \in Nat
    BY <1>1
  <2>2. frame \in FramesAbout(Placed)
    BY <1>1, <2>1 DEF Match, FramesAbout, WholeInv, WorkInv, TypeInv, PipelineInv
  <2>3. frame \in TrueFrames
    BY <2>2, MatchIsTrue
  <2>4. called \in Seq(TrueFrames)
    BY StrategyIsTrue, BacktestAssumption
  <2>. HIDE DEF frame, called
  <2>5. <<frame>> \o called \in Seq(TrueFrames)
    BY <2>3, <2>4, PushedFrame
  <2>. QED BY <1>2, <2>5, TrueWhileIdle
<1>7. ASSUME NEW i \in OrderIds PROVE LotsOf(event_queue', i) = LotsOf(event_queue, i)
  <2>1. ~Fills(event, i)
    BY <1>1 DEF Fills
  <2>2. rest \in Seq(EventsAbout(Placed)) /\ LotsOf(rest, i) = LotsOf(event_queue, i)
    BY <1>1, <1>4, <2>1, DispatchNoFills
  <2>. HIDE DEF rest
  <2>3. LotsOf(event_queue', i) = LotsOf(rest, i)
    BY <1>3, <1>5, <2>2, PushNoFills
  <2>. QED BY <2>2, <2>3
<1>. QED BY <1>1, <1>2, <1>6, <1>7, WholeWhileIdle

LEMMA HandleStatusStaysWhole ==
  ASSUME WholeInv, HandleStatus
  PROVE  WholeInv'
<1>. DEFINE event == Head(event_queue)
            status == StatusOf(event.kind)
            none == << >>
<1>1. /\ WorkInv' /\ event.id \in Placed /\ event_queue # << >>
      /\ event.kind \in {"Cancel", "Reject", "Update"}
  BY HandleStatusKeepsTypes, HandleStatusKeepsWork
  DEF WholeInv, WorkInv, HandleStatus, Dispatching
<1>2. /\ UpdateOrderStatus(event.id, status, none)
      /\ event_queue' = Tail(event_queue)
      /\ UNCHANGED <<resting_orders, accepted>>
  BY DEF HandleStatus
<1>3. PICK id \in Placed : id = event.id
  BY <1>1
<1>4. status \in Statuses \ {"None"}
  BY <1>1 DEF StatusOf, Statuses, OverStatuses
<1>5. event_queue \in Seq(EventsAbout(Placed))
  BY DEF WholeInv, WorkInv, TypeInv, PipelineInv
<1>6. \A i : ~Fills(event, i)
  BY <1>1 DEF Fills
<1>7. none \in Seq(TrueFrames)
  OBVIOUS
<1>. HIDE DEF status, none
<1>8. /\ calls' \in Seq(TrueFrames')
      /\ \A i \in OrderIds :
            /\ orders'[i].tif = orders[i].tif
            /\ orders'[i].filled_quantity = orders[i].filled_quantity
  BY <1>2, <1>3, <1>4, <1>7, NewStatusIsTrue DEF WholeInv, WorkInv
<1>9. ASSUME NEW i \in OrderIds PROVE LotsOf(event_queue', i) = LotsOf(event_queue, i)
  BY <1>1, <1>2, <1>5, <1>6, DispatchNoFills
<1>. QED BY <1>1, <1>2, <1>8, <1>9, WholeWhileIdle

\* A fill moves lots from the queue to the table; the bound is never met.
LEMMA HandleFillStaysWhole ==
  ASSUME WholeInv, HandleFill
  PROVE  WholeInv'
<1>. DEFINE event == Head(event_queue)
            rest == Tail(event_queue)
<1>1. /\ WorkInv' /\ event_queue # << >> /\ event.kind = "Fill"
      /\ event_queue' = rest /\ UNCHANGED <<resting_orders, accepted>>
  BY HandleFillKeepsWork DEF WholeInv, HandleFill, Dispatching
<1>2. PICK updated \in SnapshotsOf(Placed) :
         /\ updated.id = event.id
         /\ updated.filled_quantity =
               IF orders[updated.id].filled_quantity + event.lots < MaxFilled
               THEN orders[updated.id].filled_quantity + event.lots ELSE MaxFilled
         /\ orders' = [orders EXCEPT ![updated.id] = updated]
         /\ calls' = Strategy(FillOps) \o <<Callbacks(updated)>>
  BY HandleFillKeepsTypes DEF WholeInv, WorkInv
<1>3. PICK id \in Placed : id = updated.id
  BY DEF SnapshotsOf
<1>4. orders \in [OrderIds -> Snapshot \cup {NoOrder}] /\ id \in OrderIds /\ orders[id] \in Snapshot
  BY PlacedSnapshots DEF WholeInv, WorkInv, TypeInv, OrdersInv, Placed, SnapshotsOf
<1>5. orders'[id] = updated /\ \A i \in OrderIds \ {id} : orders'[i] = orders[i]
  BY <1>2, <1>3, <1>4
<1>6. updated.tif = orders[id].tif
  <2>. DEFINE order == orders[event.id]
              filled == order.filled_quantity + event.lots
              count == IF filled < MaxFilled THEN filled ELSE MaxFilled
              status == IF filled >= order.quantity THEN "Filled" ELSE "PartiallyFilled"
              new == [order EXCEPT !.filled_quantity = count, !.status = status]
  <2>1. orders' = [orders EXCEPT ![event.id] = new]
    BY DEF HandleFill
  <2>2. event.id = id /\ order \in Snapshot
    BY <1>2, <1>3, <1>4
  <2>3. orders'[id] = new
    BY <1>4, <2>1, <2>2
  <2>4. order = orders[id]
    BY <2>2
  <2>. HIDE DEF order, count, status
  <2>5. new.tif = order.tif
    BY <2>2 DEF Snapshot
  <2>. QED BY <1>5, <2>3, <2>4, <2>5
<1>7. event_queue \in Seq(EventsAbout(Placed)) /\ event \in EventsAbout(Placed)
      /\ rest \in Seq(EventsAbout(Placed))
  BY <1>1, HeadTailProperties DEF WholeInv, WorkInv, TypeInv, PipelineInv
<1>8. Fills(event, id) /\ \A i : i # id => ~Fills(event, i)
  BY <1>1, <1>2, <1>3 DEF Fills
<1>9. /\ <<Callbacks(updated)>> \o << >> \in Seq(TrueFrames')
      /\ \A i \in OrderIds : orders'[i].tif = orders[i].tif
  <2>1. orders' = [orders EXCEPT ![id] = updated] /\ updated.id = id
    BY <1>2, <1>3
  <2>2. << >> \in Seq(TrueFrames)
    OBVIOUS
  <2>. QED BY <1>3, <1>6, <2>1, <2>2, NewVersionIsTrue DEF WholeInv, WorkInv
<1>10. calls' \in Seq(TrueFrames')
  <2>. DEFINE first == Strategy(FillOps)
              top == <<Callbacks(updated)>>
  <2>1. top \in Seq(TrueFrames')
    BY <1>9, ConcatEmptySeq
  <2>2. first \in Seq(TrueFrames)
    BY StrategyIsTrue, BacktestAssumption
  <2>3. Seq(TrueFrames) \subseteq Seq(TrueFrames')
    <3>1. Placed' = Placed
      BY HandleFillKeepsTypes DEF WholeInv, WorkInv
    <3>. QED BY <1>9, <3>1, FramesStayTrue DEF WholeInv, WorkInv, Placed
  <2>. HIDE DEF first, top
  <2>4. first \in Seq(TrueFrames')
    BY <2>2, <2>3
  <2>5. first \o top \in Seq(TrueFrames')
    BY <2>1, <2>4, ConcatProperties
  <2>. QED BY <1>2, <2>5 DEF first, top
<1>11. ASSUME NEW i \in OrderIds, i # id PROVE WholeOrNone(i)'
  <2>1. LotsOf(event_queue', i) = LotsOf(event_queue, i)
    BY <1>1, <1>7, <1>8, <1>11, DispatchNoFills
  <2>. QED BY <1>1, <1>5, <1>11, <2>1, WholeUntouched DEF WholeInv
<1>12. WholeOrNone(id)'
  <2>. DEFINE old == orders[id].filled_quantity
              queued == LotsOf(rest, id)
              lots == event.lots
              all == accepted[id].lots
              left == resting_orders[id].quantity
  <2>1. SUFFICES ASSUME accepted[id].times = 1, EffectiveTif(orders[id]) = "FOK"
                 PROVE  /\ id \in Resting =>
                              resting_orders[id].tif = "FOK" /\ left = all
                        /\ id \notin Resting =>
                              orders'[id].filled_quantity + queued \in {0, all}
    <3>1. EffectiveTif(orders'[id]) = EffectiveTif(orders[id])
      BY <1>9, <1>4 DEF EffectiveTif
    <3>2. id \in Resting' <=> id \in Resting
      BY <1>1 DEF Resting
    <3>. QED BY <1>1, <3>1, <3>2 DEF WholeOrNone
  <2>2. LotsOf(event_queue, id) = lots + queued
    BY <1>1, <1>7, <1>8, LotsOfTail
  <2>3. /\ old \in Nat /\ lots \in Nat /\ queued \in Nat /\ all \in Nat /\ left \in Nat
        /\ MaxFilled \in Nat
    BY <1>7, <1>3, LotTypes, LotsType, EventForms, BacktestAssumption DEF WholeInv, WorkInv
  <2>4. old + LotsOf(event_queue, id) + left <= all /\ all < MaxFilled
    BY <1>4, <2>1 DEF WholeInv, WorkInv, LotsInv, HandedOnce, Sum
  <2>5. orders'[id].filled_quantity = IF old + lots < MaxFilled THEN old + lots ELSE MaxFilled
    BY <1>2, <1>3, <1>5
  <2>6. WholeOrNone(id)
    BY <1>4 DEF WholeInv
  <2>7. id \in Resting => resting_orders[id].tif = "FOK" /\ left = all
    BY <2>1, <2>6 DEF WholeOrNone
  <2>8. id \notin Resting => old + (lots + queued) \in {0, all}
    BY <2>1, <2>2, <2>6 DEF WholeOrNone
  <2>9. orders'[id].filled_quantity + queued = old + (lots + queued)
    <3>. HIDE DEF old, queued, lots, all, left
    <3>1. old + lots < MaxFilled
      BY <2>2, <2>3, <2>4
    <3>. QED BY <2>3, <2>5, <3>1
  <2>. QED BY <2>7, <2>8, <2>9
<1>. QED BY <1>1, <1>10, <1>11, <1>12 DEF WholeInv

-----------------------------------------------------------------------------
(* What the pipeline answers about a fill-or-kill order.                   *)

\* It fills all of the order or nothing, or leaves all of it to rest.
Whole(id, quantity, ids) ==
    \E batch \in Seq(EventsAbout(ids)) :
        /\ event_queue' = Push(event_queue, batch) /\ About(batch, id)
        /\ id \in Resting' =>
              /\ resting_orders'[id].tif = "FOK" /\ resting_orders'[id].quantity = quantity
              /\ LotsOf(batch, id) = 0
        /\ id \notin Resting' => LotsOf(batch, id) \in {0, quantity}

LEMMA RestedWhole ==
  ASSUME NEW ids, NEW id \in OrderIds, resting_orders \in [OrderIds -> RestingState],
         NEW state, state.quantity \in Nat \ {0}, state.tif = "FOK", Rest(id, state),
         NEW batch \in Seq(EventsAbout(ids)), About(batch, id), LotsOf(batch, id) = 0,
         event_queue' = Push(event_queue, batch)
  PROVE  Whole(id, state.quantity, ids)
<1>1. resting_orders'[id] = state
  BY DEF Rest
<1>2. id \in Resting'
  BY RestOfRested
<1>. QED BY <1>1, <1>2 DEF Whole

LEMMA RestedSilentlyWhole ==
  ASSUME NEW ids, NEW id \in OrderIds, resting_orders \in [OrderIds -> RestingState],
         NEW state, state.quantity \in Nat \ {0}, state.tif = "FOK", Rest(id, state),
         UNCHANGED event_queue
  PROVE  Whole(id, state.quantity, ids)
<1>. DEFINE none == << >>
<1>1. Len(none) = 0 /\ none \in Seq(EventsAbout(ids))
  OBVIOUS
<1>2. ~Filling(none, id) /\ About(none, id)
  BY <1>1 DEF Filling, About
<1>3. LotsOf(none, id) = 0
  BY <1>1, <1>2, NoLots
<1>4. event_queue' = Push(event_queue, none)
  BY DEF Push
<1>. HIDE DEF none
<1>. QED BY <1>1, <1>2, <1>3, <1>4, RestedWhole

LEMMA RejectedWhole ==
  ASSUME NEW ids, NEW id \in ids, id \in OrderIds, NEW quantity, NEW at \in Nat,
         resting_orders \in [OrderIds -> RestingState], RejectOrder(id, at)
  PROVE  Whole(id, quantity, ids)
<1>. DEFINE batch == <<OrderEvent("Reject", id, 0, at)>>
<1>1. batch \in Seq(EventsAbout(ids)) /\ About(batch, id) /\ LotsOf(batch, id) = 0
  BY ClosingEvent
<1>2. Erase(id) /\ event_queue' = Push(event_queue, batch)
  BY DEF RejectOrder, Emit
<1>. HIDE DEF batch
<1>3. id \notin Resting'
  BY <1>2, RestOfErased
<1>. QED BY <1>1, <1>2, <1>3 DEF Whole

\* An execution that finds less than the order asks for kills it.
LEMMA ExecutedWhole ==
  ASSUME NEW ids \in SUBSET OrderIds, NEW id \in ids, NEW state \in RestingState, NEW at \in Nat,
         state.tif = "FOK", resting_orders \in [OrderIds -> RestingState],
         Execute(id, state, at)
  PROVE  Whole(id, state.quantity, ids)
<1>. DEFINE q == state.quantity
<1>1. PICK found \in Liquidity :
         LET lots == IF found < q THEN found ELSE q
         IN  \E fills \in FillEvents(id, lots, at) : ExecuteLots(id, state, at, lots, fills)
  BY DEF Execute
<1>. DEFINE lots == IF found < q THEN found ELSE q
<1>2. PICK fills \in FillEvents(id, lots, at) : ExecuteLots(id, state, at, lots, fills)
  BY <1>1
<1>3. q \in Nat /\ found \in Nat /\ id \in OrderIds
  BY PipelineAssumption DEF RestingState
<1>4. lots \in Nat /\ lots <= q
  BY <1>3
<1>. HIDE DEF lots
<1>5. fills \in Seq(EventsAbout(ids)) /\ About(fills, id) /\ LotsOf(fills, id) = lots
  BY <1>2, <1>4, FillBatch
<1>6. CASE RejectOrder(id, at)
  BY <1>3, <1>6, RejectedWhole
<1>7. CASE ~Killed(state, lots) /\ lots = q /\ Erase(id) /\ Emit(fills)
  <2>1. id \notin Resting'
    BY <1>3, <1>7, RestOfErased
  <2>2. event_queue' = Push(event_queue, fills)
    BY <1>7 DEF Emit
  <2>. QED BY <1>5, <1>7, <2>1, <2>2 DEF Whole
<1>8. ASSUME ~Killed(state, lots), lots < q PROVE FALSE
  BY <1>8 DEF Killed
<1>. QED BY <1>2, <1>6, <1>7, <1>8 DEF ExecuteLots

LEMMA MatchedWhole ==
  ASSUME NEW ids \in SUBSET OrderIds, NEW id \in ids, NEW at \in Nat, id \in Resting,
         resting_orders \in [OrderIds -> RestingState],
         resting_orders[id].quantity > 0, resting_orders[id].tif = "FOK",
         ProcessRestingOrder(id, at)
  PROVE  \/ UNCHANGED <<resting_orders, event_queue>>
         \/ Whole(id, resting_orders[id].quantity, ids)
<1>. DEFINE state == resting_orders[id]
            ready == Triggered(state)
            q == state.quantity
<1>1. state \in RestingState /\ id \in OrderIds /\ state.tif = "FOK"
  OBVIOUS
<1>2. ready \in RestingState
  BY <1>1, TriggeredType
<1>3. ready.quantity = q /\ q \in Nat \ {0} /\ ready.tif = "FOK"
  BY <1>1 DEF Triggered, RestingState
<1>. HIDE DEF state, ready, q
<1>4. CASE Rest(id, ready) /\ UNCHANGED event_queue
  <2>1. Whole(id, ready.quantity, ids)
    BY <1>1, <1>3, <1>4, RestedSilentlyWhole
  <2>. QED BY <1>3, <2>1 DEF q, state
<1>5. CASE RejectOrder(id, at)
  BY <1>1, <1>5, RejectedWhole
<1>6. CASE Rest(id, ready) /\ Emit(<<OrderEvent("Update", id, 0, at)>>)
  <2>. DEFINE batch == <<OrderEvent("Update", id, 0, at)>>
  <2>1. batch \in Seq(EventsAbout(ids)) /\ About(batch, id) /\ LotsOf(batch, id) = 0
    BY ClosingEvent
  <2>2. event_queue' = Push(event_queue, batch)
    BY <1>6 DEF Emit
  <2>. HIDE DEF batch
  <2>3. Whole(id, ready.quantity, ids)
    BY <1>1, <1>3, <1>6, <2>1, <2>2, RestedWhole
  <2>. QED BY <1>3, <2>3 DEF q, state
<1>7. CASE Execute(id, ready, at)
  <2>1. Whole(id, ready.quantity, ids)
    BY <1>2, <1>3, <1>7, ExecutedWhole
  <2>. QED BY <1>3, <2>1 DEF q, state
<1>. QED
  BY <1>4, <1>5, <1>6, <1>7 DEF ProcessRestingOrder, Drifts, state, ready

LEMMA SubmittedWhole ==
  ASSUME NEW ids \in SUBSET OrderIds, NEW order \in SnapshotsOf(ids),
         resting_orders \in [OrderIds -> RestingState], priced \in BOOLEAN,
         order.id \notin Resting, EffectiveTif(order) = "FOK",
         OnOrderSubmitted(order)
  PROVE  Whole(order.id, order.quantity, ids)
<1>. DEFINE state == Submitted(order)
            ready == Triggered(state)
            at == state.activation
            id == order.id
            q == order.quantity
<1>1. /\ id \in ids /\ id \in OrderIds
      /\ order.type \in OrderTypes /\ order.tif \in TimesInForce
      /\ q \in Nat \ {0} /\ order.created_at \in Nat
  BY DEF SnapshotsOf, Snapshot
<1>2. "FOK" \in TimesInForce
  BY DEF TimesInForce
<1>3. order.created_at + Latency \in Nat
  BY <1>1, PipelineAssumption
<1>4. state \in RestingState /\ state.quantity = q /\ state.tif = "FOK"
  BY <1>1, <1>2, <1>3 DEF Submitted, RestingState
<1>5. at \in Nat
  BY <1>4 DEF RestingState
<1>. HIDE DEF state, at
<1>6. ready \in RestingState
  BY <1>4, TriggeredType
<1>7. ready.quantity = q /\ ready.tif = "FOK"
  BY <1>4 DEF Triggered, RestingState
<1>. HIDE DEF ready
<1>8. ASSUME NEW s \in RestingState, s.tif = "FOK", Unfillable(id, s, at)
      PROVE  Whole(id, q, ids)
  <2>. DEFINE batch == <<OrderEvent("Reject", id, 0, at)>>
  <2>1. batch \in Seq(EventsAbout(ids)) /\ About(batch, id) /\ LotsOf(batch, id) = 0
    BY <1>1, <1>5, ClosingEvent
  <2>2. event_queue' = Push(event_queue, batch) /\ UNCHANGED resting_orders
    BY <1>8 DEF Unfillable, Emit
  <2>. HIDE DEF batch
  <2>3. id \notin Resting'
    BY <2>2 DEF Resting
  <2>. QED BY <2>1, <2>2, <2>3 DEF Whole
<1>9. CASE Rest(id, state) /\ UNCHANGED event_queue
  BY <1>1, <1>4, <1>9, RestedSilentlyWhole
<1>10. CASE Rest(id, ready) /\ UNCHANGED event_queue
  BY <1>1, <1>7, <1>10, RestedSilentlyWhole
<1>11. CASE Execute(id, ready, at)
  BY <1>1, <1>5, <1>6, <1>7, <1>11, ExecutedWhole
<1>. QED BY <1>4, <1>6, <1>7, <1>8, <1>9, <1>10, <1>11 DEF OnOrderSubmitted, Postpone, Answer, state, ready, at

\* What is left of an order when the pipeline has answered for all that was missing.
LEMMA AnsweredWhole ==
  ASSUME NEW id \in OrderIds, NEW quantity \in Nat, Whole(id, quantity, Placed),
         event_queue \in Seq(EventsAbout(Placed)),
         orders[id].filled_quantity = 0, LotsOf(event_queue, id) = 0,
         UNCHANGED orders, accepted'[id].lots = quantity
  PROVE  WholeOrNone(id)'
<1>1. PICK batch \in Seq(EventsAbout(Placed)) :
         /\ event_queue' = Push(event_queue, batch)
         /\ id \in Resting' =>
               resting_orders'[id].tif = "FOK" /\ resting_orders'[id].quantity = quantity
         /\ id \notin Resting' => LotsOf(batch, id) \in {0, quantity}
  BY DEF Whole
<1>2. LotsOf(event_queue', id) = LotsOf(batch, id) /\ LotsOf(batch, id) \in Nat
  <2>1. LotsOf(event_queue', id) = 0 + LotsOf(batch, id)
    BY <1>1, LotsOfPush
  <2>2. LotsOf(batch, id) \in Nat
    BY LotsType
  <2>. QED BY <2>1, <2>2
<1>3. orders'[id].filled_quantity + LotsOf(event_queue', id) = LotsOf(batch, id)
  BY <1>2
<1>. QED BY <1>1, <1>3 DEF WholeOrNone

\* An answer about one order leaves the others as they are.
LEMMA OthersStayWhole ==
  ASSUME WholeInv, NEW id \in OrderIds, NEW quantity, Answered(id, quantity),
         Answers(id, Placed), UNCHANGED orders,
         \A i \in OrderIds \ {id} : accepted'[i] = accepted[i],
         NEW i \in OrderIds, i # id
  PROVE  WholeOrNone(i)'
<1>1. PICK batch \in Seq(EventsAbout(Placed)) :
         event_queue' = Push(event_queue, batch) /\ About(batch, id)
  BY DEF Answered
<1>2. ~Filling(batch, i)
  BY <1>1 DEF About, Filling, Fills
<1>3. LotsOf(event_queue', i) = LotsOf(event_queue, i)
  BY <1>1, <1>2, PushNoFills DEF WholeInv, WorkInv, TypeInv, PipelineInv
<1>. QED BY <1>3, WholeUntouched DEF WholeInv, Answers

LEMMA AcceptStaysWhole ==
  ASSUME WholeInv, AcceptOrder
  PROVE  WholeInv'
<1>. DEFINE order == Head(calls).order
<1>1. WorkInv' /\ calls # << >> /\ Head(calls).op = "accept"
  BY AcceptKeepsWork DEF WholeInv, AcceptOrder, Running
<1>2. /\ Tail(calls) \in Seq(TrueFrames) /\ order \in SnapshotsOf(Placed)
      /\ order.tif = orders[order.id].tif
  BY <1>1, TopIsTrue
<1>3. PICK postponed \in BOOLEAN :
         /\ OnOrderSubmitted(order) /\ accepted' = Count(order, postponed)
         /\ calls' = Tail(calls) /\ UNCHANGED orders
  BY DEF AcceptOrder, Return, OnOrderSubmitted
<1>. HIDE DEF order
<1>4. PICK id \in Placed : id = order.id
  BY <1>2 DEF SnapshotsOf
<1>5. PICK quantity \in Nat : quantity = order.quantity
  BY <1>2 DEF SnapshotsOf, Snapshot
<1>6. /\ resting_orders \in [OrderIds -> RestingState] /\ priced \in BOOLEAN
      /\ event_queue \in Seq(EventsAbout(Placed))
      /\ accepted \in [OrderIds -> Counted]
      /\ Placed \in SUBSET OrderIds /\ id \in OrderIds
  BY DEF WholeInv, WorkInv, TypeInv, PipelineInv, ClockInv, Placed
<1>7. /\ \A i \in OrderIds \ {id} : accepted'[i] = accepted[i]
      /\ accepted[id].times = 0 => accepted'[id].times = 1 /\ accepted'[id].lots = quantity
      /\ accepted[id].times # 0 => accepted'[id].times = 2
  BY <1>2, <1>3, <1>4, <1>5, <1>6, CountForms DEF SnapshotsOf
<1>8. Answered(id, quantity) /\ Answers(id, Placed)
  <2>1. Denied(order.id, Placed) \/ Outcome(order.id, order.quantity, Placed)
    BY <1>2, <1>3, <1>6, SubmissionOutcome
  <2>2. Answers(order.id, Placed)
    BY <1>2, <1>3, <1>6, SubmissionAnswers
  <2>. QED BY <1>4, <1>5, <1>6, <2>1, <2>2, AnsweredForms DEF WholeInv
<1>9. \A i \in OrderIds \ {id} : WholeOrNone(i)'
  BY <1>3, <1>6, <1>7, <1>8, OthersStayWhole
<1>10. WholeOrNone(id)'
  <2>1. CASE accepted[id].times = 0 /\ EffectiveTif(orders[id]) = "FOK"
    <3>1. /\ ~Filling(event_queue, id) /\ id \notin Resting
          /\ orders[id].filled_quantity = 0
      BY <1>6, <2>1 DEF WholeInv, WorkInv, LotsInv, NotHanded
    <3>2. LotsOf(event_queue, id) = 0
      BY <1>6, <3>1, NoLots
    <3>3. EffectiveTif(order) = "FOK"
      BY <1>2, <1>4, <2>1 DEF EffectiveTif
    <3>4. Whole(order.id, order.quantity, Placed)
      BY <1>2, <1>3, <1>4, <1>6, <3>1, <3>3, SubmittedWhole
    <3>5. Whole(id, quantity, Placed)
      BY <1>4, <1>5, <3>4
    <3>. QED BY <1>3, <1>6, <1>7, <2>1, <3>1, <3>2, <3>5, AnsweredWhole
  <2>2. CASE accepted[id].times # 0
    BY <1>7, <2>2 DEF WholeOrNone
  <2>3. CASE EffectiveTif(orders[id]) # "FOK"
    BY <1>3, <2>3 DEF WholeOrNone
  <2>. QED BY <2>1, <2>2, <2>3
<1>11. calls' \in Seq(TrueFrames')
  BY <1>2, <1>3, TrueWhileIdle
<1>. QED BY <1>1, <1>9, <1>10, <1>11 DEF WholeInv

LEMMA MatchStaysWhole ==
  ASSUME WholeInv, MatchOrder
  PROVE  WholeInv'
<1>. DEFINE frame == Head(calls)
            below == Tail(calls)
<1>1. /\ WorkInv' /\ calls # << >> /\ frame.op = "match" /\ UNCHANGED <<orders, accepted>>
  BY MatchKeepsWork DEF WholeInv, MatchOrder, Running
<1>2. below \in Seq(TrueFrames) /\ frame \in FramesAbout(Placed)
  BY <1>1, TopIsTrue DEF TrueFrames
<1>3. frame.ids \subseteq Placed /\ frame.at \in Nat /\ frame.left \in Nat
  BY <1>1, <1>2, FrameForms
<1>4. PICK id \in frame.ids :
         /\ ProcessRestingOrder(id, frame.at)
         /\ calls' = <<Match(frame.ids \ {id}, frame.at, frame.left)>> \o below
  BY DEF MatchOrder
<1>. HIDE DEF frame, below
<1>5. calls' \in Seq(TrueFrames')
  <2>. DEFINE next == Match(frame.ids \ {id}, frame.at, frame.left)
  <2>1. next \in FramesAbout(Placed)
    BY <1>3 DEF Match, FramesAbout
  <2>2. next \in TrueFrames
    BY <2>1, MatchIsTrue
  <2>. HIDE DEF next
  <2>3. <<next>> \o below \in Seq(TrueFrames)
    BY <1>2, <2>2, PushedFrame
  <2>. QED BY <1>1, <1>4, <2>3, TrueWhileIdle DEF next
<1>6. /\ Placed \in SUBSET OrderIds /\ id \in Placed /\ id \in OrderIds
      /\ resting_orders \in [OrderIds -> RestingState]
      /\ event_queue \in Seq(EventsAbout(Placed))
      /\ id \in Resting => resting_orders[id].quantity > 0
  BY <1>3 DEF Placed, WholeInv, WorkInv, TypeInv, PipelineInv, RestsLots
<1>7. CASE UNCHANGED <<resting_orders, event_queue>>
  BY <1>1, <1>5, <1>7, WholeWhileIdle
<1>8. CASE ~UNCHANGED <<resting_orders, event_queue>>
  <2>1. id \in Resting /\ Outcome(id, resting_orders[id].quantity, Placed)
    BY <1>3, <1>4, <1>6, <1>8, MatchingOutcome
  <2>2. PICK quantity \in Nat : quantity = resting_orders[id].quantity
    BY <1>6 DEF RestingState
  <2>3. Answered(id, quantity) /\ Answers(id, Placed)
    BY <1>3, <1>4, <1>6, <2>1, <2>2, AnsweredForms, MatchingAnswers DEF WholeInv
  <2>4. \A i \in OrderIds \ {id} : WholeOrNone(i)'
    BY <1>1, <1>6, <2>3, OthersStayWhole
  <2>5. WholeOrNone(id)'
    <3>1. CASE accepted[id].times = 1 /\ EffectiveTif(orders[id]) = "FOK"
      <4>1. WholeOrNone(id)
        BY <1>6 DEF WholeInv
      <4>2. /\ orders[id].filled_quantity = 0 /\ LotsOf(event_queue, id) = 0
            /\ resting_orders[id].quantity = accepted[id].lots
        BY <2>1, <3>1, <4>1, RestingIsUnfilled DEF WholeInv
      <4>3. resting_orders[id].tif = "FOK"
        BY <2>1, <3>1, <4>1 DEF WholeOrNone
      <4>4. Whole(id, quantity, Placed)
        BY <1>3, <1>4, <1>6, <1>8, <2>1, <2>2, <4>3, MatchedWhole
      <4>5. accepted'[id].lots = quantity
        BY <1>1, <2>2, <4>2
      <4>. QED BY <1>1, <1>6, <4>2, <4>4, <4>5, AnsweredWhole
    <3>2. CASE ~(accepted[id].times = 1 /\ EffectiveTif(orders[id]) = "FOK")
      BY <1>1, <3>2 DEF WholeOrNone
    <3>. QED BY <3>1, <3>2
  <2>. QED BY <1>1, <1>5, <2>4, <2>5 DEF WholeInv
<1>. QED BY <1>7, <1>8

LEMMA WholeAtStart ==
  ASSUME Init
  PROVE  WholeInv
<1>1. WorkInv
  BY WorkAtStart
<1>2. calls \in Seq(TrueFrames)
  BY StrategyIsTrue, BacktestAssumption DEF Init
<1>3. ASSUME NEW id \in OrderIds PROVE WholeOrNone(id)
  <2>1. accepted[id].times = 0
    BY DEF Init
  <2>. QED BY <2>1 DEF WholeOrNone
<1>. QED BY <1>1, <1>2, <1>3 DEF WholeInv

LEMMA WholeStep ==
  ASSUME WholeInv, [Next]_vars
  PROVE  WholeInv'
<1>1. CASE UNCHANGED vars
  <2>1. WorkInv'
    BY <1>1, WorkStep DEF WholeInv
  <2>2. UNCHANGED <<resting_orders, event_queue, orders, accepted, calls>>
    BY <1>1 DEF vars
  <2>3. calls' \in Seq(TrueFrames')
    BY <2>2, TrueWhileIdle DEF WholeInv
  <2>. QED BY <2>1, <2>2, <2>3, WholeWhileIdle
<1>2. ASSUME NEW plan \in Plans, SubmitOrder(plan) PROVE WholeInv'
  BY <1>2, SubmitStaysWhole
<1>3. ASSUME NEW id \in OrderIds, CancelOrder(id) PROVE WholeInv'
  BY <1>3, CancelStaysWhole
<1>4. ASSUME NEW id \in OrderIds, NEW quantity \in Quantities, ModifyOrder(id, quantity)
      PROVE  WholeInv'
  BY <1>4, ModifyStaysWhole
<1>5. CASE StrategyReturns
  BY <1>5, StrategyReturnsStaysWhole
<1>6. CASE RunCallbacks
  BY <1>6, RunCallbacksStaysWhole
<1>7. CASE AcceptOrder
  BY <1>7, AcceptStaysWhole
<1>8. CASE RefuseOrder
  BY <1>8, RefuseStaysWhole
<1>9. CASE SubmittedIsPending
  BY <1>9, SubmittedStaysWhole
<1>10. CASE MatchOrder
  BY <1>10, MatchStaysWhole
<1>11. CASE NextTick
  BY <1>11, NextTickStaysWhole
<1>12. CASE HandleMarket
  BY <1>12, HandleMarketStaysWhole
<1>13. CASE HandleFill
  BY <1>13, HandleFillStaysWhole
<1>14. CASE HandleStatus
  BY <1>14, HandleStatusStaysWhole
<1>. QED
  BY <1>1, <1>2, <1>3, <1>4, <1>5, <1>6, <1>7, <1>8, <1>9, <1>10, <1>11, <1>12, <1>13, <1>14
  DEF Next

\* A fill-or-kill order is filled whole or not at all, for any orders, market data,
\* execution model, latency and strategy, however many events its fills take and
\* whatever ends it meanwhile.
THEOREM FillOrKillStaysWhole == Spec => []FillOrKillIsWhole
<1>1. Init => WholeInv
  BY WholeAtStart
<1>2. WholeInv /\ [Next]_vars => WholeInv'
  BY WholeStep
<1>3. WholeInv => FillOrKillIsWhole
  BY DEF WholeInv, WholeOrNone, FillOrKillIsWhole, QueuedLots
<1>. QED BY <1>1, <1>2, <1>3, PTL DEF Spec

\* Of an order handed over once every lot is accounted for: none is filled twice, and
\* a fill-or-kill order is whole.
THEOREM ExecutionsStaySound == Spec => []ExecutionsAreSound
<1>1. Spec => [](LotsAreConserved /\ FillOrKillIsWhole)
  BY LotsStayConserved, FillOrKillStaysWhole, PTL
<1>2. LotsAreConserved /\ FillOrKillIsWhole <=> ExecutionsAreSound
  BY DEF ExecutionsAreSound
<1>. QED BY <1>1, <1>2, PTL
=============================================================================
