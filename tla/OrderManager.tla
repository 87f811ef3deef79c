---------------------------- MODULE OrderManager ----------------------------
(***************************************************************************)
(* The order manager (src/engine/order_manager.cpp): the order table, and  *)
(* the routing of a parent order into child orders.                        *)
(*                                                                         *)
(* Every operation has a part under mutex_, one atomic step here, and a    *)
(* rest that runs after the unlock: callbacks, the trailing change to      *)
(* Pending, the cancels of the children, the submission of further         *)
(* children.  stack[t] holds what thread t still has to do, the next thing *)
(* first.  While a callback is on top of it the callback may call the      *)
(* order manager again, and the other threads run at any point.            *)
(*                                                                         *)
(* Prices, symbols and times are left out; quantities are counted in lots. *)
(***************************************************************************)
EXTENDS Integers, Sequences, FiniteSets, Sums

CONSTANTS
  Threads,           \* the threads that call the order manager
  Quantities,        \* the quantities of unrouted orders, and of modifications
  FillSizes,         \* the sizes of fills
  ReportedStatuses,  \* the statuses callers pass to update_order_status()
  Plans,             \* what the router answers: a quantity split into children
  MaxSubmits,        \* bound: orders submitted by callers
  MaxFilled,         \* bound: lots filled of one order
  MaxCalls           \* bound: calls made in all

Statuses ==
  {"created", "pending", "partiallyFilled", "filled", "cancelled", "rejected"}

Modes == {"parallel", "sequential"}
Aggregations == {"none", "final", "partial"}

ASSUME OrderAssumption ==
  /\ Quantities \subseteq Nat \ {0}
  /\ FillSizes \subseteq Nat \ {0}
  /\ ReportedStatuses \subseteq Statuses
  /\ Plans \subseteq [quantity : Nat \ {0}, mode : Modes,
                      aggregation : Aggregations,
                      children : Seq(Nat) \ {<<>>}]
  /\ MaxSubmits \in Nat /\ MaxFilled \in Nat /\ MaxCalls \in Nat

VARIABLES
  router,    \* whether router_ is set
  nextId,    \* next_order_id_
  orders,    \* orders_
  routing,   \* routing_states_
  parentOf,  \* parent_by_child_
  stack,     \* per thread: what its calls still have to do
  calls      \* how many calls callers made

vars == <<router, nextId, orders, routing, parentOf, stack, calls>>

SeqRange(s) == {s[i] : i \in DOMAIN s}

\* The map f with v at k, as f[k] = v leaves an unordered_map.
Put(f, k, v) == [x \in DOMAIN f \cup {k} |-> IF x = k THEN v ELSE f[x]]

EmptyMap == [x \in {} |-> x]

Lesser(a, b) == IF a < b THEN a ELSE b

IsOpen(status) == status \in {"created", "pending", "partiallyFilled"}

OrderRecord ==
  [status : Statuses, quantity : Nat, filled : Nat, parent : Nat,
   isParent : BOOLEAN]

\* RoutingState, and in planned how many children the plan had.
RoutingRecord ==
  [mode : Modes, aggregation : Aggregations, activated : BOOLEAN, filled : Nat,
   hadReject : BOOLEAN, pending : Seq(Nat), submitted : Seq(Nat),
   terminal : SUBSET Nat, planned : Nat]

NewOrder(quantity, parent, isParent) ==
  [status |-> "created", quantity |-> quantity, filled |-> 0,
   parent |-> parent, isParent |-> isParent]

Init ==
  /\ router = FALSE
  /\ nextId = 1
  /\ orders = EmptyMap
  /\ routing = EmptyMap
  /\ parentOf = EmptyMap
  /\ stack = [t \in Threads |-> <<>>]
  /\ calls = 0
-----------------------------------------------------------------------------
(* What is left to do after the unlock.                                    *)

FrameKinds ==
  {"orderCallback", "fillCallback", "set", "activate", "next", "adopt"}

FrameRecord ==
  [kind : FrameKinds, order : Nat, status : Statuses \cup {"none"},
   children : Seq(Nat)]

Frame(kind, order, status, children) ==
  [kind |-> kind, order |-> order, status |-> status, children |-> children]

\* The callbacks of on_order_update() with a snapshot of the order.
OrderCallback(id, status) == Frame("orderCallback", id, status, <<>>)

\* The callbacks of on_fill().
FillCallback(id) == Frame("fillCallback", id, "none", <<>>)

\* A call of update_order_status().
SetLater(id, status) == Frame("set", id, status, <<>>)

\* The loop of activate_routed_order() over to_submit.
Activation(parent, children) == Frame("activate", parent, "none", children)

\* The loop of process_fill() and update_order_status() over next_children.
NextChild(parent, quantity) == Frame("next", parent, "none", <<quantity>>)

\* The second half of submit_child_order().
AdoptLater(child) == Frame("adopt", child, "none", <<>>)

Todo(t, kinds) == stack[t] # <<>> /\ Head(stack[t]).kind \in kinds

\* Callers are the engine between its calls, and the callbacks.
MayCall(t) ==
  /\ calls < MaxCalls
  /\ stack[t] = <<>> \/ Todo(t, {"orderCallback", "fillCallback"})

Called == calls' = calls + 1

Push(t, frames) == stack' = [stack EXCEPT ![t] = frames \o @]

Replace(t, frames) == stack' = [stack EXCEPT ![t] = frames \o Tail(@)]
-----------------------------------------------------------------------------
(* The parent's side of a child's report: its order, its routing state,    *)
(* the snapshots for the callbacks and the children to submit next.        *)

Family(child) ==
  [parent |-> orders[parentOf[child]], state |-> routing[parentOf[child]],
   updates |-> <<>>, next |-> <<>>]

FillStatus(filled, quantity) ==
  IF filled >= quantity THEN "filled" ELSE "partiallyFilled"

\* Mutant: a parent whose children are all done counts as filled.
FinalStatusIgnoresQuantity(filled, quantity, hadReject) ==
  IF filled > 0 THEN "filled" ELSE IF hadReject THEN "rejected" ELSE "cancelled"

FinalStatus(filled, quantity, hadReject) ==
  CASE filled >= quantity -> "filled"
    [] filled < quantity /\ filled = 0 /\ hadReject -> "rejected"
    [] OTHER -> "cancelled"

\* finalize_parent_if_complete()
Finalized(f) ==
  LET filled == IF f.state.aggregation = "final" THEN f.state.filled
                                                 ELSE f.parent.filled
      status == FinalStatus(filled, f.parent.quantity, f.state.hadReject)
  IN  IF \/ f.state.pending # <<>>
         \/ Cardinality(f.state.terminal) < Len(f.state.submitted)
        THEN f
        ELSE [f EXCEPT !.parent.filled = filled,
                       !.parent.status = status,
                       !.updates = Append(@, status)]

\* Mutant: the fill is counted with what the child had filled before.
AfterChildFillCumulative(f, lots) ==
  LET filled == f.state.filled + lots + f.state.filled
  IN  [f EXCEPT !.state.filled = filled, !.parent.filled = filled]

\* handle_child_fill()
AfterChildFill(f, lots) ==
  LET filled == f.state.filled + lots
      status == FillStatus(filled, f.parent.quantity)
      counted == [f EXCEPT !.state.filled = filled]
  IN  IF f.state.aggregation # "partial"
        THEN counted
        ELSE [counted EXCEPT !.parent.filled = filled,
                             !.parent.status = status,
                             !.updates = Append(@, status)]

\* Mutant: the next child is sent for what is left, positive or not.
LaunchNextUnchecked(f) ==
  LET remaining == f.parent.quantity - f.state.filled
  IN  [f EXCEPT !.next = <<Lesser(Head(f.state.pending), remaining)>>,
                !.state.pending = Tail(@)]

\* Mutant: the child that is sent stays in pending_children.
LaunchNextKeepsIt(f) ==
  LET remaining == f.parent.quantity - f.state.filled
  IN  IF remaining > 0
        THEN [f EXCEPT !.next = <<Lesser(Head(f.state.pending), remaining)>>]
        ELSE Finalized([f EXCEPT !.state.pending = <<>>])

\* A sequential parent sends its next child, for what is left at most.
LaunchNext(f) ==
  LET remaining == f.parent.quantity - f.state.filled
  IN  IF remaining > 0
        THEN [f EXCEPT !.next = <<Lesser(Head(f.state.pending), remaining)>>,
                       !.state.pending = Tail(@)]
        ELSE Finalized([f EXCEPT !.state.pending = <<>>])

\* handle_child_terminal(), which is called for terminal and other statuses.
AfterChildStatus(f, child, status) ==
  LET marked == [f EXCEPT !.state.terminal = @ \cup {child},
                          !.state.hadReject = @ \/ status = "rejected"]
  IN  IF /\ f.state.mode = "sequential"
         /\ f.state.activated
         /\ f.state.pending # <<>>
        THEN LaunchNext(marked)
        ELSE Finalized(marked)

\* The callbacks for the parent, then the submission of the next child.
FamilyFrames(parent, f) ==
  [i \in DOMAIN f.updates |-> OrderCallback(parent, f.updates[i])]
  \o [i \in DOMAIN f.next |-> NextChild(parent, f.next[i])]

\* The order becomes updated, its family f (none: the order has no parent).
Store(id, updated, f) ==
  IF id \in DOMAIN parentOf
    THEN /\ orders' = [orders EXCEPT ![id] = updated, ![parentOf[id]] = f.parent]
         /\ routing' = [routing EXCEPT ![parentOf[id]] = f.state]
    ELSE /\ orders' = [orders EXCEPT ![id] = updated]
         /\ UNCHANGED routing
-----------------------------------------------------------------------------
(* The calls of the callers.                                               *)

\* set_router() and clear_router(), at configuration: no call is under way.
SetRouter ==
  /\ \A t \in Threads : stack[t] = <<>>
  /\ router' = TRUE
  /\ UNCHANGED <<nextId, orders, routing, parentOf, stack, calls>>

ClearRouter ==
  /\ \A t \in Threads : stack[t] = <<>>
  /\ router' = FALSE
  /\ routing' = EmptyMap
  /\ parentOf' = EmptyMap
  /\ UNCHANGED <<nextId, orders, stack, calls>>

\* Callers submit under id 0, so the order manager numbers every order.
MaySubmit(t) ==
  /\ MayCall(t)
  /\ Cardinality({id \in DOMAIN orders : orders[id].parent = 0}) < MaxSubmits

SubmitFrames(id) == <<OrderCallback(id, "created"), SetLater(id, "pending")>>

Submit(t, quantity) ==
  /\ MaySubmit(t)
  /\ nextId' = nextId + 1
  /\ orders' = Put(orders, nextId, NewOrder(quantity, 0, FALSE))
  /\ Push(t, SubmitFrames(nextId))
  /\ Called
  /\ UNCHANGED <<router, routing, parentOf>>

\* An order the router splits; planned remembers the length of its plan.
SubmitRouted(t, plan) ==
  /\ MaySubmit(t)
  /\ router
  /\ nextId' = nextId + 1
  /\ orders' = Put(orders, nextId, NewOrder(plan.quantity, 0, TRUE))
  /\ routing' = Put(routing, nextId,
       [mode |-> plan.mode, aggregation |-> plan.aggregation,
        activated |-> FALSE, filled |-> 0, hadReject |-> FALSE,
        pending |-> plan.children, submitted |-> <<>>, terminal |-> {},
        planned |-> Len(plan.children)])
  /\ Push(t, SubmitFrames(nextId))
  /\ Called
  /\ UNCHANGED <<router, parentOf>>

CancelOrder(t, id) ==
  /\ MayCall(t)
  /\ IsOpen(orders[id].status)
  /\ orders' = [orders EXCEPT ![id].status = "cancelled"]
  /\ LET children == IF id \in DOMAIN routing THEN routing[id].submitted ELSE <<>>
     IN  Push(t, <<OrderCallback(id, "cancelled")>>
                 \o [i \in DOMAIN children |-> SetLater(children[i], "cancelled")])
  /\ Called
  /\ UNCHANGED <<router, nextId, routing, parentOf>>

\* The order is written before it is validated: a rejected quantity stays.
ModifyOrder(t, id, quantity) ==
  /\ MayCall(t)
  /\ IsOpen(orders[id].status)
  /\ orders' = [orders EXCEPT ![id].quantity = quantity]
  /\ Push(t, IF quantity > 0 THEN <<OrderCallback(id, orders[id].status)>>
                             ELSE <<>>)
  /\ Called
  /\ UNCHANGED <<router, nextId, routing, parentOf>>

\* Executions are reported for orders that were sent out, never for a parent.
ProcessFill(t, id, lots) ==
  LET filled == orders[id].filled + lots
      status == FillStatus(filled, orders[id].quantity)
      updated == [orders[id] EXCEPT !.filled = filled, !.status = status]
      reported == AfterChildFill(Family(id), lots)
      family == IF status = "filled"
                  THEN AfterChildStatus(reported, id, status) ELSE reported
      frames == <<FillCallback(id), OrderCallback(id, status)>>
  IN  /\ MayCall(t)
      /\ ~orders[id].isParent
      /\ filled <= MaxFilled
      /\ Store(id, updated, family)
      /\ Push(t, IF id \in DOMAIN parentOf
                   THEN frames \o FamilyFrames(parentOf[id], family) ELSE frames)
      /\ Called
      /\ UNCHANGED <<router, nextId, parentOf>>

\* The locked part of update_order_status().
SetStatus(id, status) ==
  Store(id, [orders[id] EXCEPT !.status = status],
        AfterChildStatus(Family(id), id, status))

StatusFrames(id, status) ==
  IF id \in DOMAIN parentOf
    THEN <<OrderCallback(id, status)>>
         \o FamilyFrames(parentOf[id], AfterChildStatus(Family(id), id, status))
    ELSE <<OrderCallback(id, status)>>

UpdateOrderStatus(t, id, status) ==
  /\ MayCall(t)
  /\ SetStatus(id, status)
  /\ Push(t, StatusFrames(id, status))
  /\ Called
  /\ UNCHANGED <<router, nextId, parentOf>>

ActivateRoutedOrder(t, id) ==
  LET state == routing[id]
      sent == IF state.mode = "parallel" THEN Len(state.pending)
                                         ELSE Lesser(1, Len(state.pending))
  IN  /\ MayCall(t)
      /\ ~state.activated
      /\ routing' = [routing EXCEPT ![id].activated = TRUE,
                                    ![id].pending = SubSeq(@, sent + 1, Len(@))]
      /\ Push(t, <<Activation(id, SubSeq(state.pending, 1, sent))>>)
      /\ Called
      /\ UNCHANGED <<router, nextId, orders, parentOf>>
-----------------------------------------------------------------------------
(* The parts of a call that run after its unlock.                          *)

\* A callback returns.
Return(t) ==
  /\ Todo(t, {"orderCallback", "fillCallback"})
  /\ Replace(t, <<>>)
  /\ UNCHANGED <<router, nextId, orders, routing, parentOf, calls>>

StepSet(t) ==
  /\ Todo(t, {"set"})
  /\ LET frame == Head(stack[t])
     IN  /\ SetStatus(frame.order, frame.status)
         /\ Replace(t, StatusFrames(frame.order, frame.status))
  /\ UNCHANGED <<router, nextId, parentOf, calls>>

\* What is left of a loop over children after the first of them.
Remaining(frame) ==
  IF frame.kind = "activate" /\ Len(frame.children) > 1
    THEN <<Activation(frame.order, Tail(frame.children))>> ELSE <<>>

\* Mutant: a child goes through the router like any other order.
LaunchChildRouted(t) ==
  /\ Todo(t, {"activate", "next"})
  /\ LET frame == Head(stack[t])
     IN  /\ frame.children # <<>>
         /\ nextId' = nextId + 1
         /\ orders' = Put(orders, nextId,
                          NewOrder(Head(frame.children), frame.order, FALSE))
         /\ routing' = Put(routing, nextId,
              [routing[frame.order] EXCEPT !.activated = FALSE, !.pending = <<>>,
                                           !.submitted = <<>>, !.terminal = {}])
         /\ Replace(t, SubmitFrames(nextId) \o <<AdoptLater(nextId)>>
                       \o Remaining(frame))
  /\ UNCHANGED <<router, parentOf, calls>>

\* submit_child_order(): the child is stored, and adopted only after its
\* callbacks and its change to Pending.
LaunchChild(t) ==
  /\ Todo(t, {"activate", "next"})
  /\ LET frame == Head(stack[t])
     IN  /\ frame.children # <<>>
         /\ Head(frame.children) > 0
         /\ nextId' = nextId + 1
         /\ orders' = Put(orders, nextId,
                          NewOrder(Head(frame.children), frame.order, FALSE))
         /\ Replace(t, SubmitFrames(nextId) \o <<AdoptLater(nextId)>>
                       \o Remaining(frame))
  /\ UNCHANGED <<router, routing, parentOf, calls>>

\* A pre-submit callback or the validation refuses the child.  Activation
\* stops and rejects the parent; a refused next child is forgotten.
LaunchFails(t) ==
  /\ Todo(t, {"activate", "next"})
  /\ LET frame == Head(stack[t])
     IN  Replace(t, IF frame.kind = "activate"
                      THEN <<SetLater(frame.order, "rejected")>> ELSE <<>>)
  /\ UNCHANGED <<router, nextId, orders, routing, parentOf, calls>>

\* Mutant: the child is listed, but does not know its parent.
AdoptChildHalf(t) ==
  /\ Todo(t, {"adopt"})
  /\ LET child == Head(stack[t]).order
     IN  routing' = [routing EXCEPT ![orders[child].parent].submitted
                                      = Append(@, child)]
  /\ Replace(t, <<>>)
  /\ UNCHANGED <<router, nextId, orders, parentOf, calls>>

AdoptChild(t) ==
  /\ Todo(t, {"adopt"})
  /\ LET child == Head(stack[t]).order
         parent == orders[child].parent
     IN  /\ parentOf' = Put(parentOf, child, parent)
         /\ routing' = [routing EXCEPT ![parent].submitted = Append(@, child)]
  /\ Replace(t, <<>>)
  /\ UNCHANGED <<router, nextId, orders, calls>>

Continue(t) ==
  \/ Return(t) \/ StepSet(t) \/ LaunchChild(t) \/ LaunchFails(t) \/ AdoptChild(t)

CallBy(t) ==
  \/ \E quantity \in Quantities : Submit(t, quantity)
  \/ \E plan \in Plans : SubmitRouted(t, plan)
  \/ \E id \in DOMAIN orders :
       \/ CancelOrder(t, id)
       \/ \E quantity \in Quantities \cup {0} : ModifyOrder(t, id, quantity)
       \/ \E lots \in FillSizes : ProcessFill(t, id, lots)
       \/ \E status \in ReportedStatuses : UpdateOrderStatus(t, id, status)
  \/ \E id \in DOMAIN routing : ActivateRoutedOrder(t, id)

Configure == SetRouter \/ ClearRouter

Next == Configure \/ \E t \in Threads : CallBy(t) \/ Continue(t)

Spec == Init /\ [][Next]_vars
-----------------------------------------------------------------------------
(* Properties.                                                             *)

FramesOf(t) == SeqRange(stack[t])

\* Orders are numbered without a gap; routing states, children and frames name
\* orders that exist.
TypeOK ==
  /\ router \in BOOLEAN
  /\ nextId \in Nat \ {0}
  /\ orders \in [1..(nextId - 1) -> OrderRecord]
  /\ routing \in [DOMAIN routing -> RoutingRecord]
  /\ DOMAIN routing \subseteq DOMAIN orders
  /\ parentOf \in [DOMAIN parentOf -> DOMAIN routing]
  /\ DOMAIN parentOf \subseteq DOMAIN orders
  /\ stack \in [Threads -> Seq(FrameRecord)]
  /\ \A t \in Threads : \A frame \in FramesOf(t) : frame.order \in DOMAIN orders
  /\ calls \in 0..MaxCalls

\* submit_child_order(), handle_child_terminal() and the completion test relate
\* four tables under separate locks.  Whatever threads and callbacks do in
\* between, a child is in submitted_children of its parent, once, exactly when
\* parent_by_child_ maps it there, and only such children are counted in
\* terminal_children: so the comparison of sizes in
\* finalize_parent_if_complete() is a comparison of sets.
TablesAgree ==
  \A p \in DOMAIN routing :
    LET children == routing[p].submitted
    IN  /\ \A i, j \in DOMAIN children : children[i] = children[j] => i = j
        /\ SeqRange(children) = {c \in DOMAIN parentOf : parentOf[c] = p}
        /\ routing[p].terminal \subseteq SeqRange(children)

\* Routing has two levels: a child, adopted or on its way, is never routed
\* again, so update_order_status() of a child reaches one parent and stops.
ChildrenAreNotRouted ==
  \A id \in DOMAIN orders :
    orders[id].parent # 0 => id \notin DOMAIN routing /\ ~orders[id].isParent

\* The order table and the four routing tables fit together at every moment.
RoutingIsConsistent ==
  /\ TypeOK
  /\ TablesAgree
  /\ ChildrenAreNotRouted

\* What the tables rest on between the two halves of submit_child_order(): a
\* parent keeps its plan until it is activated.
ParentsHavePlans ==
  \A p \in DOMAIN routing :
    orders[p].isParent /\ (routing[p].activated \/ routing[p].pending # <<>>)

\* parent_by_child_ agrees with the parent an order carries.
ChildrenKnowParents ==
  \A child \in DOMAIN parentOf : parentOf[child] = orders[child].parent

\* The loops hold children of routed parents, and only a child that was not
\* adopted yet waits for it.
FrameFits(frame) ==
  /\ frame.kind \in {"activate", "next"} =>
       frame.order \in DOMAIN routing /\ frame.children # <<>>
  /\ frame.kind = "adopt" =>
       frame.order \notin DOMAIN parentOf /\ orders[frame.order].parent \in DOMAIN routing
  /\ frame.kind = "set" => frame.status \in Statuses

FramesFit == \A t \in Threads : \A frame \in FramesOf(t) : FrameFits(frame)

IsAdoption(t, i) == i \in DOMAIN stack[t] /\ stack[t][i].kind = "adopt"

\* Each child awaits its adoption in one frame of one thread.
AdoptedOnce ==
  \A t, u \in Threads, i, j \in Nat :
    IsAdoption(t, i) /\ IsAdoption(u, j) /\ stack[t][i].order = stack[u][j].order
      => t = u /\ i = j

\* The conjunction, which is inductive.
RoutingInv ==
  /\ TypeOK
  /\ TablesAgree
  /\ ChildrenAreNotRouted
  /\ ParentsHavePlans
  /\ ChildrenKnowParents
  /\ FramesFit
  /\ AdoptedOnce

\* How many children of parent p were submitted or are about to be.
Launched(p) == Cardinality({id \in DOMAIN orders : orders[id].parent = p})

\* The frames of thread t that still have children of p to submit.
LoopsOver(t, p) ==
  {i \in DOMAIN stack[t] :
     stack[t][i].order = p /\ stack[t][i].kind \in {"activate", "next"}}

\* The children of p that they have, each by its place.
InFlight(p) ==
  UNION {UNION {{<<t, i, k>> : k \in DOMAIN stack[t][i].children} : i \in LoopsOver(t, p)} :
         t \in Threads}

\* Each child of a plan is submitted at most once, however activations,
\* reports of the other children and cancels race.
PlannedOnce ==
  \A p \in DOMAIN routing :
    Launched(p) + Cardinality(InFlight(p)) + Len(routing[p].pending) <= routing[p].planned

\* What the children of p have filled: orders are numbered from 1, so these are
\* a sequence, with 0 for the orders that are not children of p.
ChildFills(p) ==
  SumOf([c \in DOMAIN orders |-> IF orders[c].parent = p THEN orders[c].filled ELSE 0])

\* A parent never shows more fills than its children really had, and with
\* aggregation "none" it shows no fills at all.
ParentFillsAreChildFills ==
  \A p \in DOMAIN routing :
    /\ orders[p].filled <= routing[p].filled
    /\ routing[p].filled <= ChildFills(p)
    /\ routing[p].aggregation = "none" => orders[p].filled = 0

\* A parent becomes filled only when its children have executed its quantity,
\* whoever completes it: a fill, a cancel or a refused child.
FilledParentIsBacked ==
  [][\A p \in DOMAIN routing :
       orders[p].status # "filled" /\ orders'[p].status = "filled"
         => ChildFills(p)' >= orders'[p].quantity]_vars

\* A plan is carried out once, and its parent shows what its children did.
ChildrenAreAccountedFor ==
  /\ []PlannedOnce
  /\ []ParentFillsAreChildFills
  /\ FilledParentIsBacked
=============================================================================
