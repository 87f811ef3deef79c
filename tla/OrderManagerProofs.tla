------------------------- MODULE OrderManagerProofs -------------------------
(***************************************************************************)
(* Proofs about OrderManager, for any number of threads, orders and calls: *)
(* its types, the agreement of the order, routing and parent tables, and   *)
(* the accounts of a parent's children.  The inductive invariants are      *)
(* RoutingInv, which adds to the tables what the unfinished calls on the   *)
(* stacks still promise to do to them, and ChildrenInv.                    *)
(***************************************************************************)
EXTENDS OrderManager, SumProofs, FiniteSetTheorems, TLAPS

FamilyRecord ==
  [parent : OrderRecord, state : RoutingRecord, updates : Seq(Statuses),
   next : Seq(Nat)]

\* The queues of a family have a length.
LEMMA FamilyLengths ==
  ASSUME NEW f \in FamilyRecord
  PROVE  Len(f.next) \in Nat /\ Len(f.state.pending) \in Nat
<1>1. f.next \in Seq(Nat) /\ f.state \in RoutingRecord
  BY DEF FamilyRecord
<1>2. f.state.pending \in Seq(Nat)
  BY <1>1 DEF RoutingRecord
<1>. QED BY <1>1, <1>2

\* g is f after some reports of the children: what reports never touch.
SameFamily(f, g, children) ==
  /\ g \in FamilyRecord
  /\ g.parent.parent = f.parent.parent
  /\ g.parent.isParent = f.parent.isParent
  /\ g.state.submitted = f.state.submitted
  /\ g.state.activated \/ g.state.pending = f.state.pending
  /\ f.state.activated => g.state.activated
  /\ g.state.terminal \subseteq f.state.terminal \cup children

-----------------------------------------------------------------------------
(* The operators on families.                                              *)

\* The two statuses a fill leaves an order in, and the three of a parent
\* whose children are done, are statuses.
LEMMA StatusesOfFills ==
  ASSUME NEW filled, NEW quantity, NEW hadReject
  PROVE  /\ FillStatus(filled, quantity) \in Statuses
         /\ FinalStatus(filled, quantity, hadReject) \in Statuses
<1>1. FillStatus(filled, quantity) \in Statuses
  BY DEF FillStatus, Statuses
<1>2. FinalStatus(filled, quantity, hadReject) \in Statuses
  BY DEF FinalStatus, Statuses
<1>. QED BY <1>1, <1>2

\* finalize_parent_if_complete() changes the parent's fills and status only.
LEMMA FinalizedKeepsFamily ==
  ASSUME NEW f \in FamilyRecord
  PROVE  SameFamily(f, Finalized(f), {})
<1>. DEFINE filled == IF f.state.aggregation = "final" THEN f.state.filled
                                                       ELSE f.parent.filled
            status == FinalStatus(filled, f.parent.quantity, f.state.hadReject)
            g == [f EXCEPT !.parent.filled = filled,
                           !.parent.status = status,
                           !.updates = Append(@, status)]
<1>1. status \in Statuses
  BY StatusesOfFills
<1>2. filled \in Nat
  BY DEF FamilyRecord, RoutingRecord, OrderRecord
<1>3. Finalized(f) = f \/ Finalized(f) = g
  BY DEF Finalized
<1>. HIDE DEF status, filled
<1>4. g.state = f.state /\ g.next = f.next /\ g.updates = Append(f.updates, status)
  BY DEF FamilyRecord
<1>5. /\ g.parent = [[f.parent EXCEPT !.filled = filled] EXCEPT !.status = status]
      /\ g.parent \in OrderRecord
      /\ g.parent.parent = f.parent.parent /\ g.parent.isParent = f.parent.isParent
  BY <1>1, <1>2 DEF FamilyRecord, OrderRecord
<1>6. g \in FamilyRecord
  <2>1. f.state \in RoutingRecord /\ f.next \in Seq(Nat) /\ f.updates \in Seq(Statuses)
    BY DEF FamilyRecord
  <2>2. Append(f.updates, status) \in Seq(Statuses)
    BY <1>1, <2>1
  <2>3. g = [[f EXCEPT !.parent = g.parent] EXCEPT !.updates = Append(f.updates, status)]
    BY DEF FamilyRecord
  <2>. HIDE DEF g
  <2>. QED BY <1>5, <2>1, <2>2, <2>3 DEF FamilyRecord
<1>. QED BY <1>3, <1>4, <1>5, <1>6 DEF SameFamily

\* handle_child_fill() changes the fills on both sides and the parent's status.
LEMMA ChildFillKeepsFamily ==
  ASSUME NEW f \in FamilyRecord, NEW lots \in Nat
  PROVE  SameFamily(f, AfterChildFill(f, lots), {})
<1>. DEFINE filled == f.state.filled + lots
            status == FillStatus(filled, f.parent.quantity)
            state == [f.state EXCEPT !.filled = filled]
            parent == [[f.parent EXCEPT !.filled = filled] EXCEPT !.status = status]
            counted == [f EXCEPT !.state.filled = filled]
            g == [counted EXCEPT !.parent.filled = filled,
                                 !.parent.status = status,
                                 !.updates = Append(@, status)]
<1>1. status \in Statuses
  BY StatusesOfFills
<1>2. filled \in Nat
  BY DEF FamilyRecord, RoutingRecord
<1>3. AfterChildFill(f, lots) = counted \/ AfterChildFill(f, lots) = g
  BY DEF AfterChildFill
<1>. HIDE DEF status, filled
<1>4. /\ f.parent \in OrderRecord /\ f.state \in RoutingRecord
      /\ f.updates \in Seq(Statuses) /\ f.next \in Seq(Nat)
  BY DEF FamilyRecord
<1>5. /\ state \in RoutingRecord
      /\ state.submitted = f.state.submitted /\ state.pending = f.state.pending
      /\ state.activated = f.state.activated /\ state.terminal = f.state.terminal
  BY <1>2, <1>4 DEF RoutingRecord
<1>6. /\ parent \in OrderRecord
      /\ parent.parent = f.parent.parent /\ parent.isParent = f.parent.isParent
  BY <1>1, <1>2, <1>4 DEF OrderRecord
<1>7. Append(f.updates, status) \in Seq(Statuses)
  BY <1>1, <1>4
<1>8. counted = [f EXCEPT !.state = state]
  OBVIOUS
<1>9. g = [[[f EXCEPT !.state = state] EXCEPT !.parent = parent]
             EXCEPT !.updates = Append(f.updates, status)]
  BY DEF FamilyRecord
<1>. HIDE DEF state, parent, counted, g
<1>10. SameFamily(f, counted, {})
  BY <1>4, <1>5, <1>8 DEF FamilyRecord, SameFamily
<1>11. SameFamily(f, g, {})
  BY <1>4, <1>5, <1>6, <1>7, <1>9 DEF FamilyRecord, SameFamily
<1>. QED BY <1>3, <1>10, <1>11

\* A next child is sent only of an activated parent, and for a positive quantity.
LEMMA LaunchNextKeepsFamily ==
  ASSUME NEW f \in FamilyRecord, f.state.activated, f.state.pending # <<>>
  PROVE  SameFamily(f, LaunchNext(f), {})
<1>. DEFINE remaining == f.parent.quantity - f.state.filled
            lots == Lesser(Head(f.state.pending), remaining)
            state == [f.state EXCEPT !.pending = Tail(@)]
            emptied == [f EXCEPT !.state.pending = <<>>]
            g == [f EXCEPT !.next = <<lots>>, !.state.pending = Tail(@)]
<1>1. /\ f.parent \in OrderRecord /\ f.state \in RoutingRecord
      /\ f.updates \in Seq(Statuses) /\ f.next \in Seq(Nat)
  BY DEF FamilyRecord
<1>2. CASE remaining > 0
  <2>1. Head(f.state.pending) \in Nat /\ Tail(f.state.pending) \in Seq(Nat)
    BY <1>1 DEF RoutingRecord
  <2>2. remaining \in Int
    BY <1>1 DEF RoutingRecord, OrderRecord
  <2>3. lots \in Nat
    BY <2>1, <2>2, <1>2 DEF Lesser
  <2>4. LaunchNext(f) = g
    BY <1>2 DEF LaunchNext
  <2>. HIDE DEF lots, remaining
  <2>5. g = [[f EXCEPT !.state = state] EXCEPT !.next = <<lots>>]
    BY DEF FamilyRecord
  <2>6. /\ state \in RoutingRecord
        /\ state.submitted = f.state.submitted
        /\ state.activated = f.state.activated /\ state.terminal = f.state.terminal
    BY <1>1, <2>1 DEF RoutingRecord
  <2>7. <<lots>> \in Seq(Nat)
    BY <2>3
  <2>. HIDE DEF state, g
  <2>. QED BY <1>1, <2>4, <2>5, <2>6, <2>7 DEF FamilyRecord, SameFamily
<1>3. CASE ~(remaining > 0)
  <2>. DEFINE nothing == <<>>
              kept == [f.state EXCEPT !.pending = nothing]
  <2>1. emptied = [f EXCEPT !.state = kept]
    OBVIOUS
  <2>. HIDE DEF emptied
  <2>a. nothing \in Seq(Nat)
    OBVIOUS
  <2>. HIDE DEF nothing
  <2>2. /\ kept \in RoutingRecord
        /\ kept.submitted = f.state.submitted
        /\ kept.activated = f.state.activated /\ kept.terminal = f.state.terminal
    BY <1>1, <2>a DEF RoutingRecord
  <2>. HIDE DEF kept
  <2>3. /\ emptied \in FamilyRecord
        /\ emptied.state = kept /\ emptied.parent = f.parent
    BY <1>1, <2>1, <2>2 DEF FamilyRecord
  <2>4. LaunchNext(f) = Finalized(emptied)
    BY <1>3 DEF LaunchNext, emptied
  <2>5. SameFamily(emptied, Finalized(emptied), {})
    BY <2>3, FinalizedKeepsFamily
  <2>. QED BY <2>2, <2>3, <2>4, <2>5 DEF SameFamily
<1>. QED BY <1>2, <1>3

\* handle_child_terminal() adds the child to terminal_children, nobody else.
LEMMA ChildStatusKeepsFamily ==
  ASSUME NEW f \in FamilyRecord, NEW child \in Nat, NEW status
  PROVE  SameFamily(f, AfterChildStatus(f, child, status), {child})
<1>. DEFINE state == [[f.state EXCEPT !.terminal = @ \cup {child}]
                        EXCEPT !.hadReject = @ \/ status = "rejected"]
            marked == [f EXCEPT !.state.terminal = @ \cup {child},
                                !.state.hadReject = @ \/ status = "rejected"]
<1>1. /\ f.parent \in OrderRecord /\ f.state \in RoutingRecord
      /\ f.updates \in Seq(Statuses) /\ f.next \in Seq(Nat)
  BY DEF FamilyRecord
<1>2. marked = [f EXCEPT !.state = state]
  BY DEF FamilyRecord, RoutingRecord
<1>3. /\ state \in RoutingRecord
      /\ state.submitted = f.state.submitted /\ state.pending = f.state.pending
      /\ state.activated = f.state.activated
      /\ state.terminal = f.state.terminal \cup {child}
  BY <1>1 DEF RoutingRecord
<1>4. \/ /\ f.state.activated /\ f.state.pending # <<>>
         /\ AfterChildStatus(f, child, status) = LaunchNext(marked)
      \/ AfterChildStatus(f, child, status) = Finalized(marked)
  BY DEF AfterChildStatus
<1>. HIDE DEF state
<1>5. marked \in FamilyRecord /\ marked.state = state /\ marked.parent = f.parent
  BY <1>1, <1>2, <1>3 DEF FamilyRecord
<1>. HIDE DEF marked
<1>6. SameFamily(marked, AfterChildStatus(f, child, status), {})
  BY <1>3, <1>4, <1>5, LaunchNextKeepsFamily, FinalizedKeepsFamily
<1>. QED BY <1>3, <1>5, <1>6 DEF SameFamily
-----------------------------------------------------------------------------
(* The stacks.                                                             *)

\* FrameFits in given tables, with the order of the frame in them.
Fits(frame, os, rs, ps) ==
  /\ frame.order \in DOMAIN os
  /\ frame.kind \in {"activate", "next"} =>
       frame.order \in DOMAIN rs /\ frame.children # <<>>
  /\ frame.kind = "adopt" =>
       frame.order \notin DOMAIN ps /\ os[frame.order].parent \in DOMAIN rs
  /\ frame.kind = "set" => frame.status \in Statuses

FramesInv ==
  /\ stack \in [Threads -> Seq(FrameRecord)]
  /\ \A t \in Threads : \A i \in DOMAIN stack[t] :
       Fits(stack[t][i], orders, routing, parentOf)
  /\ AdoptedOnce

\* At most one adoption is among the frames, of an order no frame has yet.
FreshAdoption(frames) ==
  /\ \A i, j \in DOMAIN frames :
       frames[i].kind = "adopt" /\ frames[j].kind = "adopt" => i = j
  /\ \A i \in DOMAIN frames, u \in Threads : \A j \in DOMAIN stack[u] :
       frames[i].kind = "adopt" => stack[u][j].order # frames[i].order

\* The part of a stack that stays, all of it or all but the first frame.
IsRest(rest, t, k) ==
  /\ rest \in Seq(FrameRecord)
  /\ k \in {0, 1}
  /\ \A i \in DOMAIN rest : i + k \in DOMAIN stack[t] /\ rest[i] = stack[t][i + k]

\* FramesInv survives a step after which the frames that stay and the new ones
\* fit in the tables.
LEMMA FramesInvStep ==
  ASSUME FramesInv, NEW t \in Threads, NEW frames \in Seq(FrameRecord),
         NEW rest, NEW k, IsRest(rest, t, k),
         stack' = [stack EXCEPT ![t] = frames \o rest],
         FreshAdoption(frames),
         \A u \in Threads : \A j \in DOMAIN stack[u] :
           u # t \/ j > k => Fits(stack[u][j], orders', routing', parentOf'),
         \A i \in DOMAIN frames : Fits(frames[i], orders', routing', parentOf')
  PROVE  FramesInv'
<1>. DEFINE new == frames \o rest
            n == Len(frames)
<1>1. rest \in Seq(FrameRecord) /\ n \in Nat /\ k \in {0, 1}
  BY DEF IsRest
<1>2. new \in Seq(FrameRecord) /\ Len(new) = n + Len(rest)
  BY <1>1
<1>3. \A i \in DOMAIN new :
        \/ i \in DOMAIN frames /\ new[i] = frames[i]
        \/ i - n \in DOMAIN rest /\ new[i] = rest[i - n]
  BY <1>1, <1>2
<1>4. \A i \in DOMAIN new :
        \/ i \in DOMAIN frames /\ new[i] = frames[i]
        \/ /\ i - n + k \in DOMAIN stack[t] /\ i - n + k > k
           /\ new[i] = stack[t][i - n + k]
  BY <1>1, <1>3 DEF IsRest
<1>5. stack' \in [Threads -> Seq(FrameRecord)]
  BY <1>2 DEF FramesInv
<1>6. stack'[t] = new /\ \A u \in Threads \ {t} : stack'[u] = stack[u]
  BY DEF FramesInv
<1>. HIDE DEF new, n
<1>7. ASSUME NEW u \in Threads, NEW i \in DOMAIN stack'[u]
      PROVE  Fits(stack'[u][i], orders', routing', parentOf')
  <2>1. CASE u = t
    BY <1>4, <1>6, <1>7, <2>1
  <2>2. CASE u # t
    BY <1>6, <1>7, <2>2
  <2>. QED BY <2>1, <2>2
<1>8. AdoptedOnce'
  <2>. SUFFICES ASSUME NEW u \in Threads, NEW v \in Threads, NEW i \in Nat, NEW j \in Nat,
                       IsAdoption(u, i)', IsAdoption(v, j)',
                       stack'[u][i].order = stack'[v][j].order
                PROVE  u = v /\ i = j
    BY DEF AdoptedOnce
  <2>1. /\ i \in DOMAIN stack'[u] /\ stack'[u][i].kind = "adopt"
        /\ j \in DOMAIN stack'[v] /\ stack'[v][j].kind = "adopt"
    BY DEF IsAdoption
  <2>2. ASSUME NEW w \in Threads, NEW a \in Nat, a \in DOMAIN stack'[w],
               stack'[w][a].kind = "adopt"
        PROVE  \/ w = t /\ a \in DOMAIN frames /\ stack'[w][a] = frames[a]
               \/ /\ w = t /\ a - n + k \in Nat /\ IsAdoption(t, a - n + k)
                  /\ stack'[w][a] = stack[t][a - n + k]
               \/ w # t /\ IsAdoption(w, a) /\ stack'[w][a] = stack[w][a]
    <3>1. stack[t] \in Seq(FrameRecord) /\ DOMAIN stack[t] \subseteq Nat
      BY DEF FramesInv
    <3>. QED BY <1>4, <1>6, <2>2, <3>1 DEF IsAdoption
  <2>3. \A w \in Threads, a, b \in Nat :
          a \in DOMAIN frames /\ frames[a].kind = "adopt" /\ IsAdoption(w, b)
            => stack[w][b].order # frames[a].order
    BY DEF FreshAdoption, IsAdoption
  <2>4. \A w, x \in Threads, a, b \in Nat :
          IsAdoption(w, a) /\ IsAdoption(x, b) /\ stack[w][a].order = stack[x][b].order
            => w = x /\ a = b
    BY DEF FramesInv, AdoptedOnce
  <2>5. n \in Nat /\ k \in Nat
    BY <1>1
  <2>6. \A a, b \in DOMAIN frames :
          frames[a].kind = "adopt" /\ frames[b].kind = "adopt" => a = b
    BY DEF FreshAdoption
  <2>7. CASE u = t /\ i \in DOMAIN frames /\ stack'[u][i] = frames[i]
    <3>1. frames[i].kind = "adopt"
      BY <2>1, <2>7
    <3>2. v = t /\ j \in DOMAIN frames /\ stack'[v][j] = frames[j]
      BY <2>1, <2>2, <2>3, <2>7, <3>1
    <3>. QED BY <2>1, <2>6, <2>7, <3>1, <3>2
  <2>8. CASE v = t /\ j \in DOMAIN frames /\ stack'[v][j] = frames[j]
    <3>1. frames[j].kind = "adopt"
      BY <2>1, <2>8
    <3>2. u = t /\ i \in DOMAIN frames /\ stack'[u][i] = frames[i]
      BY <2>1, <2>2, <2>3, <2>8, <3>1
    <3>. QED BY <2>1, <2>6, <2>8, <3>1, <3>2
  <2>9. CASE /\ ~(u = t /\ i \in DOMAIN frames /\ stack'[u][i] = frames[i])
             /\ ~(v = t /\ j \in DOMAIN frames /\ stack'[v][j] = frames[j])
    <3>. DEFINE a == IF u = t THEN i - n + k ELSE i
                b == IF v = t THEN j - n + k ELSE j
    <3>1. a \in Nat /\ IsAdoption(u, a) /\ stack'[u][i] = stack[u][a]
      BY <2>1, <2>2, <2>9
    <3>2. b \in Nat /\ IsAdoption(v, b) /\ stack'[v][j] = stack[v][b]
      BY <2>1, <2>2, <2>9
    <3>3. stack[u][a].order = stack[v][b].order
      BY <3>1, <3>2
    <3>4. u = v /\ a = b
      <4>. HIDE DEF a, b
      <4>. QED BY <2>4, <3>1, <3>2, <3>3
    <3>. QED BY <2>5, <3>4
  <2>. QED BY <2>7, <2>8, <2>9
<1>. QED BY <1>5, <1>7, <1>8 DEF FramesInv

\* The tables have the orders and the parents they had, and perhaps more.
Grows ==
  /\ DOMAIN orders \subseteq DOMAIN orders'
  /\ DOMAIN routing \subseteq DOMAIN routing'
  /\ \A id \in DOMAIN orders : orders'[id].parent = orders[id].parent
  /\ parentOf' = parentOf

\* What fits the tables fits them still when orders were added, or a plan
\* lost children: the frames of the other threads stay valid.
LEMMA FramesFitAsTablesGrow ==
  ASSUME FramesInv, Grows, NEW u \in Threads, NEW j \in DOMAIN stack[u]
  PROVE  Fits(stack[u][j], orders', routing', parentOf')
  BY DEF FramesInv, Grows, Fits

\* A thread's stack, and what is left of it without its first frame.
LEMMA RestOfStack ==
  ASSUME FramesInv, NEW t \in Threads
  PROVE  /\ IsRest(stack[t], t, 0)
         /\ stack[t] # <<>> => IsRest(Tail(stack[t]), t, 1)
<1>1. stack[t] \in Seq(FrameRecord)
  BY DEF FramesInv
<1>2. IsRest(stack[t], t, 0)
  BY <1>1 DEF IsRest
<1>3. ASSUME stack[t] # <<>>
      PROVE  IsRest(Tail(stack[t]), t, 1)
  BY <1>1, <1>3 DEF IsRest
<1>. QED BY <1>2, <1>3
-----------------------------------------------------------------------------
(* The tables.                                                             *)

TablesInv ==
  /\ nextId \in Nat \ {0}
  /\ orders \in [1..(nextId - 1) -> OrderRecord]
  /\ routing \in [DOMAIN routing -> RoutingRecord]
  /\ DOMAIN routing \subseteq DOMAIN orders
  /\ parentOf \in [DOMAIN parentOf -> DOMAIN routing]
  /\ DOMAIN parentOf \subseteq DOMAIN orders
  /\ TablesAgree
  /\ ChildrenAreNotRouted
  /\ ParentsHavePlans
  /\ ChildrenKnowParents

\* The invariant is the one of the tables and the one of the stacks.
LEMMA RoutingInvParts ==
  RoutingInv <=> TablesInv /\ FramesInv /\ router \in BOOLEAN /\ calls \in 0..MaxCalls
<1>1. ASSUME stack \in [Threads -> Seq(FrameRecord)]
      PROVE  (\A t \in Threads : \A frame \in FramesOf(t) :
                frame.order \in DOMAIN orders /\ FrameFits(frame))
             <=> (\A t \in Threads : \A i \in DOMAIN stack[t] :
                    Fits(stack[t][i], orders, routing, parentOf))
  BY DEF FramesOf, SeqRange, FrameFits, Fits
<1>. QED BY <1>1 DEF RoutingInv, TypeOK, TablesInv, FramesInv, FramesFit

\* What a step of Store leaves as it was.
SameShape ==
  /\ DOMAIN orders' = DOMAIN orders
  /\ DOMAIN routing' = DOMAIN routing
  /\ \A id \in DOMAIN orders : orders'[id].parent = orders[id].parent

\* A child's family is the order and the routing state of its parent.
LEMMA FamilyOfChild ==
  ASSUME TablesInv, NEW id \in DOMAIN parentOf
  PROVE  /\ Family(id) \in FamilyRecord
         /\ parentOf[id] \in DOMAIN routing
         /\ parentOf[id] \in DOMAIN orders
         /\ parentOf[id] # id
<1>1. parentOf[id] \in DOMAIN routing /\ parentOf[id] \in DOMAIN orders
  BY DEF TablesInv
<1>2. parentOf[id] # id
  <2>1. parentOf[id] = orders[id].parent
    BY DEF TablesInv, ChildrenKnowParents
  <2>2. parentOf[id] # 0
    BY <1>1 DEF TablesInv
  <2>. QED BY <1>1, <2>1, <2>2 DEF TablesInv, ChildrenAreNotRouted
<1>3. orders[parentOf[id]] \in OrderRecord /\ routing[parentOf[id]] \in RoutingRecord
  BY <1>1 DEF TablesInv
<1>. QED BY <1>1, <1>2, <1>3 DEF Family, FamilyRecord

\* An order's own record may change in all but its place in the routing.
LEMMA RewriteKeepsTables ==
  ASSUME TablesInv, NEW id \in DOMAIN orders, NEW updated \in OrderRecord,
         updated.parent = orders[id].parent,
         updated.isParent = orders[id].isParent,
         orders' = [orders EXCEPT ![id] = updated],
         UNCHANGED <<nextId, routing, parentOf>>
  PROVE  TablesInv' /\ SameShape
<1>1. SameShape /\ \A x \in DOMAIN orders : orders'[x].isParent = orders[x].isParent
  BY DEF SameShape, TablesInv
<1>2. orders' \in [1..(nextId - 1) -> OrderRecord]
  BY DEF TablesInv
<1>3. TablesAgree' /\ ChildrenAreNotRouted' /\ ParentsHavePlans' /\ ChildrenKnowParents'
  BY <1>1 DEF TablesInv, TablesAgree, ChildrenAreNotRouted, ParentsHavePlans,
       ChildrenKnowParents, SameShape, SeqRange
<1>. QED BY <1>1, <1>2, <1>3 DEF TablesInv, SameShape

\* Storing an order and its family keeps the tables in agreement.
LEMMA StoreKeepsTables ==
  ASSUME TablesInv, NEW id \in DOMAIN orders, NEW updated \in OrderRecord, NEW f,
         updated.parent = orders[id].parent,
         updated.isParent = orders[id].isParent,
         id \in DOMAIN parentOf => SameFamily(Family(id), f, {id}),
         Store(id, updated, f),
         UNCHANGED <<nextId, parentOf>>
  PROVE  TablesInv' /\ SameShape
<1>1. CASE id \notin DOMAIN parentOf
  BY <1>1, RewriteKeepsTables DEF Store
<1>2. CASE id \in DOMAIN parentOf
  <2>. DEFINE p == parentOf[id]
  <2>1. /\ p \in DOMAIN routing /\ p \in DOMAIN orders /\ p # id
        /\ SameFamily(Family(id), f, {id})
    BY <1>2, FamilyOfChild
  <2>2. /\ orders' = [orders EXCEPT ![id] = updated, ![p] = f.parent]
        /\ routing' = [routing EXCEPT ![p] = f.state]
    BY <1>2 DEF Store
  <2>3. /\ f.parent \in OrderRecord /\ f.state \in RoutingRecord
        /\ f.parent.parent = orders[p].parent
        /\ f.parent.isParent = orders[p].isParent
        /\ f.state.submitted = routing[p].submitted
        /\ f.state.activated \/ f.state.pending = routing[p].pending
        /\ routing[p].activated => f.state.activated
        /\ f.state.terminal \subseteq routing[p].terminal \cup {id}
    BY <2>1 DEF SameFamily, FamilyRecord, Family
  <2>. HIDE DEF p
  <2>4. /\ SameShape
        /\ \A x \in DOMAIN orders : orders'[x].isParent = orders[x].isParent
        /\ orders' \in [1..(nextId - 1) -> OrderRecord]
    BY <2>1, <2>2, <2>3 DEF SameShape, TablesInv
  <2>5. routing' \in [DOMAIN routing' -> RoutingRecord]
    BY <2>1, <2>2, <2>3 DEF TablesInv
  <2>6. \A q \in DOMAIN routing :
          /\ routing'[q].submitted = routing[q].submitted
          /\ routing'[q].activated \/ routing'[q].pending = routing[q].pending
          /\ routing[q].activated => routing'[q].activated
          /\ routing'[q].terminal \subseteq
               routing[q].terminal \cup {c \in DOMAIN parentOf : parentOf[c] = q}
    BY <1>2, <2>1, <2>2, <2>3 DEF TablesInv, p
  <2>7. TablesAgree'
    BY <2>4, <2>6, SMTT(30) DEF TablesInv, TablesAgree, SameShape, SeqRange
  <2>8. ChildrenAreNotRouted' /\ ChildrenKnowParents'
    BY <2>4 DEF TablesInv, ChildrenAreNotRouted, ChildrenKnowParents, SameShape
  <2>9. ParentsHavePlans'
    BY <2>4, <2>6 DEF TablesInv, ParentsHavePlans, SameShape
  <2>. QED BY <2>4, <2>5, <2>7, <2>8, <2>9 DEF TablesInv, SameShape
<1>. QED BY <1>1, <1>2

\* A new order, a child or not, starts outside all the other tables.
LEMMA AddOrderKeepsTables ==
  ASSUME TablesInv, NEW quantity \in Nat, NEW parent \in Nat,
         nextId' = nextId + 1,
         orders' = Put(orders, nextId, NewOrder(quantity, parent, FALSE)),
         UNCHANGED <<routing, parentOf>>
  PROVE  /\ TablesInv'
         /\ DOMAIN orders' = DOMAIN orders \cup {nextId}
         /\ nextId \notin DOMAIN orders
         /\ orders'[nextId].parent = parent
         /\ \A id \in DOMAIN orders : orders'[id] = orders[id]
<1>. DEFINE new == NewOrder(quantity, parent, FALSE)
<1>1. /\ new \in OrderRecord /\ new.parent = parent /\ ~new.isParent
  BY DEF NewOrder, OrderRecord, Statuses
<1>2. /\ nextId \in Nat \ {0} /\ DOMAIN orders = 1..(nextId - 1)
      /\ orders \in [1..(nextId - 1) -> OrderRecord]
  BY DEF TablesInv
<1>. HIDE DEF new
<1>3. /\ DOMAIN orders' = DOMAIN orders \cup {nextId}
      /\ nextId \notin DOMAIN orders
      /\ orders'[nextId] = new
      /\ \A id \in DOMAIN orders : orders'[id] = orders[id]
  <2>1. nextId \notin DOMAIN orders
    BY <1>2
  <2>2. orders' = [x \in DOMAIN orders \cup {nextId} |-> IF x = nextId THEN new ELSE orders[x]]
    BY DEF Put, new
  <2>. QED BY <2>1, <2>2
<1>4. /\ nextId' \in Nat \ {0} /\ orders' \in [1..(nextId' - 1) -> OrderRecord]
  <2>1. nextId' \in Nat \ {0} /\ 1..(nextId' - 1) = (1..(nextId - 1)) \cup {nextId}
    BY <1>2
  <2>2. orders' = [x \in DOMAIN orders \cup {nextId} |-> IF x = nextId THEN new ELSE orders[x]]
    BY DEF Put, new
  <2>3. orders' \in [(1..(nextId - 1)) \cup {nextId} -> OrderRecord]
    BY <1>1, <1>2, <2>2
  <2>. QED BY <2>1, <2>3
<1>5. /\ DOMAIN routing \subseteq DOMAIN orders'
      /\ DOMAIN parentOf \subseteq DOMAIN orders'
  BY <1>3 DEF TablesInv
<1>6. TablesAgree'
  BY DEF TablesInv, TablesAgree, SeqRange
<1>7. ChildrenAreNotRouted'
  BY <1>1, <1>3 DEF TablesInv, ChildrenAreNotRouted
<1>8. ParentsHavePlans' /\ ChildrenKnowParents'
  BY <1>3 DEF TablesInv, ParentsHavePlans, ChildrenKnowParents
<1>. QED BY <1>1, <1>3, <1>4, <1>5, <1>6, <1>7, <1>8 DEF TablesInv

\* A new parent brings its routing state, in which no child is recorded yet.
LEMMA AddParentKeepsTables ==
  ASSUME TablesInv, NEW quantity \in Nat, NEW state \in RoutingRecord,
         state.pending # <<>>, state.submitted = <<>>, state.terminal = {},
         nextId' = nextId + 1,
         orders' = Put(orders, nextId, NewOrder(quantity, 0, TRUE)),
         routing' = Put(routing, nextId, state),
         UNCHANGED parentOf
  PROVE  /\ TablesInv'
         /\ DOMAIN orders' = DOMAIN orders \cup {nextId}
         /\ DOMAIN routing' = DOMAIN routing \cup {nextId}
         /\ \A id \in DOMAIN orders : orders'[id] = orders[id]
<1>. DEFINE new == NewOrder(quantity, 0, TRUE)
<1>1. /\ new \in OrderRecord /\ new.parent = 0 /\ new.isParent
  BY DEF NewOrder, OrderRecord, Statuses
<1>2. /\ nextId \in Nat \ {0} /\ DOMAIN orders = 1..(nextId - 1)
      /\ orders \in [1..(nextId - 1) -> OrderRecord]
      /\ DOMAIN routing \subseteq DOMAIN orders
      /\ routing \in [DOMAIN routing -> RoutingRecord]
  BY DEF TablesInv
<1>. HIDE DEF new
<1>3. /\ DOMAIN orders' = DOMAIN orders \cup {nextId}
      /\ nextId \notin DOMAIN orders
      /\ orders'[nextId] = new
      /\ \A id \in DOMAIN orders : orders'[id] = orders[id]
  <2>1. nextId \notin DOMAIN orders
    BY <1>2
  <2>2. orders' = [x \in DOMAIN orders \cup {nextId} |-> IF x = nextId THEN new ELSE orders[x]]
    BY DEF Put, new
  <2>. QED BY <2>1, <2>2
<1>4. /\ nextId' \in Nat \ {0} /\ orders' \in [1..(nextId' - 1) -> OrderRecord]
  <2>1. nextId' \in Nat \ {0} /\ 1..(nextId' - 1) = (1..(nextId - 1)) \cup {nextId}
    BY <1>2
  <2>2. orders' = [x \in DOMAIN orders \cup {nextId} |-> IF x = nextId THEN new ELSE orders[x]]
    BY DEF Put, new
  <2>3. orders' \in [(1..(nextId - 1)) \cup {nextId} -> OrderRecord]
    BY <1>1, <1>2, <2>2
  <2>. QED BY <2>1, <2>3
<1>5. /\ DOMAIN routing' = DOMAIN routing \cup {nextId}
      /\ routing'[nextId] = state
      /\ \A p \in DOMAIN routing : routing'[p] = routing[p]
      /\ routing' \in [DOMAIN routing' -> RoutingRecord]
  BY <1>2, <1>3 DEF Put
<1>6. /\ DOMAIN routing' \subseteq DOMAIN orders'
      /\ DOMAIN parentOf \subseteq DOMAIN orders'
      /\ parentOf \in [DOMAIN parentOf -> DOMAIN routing']
  BY <1>3, <1>5 DEF TablesInv
<1>7. TablesAgree'
  <2>1. \A c \in DOMAIN parentOf : parentOf[c] # nextId
    BY <1>2, <1>3 DEF TablesInv
  <2>2. SeqRange(<<>>) = {}
    BY DEF SeqRange
  <2>. QED BY <1>5, <2>1, <2>2 DEF TablesInv, TablesAgree, SeqRange
<1>8. ChildrenAreNotRouted'
  BY <1>1, <1>3, <1>5, ZenonT(40) DEF TablesInv, ChildrenAreNotRouted
<1>9. ChildrenKnowParents'
  BY <1>3 DEF TablesInv, ChildrenKnowParents
<1>10. ParentsHavePlans'
  <2>1. ASSUME NEW p \in DOMAIN routing
        PROVE  orders'[p].isParent /\ (routing'[p].activated \/ routing'[p].pending # <<>>)
    BY <1>2, <1>3, <1>5 DEF TablesInv, ParentsHavePlans
  <2>2. orders'[nextId].isParent /\ routing'[nextId].pending # <<>>
    BY <1>1, <1>3, <1>5
  <2>. QED BY <1>5, <2>1, <2>2 DEF ParentsHavePlans
<1>. QED BY <1>3, <1>4, <1>5, <1>6, <1>7, <1>8, <1>9, <1>10 DEF TablesInv
-----------------------------------------------------------------------------
(* The frames the operations make.                                         *)

\* Frames that fit, none of them an adoption.
Harmless(frames, os, rs, ps) ==
  /\ frames \in Seq(FrameRecord)
  /\ \A i \in DOMAIN frames :
       frames[i].kind # "adopt" /\ Fits(frames[i], os, rs, ps)

\* Two harmless lists of frames make one.
LEMMA HarmlessConcat ==
  ASSUME NEW a, NEW b, NEW os, NEW rs, NEW ps,
         Harmless(a, os, rs, ps), Harmless(b, os, rs, ps)
  PROVE  Harmless(a \o b, os, rs, ps)
<1>1. a \in Seq(FrameRecord) /\ b \in Seq(FrameRecord)
  BY DEF Harmless
<1>2. a \o b \in Seq(FrameRecord)
  BY <1>1
<1>3. \A i \in DOMAIN (a \o b) :
        \/ i \in DOMAIN a /\ (a \o b)[i] = a[i]
        \/ i - Len(a) \in DOMAIN b /\ (a \o b)[i] = b[i - Len(a)]
  BY <1>1, <1>2
<1>. QED BY <1>2, <1>3 DEF Harmless

\* A call that leaves nothing to do is harmless.
LEMMA HarmlessNone ==
  ASSUME NEW os, NEW rs, NEW ps
  PROVE  Harmless(<<>>, os, rs, ps)
  BY DEF Harmless

\* A single frame that fits the tables and adopts no child is harmless.
LEMMA HarmlessOne ==
  ASSUME NEW frame \in FrameRecord, NEW os, NEW rs, NEW ps,
         frame.kind # "adopt", Fits(frame, os, rs, ps)
  PROVE  Harmless(<<frame>>, os, rs, ps)
<1>1. <<frame>> \in Seq(FrameRecord) /\ DOMAIN <<frame>> = {1} /\ <<frame>>[1] = frame
  OBVIOUS
<1>. QED BY <1>1 DEF Harmless

\* Frames without an adoption are fresh whatever is on the stacks.
LEMMA HarmlessIsFresh ==
  ASSUME NEW frames, NEW os, NEW rs, NEW ps, Harmless(frames, os, rs, ps)
  PROVE  FreshAdoption(frames)
  BY DEF Harmless, FreshAdoption

\* Callbacks and status changes fit as soon as their order exists, loops over
\* children when it is routed.
LEMMA FramesThatFit ==
  ASSUME NEW os, NEW rs, NEW ps, NEW id \in Nat, id \in DOMAIN os,
         NEW status \in Statuses
  PROVE  /\ Harmless(<<OrderCallback(id, status)>>, os, rs, ps)
         /\ Harmless(<<FillCallback(id)>>, os, rs, ps)
         /\ Harmless(<<SetLater(id, status)>>, os, rs, ps)
         /\ \A children \in Seq(Nat) \ {<<>>} : id \in DOMAIN rs =>
              Harmless(<<Activation(id, children)>>, os, rs, ps)
         /\ \A quantity \in Nat : id \in DOMAIN rs =>
              Harmless(<<NextChild(id, quantity)>>, os, rs, ps)
<1>. USE DEF Frame, FrameRecord, FrameKinds, Fits
<1>1. <<>> \in Seq(Nat) /\ "none" \in Statuses \cup {"none"}
  OBVIOUS
<1>2. Harmless(<<OrderCallback(id, status)>>, os, rs, ps)
  BY <1>1, HarmlessOne DEF OrderCallback
<1>3. Harmless(<<FillCallback(id)>>, os, rs, ps)
  BY <1>1, HarmlessOne DEF FillCallback
<1>4. Harmless(<<SetLater(id, status)>>, os, rs, ps)
  BY <1>1, HarmlessOne DEF SetLater
<1>5. ASSUME NEW children \in Seq(Nat) \ {<<>>}, id \in DOMAIN rs
      PROVE  Harmless(<<Activation(id, children)>>, os, rs, ps)
  BY <1>1, <1>5, HarmlessOne DEF Activation
<1>6. ASSUME NEW quantity \in Nat, id \in DOMAIN rs
      PROVE  Harmless(<<NextChild(id, quantity)>>, os, rs, ps)
  <2>1. <<quantity>> \in Seq(Nat) /\ <<quantity>> # <<>>
    OBVIOUS
  <2>. QED BY <1>1, <1>6, <2>1, HarmlessOne DEF NextChild
<1>. QED BY <1>2, <1>3, <1>4, <1>5, <1>6

\* The callbacks for the parent and the submission of its next child.
LEMMA FamilyFramesAreHarmless ==
  ASSUME NEW os, NEW rs, NEW ps, NEW f \in FamilyRecord, NEW p \in Nat,
         p \in DOMAIN os, p \in DOMAIN rs
  PROVE  Harmless(FamilyFrames(p, f), os, rs, ps)
<1>. DEFINE told == [i \in DOMAIN f.updates |-> OrderCallback(p, f.updates[i])]
            next == [i \in DOMAIN f.next |-> NextChild(p, f.next[i])]
<1>1. f.updates \in Seq(Statuses) /\ f.next \in Seq(Nat)
  BY DEF FamilyRecord
<1>2. Harmless(told, os, rs, ps)
  <2>1. ASSUME NEW i \in DOMAIN f.updates
        PROVE  /\ OrderCallback(p, f.updates[i]) \in FrameRecord
               /\ OrderCallback(p, f.updates[i]).kind # "adopt"
               /\ Fits(OrderCallback(p, f.updates[i]), os, rs, ps)
    BY <1>1 DEF OrderCallback, Frame, FrameRecord, FrameKinds, Fits
  <2>2. told \in Seq(FrameRecord) /\ DOMAIN told = DOMAIN f.updates
    BY <1>1, <2>1
  <2>. QED BY <2>1, <2>2 DEF Harmless
<1>3. Harmless(next, os, rs, ps)
  <2>1. ASSUME NEW i \in DOMAIN f.next
        PROVE  /\ NextChild(p, f.next[i]) \in FrameRecord
               /\ NextChild(p, f.next[i]).kind # "adopt"
               /\ Fits(NextChild(p, f.next[i]), os, rs, ps)
    BY <1>1 DEF NextChild, Frame, FrameRecord, FrameKinds, Fits
  <2>2. next \in Seq(FrameRecord) /\ DOMAIN next = DOMAIN f.next
    BY <1>1, <2>1
  <2>. QED BY <2>1, <2>2 DEF Harmless
<1>. QED BY <1>2, <1>3, HarmlessConcat DEF FamilyFrames

\* update_order_status(), called or due: the tables stay in agreement, and
\* what it leaves to do fits in them.
LEMMA SetStatusKeepsInv ==
  ASSUME TablesInv, NEW id \in DOMAIN orders, NEW status \in Statuses,
         SetStatus(id, status), UNCHANGED <<nextId, parentOf>>
  PROVE  /\ TablesInv' /\ SameShape
         /\ Harmless(StatusFrames(id, status), orders', routing', parentOf)
<1>. DEFINE f == AfterChildStatus(Family(id), id, status)
            updated == [orders[id] EXCEPT !.status = status]
<1>1. id \in Nat /\ orders[id] \in OrderRecord
  BY DEF TablesInv
<1>2. /\ updated \in OrderRecord /\ updated.parent = orders[id].parent
      /\ updated.isParent = orders[id].isParent
  BY <1>1 DEF OrderRecord
<1>3. id \in DOMAIN parentOf => SameFamily(Family(id), f, {id})
  BY <1>1, FamilyOfChild, ChildStatusKeepsFamily
<1>4. Store(id, updated, f)
  BY DEF SetStatus
<1>. HIDE DEF updated
<1>5. TablesInv' /\ SameShape
  <2>. HIDE DEF f
  <2>. QED BY <1>2, <1>3, <1>4, StoreKeepsTables
<1>6. Harmless(<<OrderCallback(id, status)>>, orders', routing', parentOf)
  BY <1>1, <1>5, FramesThatFit DEF SameShape
<1>7. ASSUME id \in DOMAIN parentOf
      PROVE  Harmless(FamilyFrames(parentOf[id], f), orders', routing', parentOf)
  <2>1. /\ parentOf[id] \in DOMAIN routing' /\ parentOf[id] \in DOMAIN orders'
        /\ parentOf[id] \in Nat
    BY <1>5, <1>7, FamilyOfChild DEF SameShape, TablesInv
  <2>2. f \in FamilyRecord
    BY <1>3, <1>7 DEF SameFamily
  <2>. HIDE DEF f
  <2>. QED BY <2>1, <2>2, FamilyFramesAreHarmless
<1>. HIDE DEF f
<1>8. CASE id \in DOMAIN parentOf
  <2>1. StatusFrames(id, status)
          = <<OrderCallback(id, status)>> \o FamilyFrames(parentOf[id], f)
    BY <1>8 DEF StatusFrames, f
  <2>. QED BY <1>5, <1>6, <1>7, <1>8, <2>1, HarmlessConcat
<1>9. CASE id \notin DOMAIN parentOf
  <2>1. StatusFrames(id, status) = <<OrderCallback(id, status)>>
    BY <1>9 DEF StatusFrames
  <2>. QED BY <1>5, <1>6, <2>1
<1>. QED BY <1>8, <1>9

\* The two ways a step adds harmless frames to a stack.
LEMMA HarmlessFramesKeepInv ==
  ASSUME FramesInv, Grows, NEW t \in Threads, NEW frames,
         Harmless(frames, orders', routing', parentOf),
         Push(t, frames) \/ (stack[t] # <<>> /\ Replace(t, frames))
  PROVE  FramesInv'
<1>1. /\ frames \in Seq(FrameRecord)
      /\ \A i \in DOMAIN frames : Fits(frames[i], orders', routing', parentOf)
      /\ FreshAdoption(frames)
  BY HarmlessIsFresh DEF Harmless
<1>2. CASE Push(t, frames)
  <2>1. stack' = [stack EXCEPT ![t] = frames \o stack[t]] /\ IsRest(stack[t], t, 0)
    BY <1>2, RestOfStack DEF Push
  <2>. QED BY <1>1, <2>1, FramesFitAsTablesGrow, FramesInvStep DEF Grows
<1>3. CASE stack[t] # <<>> /\ Replace(t, frames)
  <2>1. /\ stack' = [stack EXCEPT ![t] = frames \o Tail(stack[t])]
        /\ IsRest(Tail(stack[t]), t, 1)
    BY <1>3, RestOfStack DEF Replace
  <2>. QED BY <1>1, <2>1, FramesFitAsTablesGrow, FramesInvStep DEF Grows
<1>. QED BY <1>2, <1>3

\* The frame a thread continues with.
LEMMA TopFrame ==
  ASSUME FramesInv, NEW t \in Threads, NEW kinds, Todo(t, kinds)
  PROVE  /\ stack[t] # <<>>
         /\ stack[t] \in Seq(FrameRecord)
         /\ 1 \in DOMAIN stack[t] /\ stack[t][1] = Head(stack[t])
         /\ Head(stack[t]) \in FrameRecord
         /\ Head(stack[t]).kind \in kinds
         /\ Fits(Head(stack[t]), orders, routing, parentOf)
<1>1. stack[t] # <<>> /\ stack[t] \in Seq(FrameRecord) /\ Head(stack[t]).kind \in kinds
  BY DEF Todo, FramesInv
<1>2. 1 \in DOMAIN stack[t] /\ stack[t][1] = Head(stack[t])
  BY <1>1
<1>3. Head(stack[t]) \in FrameRecord
  BY <1>1
<1>4. Fits(Head(stack[t]), orders, routing, parentOf)
  BY <1>2 DEF FramesInv
<1>. QED BY <1>1, <1>2, <1>3, <1>4
-----------------------------------------------------------------------------
(* The steps.                                                              *)

\* Both frames of a submission fit once the order is stored.
LEMMA SubmitFramesAreHarmless ==
  ASSUME NEW os, NEW rs, NEW ps, NEW id \in Nat, id \in DOMAIN os
  PROVE  Harmless(SubmitFrames(id), os, rs, ps)
<1>1. /\ Harmless(<<OrderCallback(id, "created")>>, os, rs, ps)
      /\ Harmless(<<SetLater(id, "pending")>>, os, rs, ps)
  BY FramesThatFit DEF Statuses
<1>2. SubmitFrames(id) = <<OrderCallback(id, "created")>> \o <<SetLater(id, "pending")>>
  BY DEF SubmitFrames
<1>. QED BY <1>1, <1>2, HarmlessConcat

\* submit_order() of an order that is not routed: one more entry of orders_.
LEMMA SubmitKeepsInv ==
  ASSUME TablesInv, FramesInv, NEW t \in Threads, NEW quantity \in Quantities,
         Submit(t, quantity)
  PROVE  TablesInv' /\ FramesInv'
<1>1. quantity \in Nat
  BY OrderAssumption
<1>2. /\ nextId' = nextId + 1
      /\ orders' = Put(orders, nextId, NewOrder(quantity, 0, FALSE))
      /\ Push(t, SubmitFrames(nextId))
      /\ UNCHANGED <<routing, parentOf>>
  BY DEF Submit
<1>3. /\ TablesInv' /\ Grows /\ nextId \in DOMAIN orders' /\ nextId \in Nat
  <2>1. /\ TablesInv' /\ DOMAIN orders' = DOMAIN orders \cup {nextId}
        /\ \A id \in DOMAIN orders : orders'[id] = orders[id]
    BY <1>1, <1>2, AddOrderKeepsTables
  <2>. QED BY <1>2, <2>1 DEF Grows, TablesInv
<1>4. Harmless(SubmitFrames(nextId), orders', routing', parentOf)
  BY <1>3, SubmitFramesAreHarmless
<1>. QED BY <1>2, <1>3, <1>4, HarmlessFramesKeepInv

\* submit_order() of a routed order: it gets a routing state with its plan, and
\* no child of it exists yet.
LEMMA SubmitRoutedKeepsInv ==
  ASSUME TablesInv, FramesInv, NEW t \in Threads, NEW plan \in Plans,
         SubmitRouted(t, plan)
  PROVE  TablesInv' /\ FramesInv'
<1>. DEFINE state == [mode |-> plan.mode, aggregation |-> plan.aggregation,
                      activated |-> FALSE, filled |-> 0, hadReject |-> FALSE,
                      pending |-> plan.children, submitted |-> <<>>, terminal |-> {},
                      planned |-> Len(plan.children)]
<1>1. /\ plan.quantity \in Nat /\ plan.mode \in Modes
      /\ plan.aggregation \in Aggregations
      /\ plan.children \in Seq(Nat) /\ plan.children # <<>>
  BY OrderAssumption
<1>2. /\ state \in RoutingRecord /\ state.pending # <<>>
      /\ state.submitted = <<>> /\ state.terminal = {}
  <2>1. Len(plan.children) \in Nat /\ <<>> \in Seq(Nat)
    BY <1>1
  <2>. QED BY <1>1, <2>1 DEF RoutingRecord
<1>3. /\ nextId' = nextId + 1
      /\ orders' = Put(orders, nextId, NewOrder(plan.quantity, 0, TRUE))
      /\ routing' = Put(routing, nextId, state)
      /\ Push(t, SubmitFrames(nextId))
      /\ UNCHANGED parentOf
  BY DEF SubmitRouted
<1>. HIDE DEF state
<1>4. /\ TablesInv' /\ Grows /\ nextId \in DOMAIN orders' /\ nextId \in Nat
  <2>1. /\ TablesInv' /\ DOMAIN orders' = DOMAIN orders \cup {nextId}
        /\ DOMAIN routing' = DOMAIN routing \cup {nextId}
        /\ \A id \in DOMAIN orders : orders'[id] = orders[id]
    BY <1>1, <1>2, <1>3, AddParentKeepsTables
  <2>. QED BY <1>3, <2>1 DEF Grows, TablesInv
<1>5. Harmless(SubmitFrames(nextId), orders', routing', parentOf)
  BY <1>4, SubmitFramesAreHarmless
<1>. QED BY <1>3, <1>4, <1>5, HarmlessFramesKeepInv

\* cancel_order(): a status changes, and the cancels of the children are pushed.
LEMMA CancelOrderKeepsInv ==
  ASSUME TablesInv, FramesInv, NEW t \in Threads, NEW id \in DOMAIN orders,
         CancelOrder(t, id)
  PROVE  TablesInv' /\ FramesInv'
<1>. DEFINE updated == [orders[id] EXCEPT !.status = "cancelled"]
            children == IF id \in DOMAIN routing THEN routing[id].submitted ELSE <<>>
            sets == [i \in DOMAIN children |-> SetLater(children[i], "cancelled")]
            frames == <<OrderCallback(id, "cancelled")>> \o sets
<1>1. id \in Nat /\ orders[id] \in OrderRecord /\ "cancelled" \in Statuses
  BY DEF TablesInv, Statuses
<1>2. /\ updated \in OrderRecord /\ updated.parent = orders[id].parent
      /\ updated.isParent = orders[id].isParent
  BY <1>1 DEF OrderRecord
<1>3. /\ orders' = [orders EXCEPT ![id] = updated]
      /\ Push(t, frames)
      /\ UNCHANGED <<nextId, routing, parentOf>>
  BY DEF CancelOrder
<1>. HIDE DEF updated
<1>4. TablesInv' /\ SameShape
  BY <1>2, <1>3, RewriteKeepsTables
<1>5. Grows /\ id \in DOMAIN orders'
  BY <1>3, <1>4 DEF SameShape, Grows
<1>6. Harmless(<<OrderCallback(id, "cancelled")>>, orders', routing', parentOf)
  BY <1>1, <1>5, FramesThatFit
<1>7. Harmless(sets, orders', routing', parentOf)
  <2>1. children \in Seq(Nat)
    BY DEF TablesInv, RoutingRecord
  <2>2. \A i \in DOMAIN children : children[i] \in DOMAIN orders
    BY DEF TablesInv, TablesAgree, SeqRange
  <2>. HIDE DEF children
  <2>3. ASSUME NEW i \in DOMAIN children
        PROVE  /\ SetLater(children[i], "cancelled") \in FrameRecord
               /\ SetLater(children[i], "cancelled").kind # "adopt"
               /\ Fits(SetLater(children[i], "cancelled"), orders', routing', parentOf)
    <3>1. children[i] \in Nat /\ children[i] \in DOMAIN orders'
      BY <1>5, <2>1, <2>2 DEF Grows
    <3>2. <<>> \in Seq(Nat)
      OBVIOUS
    <3>. QED BY <1>1, <3>1, <3>2 DEF SetLater, Frame, FrameRecord, FrameKinds, Fits
  <2>4. sets \in Seq(FrameRecord) /\ DOMAIN sets = DOMAIN children
    BY <2>1, <2>3
  <2>. QED BY <2>3, <2>4 DEF Harmless
<1>. HIDE DEF sets, children
<1>8. Harmless(frames, orders', routing', parentOf)
  BY <1>6, <1>7, HarmlessConcat
<1>. QED BY <1>3, <1>4, <1>5, <1>8, HarmlessFramesKeepInv

\* modify_order(): a quantity changes.
LEMMA ModifyOrderKeepsInv ==
  ASSUME TablesInv, FramesInv, NEW t \in Threads, NEW id \in DOMAIN orders,
         NEW quantity \in Quantities \cup {0}, ModifyOrder(t, id, quantity)
  PROVE  TablesInv' /\ FramesInv'
<1>. DEFINE updated == [orders[id] EXCEPT !.quantity = quantity]
            status == orders[id].status
            frames == IF quantity > 0 THEN <<OrderCallback(id, status)>> ELSE <<>>
<1>1. /\ id \in Nat /\ orders[id] \in OrderRecord
      /\ status \in Statuses /\ quantity \in Nat
  BY OrderAssumption DEF TablesInv, OrderRecord
<1>2. /\ updated \in OrderRecord /\ updated.parent = orders[id].parent
      /\ updated.isParent = orders[id].isParent
  BY <1>1 DEF OrderRecord
<1>3. /\ orders' = [orders EXCEPT ![id] = updated]
      /\ Push(t, frames)
      /\ UNCHANGED <<nextId, routing, parentOf>>
  BY DEF ModifyOrder
<1>. HIDE DEF updated, status
<1>4. TablesInv' /\ SameShape
  BY <1>2, <1>3, RewriteKeepsTables
<1>5. Grows /\ id \in DOMAIN orders'
  BY <1>3, <1>4 DEF SameShape, Grows
<1>6. Harmless(frames, orders', routing', parentOf)
  BY <1>1, <1>5, FramesThatFit, HarmlessNone
<1>. QED BY <1>3, <1>4, <1>5, <1>6, HarmlessFramesKeepInv

\* process_fill(): the order, its parent and the parent's routing state change
\* in one step; the frames it leaves are callbacks and the next child.
LEMMA ProcessFillKeepsInv ==
  ASSUME TablesInv, FramesInv, NEW t \in Threads, NEW id \in DOMAIN orders,
         NEW lots \in FillSizes, ProcessFill(t, id, lots)
  PROVE  TablesInv' /\ FramesInv'
<1>. DEFINE filled == orders[id].filled + lots
            status == FillStatus(filled, orders[id].quantity)
            updated == [orders[id] EXCEPT !.filled = filled, !.status = status]
            reported == AfterChildFill(Family(id), lots)
            family == IF status = "filled"
                        THEN AfterChildStatus(reported, id, status) ELSE reported
            own == <<FillCallback(id), OrderCallback(id, status)>>
            frames == IF id \in DOMAIN parentOf
                        THEN own \o FamilyFrames(parentOf[id], family) ELSE own
<1>1. /\ id \in Nat /\ orders[id] \in OrderRecord /\ lots \in Nat
      /\ status \in Statuses
  <2>1. status \in Statuses
    BY StatusesOfFills
  <2>. HIDE DEF status
  <2>. QED BY <2>1, OrderAssumption DEF TablesInv
<1>2. filled \in Nat
  BY <1>1 DEF OrderRecord
<1>3. /\ Store(id, updated, family)
      /\ Push(t, frames)
      /\ UNCHANGED <<nextId, parentOf>>
  BY DEF ProcessFill
<1>. HIDE DEF status, filled
<1>4. /\ updated \in OrderRecord /\ updated.parent = orders[id].parent
      /\ updated.isParent = orders[id].isParent
  BY <1>1, <1>2 DEF OrderRecord
<1>5. id \in DOMAIN parentOf => SameFamily(Family(id), family, {id})
  <2>. SUFFICES ASSUME id \in DOMAIN parentOf
                PROVE  SameFamily(Family(id), family, {id})
    OBVIOUS
  <2>1. Family(id) \in FamilyRecord
    BY FamilyOfChild
  <2>2. SameFamily(Family(id), reported, {})
    BY <1>1, <2>1, ChildFillKeepsFamily
  <2>. HIDE DEF reported
  <2>3. reported \in FamilyRecord
    BY <2>2 DEF SameFamily
  <2>4. SameFamily(reported, AfterChildStatus(reported, id, status), {id})
    BY <1>1, <2>3, ChildStatusKeepsFamily
  <2>. QED BY <2>2, <2>4 DEF SameFamily
<1>. HIDE DEF updated, family
<1>6. TablesInv' /\ SameShape
  BY <1>3, <1>4, <1>5, StoreKeepsTables
<1>7. Grows /\ id \in DOMAIN orders'
  BY <1>3, <1>6 DEF SameShape, Grows
<1>8. Harmless(own, orders', routing', parentOf)
  <2>1. own = <<FillCallback(id)>> \o <<OrderCallback(id, status)>>
    OBVIOUS
  <2>2. /\ Harmless(<<FillCallback(id)>>, orders', routing', parentOf)
        /\ Harmless(<<OrderCallback(id, status)>>, orders', routing', parentOf)
    BY <1>1, <1>7, FramesThatFit
  <2>. QED BY <2>1, <2>2, HarmlessConcat
<1>9. ASSUME id \in DOMAIN parentOf
      PROVE  Harmless(FamilyFrames(parentOf[id], family), orders', routing', parentOf)
  <2>1. /\ parentOf[id] \in DOMAIN routing' /\ parentOf[id] \in DOMAIN orders'
        /\ parentOf[id] \in Nat
    BY <1>6, <1>9, FamilyOfChild DEF SameShape, TablesInv
  <2>. QED BY <1>5, <1>9, <2>1, FamilyFramesAreHarmless DEF SameFamily
<1>. HIDE DEF own
<1>10. Harmless(frames, orders', routing', parentOf)
  BY <1>8, <1>9, HarmlessConcat
<1>. QED BY <1>3, <1>6, <1>7, <1>10, HarmlessFramesKeepInv

\* update_order_status(), called by a caller.
LEMMA UpdateOrderStatusKeepsInv ==
  ASSUME TablesInv, FramesInv, NEW t \in Threads, NEW id \in DOMAIN orders,
         NEW status \in ReportedStatuses, UpdateOrderStatus(t, id, status)
  PROVE  TablesInv' /\ FramesInv'
<1>1. status \in Statuses
  BY OrderAssumption
<1>2. /\ SetStatus(id, status) /\ Push(t, StatusFrames(id, status))
      /\ UNCHANGED <<nextId, parentOf>>
  BY DEF UpdateOrderStatus
<1>3. /\ TablesInv' /\ SameShape
      /\ Harmless(StatusFrames(id, status), orders', routing', parentOf)
  BY <1>1, <1>2, SetStatusKeepsInv
<1>4. Grows
  BY <1>2, <1>3 DEF SameShape, Grows
<1>. QED BY <1>2, <1>3, <1>4, HarmlessFramesKeepInv

\* activate_routed_order(): children move from the plan to the loop that sends
\* them, and there is at least one.
LEMMA ActivateRoutedOrderKeepsInv ==
  ASSUME TablesInv, FramesInv, NEW t \in Threads, NEW id \in DOMAIN routing,
         ActivateRoutedOrder(t, id)
  PROVE  TablesInv' /\ FramesInv'
<1>. DEFINE state == routing[id]
            sent == IF state.mode = "parallel" THEN Len(state.pending)
                                               ELSE Lesser(1, Len(state.pending))
            children == SubSeq(state.pending, 1, sent)
            left == SubSeq(state.pending, sent + 1, Len(state.pending))
            activated == [[state EXCEPT !.activated = TRUE] EXCEPT !.pending = left]
<1>1. /\ ~state.activated
      /\ routing' = [routing EXCEPT ![id].activated = TRUE, ![id].pending = left]
      /\ Push(t, <<Activation(id, children)>>)
      /\ UNCHANGED <<nextId, orders, parentOf>>
  BY DEF ActivateRoutedOrder
<1>2. id \in Nat /\ id \in DOMAIN orders /\ state \in RoutingRecord
  BY DEF TablesInv
<1>3. state.pending \in Seq(Nat) /\ state.pending # <<>>
  BY <1>1, <1>2 DEF TablesInv, ParentsHavePlans, RoutingRecord
<1>4. sent \in 1..Len(state.pending)
  BY <1>3 DEF Lesser
<1>. HIDE DEF sent
<1>5. children \in Seq(Nat) \ {<<>>} /\ left \in Seq(Nat)
  <2>1. Len(children) = sent
    BY <1>3, <1>4
  <2>. QED BY <1>3, <1>4, <2>1, SMTT(30)
<1>6. routing' = [routing EXCEPT ![id] = activated]
  BY <1>1, <1>2
<1>. HIDE DEF left, children
<1>7. /\ activated \in RoutingRecord /\ activated.activated
      /\ activated.submitted = state.submitted /\ activated.terminal = state.terminal
  BY <1>2, <1>5 DEF RoutingRecord
<1>. HIDE DEF activated
<1>8. TablesInv' /\ Grows
  <2>1. /\ DOMAIN routing' = DOMAIN routing /\ routing' \in [DOMAIN routing' -> RoutingRecord]
        /\ \A p \in DOMAIN routing :
             /\ routing'[p].submitted = routing[p].submitted
             /\ routing'[p].terminal = routing[p].terminal
             /\ routing'[p].activated \/ routing'[p] = routing[p]
    BY <1>6, <1>7 DEF TablesInv
  <2>2. TablesAgree' /\ ChildrenAreNotRouted' /\ ParentsHavePlans' /\ ChildrenKnowParents'
    BY <1>1, <2>1 DEF TablesInv, TablesAgree, ChildrenAreNotRouted, ParentsHavePlans,
         ChildrenKnowParents, SeqRange
  <2>. QED BY <1>1, <2>1, <2>2 DEF TablesInv, Grows
<1>9. Harmless(<<Activation(id, children)>>, orders', routing', parentOf)
  <2>1. id \in DOMAIN orders' /\ id \in DOMAIN routing' /\ "none" \in Statuses \cup {"none"}
    BY <1>2, <1>8 DEF Grows
  <2>2. "created" \in Statuses
    BY DEF Statuses
  <2>. QED BY <1>2, <1>5, <2>1, <2>2, FramesThatFit
<1>. QED BY <1>1, <1>8, <1>9, HarmlessFramesKeepInv

\* The end of a callback.
LEMMA ReturnKeepsInv ==
  ASSUME TablesInv, FramesInv, NEW t \in Threads, Return(t)
  PROVE  TablesInv' /\ FramesInv'
<1>1. /\ stack[t] # <<>> /\ Replace(t, <<>>)
      /\ UNCHANGED <<nextId, orders, routing, parentOf>>
  BY DEF Return, Todo
<1>2. TablesInv' /\ Grows
  BY <1>1 DEF TablesInv, TablesAgree, ChildrenAreNotRouted, ParentsHavePlans,
       ChildrenKnowParents, SeqRange, Grows
<1>. QED BY <1>1, <1>2, HarmlessNone, HarmlessFramesKeepInv

\* update_order_status(), called by the order manager itself.
LEMMA StepSetKeepsInv ==
  ASSUME TablesInv, FramesInv, NEW t \in Threads, StepSet(t)
  PROVE  TablesInv' /\ FramesInv'
<1>. DEFINE id == Head(stack[t]).order
            status == Head(stack[t]).status
<1>1. /\ Todo(t, {"set"}) /\ SetStatus(id, status) /\ Replace(t, StatusFrames(id, status))
      /\ UNCHANGED <<nextId, parentOf>>
  BY DEF StepSet
<1>2. stack[t] # <<>> /\ id \in DOMAIN orders /\ status \in Statuses
  BY <1>1, TopFrame DEF Fits
<1>. HIDE DEF id, status
<1>3. /\ TablesInv' /\ SameShape
      /\ Harmless(StatusFrames(id, status), orders', routing', parentOf)
  BY <1>1, <1>2, SetStatusKeepsInv
<1>4. Grows
  BY <1>1, <1>3 DEF SameShape, Grows
<1>. QED BY <1>1, <1>2, <1>3, <1>4, HarmlessFramesKeepInv

\* A child that is refused: the rest of its loop is given up.
LEMMA LaunchFailsKeepsInv ==
  ASSUME TablesInv, FramesInv, NEW t \in Threads, LaunchFails(t)
  PROVE  TablesInv' /\ FramesInv'
<1>. DEFINE id == Head(stack[t]).order
            frames == IF Head(stack[t]).kind = "activate"
                        THEN <<SetLater(id, "rejected")>> ELSE <<>>
<1>1. /\ Todo(t, {"activate", "next"}) /\ Replace(t, frames)
      /\ UNCHANGED <<nextId, orders, routing, parentOf>>
  BY DEF LaunchFails
<1>2. stack[t] # <<>> /\ id \in DOMAIN orders /\ id \in Nat
  BY <1>1, TopFrame DEF Fits, TablesInv
<1>3. TablesInv' /\ Grows
  BY <1>1 DEF TablesInv, TablesAgree, ChildrenAreNotRouted, ParentsHavePlans,
       ChildrenKnowParents, SeqRange, Grows
<1>4. Harmless(frames, orders', routing', parentOf)
  <2>1. "rejected" \in Statuses /\ id \in DOMAIN orders'
    BY <1>1, <1>2 DEF Statuses
  <2>2. Harmless(<<SetLater(id, "rejected")>>, orders', routing', parentOf)
    BY <1>2, <2>1, FramesThatFit
  <2>. QED BY <2>2, HarmlessNone
<1>. HIDE DEF frames
<1>. QED BY <1>1, <1>2, <1>3, <1>4, HarmlessFramesKeepInv

\* The one step with an adoption among its frames: of the order it creates.
LEMMA LaunchChildKeepsInv ==
  ASSUME TablesInv, FramesInv, NEW t \in Threads, LaunchChild(t)
  PROVE  TablesInv' /\ FramesInv'
<1>. DEFINE top == Head(stack[t])
            quantity == Head(top.children)
            submit == SubmitFrames(nextId)
            adopt == AdoptLater(nextId)
            loop == Remaining(top)
            frames == submit \o <<adopt>> \o loop
<1>1. /\ Todo(t, {"activate", "next"}) /\ Replace(t, frames)
      /\ nextId' = nextId + 1
      /\ orders' = Put(orders, nextId, NewOrder(quantity, top.order, FALSE))
      /\ UNCHANGED <<routing, parentOf>>
  BY DEF LaunchChild
<1>2. /\ stack[t] # <<>> /\ top.order \in DOMAIN orders /\ top.order \in DOMAIN routing
      /\ top.children \in Seq(Nat) /\ top.children # <<>> /\ top.order \in Nat
  <2>1. /\ stack[t] # <<>> /\ top \in FrameRecord /\ top.kind \in {"activate", "next"}
        /\ Fits(top, orders, routing, parentOf)
    BY <1>1, TopFrame
  <2>. QED BY <2>1 DEF Fits, FrameRecord
<1>3. quantity \in Nat
  BY <1>2
<1>. HIDE DEF quantity
<1>4. /\ TablesInv' /\ DOMAIN orders' = DOMAIN orders \cup {nextId}
      /\ nextId \notin DOMAIN orders /\ orders'[nextId].parent = top.order
      /\ \A id \in DOMAIN orders : orders'[id] = orders[id]
  BY <1>1, <1>2, <1>3, AddOrderKeepsTables
<1>5. Grows /\ nextId \in Nat /\ nextId \notin DOMAIN parentOf
  BY <1>1, <1>4 DEF Grows, TablesInv
<1>6. Harmless(submit, orders', routing', parentOf)
  BY <1>4, <1>5, SubmitFramesAreHarmless
<1>7. Harmless(loop, orders', routing', parentOf)
  <2>1. top.order \in DOMAIN orders' /\ top.order \in DOMAIN routing'
    BY <1>1, <1>2, <1>4
  <2>2. CASE Len(top.children) > 1
    <3>1. Tail(top.children) \in Seq(Nat) \ {<<>>}
      <4>1. /\ Tail(top.children) \in Seq(Nat)
            /\ Len(Tail(top.children)) = Len(top.children) - 1
        BY <1>2
      <4>. DEFINE tail == Tail(top.children)
      <4>2. tail \in Seq(Nat) /\ Len(tail) > 0
        BY <1>2, <2>2, <4>1
      <4>. HIDE DEF tail
      <4>3. tail # <<>>
        BY <4>2
      <4>. QED BY <4>2, <4>3 DEF tail
    <3>2. "created" \in Statuses
      BY DEF Statuses
    <3>. QED BY <1>2, <2>1, <3>1, <3>2, FramesThatFit, HarmlessNone DEF Remaining
  <2>3. CASE ~(Len(top.children) > 1)
    BY <2>3, HarmlessNone DEF Remaining
  <2>. QED BY <2>2, <2>3
<1>8. /\ adopt \in FrameRecord /\ adopt.order = nextId
      /\ Fits(adopt, orders', routing', parentOf)
  <2>1. /\ adopt.kind = "adopt" /\ adopt.order = nextId
        /\ adopt.status = "none" /\ adopt.children = <<>>
    BY DEF AdoptLater, Frame
  <2>2. <<>> \in Seq(Nat)
    OBVIOUS
  <2>3. adopt \in FrameRecord
    BY <1>5, <2>2 DEF AdoptLater, Frame, FrameRecord, FrameKinds
  <2>. HIDE DEF adopt, top
  <2>. QED BY <1>1, <1>2, <1>4, <1>5, <2>1, <2>3 DEF Fits
<1>. HIDE DEF submit, adopt, loop
<1>9. submit \in Seq(FrameRecord) /\ loop \in Seq(FrameRecord) /\ <<adopt>> \in Seq(FrameRecord)
  BY <1>6, <1>7, <1>8 DEF Harmless
<1>10. frames \in Seq(FrameRecord)
  BY <1>9
<1>11. \A i \in DOMAIN frames :
         \/ i \in DOMAIN submit /\ frames[i] = submit[i]
         \/ i = Len(submit) + 1 /\ frames[i] = adopt
         \/ i - Len(submit) - 1 \in DOMAIN loop /\ frames[i] = loop[i - Len(submit) - 1]
  BY <1>9, <1>10
<1>. HIDE DEF frames
<1>12. \A i \in DOMAIN frames :
         /\ Fits(frames[i], orders', routing', parentOf)
         /\ frames[i].kind = "adopt" => i = Len(submit) + 1 /\ frames[i] = adopt
  BY <1>6, <1>7, <1>8, <1>11 DEF Harmless
<1>13. FreshAdoption(frames)
  <2>1. \A u \in Threads : \A j \in DOMAIN stack[u] : stack[u][j].order # nextId
    BY <1>4 DEF FramesInv, Fits
  <2>. QED BY <1>8, <1>12, <2>1 DEF FreshAdoption
<1>14. /\ stack' = [stack EXCEPT ![t] = frames \o Tail(stack[t])]
       /\ IsRest(Tail(stack[t]), t, 1)
  BY <1>1, <1>2, RestOfStack DEF Replace
<1>. QED BY <1>4, <1>5, <1>10, <1>12, <1>13, <1>14, FramesFitAsTablesGrow,
       FramesInvStep DEF Grows

\* The one step that changes parent_by_child_: no other frame adopts the child.
LEMMA AdoptChildKeepsInv ==
  ASSUME TablesInv, FramesInv, NEW t \in Threads, AdoptChild(t)
  PROVE  TablesInv' /\ FramesInv'
<1>. DEFINE child == Head(stack[t]).order
            parent == orders[child].parent
            adopted == [routing[parent] EXCEPT !.submitted = Append(@, child)]
<1>1. /\ Todo(t, {"adopt"}) /\ Replace(t, <<>>)
      /\ parentOf' = Put(parentOf, child, parent)
      /\ routing' = [routing EXCEPT ![parent].submitted = Append(@, child)]
      /\ UNCHANGED <<nextId, orders>>
  BY DEF AdoptChild
<1>2. /\ stack[t] # <<>> /\ 1 \in DOMAIN stack[t]
      /\ stack[t][1].kind = "adopt" /\ stack[t][1].order = child
      /\ child \in DOMAIN orders /\ child \notin DOMAIN parentOf
      /\ parent \in DOMAIN routing
  <2>1. /\ stack[t] # <<>> /\ 1 \in DOMAIN stack[t] /\ stack[t][1] = Head(stack[t])
        /\ Head(stack[t]).kind = "adopt"
        /\ Fits(Head(stack[t]), orders, routing, parentOf)
    <3>1. Head(stack[t]).kind \in {"adopt"}
      BY <1>1, TopFrame
    <3>. QED BY <1>1, <3>1, TopFrame, ZenonT(40)
  <2>. QED BY <2>1, SMTT(30) DEF Fits
<1>3. child \in Nat /\ parent \in Nat /\ routing[parent] \in RoutingRecord
  BY <1>2 DEF TablesInv
<1>. HIDE DEF child, parent
<1>4. routing' = [routing EXCEPT ![parent] = adopted]
  BY <1>1, <1>2
<1>5. /\ adopted \in RoutingRecord
      /\ adopted.submitted = Append(routing[parent].submitted, child)
      /\ adopted.terminal = routing[parent].terminal
      /\ adopted.activated = routing[parent].activated
      /\ adopted.pending = routing[parent].pending
  <2>1. Append(routing[parent].submitted, child) \in Seq(Nat)
    BY <1>3 DEF RoutingRecord
  <2>. QED BY <1>3, <2>1 DEF RoutingRecord
<1>. HIDE DEF adopted
<1>6. parentOf' = [x \in DOMAIN parentOf \cup {child} |-> IF x = child THEN parent ELSE parentOf[x]]
  BY <1>1 DEF Put
<1>7. /\ DOMAIN parentOf' = DOMAIN parentOf \cup {child}
      /\ parentOf'[child] = parent
      /\ \A c \in DOMAIN parentOf : parentOf'[c] = parentOf[c]
  BY <1>2, <1>6
<1>8. /\ DOMAIN routing' = DOMAIN routing
      /\ routing' \in [DOMAIN routing' -> RoutingRecord]
      /\ routing'[parent] = adopted
      /\ \A p \in DOMAIN routing : p # parent => routing'[p] = routing[p]
  BY <1>2, <1>4, <1>5 DEF TablesInv
<1>9. /\ parentOf' \in [DOMAIN parentOf' -> DOMAIN routing']
      /\ DOMAIN parentOf' \subseteq DOMAIN orders
  BY <1>2, <1>6, <1>7, <1>8 DEF TablesInv
<1>10. TablesAgree'
  <2>1. ASSUME NEW p \in DOMAIN routing, p # parent
        PROVE  /\ \A i, j \in DOMAIN routing'[p].submitted :
                    routing'[p].submitted[i] = routing'[p].submitted[j] => i = j
               /\ SeqRange(routing'[p].submitted)
                    = {c \in DOMAIN parentOf' : parentOf'[c] = p}
               /\ routing'[p].terminal \subseteq SeqRange(routing'[p].submitted)
    BY <1>7, <1>8, <2>1 DEF TablesInv, TablesAgree, SeqRange
  <2>. DEFINE old == routing[parent].submitted
              new == routing'[parent].submitted
  <2>2. /\ old \in Seq(Nat) /\ new = Append(old, child)
        /\ SeqRange(old) = {c \in DOMAIN parentOf : parentOf[c] = parent}
        /\ \A i, j \in DOMAIN old : old[i] = old[j] => i = j
        /\ routing'[parent].terminal \subseteq SeqRange(old)
    BY <1>2, <1>3, <1>5, <1>8 DEF TablesInv, TablesAgree, RoutingRecord
  <2>. HIDE DEF old, new
  <2>3. /\ DOMAIN new = DOMAIN old \cup {Len(old) + 1}
        /\ Len(old) + 1 \notin DOMAIN old
        /\ new[Len(old) + 1] = child
        /\ \A i \in DOMAIN old : new[i] = old[i]
    BY <1>3, <2>2
  <2>4. SeqRange(new) = SeqRange(old) \cup {child} /\ child \notin SeqRange(old)
    BY <1>2, <2>2, <2>3 DEF SeqRange
  <2>5. \A i, j \in DOMAIN new : new[i] = new[j] => i = j
    BY <2>2, <2>3, <2>4 DEF SeqRange
  <2>6. SeqRange(new) = {c \in DOMAIN parentOf' : parentOf'[c] = parent}
    BY <1>2, <1>7, <2>2, <2>4
  <2>7. routing'[parent].terminal \subseteq SeqRange(new)
    BY <2>2, <2>4
  <2>8. /\ \A i, j \in DOMAIN routing'[parent].submitted :
             routing'[parent].submitted[i] = routing'[parent].submitted[j] => i = j
        /\ SeqRange(routing'[parent].submitted)
             = {c \in DOMAIN parentOf' : parentOf'[c] = parent}
        /\ routing'[parent].terminal \subseteq SeqRange(routing'[parent].submitted)
    BY <2>5, <2>6, <2>7 DEF new
  <2>9. ASSUME NEW p \in DOMAIN routing'
        PROVE  /\ \A i, j \in DOMAIN routing'[p].submitted :
                    routing'[p].submitted[i] = routing'[p].submitted[j] => i = j
               /\ SeqRange(routing'[p].submitted)
                    = {c \in DOMAIN parentOf' : parentOf'[c] = p}
               /\ routing'[p].terminal \subseteq SeqRange(routing'[p].submitted)
    <3>1. CASE p = parent
      BY <2>8, <3>1
    <3>2. CASE p # parent
      BY <1>8, <2>1, <3>2
    <3>. QED BY <3>1, <3>2
  <2>. QED BY <2>9, Zenon DEF TablesAgree, SeqRange
<1>11. ChildrenAreNotRouted' /\ ParentsHavePlans' /\ ChildrenKnowParents'
  BY <1>1, <1>5, <1>7, <1>8 DEF TablesInv, ChildrenAreNotRouted, ParentsHavePlans,
       ChildrenKnowParents, parent
<1>12. TablesInv'
  BY <1>1, <1>8, <1>9, <1>10, <1>11 DEF TablesInv
<1>13. ASSUME NEW u \in Threads, NEW j \in DOMAIN stack[u], u # t \/ j > 1
       PROVE  Fits(stack[u][j], orders', routing', parentOf')
  <2>1. Fits(stack[u][j], orders, routing, parentOf) /\ j \in Nat
    BY DEF FramesInv
  <2>2. stack[u][j].kind = "adopt" => stack[u][j].order # child
    <3>1. IsAdoption(t, 1)
      BY <1>2 DEF IsAdoption
    <3>2. stack[u][j].kind = "adopt" => IsAdoption(u, j)
      BY DEF IsAdoption
    <3>. QED BY <1>2, <1>13, <2>1, <3>1, <3>2 DEF FramesInv, AdoptedOnce
  <2>. QED BY <1>1, <1>7, <1>8, <2>1, <2>2 DEF Fits
<1>14. /\ stack' = [stack EXCEPT ![t] = <<>> \o Tail(stack[t])]
       /\ IsRest(Tail(stack[t]), t, 1)
  BY <1>1, <1>2, RestOfStack DEF Replace
<1>15. /\ <<>> \in Seq(FrameRecord) /\ FreshAdoption(<<>>)
       /\ \A i \in DOMAIN <<>> : Fits(<<>>[i], orders', routing', parentOf')
  BY DEF FreshAdoption
<1>. QED BY <1>12, <1>13, <1>14, <1>15, FramesInvStep

\* The router changes only while no call is under way.
LEMMA ConfigureKeepsInv ==
  ASSUME TablesInv, FramesInv, Configure
  PROVE  TablesInv' /\ FramesInv'
<1>1. /\ \A t \in Threads : stack[t] = <<>>
      /\ UNCHANGED <<nextId, orders, stack>>
  BY DEF Configure, SetRouter, ClearRouter
<1>2. FramesInv'
  BY <1>1 DEF FramesInv, AdoptedOnce, IsAdoption
<1>3. CASE SetRouter
  BY <1>2, <1>3 DEF SetRouter, TablesInv, TablesAgree, ChildrenAreNotRouted,
       ParentsHavePlans, ChildrenKnowParents, SeqRange
<1>4. CASE ClearRouter
  <2>1. DOMAIN routing' = {} /\ DOMAIN parentOf' = {}
    BY <1>4 DEF ClearRouter, EmptyMap
  <2>2. routing' \in [{} -> RoutingRecord] /\ parentOf' \in [{} -> {}]
    BY <1>4 DEF ClearRouter, EmptyMap
  <2>3. TablesAgree' /\ ChildrenAreNotRouted' /\ ParentsHavePlans' /\ ChildrenKnowParents'
    BY <1>1, <2>1 DEF TablesInv, TablesAgree, ChildrenAreNotRouted, ParentsHavePlans,
         ChildrenKnowParents
  <2>. QED BY <1>1, <1>2, <2>1, <2>2, <2>3 DEF TablesInv
<1>. QED BY <1>3, <1>4 DEF Configure

\* The empty tables satisfy the invariant.
LEMMA InitEstablishesInv == Init => RoutingInv
<1>. SUFFICES ASSUME Init PROVE RoutingInv
  OBVIOUS
<1>1. /\ nextId = 1 /\ orders = EmptyMap /\ routing = EmptyMap /\ parentOf = EmptyMap
      /\ stack = [t \in Threads |-> <<>>] /\ router = FALSE /\ calls = 0
  BY DEF Init
<1>2. DOMAIN orders = {} /\ DOMAIN routing = {} /\ DOMAIN parentOf = {} /\ 1..(nextId - 1) = {}
  BY <1>1 DEF EmptyMap
<1>3. /\ orders \in [{} -> OrderRecord] /\ routing \in [{} -> RoutingRecord]
      /\ parentOf \in [{} -> {}]
  BY <1>1 DEF EmptyMap
<1>4. TablesInv
  BY <1>1, <1>2, <1>3 DEF TablesInv, TablesAgree, ChildrenAreNotRouted,
       ParentsHavePlans, ChildrenKnowParents
<1>5. FramesInv
  <2>1. <<>> \in Seq(FrameRecord)
    OBVIOUS
  <2>. QED BY <1>1, <2>1 DEF FramesInv, AdoptedOnce, IsAdoption
<1>6. router \in BOOLEAN /\ calls \in 0..MaxCalls
  <2>1. router \in BOOLEAN
    BY <1>1, Zenon
  <2>2. MaxCalls \in Nat
    BY OrderAssumption, Zenon
  <2>3. calls \in 0..MaxCalls
    BY <1>1, <2>2
  <2>. QED BY <2>1, <2>3
<1>. QED BY <1>4, <1>5, <1>6, RoutingInvParts, Zenon

\* What no call and no step touches, and how calls are counted.
LEMMA CallsAreCounted ==
  ASSUME router \in BOOLEAN, calls \in 0..MaxCalls, [Next]_vars
  PROVE  router' \in BOOLEAN /\ calls' \in 0..MaxCalls
<1>1. ASSUME NEW t \in Threads, CallBy(t)
      PROVE  router' = router /\ calls < MaxCalls /\ calls' = calls + 1
  <2>. USE DEF MayCall, Called
  <2>1. ASSUME NEW quantity \in Quantities, Submit(t, quantity)
        PROVE  router' = router /\ calls < MaxCalls /\ calls' = calls + 1
    BY <2>1 DEF Submit, MaySubmit
  <2>2. ASSUME NEW plan \in Plans, SubmitRouted(t, plan)
        PROVE  router' = router /\ calls < MaxCalls /\ calls' = calls + 1
    BY <2>2 DEF SubmitRouted, MaySubmit
  <2>3. ASSUME NEW id \in DOMAIN orders, NEW quantity, NEW lots, NEW status,
               \/ CancelOrder(t, id) \/ ModifyOrder(t, id, quantity)
               \/ ProcessFill(t, id, lots) \/ UpdateOrderStatus(t, id, status)
        PROVE  router' = router /\ calls < MaxCalls /\ calls' = calls + 1
    BY <2>3 DEF CancelOrder, ModifyOrder, ProcessFill, UpdateOrderStatus
  <2>4. ASSUME NEW id \in DOMAIN routing, ActivateRoutedOrder(t, id)
        PROVE  router' = router /\ calls < MaxCalls /\ calls' = calls + 1
    BY <2>4, SMTT(30) DEF ActivateRoutedOrder
  <2>. QED BY <1>1, <2>1, <2>2, <2>3, <2>4 DEF CallBy
<1>2. ASSUME NEW t \in Threads, Continue(t)
      PROVE  router' = router /\ calls' = calls
  BY <1>2 DEF Continue, Return, StepSet, LaunchChild, LaunchFails, AdoptChild
<1>3. ASSUME Configure
      PROVE  router' \in BOOLEAN /\ calls' = calls
  BY <1>3 DEF Configure, SetRouter, ClearRouter
<1>. QED BY <1>1, <1>2, <1>3, OrderAssumption DEF Next, vars

\* The invariant is inductive: one case for each operation and each frame.
LEMMA NextPreservesInv == RoutingInv /\ [Next]_vars => RoutingInv'
<1>. SUFFICES ASSUME RoutingInv, [Next]_vars PROVE RoutingInv'
  OBVIOUS
<1>1. TablesInv /\ FramesInv /\ router \in BOOLEAN /\ calls \in 0..MaxCalls
  BY RoutingInvParts, Zenon
<1>2. router' \in BOOLEAN /\ calls' \in 0..MaxCalls
  BY <1>1, CallsAreCounted
<1>3. ASSUME Configure
      PROVE  TablesInv' /\ FramesInv'
  BY <1>1, <1>3, ConfigureKeepsInv
<1>4. ASSUME NEW t \in Threads, CallBy(t)
      PROVE  TablesInv' /\ FramesInv'
  <2>1. ASSUME NEW quantity \in Quantities, Submit(t, quantity)
        PROVE  TablesInv' /\ FramesInv'
    BY <1>1, <2>1, SubmitKeepsInv
  <2>2. ASSUME NEW plan \in Plans, SubmitRouted(t, plan)
        PROVE  TablesInv' /\ FramesInv'
    BY <1>1, <2>2, SubmitRoutedKeepsInv
  <2>3. ASSUME NEW id \in DOMAIN orders, CancelOrder(t, id)
        PROVE  TablesInv' /\ FramesInv'
    BY <1>1, <2>3, CancelOrderKeepsInv
  <2>4. ASSUME NEW id \in DOMAIN orders, NEW quantity \in Quantities \cup {0},
               ModifyOrder(t, id, quantity)
        PROVE  TablesInv' /\ FramesInv'
    BY <1>1, <2>4, ModifyOrderKeepsInv
  <2>5. ASSUME NEW id \in DOMAIN orders, NEW lots \in FillSizes, ProcessFill(t, id, lots)
        PROVE  TablesInv' /\ FramesInv'
    BY <1>1, <2>5, ProcessFillKeepsInv
  <2>6. ASSUME NEW id \in DOMAIN orders, NEW status \in ReportedStatuses,
               UpdateOrderStatus(t, id, status)
        PROVE  TablesInv' /\ FramesInv'
    BY <1>1, <2>6, UpdateOrderStatusKeepsInv
  <2>7. ASSUME NEW id \in DOMAIN routing, ActivateRoutedOrder(t, id)
        PROVE  TablesInv' /\ FramesInv'
    BY <1>1, <2>7, ActivateRoutedOrderKeepsInv
  <2>. QED BY <1>4, <2>1, <2>2, <2>3, <2>4, <2>5, <2>6, <2>7 DEF CallBy
<1>5. ASSUME NEW t \in Threads, Continue(t)
      PROVE  TablesInv' /\ FramesInv'
  <2>1. CASE Return(t)
    BY <1>1, <2>1, ReturnKeepsInv
  <2>2. CASE StepSet(t)
    BY <1>1, <2>2, StepSetKeepsInv
  <2>3. CASE LaunchChild(t)
    BY <1>1, <2>3, LaunchChildKeepsInv
  <2>4. CASE LaunchFails(t)
    BY <1>1, <2>4, LaunchFailsKeepsInv
  <2>5. CASE AdoptChild(t)
    BY <1>1, <2>5, AdoptChildKeepsInv
  <2>. QED BY <1>5, <2>1, <2>2, <2>3, <2>4, <2>5 DEF Continue
<1>6. ASSUME UNCHANGED vars
      PROVE  TablesInv' /\ FramesInv'
  BY <1>1, <1>6 DEF vars, TablesInv, FramesInv, TablesAgree, ChildrenAreNotRouted,
       ParentsHavePlans, ChildrenKnowParents, SeqRange, AdoptedOnce, IsAdoption
<1>7. TablesInv' /\ FramesInv'
  BY <1>3, <1>4, <1>5, <1>6 DEF Next
<1>8. RoutingInv' <=> TablesInv' /\ FramesInv' /\ (router \in BOOLEAN)'
                        /\ (calls \in 0..MaxCalls)'
  BY RoutingInvParts, PTL
<1>. QED BY <1>2, <1>7, <1>8, Zenon
-----------------------------------------------------------------------------
(* The theorems.                                                           *)

\* The invariant holds of every behaviour of the order manager.
THEOREM RoutingInvariant == Spec => []RoutingInv
  BY InitEstablishesInv, NextPreservesInv, PTL DEF Spec

\* Orders, routing states and unfinished calls keep their types; every
\* unfinished call is about orders that exist.
THEOREM TypeCorrect == Spec => []TypeOK
<1>1. RoutingInv => TypeOK
  BY DEF RoutingInv
<1>. QED BY <1>1, RoutingInvariant, PTL

\* submitted_children and parent_by_child_ tell the same story, and
\* terminal_children never counts a child that is not in them.
THEOREM RoutingTablesAgree == Spec => []TablesAgree
<1>1. RoutingInv => TablesAgree
  BY DEF RoutingInv
<1>. QED BY <1>1, RoutingInvariant, PTL

\* No child is itself a routed parent.
THEOREM RoutingHasTwoLevels == Spec => []ChildrenAreNotRouted
<1>1. RoutingInv => ChildrenAreNotRouted
  BY DEF RoutingInv
<1>. QED BY <1>1, RoutingInvariant, PTL

\* The tables fit together at every moment.
THEOREM RoutingConsistency == Spec => []RoutingIsConsistent
<1>1. RoutingInv => RoutingIsConsistent
  BY DEF RoutingInv, RoutingIsConsistent
<1>. QED BY <1>1, RoutingInvariant, PTL
-----------------------------------------------------------------------------
(* Accounts: what a report does to the counts of a family.                 *)

\* What reports of `lots` do to the counts of a family.
Accounts(f, g, lots) ==
  /\ g.state.filled = f.state.filled + lots
  /\ g.state.aggregation = f.state.aggregation
  /\ g.state.planned = f.state.planned
  /\ g.parent.quantity = f.parent.quantity
  /\ f.parent.filled <= f.state.filled => g.parent.filled <= g.state.filled
  /\ f.state.aggregation = "none" => g.parent.filled = f.parent.filled
  /\ f.parent.filled <= f.state.filled /\ g.parent.status = "filled" =>
       f.parent.status = "filled" \/ g.state.filled >= g.parent.quantity
  /\ g.next = f.next \/ Len(g.next) = 1
  /\ Len(g.next) + Len(g.state.pending) <= Len(f.next) + Len(f.state.pending)

\* Two reports one after the other.
LEMMA AccountsCompose ==
  ASSUME NEW f \in FamilyRecord, NEW g \in FamilyRecord, NEW h \in FamilyRecord,
         NEW lots \in Nat, Accounts(f, g, lots), Accounts(g, h, 0)
  PROVE  Accounts(f, h, lots)
<1>1. /\ f.state.filled \in Nat /\ g.state.filled \in Nat /\ h.state.filled \in Nat
      /\ f.parent.filled \in Nat /\ g.parent.filled \in Nat /\ h.parent.filled \in Nat
      /\ f.parent.quantity \in Nat /\ g.parent.quantity \in Nat /\ h.parent.quantity \in Nat
  BY DEF FamilyRecord, RoutingRecord, OrderRecord
<1>2. /\ Len(f.next) \in Nat /\ Len(g.next) \in Nat /\ Len(h.next) \in Nat
      /\ Len(f.state.pending) \in Nat /\ Len(g.state.pending) \in Nat
      /\ Len(h.state.pending) \in Nat
  BY FamilyLengths
<1>3. /\ h.state.filled = g.state.filled /\ h.state.filled = f.state.filled + lots
      /\ h.parent.quantity = g.parent.quantity /\ g.parent.quantity = f.parent.quantity
  BY <1>1 DEF Accounts
<1>4. /\ h.state.aggregation = f.state.aggregation /\ h.state.planned = f.state.planned
      /\ f.state.aggregation = "none" => h.parent.filled = f.parent.filled
      /\ f.parent.filled <= f.state.filled => h.parent.filled <= h.state.filled
  BY DEF Accounts
<1>5. f.parent.filled <= f.state.filled /\ h.parent.status = "filled" =>
        f.parent.status = "filled" \/ h.state.filled >= h.parent.quantity
  BY <1>1, <1>3 DEF Accounts
<1>6. /\ h.next = f.next \/ Len(h.next) = 1
      /\ Len(h.next) + Len(h.state.pending) <= Len(f.next) + Len(f.state.pending)
  <2>1. /\ Len(g.next) + Len(g.state.pending) <= Len(f.next) + Len(f.state.pending)
        /\ Len(h.next) + Len(h.state.pending) <= Len(g.next) + Len(g.state.pending)
        /\ g.next = f.next \/ Len(g.next) = 1
        /\ h.next = g.next \/ Len(h.next) = 1
    BY DEF Accounts
  <2>2. h.next = f.next \/ Len(h.next) = 1
    BY <2>1
  <2>3. Len(h.next) + Len(h.state.pending) <= Len(f.next) + Len(f.state.pending)
    <3>. DEFINE fn == f.next
                fp == f.state.pending
                gn == g.next
                gp == g.state.pending
                hn == h.next
                hp == h.state.pending
    <3>1. /\ Len(fn) \in Nat /\ Len(gn) \in Nat /\ Len(hn) \in Nat
          /\ Len(fp) \in Nat /\ Len(gp) \in Nat /\ Len(hp) \in Nat
      BY <1>2
    <3>2. /\ Len(gn) + Len(gp) <= Len(fn) + Len(fp)
          /\ Len(hn) + Len(hp) <= Len(gn) + Len(gp)
      BY <2>1
    <3>3. Len(hn) + Len(hp) <= Len(fn) + Len(fp)
      <4>. HIDE DEF fn, fp, gn, gp, hn, hp
      <4>. QED BY <3>1, <3>2
    <3>. QED BY <3>3
  <2>. QED BY <2>2, <2>3
<1>. QED BY <1>3, <1>4, <1>5, <1>6 DEF Accounts

\* A family without a change.
LEMMA AccountsOfSame ==
  ASSUME NEW f \in FamilyRecord
  PROVE  Accounts(f, f, 0)
<1>1. /\ f.state.filled \in Nat /\ Len(f.next) \in Nat /\ Len(f.state.pending) \in Nat
  BY DEF FamilyRecord, RoutingRecord
<1>. QED BY <1>1 DEF Accounts

\* Completion shows the fills of the routing state, or none: a parent is filled
\* when they reach its quantity.
LEMMA FinalizedAccounts ==
  ASSUME NEW f \in FamilyRecord
  PROVE  Accounts(f, Finalized(f), 0)
<1>. DEFINE filled == IF f.state.aggregation = "final" THEN f.state.filled
                                                       ELSE f.parent.filled
            status == FinalStatus(filled, f.parent.quantity, f.state.hadReject)
            g == [f EXCEPT !.parent.filled = filled,
                           !.parent.status = status,
                           !.updates = Append(@, status)]
<1>1. /\ f.state.filled \in Nat /\ f.parent.filled \in Nat /\ f.parent.quantity \in Nat
      /\ Len(f.next) \in Nat /\ Len(f.state.pending) \in Nat
  BY DEF FamilyRecord, RoutingRecord, OrderRecord
<1>2. status = "filled" => filled >= f.parent.quantity
  BY DEF FinalStatus
<1>3. /\ filled \in Nat /\ (f.state.aggregation = "none" => filled = f.parent.filled)
      /\ f.parent.filled <= f.state.filled => filled <= f.state.filled
  BY <1>1
<1>4. Finalized(f) = f \/ Finalized(f) = g
  BY DEF Finalized
<1>. HIDE DEF status, filled
<1>5. /\ g.state = f.state /\ g.next = f.next
      /\ g.parent = [[f.parent EXCEPT !.filled = filled] EXCEPT !.status = status]
  BY DEF FamilyRecord
<1>6. /\ g.parent.filled = filled /\ g.parent.status = status
      /\ g.parent.quantity = f.parent.quantity
  BY <1>5 DEF FamilyRecord, OrderRecord
<1>. HIDE DEF g
<1>7. Accounts(f, g, 0)
  BY <1>1, <1>2, <1>3, <1>5, <1>6 DEF Accounts
<1>. QED BY <1>4, <1>7, AccountsOfSame

\* handle_child_fill() counts the lots, and shows them if asked to.
LEMMA ChildFillAccounts ==
  ASSUME NEW f \in FamilyRecord, NEW lots \in Nat
  PROVE  Accounts(f, AfterChildFill(f, lots), lots)
<1>. DEFINE filled == f.state.filled + lots
            status == FillStatus(filled, f.parent.quantity)
            counted == [f EXCEPT !.state.filled = filled]
            g == [counted EXCEPT !.parent.filled = filled,
                                 !.parent.status = status,
                                 !.updates = Append(@, status)]
<1>1. /\ f.state.filled \in Nat /\ f.parent.filled \in Nat /\ f.parent.quantity \in Nat
      /\ Len(f.next) \in Nat /\ Len(f.state.pending) \in Nat
  BY DEF FamilyRecord, RoutingRecord, OrderRecord
<1>2. status = "filled" => filled >= f.parent.quantity
  BY DEF FillStatus
<1>3. filled \in Nat /\ filled >= f.state.filled
  BY <1>1
<1>4. IF f.state.aggregation # "partial" THEN AfterChildFill(f, lots) = counted
                                         ELSE AfterChildFill(f, lots) = g
  BY DEF AfterChildFill
<1>. HIDE DEF status
<1>5. /\ counted.parent = f.parent /\ counted.next = f.next
      /\ counted.state = [f.state EXCEPT !.filled = filled]
  BY DEF FamilyRecord
<1>6. /\ g.next = f.next /\ g.state = counted.state
      /\ g.parent = [[f.parent EXCEPT !.filled = filled] EXCEPT !.status = status]
  BY DEF FamilyRecord
<1>7. /\ counted.state.filled = filled
      /\ counted.state.aggregation = f.state.aggregation
      /\ counted.state.planned = f.state.planned
      /\ counted.state.pending = f.state.pending
  BY <1>5 DEF FamilyRecord, RoutingRecord
<1>8. /\ g.parent.filled = filled /\ g.parent.status = status
      /\ g.parent.quantity = f.parent.quantity
  BY <1>6 DEF FamilyRecord, OrderRecord
<1>9. filled = f.state.filled + lots
  OBVIOUS
<1>. HIDE DEF g, counted, filled
<1>10. Accounts(f, counted, lots)
  BY <1>1, <1>3, <1>5, <1>7, <1>9 DEF Accounts
<1>11. f.state.aggregation = "partial" => Accounts(f, g, lots)
  BY <1>1, <1>2, <1>3, <1>6, <1>7, <1>8, <1>9 DEF Accounts
<1>. QED BY <1>4, <1>10, <1>11

\* The next child leaves pending_children when it is sent.
LEMMA LaunchNextAccounts ==
  ASSUME NEW f \in FamilyRecord, f.state.pending # <<>>, f.next = <<>>
  PROVE  Accounts(f, LaunchNext(f), 0)
<1>. DEFINE remaining == f.parent.quantity - f.state.filled
            lots == Lesser(Head(f.state.pending), remaining)
            nothing == <<>>
            kept == [f.state EXCEPT !.pending = nothing]
            emptied == [f EXCEPT !.state.pending = <<>>]
            g == [f EXCEPT !.next = <<lots>>, !.state.pending = Tail(@)]
<1>1. /\ f.parent \in OrderRecord /\ f.state \in RoutingRecord
      /\ f.updates \in Seq(Statuses) /\ f.next \in Seq(Nat)
      /\ f.state.filled \in Nat /\ f.parent.filled \in Nat
      /\ f.state.pending \in Seq(Nat)
  BY DEF FamilyRecord, RoutingRecord, OrderRecord
<1>2. /\ Len(f.next) = 0 /\ Len(f.state.pending) \in Nat \ {0}
      /\ Len(Tail(f.state.pending)) = Len(f.state.pending) - 1
      /\ Len(<<>>) = 0
  BY <1>1
<1>3. CASE remaining > 0
  <2>1. LaunchNext(f) = g
    BY <1>3 DEF LaunchNext
  <2>. HIDE DEF lots, remaining
  <2>2. /\ g.parent = f.parent /\ g.next = <<lots>>
        /\ g.state = [f.state EXCEPT !.pending = Tail(@)]
    BY DEF FamilyRecord
  <2>3. /\ g.state.pending = Tail(f.state.pending) /\ g.state.filled = f.state.filled
        /\ g.state.aggregation = f.state.aggregation /\ g.state.planned = f.state.planned
    BY <1>1, <2>2 DEF RoutingRecord
  <2>4. Len(g.next) = 1
    BY <2>2
  <2>. HIDE DEF g
  <2>5. Accounts(f, g, 0)
    BY <1>1, <1>2, <2>2, <2>3, <2>4 DEF Accounts
  <2>. QED BY <2>1, <2>5
<1>4. CASE ~(remaining > 0)
  <2>1. emptied = [f EXCEPT !.state = kept]
    OBVIOUS
  <2>2. LaunchNext(f) = Finalized(emptied)
    BY <1>4 DEF LaunchNext
  <2>. HIDE DEF emptied, remaining
  <2>3. nothing \in Seq(Nat) /\ Len(nothing) = 0
    OBVIOUS
  <2>. HIDE DEF nothing
  <2>4. /\ kept \in RoutingRecord /\ kept.pending = nothing /\ kept.filled = f.state.filled
        /\ kept.aggregation = f.state.aggregation /\ kept.planned = f.state.planned
    BY <1>1, <2>3 DEF RoutingRecord
  <2>. HIDE DEF kept
  <2>5. /\ emptied \in FamilyRecord
        /\ emptied.state = kept /\ emptied.parent = f.parent /\ emptied.next = f.next
    BY <1>1, <2>1, <2>4 DEF FamilyRecord
  <2>6. Accounts(f, emptied, 0)
    BY <1>1, <1>2, <2>3, <2>4, <2>5 DEF Accounts
  <2>7. Accounts(emptied, Finalized(emptied), 0) /\ Finalized(emptied) \in FamilyRecord
    BY <2>5, FinalizedAccounts, FinalizedKeepsFamily DEF SameFamily
  <2>. QED BY <2>2, <2>5, <2>6, <2>7, AccountsCompose
<1>. QED BY <1>3, <1>4

\* handle_child_terminal() counts no lots.
LEMMA ChildStatusAccounts ==
  ASSUME NEW f \in FamilyRecord, NEW child \in Nat, NEW status, f.next = <<>>
  PROVE  Accounts(f, AfterChildStatus(f, child, status), 0)
<1>. DEFINE state == [[f.state EXCEPT !.terminal = @ \cup {child}]
                        EXCEPT !.hadReject = @ \/ status = "rejected"]
            marked == [f EXCEPT !.state.terminal = @ \cup {child},
                                !.state.hadReject = @ \/ status = "rejected"]
<1>1. /\ f.parent \in OrderRecord /\ f.state \in RoutingRecord
      /\ f.updates \in Seq(Statuses) /\ f.next \in Seq(Nat)
      /\ f.state.filled \in Nat /\ f.parent.filled \in Nat
      /\ Len(f.next) \in Nat /\ Len(f.state.pending) \in Nat
  BY DEF FamilyRecord, RoutingRecord, OrderRecord
<1>2. marked = [f EXCEPT !.state = state]
  BY DEF FamilyRecord, RoutingRecord
<1>3. /\ state \in RoutingRecord /\ state.pending = f.state.pending
      /\ state.filled = f.state.filled /\ state.activated = f.state.activated
      /\ state.aggregation = f.state.aggregation /\ state.planned = f.state.planned
  BY <1>1 DEF RoutingRecord
<1>4. \/ /\ f.state.activated /\ f.state.pending # <<>>
         /\ AfterChildStatus(f, child, status) = LaunchNext(marked)
      \/ AfterChildStatus(f, child, status) = Finalized(marked)
  BY DEF AfterChildStatus
<1>. HIDE DEF state
<1>5. /\ marked \in FamilyRecord /\ marked.state = state /\ marked.parent = f.parent
      /\ marked.next = f.next
  BY <1>1, <1>2, <1>3 DEF FamilyRecord
<1>. HIDE DEF marked
<1>6. Accounts(f, marked, 0)
  BY <1>1, <1>3, <1>5 DEF Accounts
<1>7. /\ Accounts(marked, AfterChildStatus(f, child, status), 0)
      /\ AfterChildStatus(f, child, status) \in FamilyRecord
  <2>1. CASE AfterChildStatus(f, child, status) = Finalized(marked)
    BY <1>5, <2>1, FinalizedAccounts, FinalizedKeepsFamily DEF SameFamily
  <2>2. CASE /\ f.state.activated /\ f.state.pending # <<>>
             /\ AfterChildStatus(f, child, status) = LaunchNext(marked)
    <3>1. marked.state.activated /\ marked.state.pending # <<>> /\ marked.next = <<>>
      BY <1>3, <1>5, <2>2
    <3>. QED BY <1>5, <2>2, <3>1, LaunchNextAccounts, LaunchNextKeepsFamily DEF SameFamily
  <2>. QED BY <1>4, <2>1, <2>2
<1>. QED BY <1>5, <1>6, <1>7, AccountsCompose
-----------------------------------------------------------------------------
(* Counting what loops have to send.                                       *)

\* A set of which every element was moved from another or is one of n new ones.
Covered(T, f, S, g, n) ==
  \A x \in T : (\E y \in S : x = f[y]) \/ (\E m \in 1..n : x = g[m])

\* Such a set has at most n elements more.
LEMMA CountOfMoved ==
  ASSUME NEW S, IsFiniteSet(S), NEW f, NEW n \in Nat, NEW g, NEW T, Covered(T, f, S, g, n)
  PROVE  IsFiniteSet(T) /\ Cardinality(T) <= Cardinality(S) + n
<1>. DEFINE A == {f[y] : y \in S}
            B == {g[m] : m \in 1..n}
            F == [y \in S |-> f[y]]
            G == [m \in 1..n |-> g[m]]
<1>1. IsFiniteSet(A) /\ Cardinality(A) <= Cardinality(S)
  <2>1. F \in Surjection(S, A)
    BY DEF Surjection
  <2>. HIDE DEF F, A
  <2>. QED BY <2>1, FS_Surjection
<1>2. IsFiniteSet(B) /\ Cardinality(B) <= n
  <2>1. G \in Surjection(1..n, B)
    BY DEF Surjection
  <2>2. IsFiniteSet(1..n) /\ Cardinality(1..n) = n
    BY FS_Interval
  <2>. HIDE DEF G, B
  <2>. QED BY <2>1, <2>2, FS_Surjection
<1>3. T \subseteq A \cup B
  BY DEF Covered
<1>. HIDE DEF A, B
<1>4. /\ IsFiniteSet(A \cup B)
      /\ Cardinality(A \cup B) = Cardinality(A) + Cardinality(B) - Cardinality(A \cap B)
  BY <1>1, <1>2, FS_Union
<1>5. /\ Cardinality(A) \in Nat /\ Cardinality(B) \in Nat /\ Cardinality(S) \in Nat
      /\ Cardinality(A \cap B) \in Nat
  <2>1. IsFiniteSet(A \cap B)
    BY <1>1, FS_Subset
  <2>. QED BY <1>1, <1>2, <2>1, FS_CardinalityType
<1>6. IsFiniteSet(T) /\ Cardinality(T) <= Cardinality(A \cup B)
  BY <1>3, <1>4, FS_Subset
<1>7. Cardinality(T) \in Nat
  BY <1>6, FS_CardinalityType
<1>. QED BY <1>1, <1>2, <1>4, <1>5, <1>6, <1>7

\* A frame with children of p to send.
IsLoopOver(frame, p) == frame.order = p /\ frame.kind \in {"activate", "next"}

\* The places of the children that the loops on given stacks have to send.
Places(stacks, p) ==
  UNION {UNION {{<<t, i, k>> : k \in DOMAIN stacks[t][i].children} :
                i \in {j \in DOMAIN stacks[t] : IsLoopOver(stacks[t][j], p)}} :
         t \in Threads}

\* InFlight in terms of a given stack, so that it can be compared with the next.
LEMMA InFlightPlaces ==
  ASSUME NEW p
  PROVE  InFlight(p) = Places(stack, p) /\ InFlight(p)' = Places(stack', p)
<1>1. InFlight(p) = Places(stack, p)
  BY DEF InFlight, LoopsOver, IsLoopOver, Places
<1>2. InFlight(p)' = Places(stack', p)
  BY DEF InFlight, LoopsOver, IsLoopOver, Places
<1>. QED BY <1>1, <1>2

\* What is a place.
IsPlace(x, stacks, p) ==
  \E u \in Threads : \E i \in DOMAIN stacks[u] : \E m \in DOMAIN stacks[u][i].children :
    IsLoopOver(stacks[u][i], p) /\ x = <<u, i, m>>

\* A place is a thread, a loop of its stack, and a child of that loop.
LEMMA PlacesOfLoops ==
  ASSUME NEW stacks, NEW p, NEW x
  PROVE  x \in Places(stacks, p) <=> IsPlace(x, stacks, p)
<1>. DEFINE Loops(t) == {j \in DOMAIN stacks[t] : IsLoopOver(stacks[t][j], p)}
            At(t, i) == {<<t, i, k>> : k \in DOMAIN stacks[t][i].children}
            Of(t) == UNION {At(t, i) : i \in Loops(t)}
<1>1. Places(stacks, p) = UNION {Of(t) : t \in Threads}
  BY DEF Places
<1>2. \A t : x \in Of(t) <=> \E i \in Loops(t) : x \in At(t, i)
  <2>. HIDE DEF Loops, At
  <2>. QED OBVIOUS
<1>3. x \in Places(stacks, p) <=> \E t \in Threads : x \in Of(t)
  <2>. HIDE DEF Of
  <2>. QED BY <1>1
<1>4. \A t, i : x \in At(t, i) <=> \E m \in DOMAIN stacks[t][i].children : x = <<t, i, m>>
  OBVIOUS
<1>5. \A t, i : i \in Loops(t) <=> i \in DOMAIN stacks[t] /\ IsLoopOver(stacks[t][i], p)
  OBVIOUS
<1>. HIDE DEF Loops, At, Of
<1>6. ASSUME x \in Places(stacks, p)
      PROVE  IsPlace(x, stacks, p)
  <2>1. PICK u \in Threads : x \in Of(u)
    BY <1>3, <1>6
  <2>2. PICK i \in Loops(u) : x \in At(u, i)
    BY <1>2, <2>1
  <2>3. PICK m \in DOMAIN stacks[u][i].children : x = <<u, i, m>>
    BY <1>4, <2>2
  <2>4. i \in DOMAIN stacks[u] /\ IsLoopOver(stacks[u][i], p)
    BY <1>5, <2>2
  <2>. QED BY <2>3, <2>4 DEF IsPlace
<1>7. ASSUME IsPlace(x, stacks, p)
      PROVE  x \in Places(stacks, p)
  <2>1. PICK u \in Threads : \E i \in DOMAIN stacks[u] : \E m \in DOMAIN stacks[u][i].children :
          IsLoopOver(stacks[u][i], p) /\ x = <<u, i, m>>
    BY <1>7 DEF IsPlace
  <2>2. PICK i \in DOMAIN stacks[u] : \E m \in DOMAIN stacks[u][i].children :
          IsLoopOver(stacks[u][i], p) /\ x = <<u, i, m>>
    BY <2>1
  <2>3. x \in At(u, i) /\ i \in Loops(u)
    BY <1>4, <1>5, <2>2
  <2>. QED BY <1>2, <1>3, <2>3
<1>. QED BY <1>6, <1>7

Moved(t, frames, k) ==
  /\ stack[t] \in Seq(FrameRecord) /\ stack'[t] \in Seq(FrameRecord)
  /\ \A u \in Threads \ {t} : stack'[u] = stack[u]
  /\ \A i \in DOMAIN stack'[t] :
       \/ i \in DOMAIN frames /\ stack'[t][i] = frames[i]
       \/ /\ i - Len(frames) + k \in DOMAIN stack[t] /\ i - Len(frames) + k > k
          /\ stack'[t][i] = stack[t][i - Len(frames) + k]

\* The frames a thread has after a step are new ones, or the ones it had, moved
\* by the number of new ones.
LEMMA MovedFrames ==
  ASSUME FramesInv, NEW t \in Threads, NEW frames \in Seq(FrameRecord), NEW rest, NEW k,
         IsRest(rest, t, k), stack' = [stack EXCEPT ![t] = frames \o rest]
  PROVE  Moved(t, frames, k)
<1>. DEFINE new == frames \o rest
            n == Len(frames)
<1>1. rest \in Seq(FrameRecord) /\ n \in Nat /\ k \in {0, 1}
  BY DEF IsRest
<1>2. new \in Seq(FrameRecord) /\ Len(new) = n + Len(rest)
  BY <1>1
<1>3. \A i \in DOMAIN new :
        \/ i \in DOMAIN frames /\ new[i] = frames[i]
        \/ i - n \in DOMAIN rest /\ new[i] = rest[i - n]
  BY <1>1, <1>2
<1>4. \A i \in DOMAIN new :
        \/ i \in DOMAIN frames /\ new[i] = frames[i]
        \/ /\ i - n + k \in DOMAIN stack[t] /\ i - n + k > k
           /\ new[i] = stack[t][i - n + k]
  BY <1>1, <1>3 DEF IsRest
<1>5. /\ stack[t] \in Seq(FrameRecord) /\ stack'[t] = new
      /\ \A u \in Threads \ {t} : stack'[u] = stack[u]
  BY DEF FramesInv
<1>. HIDE DEF new, n
<1>6. /\ stack'[t] \in Seq(FrameRecord)
      /\ \A i \in DOMAIN stack'[t] :
           \/ i \in DOMAIN frames /\ stack'[t][i] = frames[i]
           \/ /\ i - n + k \in DOMAIN stack[t] /\ i - n + k > k
              /\ stack'[t][i] = stack[t][i - n + k]
  BY <1>2, <1>4, <1>5
<1>. QED BY <1>5, <1>6 DEF n, Moved

ComesFrom(x, t, frames, k, p) ==
  \/ x \in InFlight(p) /\ x[1] # t
  \/ \E i \in DOMAIN frames : \E m \in DOMAIN frames[i].children :
       IsLoopOver(frames[i], p) /\ x = <<t, i, m>>
  \/ \E y \in InFlight(p) :
       y[1] = t /\ y[2] > k /\ y[2] \in Nat /\ x = <<t, y[2] + Len(frames) - k, y[3]>>

\* The children of p in flight after such a step are those of the new frames,
\* and those that were in flight, at their places or at the moved ones.
LEMMA MovedPlaces ==
  ASSUME FramesInv, NEW t \in Threads, NEW frames \in Seq(FrameRecord), NEW rest, NEW k,
         IsRest(rest, t, k), stack' = [stack EXCEPT ![t] = frames \o rest],
         NEW p, NEW x \in InFlight(p)'
  PROVE  ComesFrom(x, t, frames, k, p)
<1>1. /\ IsPlace(x, stack', p)
      /\ \A y : IsPlace(y, stack, p) => y \in InFlight(p)
  <2>1. InFlight(p) = Places(stack, p) /\ InFlight(p)' = Places(stack', p) /\ x \in InFlight(p)'
    BY InFlightPlaces
  <2>. QED BY <2>1, PlacesOfLoops
<1>2. PICK u \in Threads : \E i \in DOMAIN stack'[u] : \E m \in DOMAIN stack'[u][i].children :
        IsLoopOver(stack'[u][i], p) /\ x = <<u, i, m>>
  BY <1>1 DEF IsPlace
<1>3. PICK i \in DOMAIN stack'[u] :
        \E m \in DOMAIN stack'[u][i].children : IsLoopOver(stack'[u][i], p) /\ x = <<u, i, m>>
  BY <1>2
<1>4. PICK m \in DOMAIN stack'[u][i].children : IsLoopOver(stack'[u][i], p) /\ x = <<u, i, m>>
  BY <1>3
<1>5. Moved(t, frames, k)
  BY MovedFrames
<1>6. CASE u # t
  <2>1. stack'[u] = stack[u]
    BY <1>5, <1>6 DEF Moved
  <2>2. <<u, i, m>> \in InFlight(p)
    BY <1>1, <1>4, <2>1 DEF IsPlace
  <2>. QED BY <1>4, <1>6, <2>2 DEF ComesFrom
<1>7. CASE u = t
  <2>1. /\ i \in DOMAIN stack'[t] /\ m \in DOMAIN stack'[t][i].children
        /\ IsLoopOver(stack'[t][i], p) /\ x = <<t, i, m>>
    BY <1>4, <1>7
  <2>2. CASE i \in DOMAIN frames /\ stack'[t][i] = frames[i]
    BY <2>1, <2>2 DEF ComesFrom
  <2>3. CASE /\ i - Len(frames) + k \in DOMAIN stack[t] /\ i - Len(frames) + k > k
             /\ stack'[t][i] = stack[t][i - Len(frames) + k]
    <3>. DEFINE o == i - Len(frames) + k
                y == <<t, o, m>>
    <3>1. /\ o \in DOMAIN stack[t] /\ m \in DOMAIN stack[t][o].children
          /\ IsLoopOver(stack[t][o], p)
      BY <2>1, <2>3
    <3>2. Len(frames) \in Nat /\ k \in {0, 1} /\ i \in Nat
      BY <1>5, <2>1 DEF IsRest, Moved
    <3>3. i = o + Len(frames) - k /\ o > k /\ o \in Nat
      BY <2>3, <3>2
    <3>. HIDE DEF o
    <3>4. y \in InFlight(p)
      BY <1>1, <3>1 DEF IsPlace
    <3>5. y[1] = t /\ y[2] = o /\ y[3] = m
      OBVIOUS
    <3>6. x = <<t, y[2] + Len(frames) - k, y[3]>>
      BY <2>1, <3>3
    <3>. HIDE DEF y
    <3>. QED BY <3>3, <3>4, <3>5, <3>6 DEF ComesFrom
  <2>. QED BY <1>5, <2>1, <2>2, <2>3 DEF Moved
<1>. QED BY <1>6, <1>7

\* New frames with a loop over n children at most.
SendsOf(frames, p, n) ==
  \E j : \A i \in DOMAIN frames :
    IsLoopOver(frames[i], p) => i = j /\ Len(frames[i].children) <= n

\* How a step that leaves thread t the new frames changes its stack.
Adds(t, frames) ==
  /\ frames \in Seq(FrameRecord)
  /\ \/ Push(t, frames)
     \/ stack[t] # <<>> /\ Replace(t, frames)

\* Frames that a step adds bring at most the children of their one loop.
LEMMA PushedLoops ==
  ASSUME FramesInv, NEW t \in Threads, NEW frames, Adds(t, frames),
         NEW p, NEW n \in Nat, SendsOf(frames, p, n), IsFiniteSet(InFlight(p))
  PROVE  /\ IsFiniteSet(InFlight(p)')
         /\ Cardinality(InFlight(p)') <= Cardinality(InFlight(p)) + n
<1>0. frames \in Seq(FrameRecord)
  BY DEF Adds
<1>a. PICK j : \A i \in DOMAIN frames :
        IsLoopOver(frames[i], p) => i = j /\ Len(frames[i].children) <= n
  BY DEF SendsOf
<1>1. \E rest : \E k : IsRest(rest, t, k) /\ stack' = [stack EXCEPT ![t] = frames \o rest]
  BY RestOfStack DEF Adds, Push, Replace
<1>2. PICK rest : \E k : IsRest(rest, t, k) /\ stack' = [stack EXCEPT ![t] = frames \o rest]
  BY <1>1
<1>3. PICK k : IsRest(rest, t, k) /\ stack' = [stack EXCEPT ![t] = frames \o rest]
  BY <1>2
<1>. DEFINE S == InFlight(p)
            f == [x \in S |->
                    IF x[1] = t THEN <<t, x[2] + Len(frames) - k, x[3]>> ELSE x]
            g == [m \in 1..n |-> <<t, j, m>>]
            T == InFlight(p)'
<1>4. ASSUME NEW x \in T
      PROVE  (\E y \in S : x = f[y]) \/ (\E m \in 1..n : x = g[m])
  <2>1. CASE x \in InFlight(p) /\ x[1] # t
    <3>1. f[x] = x
      BY <2>1
    <3>. HIDE DEF f
    <3>. QED BY <2>1, <3>1
  <2>2. CASE \E i \in DOMAIN frames : \E m \in DOMAIN frames[i].children :
               IsLoopOver(frames[i], p) /\ x = <<t, i, m>>
    <3>1. PICK i \in DOMAIN frames : \E m \in DOMAIN frames[i].children :
            IsLoopOver(frames[i], p) /\ x = <<t, i, m>>
      BY <2>2
    <3>2. PICK m \in DOMAIN frames[i].children : IsLoopOver(frames[i], p) /\ x = <<t, i, m>>
      BY <3>1
    <3>0. frames[i] \in FrameRecord
      BY <1>0
    <3>3. i = j /\ Len(frames[i].children) <= n /\ frames[i].children \in Seq(Nat)
      BY <1>a, <3>0, <3>2 DEF FrameRecord
    <3>4. m \in 1..n
      BY <3>3
    <3>5. x = g[m]
      BY <3>2, <3>3, <3>4
    <3>. HIDE DEF g
    <3>. QED BY <3>4, <3>5
  <2>3. CASE \E y \in InFlight(p) :
               y[1] = t /\ y[2] > k /\ y[2] \in Nat /\ x = <<t, y[2] + Len(frames) - k, y[3]>>
    <3>1. PICK y \in InFlight(p) : y[1] = t /\ x = <<t, y[2] + Len(frames) - k, y[3]>>
      BY <2>3
    <3>2. x = f[y]
      BY <3>1
    <3>. HIDE DEF f
    <3>. QED BY <3>2
  <2>4. ComesFrom(x, t, frames, k, p)
    <3>1. x \in InFlight(p)'
      BY <1>4
    <3>. HIDE DEF T, f, g
    <3>. QED BY <1>0, <1>3, <3>1, MovedPlaces
  <2>. HIDE DEF f, g, T
  <2>. QED BY <2>1, <2>2, <2>3, <2>4 DEF ComesFrom, S
<1>5. IsFiniteSet(T) /\ Cardinality(T) <= Cardinality(S) + n
  <2>1. IsFiniteSet(S) /\ n \in Nat
    OBVIOUS
  <2>. HIDE DEF f, g, T, S
  <2>2. Covered(T, f, S, g, n)
    BY <1>4 DEF Covered
  <2>. QED BY <2>1, <2>2, CountOfMoved
<1>. QED BY <1>5

\* The loop that is left after a child was sent.
KeepsRest(frames, p, j, rest) ==
  \A i \in DOMAIN frames : IsLoopOver(frames[i], p) => i = j /\ frames[i].children = rest

\* A loop that sends its first child has the others left, in one new frame.
LEMMA SentLoop ==
  ASSUME FramesInv, NEW t \in Threads, stack[t] # <<>>, NEW frames \in Seq(FrameRecord),
         Replace(t, frames), NEW p, IsFiniteSet(InFlight(p)), NEW j,
         IsLoopOver(Head(stack[t]), p), Head(stack[t]).children # <<>>,
         KeepsRest(frames, p, j, Tail(Head(stack[t]).children))
  PROVE  /\ IsFiniteSet(InFlight(p)')
         /\ Cardinality(InFlight(p)') <= Cardinality(InFlight(p)) - 1
<1>. DEFINE children == Head(stack[t]).children
            first == <<t, 1, 1>>
            S == InFlight(p) \ {first}
            f == [x \in S |-> IF x[1] # t THEN x ELSE
                              IF x[2] = 1 THEN <<t, j, x[3] - 1>>
                                          ELSE <<t, x[2] + Len(frames) - 1, x[3]>>]
            T == InFlight(p)'
<1>1. /\ IsRest(Tail(stack[t]), t, 1) /\ stack' = [stack EXCEPT ![t] = frames \o Tail(stack[t])]
  BY RestOfStack DEF Replace
<1>2. /\ stack[t] \in Seq(FrameRecord) /\ 1 \in DOMAIN stack[t] /\ stack[t][1] = Head(stack[t])
      /\ Head(stack[t]) \in FrameRecord
  <2>1. stack[t] \in Seq(FrameRecord)
    BY DEF FramesInv
  <2>. QED BY <2>1
<1>3. children \in Seq(Nat) /\ children # <<>> /\ Len(frames) \in Nat
  BY <1>2 DEF FrameRecord
<1>4. \A m \in DOMAIN children : <<t, 1, m>> \in InFlight(p)
  <2>1. ASSUME NEW m \in DOMAIN children
        PROVE  IsPlace(<<t, 1, m>>, stack, p)
    BY <1>2 DEF IsPlace
  <2>. HIDE DEF children
  <2>. QED BY <2>1, InFlightPlaces, PlacesOfLoops
<1>5. first \in InFlight(p)
  BY <1>3, <1>4
<1>6. ASSUME NEW x \in T
      PROVE  \E y \in S : x = f[y]
  <2>1. ComesFrom(x, t, frames, 1, p)
    <3>1. x \in InFlight(p)'
      BY <1>6
    <3>. HIDE DEF T, f, S
    <3>. QED BY <1>1, <3>1, MovedPlaces
  <2>2. CASE x \in InFlight(p) /\ x[1] # t
    <3>1. x \in S /\ f[x] = x
      BY <2>2
    <3>. HIDE DEF f, S
    <3>. QED BY <3>1
  <2>3. CASE \E i \in DOMAIN frames : \E m \in DOMAIN frames[i].children :
               IsLoopOver(frames[i], p) /\ x = <<t, i, m>>
    <3>1. PICK i \in DOMAIN frames : \E m \in DOMAIN frames[i].children :
            IsLoopOver(frames[i], p) /\ x = <<t, i, m>>
      BY <2>3
    <3>2. PICK m \in DOMAIN frames[i].children : IsLoopOver(frames[i], p) /\ x = <<t, i, m>>
      BY <3>1
    <3>3. i = j /\ m \in DOMAIN Tail(children)
      BY <3>2 DEF KeepsRest
    <3>4. m \in Nat \ {0} /\ m + 1 \in DOMAIN children
      <4>. HIDE DEF children
      <4>. QED BY <1>3, <3>3
    <3>. DEFINE y == <<t, 1, m + 1>>
    <3>5. y \in InFlight(p)
      <4>. HIDE DEF children
      <4>. QED BY <1>4, <3>4
    <3>6. y[1] = t /\ y[2] = 1 /\ y[3] = m + 1 /\ y # first
      BY <3>4
    <3>7. (m + 1) - 1 = m
      BY <3>4
    <3>. HIDE DEF y
    <3>8. y \in S /\ f[y] = x
      BY <3>2, <3>3, <3>5, <3>6, <3>7
    <3>. HIDE DEF f, S
    <3>. QED BY <3>8
  <2>4. CASE \E y \in InFlight(p) :
               y[1] = t /\ y[2] > 1 /\ y[2] \in Nat /\ x = <<t, y[2] + Len(frames) - 1, y[3]>>
    <3>1. PICK y \in InFlight(p) :
            y[1] = t /\ y[2] > 1 /\ y[2] \in Nat /\ x = <<t, y[2] + Len(frames) - 1, y[3]>>
      BY <2>4
    <3>2. y # first /\ y[2] # 1
      <4>1. first[2] = 1
        OBVIOUS
      <4>. HIDE DEF first
      <4>. QED BY <3>1, <4>1
    <3>3. y \in S /\ f[y] = x
      BY <3>1, <3>2
    <3>. HIDE DEF f, S
    <3>. QED BY <3>3
  <2>. HIDE DEF f, S, T
  <2>. QED BY <2>1, <2>2, <2>3, <2>4 DEF ComesFrom
<1>7. IsFiniteSet(S) /\ Cardinality(S) = Cardinality(InFlight(p)) - 1
  <2>. HIDE DEF first
  <2>. QED BY <1>5, FS_RemoveElement
<1>8. IsFiniteSet(T) /\ Cardinality(T) <= Cardinality(S) + 0
  <2>1. 0 \in Nat
    OBVIOUS
  <2>. HIDE DEF f, S, T
  <2>2. Covered(T, f, S, f, 0)
    BY <1>6 DEF Covered
  <2>. QED BY <1>7, <2>1, <2>2, CountOfMoved
<1>9. Cardinality(T) \in Nat /\ Cardinality(S) \in Nat
  <2>. HIDE DEF S, T
  <2>. QED BY <1>7, <1>8, FS_CardinalityType
<1>. HIDE DEF S
<1>. QED BY <1>7, <1>8, <1>9
-----------------------------------------------------------------------------
(* Counting children that were sent, and what they filled.                 *)

\* The orders are finitely many.
LEMMA ChildrenAreFinite ==
  ASSUME TablesInv, NEW p
  PROVE  /\ IsFiniteSet({id \in DOMAIN orders : orders[id].parent = p})
         /\ Launched(p) \in Nat
<1>1. DOMAIN orders = 1..(nextId - 1) /\ 1 \in Int /\ nextId - 1 \in Int
  BY DEF TablesInv
<1>2. IsFiniteSet(DOMAIN orders)
  BY <1>1, FS_Interval
<1>3. IsFiniteSet({id \in DOMAIN orders : orders[id].parent = p})
  BY <1>2, FS_Subset
<1>. QED BY <1>3, FS_CardinalityType DEF Launched

\* Reports and changes send no child.
LEMMA LaunchedSame ==
  ASSUME SameShape, NEW p
  PROVE  Launched(p)' = Launched(p)
<1>1. {id \in DOMAIN orders' : orders'[id].parent = p}
        = {id \in DOMAIN orders : orders[id].parent = p}
  BY DEF SameShape
<1>. QED BY <1>1 DEF Launched

\* A new order counts for its parent.
OrderAdded(parent) ==
  /\ DOMAIN orders' = DOMAIN orders \cup {nextId}
  /\ nextId \notin DOMAIN orders
  /\ orders'[nextId].parent = parent /\ orders'[nextId].filled = 0
  /\ \A id \in DOMAIN orders : orders'[id] = orders[id]

\* A new order counts as a child of its parent only.
LEMMA LaunchedAdded ==
  ASSUME TablesInv, NEW parent, OrderAdded(parent), NEW p
  PROVE  Launched(p)' = Launched(p) + (IF p = parent THEN 1 ELSE 0)
<1>. DEFINE S == {id \in DOMAIN orders : orders[id].parent = p}
            T == {id \in DOMAIN orders' : orders'[id].parent = p}
<1>1. IsFiniteSet(S) /\ Cardinality(S) \in Nat /\ nextId \notin S
  BY ChildrenAreFinite DEF Launched, OrderAdded
<1>2. T = IF p = parent THEN S \cup {nextId} ELSE S
  BY DEF OrderAdded
<1>3. Launched(p) = Cardinality(S) /\ Launched(p)' = Cardinality(T)
  BY DEF Launched
<1>. HIDE DEF S, T
<1>4. Cardinality(S \cup {nextId}) = Cardinality(S) + 1
  BY <1>1, FS_AddElement
<1>. QED BY <1>1, <1>2, <1>3, <1>4

\* The fills of the children of p, order by order.
\* What each order filled as a child of p.
FillsOf(p) == [c \in DOMAIN orders |-> IF orders[c].parent = p THEN orders[c].filled ELSE 0]

\* The fills of the children are a sequence of numbers, one for each order.
LEMMA FillsAreNumbers ==
  ASSUME TablesInv, NEW p
  PROVE  /\ FillsOf(p) \in Seq(Nat) /\ FillsOf(p) \in Seq(Int) /\ Len(FillsOf(p)) = nextId - 1
         /\ ChildFills(p) = SumOf(FillsOf(p)) /\ ChildFills(p)' = SumOf(FillsOf(p)')
         /\ ChildFills(p) \in Nat
<1>1. nextId - 1 \in Nat /\ DOMAIN orders = 1..(nextId - 1)
  BY DEF TablesInv
<1>2. \A c \in DOMAIN orders : (IF orders[c].parent = p THEN orders[c].filled ELSE 0) \in Nat
  BY DEF TablesInv, OrderRecord
<1>3. FillsOf(p) \in [1..(nextId - 1) -> Nat] /\ FillsOf(p) \in [1..(nextId - 1) -> Int]
  BY <1>1, <1>2 DEF FillsOf
<1>4. FillsOf(p) \in Seq(Nat) /\ FillsOf(p) \in Seq(Int) /\ Len(FillsOf(p)) = nextId - 1
  BY <1>1, <1>3
<1>5. ChildFills(p) = SumOf(FillsOf(p)) /\ ChildFills(p)' = SumOf(FillsOf(p)')
  BY DEF ChildFills, FillsOf
<1>. QED BY <1>4, <1>5, SumOfNaturals

\* The children of p have the fills they had.
LEMMA ChildFillsSame ==
  ASSUME TablesInv, TablesInv', SameShape, NEW p,
         \A c \in DOMAIN orders : orders[c].parent = p => orders'[c].filled = orders[c].filled
  PROVE  ChildFills(p)' = ChildFills(p)
<1>1. FillsOf(p)' = FillsOf(p)
  BY DEF FillsOf, SameShape
<1>. QED BY <1>1, FillsAreNumbers

\* One child has filled more.
LEMMA ChildFillsGrow ==
  ASSUME TablesInv, TablesInv', SameShape, NEW id \in DOMAIN orders, NEW lots \in Nat,
         orders'[id].filled = orders[id].filled + lots, NEW p, orders[id].parent = p,
         \A c \in DOMAIN orders : orders[c].parent = p /\ c # id =>
           orders'[c].filled = orders[c].filled
  PROVE  ChildFills(p)' = ChildFills(p) + lots
<1>. DEFINE s == FillsOf(p)
            r == FillsOf(p)'
<1>1. /\ s \in Seq(Int) /\ Len(s) = nextId - 1 /\ ChildFills(p) = SumOf(s)
      /\ ChildFills(p)' = SumOf(r) /\ ChildFills(p) \in Nat
  BY FillsAreNumbers
<1>2. /\ DOMAIN orders = 1..(nextId - 1) /\ DOMAIN orders' = DOMAIN orders
      /\ orders[id].filled \in Nat /\ id \in 1..(nextId - 1)
  BY DEF TablesInv, SameShape, OrderRecord
<1>3. /\ s = [c \in 1..(nextId - 1) |-> IF orders[c].parent = p THEN orders[c].filled ELSE 0]
      /\ r = [c \in 1..(nextId - 1) |-> IF orders'[c].parent = p THEN orders'[c].filled ELSE 0]
  BY <1>2 DEF FillsOf
<1>4. \A c \in 1..(nextId - 1) : orders'[c].parent = orders[c].parent
  BY <1>2 DEF SameShape
<1>5. s[id] = orders[id].filled /\ r[id] = orders[id].filled + lots
  BY <1>2, <1>3, <1>4
<1>6. \A c \in 1..(nextId - 1) : c # id => r[c] = s[c]
  BY <1>2, <1>3, <1>4
<1>7. r \in Seq(Int) /\ Len(r) = nextId - 1
  <2>1. \A c \in 1..(nextId - 1) : r[c] \in Int
    <3>1. \A c \in 1..(nextId - 1) : s[c] \in Int
      BY <1>1
    <3>2. r[id] \in Int
      BY <1>2, <1>5
    <3>. HIDE DEF s, r
    <3>. QED BY <1>6, <3>1, <3>2
  <2>2. nextId - 1 \in Nat
    BY DEF TablesInv
  <2>3. r \in [1..(nextId - 1) -> Int]
    BY <1>3, <2>1
  <2>. HIDE DEF r
  <2>. QED BY <2>2, <2>3
<1>. HIDE DEF s, r
<1>8. SumOf(r) = SumOf(s) - s[id] + r[id]
  <2>1. id \in 1..Len(s) /\ Len(r) = Len(s) /\ \A c \in 1..Len(s) : c # id => r[c] = s[c]
    BY <1>1, <1>2, <1>6, <1>7
  <2>. QED BY <1>1, <1>7, <2>1, SumOfChanged
<1>9. SumOf(r) = SumOf(s) + lots
  <2>1. SumOf(s) \in Nat /\ orders[id].filled \in Nat
    BY <1>1, <1>2
  <2>. QED BY <1>5, <1>8, <2>1
<1>. QED BY <1>1, <1>9

\* A new order has filled nothing.
LEMMA ChildFillsAdded ==
  ASSUME TablesInv, TablesInv', nextId' = nextId + 1, NEW parent, OrderAdded(parent), NEW p
  PROVE  ChildFills(p)' = ChildFills(p)
<1>. DEFINE s == FillsOf(p)
            r == FillsOf(p)'
<1>1. /\ s \in Seq(Int) /\ Len(s) = nextId - 1 /\ ChildFills(p) = SumOf(s)
      /\ ChildFills(p)' = SumOf(r) /\ ChildFills(p) \in Nat
  BY FillsAreNumbers
<1>2. /\ DOMAIN orders = 1..(nextId - 1) /\ DOMAIN orders' = 1..nextId /\ nextId \in Nat \ {0}
  <2>1. nextId \in Nat \ {0} /\ DOMAIN orders = 1..(nextId - 1) /\ DOMAIN orders' = 1..(nextId' - 1)
    BY DEF TablesInv
  <2>. QED BY <2>1
<1>3. /\ s = [c \in 1..(nextId - 1) |-> IF orders[c].parent = p THEN orders[c].filled ELSE 0]
      /\ r = [c \in 1..nextId |-> IF orders'[c].parent = p THEN orders'[c].filled ELSE 0]
  BY <1>2 DEF FillsOf
<1>4. r[nextId] = 0 /\ \A c \in 1..(nextId - 1) : r[c] = s[c]
  BY <1>2, <1>3 DEF OrderAdded
<1>5. r = Append(s, 0)
  <2>1. r \in Seq(Int) /\ Len(r) = nextId
    <3>1. \A c \in 1..(nextId - 1) : r[c] \in Int
      BY <1>1, <1>4
    <3>2. r \in [1..nextId -> Int]
      <4>1. \A c \in 1..nextId : c \in 1..(nextId - 1) \/ c = nextId
        BY <1>2
      <4>2. \A c \in 1..nextId : r[c] \in Int
        <5>. HIDE DEF r
        <5>. QED BY <1>4, <3>1, <4>1
      <4>. QED BY <1>3, <4>2
    <3>. HIDE DEF r
    <3>. QED BY <1>2, <3>2
  <2>. HIDE DEF s, r
  <2>2. /\ Append(s, 0) \in Seq(Int) /\ Len(Append(s, 0)) = nextId
        /\ Append(s, 0)[nextId] = 0 /\ \A c \in 1..(nextId - 1) : Append(s, 0)[c] = s[c]
    BY <1>1, <1>2
  <2>4. \A c \in 1..Len(r) : r[c] = Append(s, 0)[c]
    BY <1>2, <1>4, <2>1, <2>2
  <2>. QED BY <2>1, <2>2, <2>4, SeqEqual
<1>6. SumOf(r) = SumOf(s) + 0
  <2>. HIDE DEF s, r
  <2>. QED BY <1>1, <1>5, SumOfAppend
<1>. HIDE DEF s, r
<1>. QED BY <1>1, <1>6
-----------------------------------------------------------------------------
(* The invariant of the children.                                          *)

\* Children are younger than their parents, and no plan is exceeded.
PlanInv ==
  /\ \A id \in DOMAIN orders : orders[id].parent < nextId
  /\ \A p \in DOMAIN routing : IsFiniteSet(InFlight(p))
  /\ PlannedOnce

\* The inductive invariant, next to RoutingInv.
ChildrenInv == PlanInv /\ ParentFillsAreChildFills

Loops(frame) == frame.kind \in {"activate", "next"}

\* Frames that send no child.
NoLoops(frames) == \A i \in DOMAIN frames : ~Loops(frames[i])

\* Of the frames at most one has children to send, n of them at most, of q.
SendsAtMost(frames, q, n) ==
  \E j : \A i \in DOMAIN frames :
    Loops(frames[i]) => i = j /\ frames[i].order = q /\ Len(frames[i].children) <= n

\* What a step puts into a loop it takes out of the plan.
PlansShrink(q, n) ==
  \A p \in DOMAIN routing :
    /\ routing'[p].planned = routing[p].planned
    /\ Len(routing'[p].pending) + (IF p = q THEN n ELSE 0) <= Len(routing[p].pending)

\* Children move between the plan, the loops and the table of orders.
LEMMA PlanStep ==
  ASSUME TablesInv, TablesInv', FramesInv, PlanInv, SameShape, nextId' = nextId,
         NEW t \in Threads, NEW frames, Adds(t, frames), NEW q, NEW n \in Nat,
         SendsAtMost(frames, q, n), PlansShrink(q, n)
  PROVE  PlanInv'
<1>1. \A id \in DOMAIN orders' : orders'[id].parent < nextId'
  BY DEF PlanInv, SameShape
<1>2. ASSUME NEW p \in DOMAIN routing'
      PROVE  /\ IsFiniteSet(InFlight(p)')
             /\ Launched(p)' + Cardinality(InFlight(p)') + Len(routing'[p].pending)
                  <= routing'[p].planned
  <2>. DEFINE more == IF p = q THEN n ELSE 0
              sent == Launched(p)
              flying == Cardinality(InFlight(p))
              flyingNext == Cardinality(InFlight(p)')
              pending == routing[p].pending
              pendingNext == routing'[p].pending
              planned == routing[p].planned
  <2>1. p \in DOMAIN routing /\ more \in Nat
    BY <1>2 DEF SameShape
  <2>2. /\ IsFiniteSet(InFlight(p)) /\ sent + flying + Len(pending) <= planned
    BY <2>1 DEF PlanInv, PlannedOnce
  <2>3. Launched(p)' = sent
    BY LaunchedSame
  <2>4. PICK j : \A i \in DOMAIN frames :
          Loops(frames[i]) => i = j /\ frames[i].order = q /\ Len(frames[i].children) <= n
    BY DEF SendsAtMost
  <2>5. SendsOf(frames, p, more)
    BY <2>4 DEF IsLoopOver, Loops, SendsOf
  <2>6. IsFiniteSet(InFlight(p)') /\ flyingNext <= flying + more
    <3>. HIDE DEF more
    <3>. QED BY <2>1, <2>2, <2>5, PushedLoops
  <2>7. routing'[p].planned = planned /\ Len(pendingNext) + more <= Len(pending)
    BY <2>1 DEF PlansShrink
  <2>8. /\ Len(pending) \in Nat /\ Len(pendingNext) \in Nat /\ planned \in Nat
        /\ sent \in Nat /\ flying \in Nat /\ flyingNext \in Nat
    <3>1. routing[p] \in RoutingRecord /\ routing'[p] \in RoutingRecord
      BY <1>2, <2>1 DEF TablesInv
    <3>2. Len(pending) \in Nat /\ Len(pendingNext) \in Nat /\ planned \in Nat
      BY <3>1 DEF RoutingRecord
    <3>3. sent \in Nat /\ flying \in Nat /\ flyingNext \in Nat
      BY <2>2, <2>6, ChildrenAreFinite, FS_CardinalityType
    <3>. QED BY <3>2, <3>3
  <2>9. sent + flyingNext + Len(pendingNext) <= planned
    <3>. HIDE DEF more, sent, flying, flyingNext, pending, pendingNext, planned
    <3>. QED BY <2>1, <2>2, <2>6, <2>7, <2>8
  <2>. QED BY <2>3, <2>6, <2>7, <2>9
<1>. QED BY <1>1, <1>2 DEF PlanInv, PlannedOnce

\* The three counts of the fills of a parent move together.
FillsFollow ==
  \A p \in DOMAIN routing :
    /\ routing'[p].aggregation = routing[p].aggregation
    /\ orders[p].filled <= routing[p].filled => orders'[p].filled <= routing'[p].filled
    /\ routing[p].aggregation = "none" => orders'[p].filled = orders[p].filled
    /\ routing[p].filled <= ChildFills(p) => routing'[p].filled <= ChildFills(p)'

\* A step that moves the three counts together keeps what a parent shows backed.
LEMMA FillsStep ==
  ASSUME SameShape, ParentFillsAreChildFills, FillsFollow
  PROVE  ParentFillsAreChildFills'
<1>1. ASSUME NEW p \in DOMAIN routing'
      PROVE  /\ orders'[p].filled <= routing'[p].filled
             /\ routing'[p].filled <= ChildFills(p)'
             /\ routing'[p].aggregation = "none" => orders'[p].filled = 0
  <2>1. p \in DOMAIN routing
    BY <1>1 DEF SameShape
  <2>. QED BY <2>1 DEF ParentFillsAreChildFills, FillsFollow
<1>. QED BY <1>1 DEF ParentFillsAreChildFills

\* A step that touches neither plans nor fills.
Calm ==
  /\ SameShape /\ nextId' = nextId
  /\ \A p \in DOMAIN routing :
       /\ routing'[p].planned = routing[p].planned /\ routing'[p].pending = routing[p].pending
       /\ routing'[p].filled = routing[p].filled
       /\ routing'[p].aggregation = routing[p].aggregation
  /\ \A id \in DOMAIN orders : orders'[id].filled = orders[id].filled

\* Such a step keeps the children accounted for if it starts no loop.
LEMMA CalmStep ==
  ASSUME TablesInv, TablesInv', FramesInv, ChildrenInv, Calm,
         NEW t \in Threads, NEW frames, Adds(t, frames), NoLoops(frames)
  PROVE  ChildrenInv'
<1>1. SendsAtMost(frames, 0, 0)
  BY DEF NoLoops, SendsAtMost
<1>2. PlansShrink(0, 0)
  <2>1. ASSUME NEW p \in DOMAIN routing
        PROVE  /\ routing'[p].planned = routing[p].planned
               /\ Len(routing'[p].pending) + 0 <= Len(routing[p].pending)
    <3>1. routing'[p].pending = routing[p].pending /\ Len(routing[p].pending) \in Nat
      BY DEF Calm, TablesInv, RoutingRecord
    <3>. QED BY <3>1 DEF Calm
  <2>. QED BY <2>1 DEF PlansShrink
<1>3. PlanInv'
  <2>1. 0 \in Nat /\ SameShape /\ nextId' = nextId
    BY DEF Calm
  <2>. QED BY <1>1, <1>2, <2>1, PlanStep DEF ChildrenInv
<1>4. FillsFollow
  <2>1. ASSUME NEW p \in DOMAIN routing
        PROVE  ChildFills(p)' = ChildFills(p) /\ p \in DOMAIN orders
    BY ChildFillsSame DEF Calm, TablesInv
  <2>. QED BY <2>1 DEF FillsFollow, Calm
<1>5. ParentFillsAreChildFills'
  BY <1>4, FillsStep DEF ChildrenInv, Calm
<1>. QED BY <1>3, <1>5 DEF ChildrenInv
-----------------------------------------------------------------------------
(* The loops among the frames the operations make.                         *)

\* Two lists of frames in a row.
LEMMA ConcatenatedFrames ==
  ASSUME NEW a \in Seq(FrameRecord), NEW b \in Seq(FrameRecord)
  PROVE  /\ a \o b \in Seq(FrameRecord)
         /\ \A i \in DOMAIN (a \o b) :
              \/ i \in DOMAIN a /\ (a \o b)[i] = a[i]
              \/ i - Len(a) \in DOMAIN b /\ (a \o b)[i] = b[i - Len(a)] /\ i \in Nat
<1>1. a \o b \in Seq(FrameRecord) /\ Len(a) \in Nat
  OBVIOUS
<1>2. \A i \in DOMAIN (a \o b) :
        \/ i \in DOMAIN a /\ (a \o b)[i] = a[i]
        \/ i - Len(a) \in DOMAIN b /\ (a \o b)[i] = b[i - Len(a)] /\ i \in Nat
  BY <1>1
<1>. QED BY <1>1, <1>2

\* Two lists without loops make one.
LEMMA NoLoopsInARow ==
  ASSUME NEW a \in Seq(FrameRecord), NEW b \in Seq(FrameRecord), NoLoops(a), NoLoops(b)
  PROVE  NoLoops(a \o b)
<1>. DEFINE c == a \o b
<1>1. \A i \in DOMAIN c :
        \/ i \in DOMAIN a /\ c[i] = a[i]
        \/ i - Len(a) \in DOMAIN b /\ c[i] = b[i - Len(a)]
  BY ConcatenatedFrames
<1>. HIDE DEF c
<1>2. NoLoops(c)
  BY <1>1 DEF NoLoops
<1>. QED BY <1>2 DEF c

\* Frames without loops in front change nothing of what is sent.
LEMMA SendsInARow ==
  ASSUME NEW a \in Seq(FrameRecord), NEW b \in Seq(FrameRecord), NoLoops(a),
         NEW q, NEW n, SendsAtMost(b, q, n)
  PROVE  SendsAtMost(a \o b, q, n)
<1>. DEFINE c == a \o b
<1>1. \A i \in DOMAIN c :
        \/ i \in DOMAIN a /\ c[i] = a[i]
        \/ i - Len(a) \in DOMAIN b /\ c[i] = b[i - Len(a)] /\ i \in Nat
  BY ConcatenatedFrames
<1>2. Len(a) \in Nat
  OBVIOUS
<1>3. PICK j : \A i \in DOMAIN b :
        Loops(b[i]) => i = j /\ b[i].order = q /\ Len(b[i].children) <= n
  BY DEF SendsAtMost
<1>. HIDE DEF c
<1>4. \A i \in DOMAIN c : Loops(c[i]) =>
        i - Len(a) = j /\ i \in Nat /\ c[i].order = q /\ Len(c[i].children) <= n
  BY <1>1, <1>3 DEF NoLoops
<1>5. CASE \E i \in DOMAIN c : Loops(c[i])
  <2>1. PICK o \in DOMAIN c : Loops(c[o])
    BY <1>5
  <2>2. \A i \in DOMAIN c : Loops(c[i]) => i = o
    <3>1. ASSUME NEW i \in DOMAIN c, Loops(c[i]) PROVE i = o
      <4>1. i - Len(a) = o - Len(a) /\ i \in Nat /\ o \in Nat
        BY <1>4, <2>1, <3>1
      <4>. QED BY <1>2, <4>1
    <3>. QED BY <3>1
  <2>3. SendsAtMost(c, q, n)
    BY <1>4, <2>2 DEF SendsAtMost
  <2>. QED BY <2>3 DEF c
<1>6. CASE ~\E i \in DOMAIN c : Loops(c[i])
  <2>1. SendsAtMost(c, q, n)
    BY <1>6 DEF SendsAtMost
  <2>. QED BY <2>1 DEF c
<1>. QED BY <1>5, <1>6

\* Callbacks and changes of a status send nothing.
LEMMA FramesWithoutLoops ==
  /\ \A id, status : NoLoops(<<OrderCallback(id, status)>>)
  /\ \A id : NoLoops(<<FillCallback(id)>>)
  /\ \A id, status : NoLoops(<<SetLater(id, status)>>)
  /\ \A id : NoLoops(SubmitFrames(id))
  /\ NoLoops(<<>>)
<1>. USE DEF NoLoops, Loops, Frame
<1>1. \A id, status : NoLoops(<<OrderCallback(id, status)>>)
  BY DEF OrderCallback
<1>2. \A id : NoLoops(<<FillCallback(id)>>)
  BY DEF FillCallback
<1>3. \A id, status : NoLoops(<<SetLater(id, status)>>)
  BY DEF SetLater
<1>4. \A id : NoLoops(SubmitFrames(id))
  BY DEF SubmitFrames, OrderCallback, SetLater
<1>5. NoLoops(<<>>)
  OBVIOUS
<1>. HIDE DEF NoLoops
<1>. QED BY <1>1, <1>2, <1>3, <1>4, <1>5

\* The next child is the only one a report sends.
LEMMA FamilyFramesSend ==
  ASSUME NEW f \in FamilyRecord, Len(f.next) <= 1, NEW p \in Nat
  PROVE  /\ FamilyFrames(p, f) \in Seq(FrameRecord)
         /\ SendsAtMost(FamilyFrames(p, f), p, Len(f.next))
<1>. DEFINE told == [i \in DOMAIN f.updates |-> OrderCallback(p, f.updates[i])]
            next == [i \in DOMAIN f.next |-> NextChild(p, f.next[i])]
            fn == f.next
<1>1. f.updates \in Seq(Statuses) /\ f.next \in Seq(Nat)
  BY DEF FamilyRecord
<1>2. told \in Seq(FrameRecord) /\ NoLoops(told)
  <2>1. ASSUME NEW i \in DOMAIN f.updates
        PROVE  /\ OrderCallback(p, f.updates[i]) \in FrameRecord
               /\ ~Loops(OrderCallback(p, f.updates[i]))
    BY <1>1 DEF OrderCallback, Frame, FrameRecord, FrameKinds, Loops
  <2>2. told \in Seq(FrameRecord) /\ DOMAIN told = DOMAIN f.updates
    BY <1>1, <2>1
  <2>. QED BY <2>1, <2>2 DEF NoLoops
<1>3. next \in Seq(FrameRecord) /\ DOMAIN next = DOMAIN f.next
  <2>1. ASSUME NEW i \in DOMAIN f.next
        PROVE  NextChild(p, f.next[i]) \in FrameRecord
    BY <1>1 DEF NextChild, Frame, FrameRecord, FrameKinds
  <2>. QED BY <1>1, <2>1
<1>4. \A i \in DOMAIN next : next[i].order = p /\ Len(next[i].children) = 1
  <2>1. \A x : Len(<<x>>) = 1
    OBVIOUS
  <2>2. \A i \in DOMAIN next : next[i].order = p /\ next[i].children = <<f.next[i]>>
    BY <1>3 DEF NextChild, Frame
  <2>. HIDE DEF next
  <2>. QED BY <2>1, <2>2
<1>5. \A i \in DOMAIN next : i = 1 /\ Len(fn) = 1
  <2>1. DOMAIN next = 1..Len(fn) /\ Len(fn) <= 1 /\ Len(fn) \in Nat
    BY <1>1, <1>3
  <2>. HIDE DEF fn, next
  <2>. QED BY <2>1
<1>6. SendsAtMost(next, p, Len(fn))
  <2>. HIDE DEF next, fn
  <2>1. \A i \in DOMAIN next : i = 1 /\ next[i].order = p /\ Len(next[i].children) <= Len(fn)
    BY <1>4, <1>5
  <2>. QED BY <2>1 DEF SendsAtMost
<1>7. FamilyFrames(p, f) = told \o next
  BY DEF FamilyFrames
<1>. HIDE DEF told, next
<1>. QED BY <1>2, <1>3, <1>6, <1>7, SendsInARow, ConcatenatedFrames DEF fn
-----------------------------------------------------------------------------
(* Reports.                                                                *)

\* An order that no plan lists is rewritten.
LEMMA RewriteStep ==
  ASSUME TablesInv, TablesInv', FramesInv, ChildrenInv, SameShape, nextId' = nextId,
         NEW id \in DOMAIN orders, NEW updated \in OrderRecord, NEW lots \in Nat,
         updated.filled = orders[id].filled + lots, lots = 0 \/ id \notin DOMAIN routing,
         orders' = [orders EXCEPT ![id] = updated], routing' = routing,
         NEW t \in Threads, NEW frames, Adds(t, frames), NoLoops(frames)
  PROVE  ChildrenInv'
<1>1. orders'[id] = updated /\ \A c \in DOMAIN orders \ {id} : orders'[c] = orders[c]
  OBVIOUS
<1>2. orders[id].filled \in Nat
  BY DEF TablesInv, OrderRecord
<1>3. PlanInv'
  <2>1. SendsAtMost(frames, 0, 0) /\ 0 \in Nat
    BY DEF NoLoops, SendsAtMost
  <2>2. PlansShrink(0, 0)
    <3>1. ASSUME NEW p \in DOMAIN routing
          PROVE  Len(routing[p].pending) + 0 <= Len(routing[p].pending)
      <4>1. Len(routing[p].pending) \in Nat
        BY DEF TablesInv, RoutingRecord
      <4>. QED BY <4>1
    <3>. QED BY <3>1 DEF PlansShrink
  <2>. QED BY <2>1, <2>2, PlanStep DEF ChildrenInv
<1>4. ASSUME NEW p \in DOMAIN routing
      PROVE  routing[p].filled <= ChildFills(p) => routing[p].filled <= ChildFills(p)'
  <2>1. CASE orders[id].parent = p
    <3>1. ChildFills(p)' = ChildFills(p) + lots
      BY <1>1, <2>1, ChildFillsGrow
    <3>2. ChildFills(p) \in Nat /\ routing[p].filled \in Nat
      BY FillsAreNumbers DEF TablesInv, RoutingRecord
    <3>. QED BY <3>1, <3>2
  <2>2. CASE orders[id].parent # p
    <3>1. \A c \in DOMAIN orders : orders[c].parent = p => orders'[c].filled = orders[c].filled
      BY <1>1, <2>2
    <3>. QED BY <3>1, ChildFillsSame
  <2>. QED BY <2>1, <2>2
<1>5. ASSUME NEW p \in DOMAIN routing
      PROVE  orders'[p].filled = orders[p].filled
  BY <1>1, <1>2 DEF TablesInv
<1>6. FillsFollow
  BY <1>4, <1>5 DEF FillsFollow
<1>7. ParentFillsAreChildFills'
  BY <1>6, FillsStep DEF ChildrenInv
<1>. QED BY <1>3, <1>7 DEF ChildrenInv

\* A parent in the routing table is nobody's child.
LEMMA ParentsAreRoots ==
  ASSUME TablesInv, NEW p \in DOMAIN routing
  PROVE  p \in DOMAIN orders /\ p \in Nat \ {0} /\ orders[p].parent = 0 /\ orders[p].isParent
<1>1. p \in DOMAIN orders /\ p \in Nat \ {0} /\ orders[p].isParent
  BY DEF TablesInv, ParentsHavePlans
<1>. QED BY <1>1 DEF TablesInv, ChildrenAreNotRouted

\* A child is rewritten with its family.
LEMMA FamilyStep ==
  ASSUME TablesInv, TablesInv', FramesInv, ChildrenInv, SameShape, nextId' = nextId,
         NEW id \in DOMAIN parentOf, NEW updated \in OrderRecord, NEW lots \in Nat,
         updated.filled = orders[id].filled + lots,
         NEW f \in FamilyRecord, Accounts(Family(id), f, lots), Store(id, updated, f),
         NEW t \in Threads, NEW frames, Adds(t, frames),
         SendsAtMost(frames, parentOf[id], Len(f.next))
  PROVE  ChildrenInv'
<1>. DEFINE n == Len(f.next)
<1>0. PICK p : p = parentOf[id]
  OBVIOUS
<1>1. /\ p \in DOMAIN routing /\ p \in DOMAIN orders /\ id \in DOMAIN orders /\ p # id
      /\ orders[id].parent = p
  BY <1>0, FamilyOfChild DEF TablesInv, ChildrenKnowParents
<1>2. /\ orders[p].parent = 0 /\ p \in Nat \ {0} /\ id \notin DOMAIN routing
  <2>1. id \notin DOMAIN routing
    BY <1>1, ParentsAreRoots
  <2>. QED BY <1>1, <2>1, ParentsAreRoots
<1>3. /\ orders' = [orders EXCEPT ![id] = updated, ![p] = f.parent]
      /\ routing' = [routing EXCEPT ![p] = f.state]
  BY <1>0 DEF Store
<1>4. /\ Family(id).state = routing[p] /\ Family(id).parent = orders[p] /\ Family(id).next = <<>>
  BY <1>0 DEF Family
<1>5. n \in Nat /\ Len(f.state.pending) \in Nat /\ Len(routing[p].pending) \in Nat
  <2>1. routing[p] \in RoutingRecord
    BY <1>1 DEF TablesInv
  <2>2. routing[p].pending \in Seq(Nat)
    BY <2>1 DEF RoutingRecord
  <2>. QED BY <2>2, FamilyLengths
<1>6. /\ f.state.filled = routing[p].filled + lots
      /\ f.state.aggregation = routing[p].aggregation
      /\ f.state.planned = routing[p].planned
      /\ orders[p].filled <= routing[p].filled => f.parent.filled <= f.state.filled
      /\ routing[p].aggregation = "none" => f.parent.filled = orders[p].filled
      /\ Len(f.next) + Len(f.state.pending) <= Len(<<>>) + Len(routing[p].pending)
  BY <1>4 DEF Accounts
<1>7. /\ orders'[id] = updated /\ orders'[p] = f.parent
      /\ \A c \in DOMAIN orders : c # id /\ c # p => orders'[c] = orders[c]
      /\ routing'[p] = f.state
      /\ \A q \in DOMAIN routing : q # p => routing'[q] = routing[q]
  BY <1>1, <1>3
<1>8. PlanInv'
  <2>1. PlansShrink(p, n)
    <3>1. /\ f.state.planned = routing[p].planned
          /\ Len(f.state.pending) + n <= Len(routing[p].pending)
      <4>. DEFINE a == f.state.pending
                  b == routing[p].pending
      <4>1. n + Len(a) <= 0 + Len(b) /\ n \in Nat /\ Len(a) \in Nat /\ Len(b) \in Nat
        <5>1. Len(<<>>) = 0
          OBVIOUS
        <5>. QED BY <1>5, <1>6, <5>1
      <4>2. Len(a) + n <= Len(b)
        <5>. HIDE DEF a, b, n
        <5>. QED BY <4>1
      <4>. QED BY <1>6, <4>2
    <3>2. ASSUME NEW q \in DOMAIN routing, q # p
          PROVE  Len(routing[q].pending) + 0 <= Len(routing[q].pending)
      <4>1. Len(routing[q].pending) \in Nat
        BY DEF TablesInv, RoutingRecord
      <4>. QED BY <4>1
    <3>. HIDE DEF n
    <3>. QED BY <1>7, <3>1, <3>2 DEF PlansShrink
  <2>2. SendsAtMost(frames, p, n)
    BY <1>0
  <2>. HIDE DEF n
  <2>. QED BY <1>5, <2>1, <2>2, PlanStep DEF ChildrenInv
<1>9. FillsFollow
  <2>1. ASSUME NEW q \in DOMAIN routing, q # p
        PROVE  orders'[q] = orders[q] /\ routing'[q] = routing[q] /\ ChildFills(q)' = ChildFills(q)
    <3>1. q \in DOMAIN orders /\ q # id /\ q # 0
      BY <1>2, ParentsAreRoots
    <3>2. \A c \in DOMAIN orders : orders[c].parent = q => orders'[c].filled = orders[c].filled
      BY <1>1, <1>2, <1>7, <2>1, <3>1
    <3>. QED BY <1>7, <2>1, <3>1, <3>2, ChildFillsSame
  <2>2. routing[p].filled <= ChildFills(p) => routing'[p].filled <= ChildFills(p)'
    <3>1. \A c \in DOMAIN orders :
            orders[c].parent = p /\ c # id => orders'[c].filled = orders[c].filled
      BY <1>2, <1>7
    <3>2. ChildFills(p)' = ChildFills(p) + lots
      <4>1. orders'[id].filled = orders[id].filled + lots
        BY <1>7
      <4>. QED BY <1>1, <3>1, <4>1, ChildFillsGrow
    <3>3. ChildFills(p) \in Nat /\ routing[p].filled \in Nat
      BY <1>1, FillsAreNumbers DEF TablesInv, RoutingRecord
    <3>. QED BY <1>6, <1>7, <3>2, <3>3
  <2>3. /\ routing'[p].aggregation = routing[p].aggregation
        /\ orders[p].filled <= routing[p].filled => orders'[p].filled <= routing'[p].filled
        /\ routing[p].aggregation = "none" => orders'[p].filled = orders[p].filled
    BY <1>6, <1>7
  <2>4. ASSUME NEW q \in DOMAIN routing, q # p
        PROVE  /\ routing'[q].aggregation = routing[q].aggregation
               /\ orders[q].filled <= routing[q].filled => orders'[q].filled <= routing'[q].filled
               /\ routing[q].aggregation = "none" => orders'[q].filled = orders[q].filled
               /\ routing[q].filled <= ChildFills(q) => routing'[q].filled <= ChildFills(q)'
    BY <2>1, <2>4
  <2>5. ASSUME NEW q \in DOMAIN routing
        PROVE  /\ routing'[q].aggregation = routing[q].aggregation
               /\ orders[q].filled <= routing[q].filled => orders'[q].filled <= routing'[q].filled
               /\ routing[q].aggregation = "none" => orders'[q].filled = orders[q].filled
               /\ routing[q].filled <= ChildFills(q) => routing'[q].filled <= ChildFills(q)'
    <3>1. CASE q = p
      BY <2>2, <2>3, <3>1
    <3>2. CASE q # p
      BY <2>4, <3>2
    <3>. QED BY <3>1, <3>2
  <2>. QED BY <2>5 DEF FillsFollow
<1>10. ParentFillsAreChildFills'
  BY <1>9, FillsStep DEF ChildrenInv
<1>. QED BY <1>8, <1>10 DEF ChildrenInv

\* update_order_status(), called or due.
LEMMA SetStatusStep ==
  ASSUME TablesInv, FramesInv, ChildrenInv, NEW id \in DOMAIN orders, NEW status \in Statuses,
         SetStatus(id, status), UNCHANGED <<nextId, parentOf>>,
         NEW t \in Threads, Push(t, StatusFrames(id, status))
                            \/ (stack[t] # <<>> /\ Replace(t, StatusFrames(id, status)))
  PROVE  ChildrenInv'
<1>. DEFINE f == AfterChildStatus(Family(id), id, status)
            updated == [orders[id] EXCEPT !.status = status]
            frames == StatusFrames(id, status)
<1>1. TablesInv' /\ SameShape /\ Harmless(frames, orders', routing', parentOf)
  BY SetStatusKeepsInv
<1>2. Adds(t, frames)
  BY <1>1 DEF Harmless, Adds
<1>3. /\ updated \in OrderRecord /\ updated.filled = orders[id].filled + 0 /\ id \in Nat
  <2>1. orders[id] \in OrderRecord /\ id \in Nat
    BY DEF TablesInv
  <2>. QED BY <2>1 DEF OrderRecord
<1>4. Store(id, updated, f)
  BY DEF SetStatus
<1>5. CASE id \notin DOMAIN parentOf
  <2>1. orders' = [orders EXCEPT ![id] = updated] /\ routing' = routing
    BY <1>4, <1>5 DEF Store
  <2>2. NoLoops(frames)
    BY <1>5, FramesWithoutLoops DEF StatusFrames
  <2>. HIDE DEF updated, frames
  <2>3. nextId' = nextId /\ 0 \in Nat
    OBVIOUS
  <2>. QED BY <1>1, <1>2, <1>3, <2>1, <2>2, <2>3, RewriteStep
<1>6. CASE id \in DOMAIN parentOf
  <2>1. Family(id) \in FamilyRecord /\ Family(id).next = <<>>
    BY <1>6, FamilyOfChild DEF Family
  <2>2. f \in FamilyRecord /\ Accounts(Family(id), f, 0)
    BY <1>3, <2>1, ChildStatusAccounts, ChildStatusKeepsFamily DEF SameFamily
  <2>3. SendsAtMost(frames, parentOf[id], Len(f.next))
    <3>. DEFINE own == <<OrderCallback(id, status)>>
    <3>1. frames = own \o FamilyFrames(parentOf[id], f)
      BY <1>6 DEF StatusFrames
    <3>2. own \in Seq(FrameRecord) /\ NoLoops(own)
      <4>1. Harmless(own, orders, routing, parentOf)
        BY <1>3, FramesThatFit
      <4>. QED BY <4>1, FramesWithoutLoops DEF Harmless
    <3>3. parentOf[id] \in Nat
      BY <1>6, FamilyOfChild DEF TablesInv
    <3>4. Len(f.next) <= 1
      <4>. DEFINE fn == f.next
      <4>1. fn \in Seq(Nat) /\ (fn = <<>> \/ Len(fn) = 1)
        BY <2>1, <2>2 DEF Accounts, FamilyRecord
      <4>. HIDE DEF fn
      <4>2. Len(fn) <= 1
        <5>1. CASE fn = <<>>
          BY <5>1
        <5>2. CASE Len(fn) = 1
          BY <5>2
        <5>. QED BY <4>1, <5>1, <5>2
      <4>. QED BY <4>2 DEF fn
    <3>. HIDE DEF f, own, frames
    <3>. QED BY <2>2, <3>1, <3>2, <3>3, <3>4, FamilyFramesSend, SendsInARow
  <2>. HIDE DEF f, updated, frames
  <2>4. nextId' = nextId /\ 0 \in Nat
    OBVIOUS
  <2>. QED BY <1>1, <1>2, <1>3, <1>4, <1>6, <2>2, <2>3, <2>4, FamilyStep
<1>. QED BY <1>5, <1>6

(* The steps of the callers.                                               *)

\* A callback, or a change of a status, as the only frame.
LEMMA SingleFrames ==
  ASSUME TablesInv, NEW id \in DOMAIN orders, NEW status \in Statuses
  PROVE  /\ id \in Nat
         /\ <<OrderCallback(id, status)>> \in Seq(FrameRecord)
         /\ <<FillCallback(id)>> \in Seq(FrameRecord)
         /\ <<SetLater(id, status)>> \in Seq(FrameRecord)
         /\ SubmitFrames(id) \in Seq(FrameRecord)
<1>1. id \in Nat
  BY DEF TablesInv
<1>2. Harmless(SubmitFrames(id), orders, routing, parentOf)
  BY <1>1, SubmitFramesAreHarmless
<1>. QED BY <1>1, <1>2, FramesThatFit DEF Harmless

\* cancel_order(): callbacks, and a change of status for each child.
LEMMA CancelOrderStep ==
  ASSUME TablesInv, FramesInv, ChildrenInv, NEW t \in Threads, NEW id \in DOMAIN orders,
         CancelOrder(t, id)
  PROVE  ChildrenInv'
<1>. DEFINE children == IF id \in DOMAIN routing THEN routing[id].submitted ELSE <<>>
            sets == [i \in DOMAIN children |-> SetLater(children[i], "cancelled")]
            own == <<OrderCallback(id, "cancelled")>>
            frames == own \o sets
<1>1. TablesInv' /\ "cancelled" \in Statuses
  BY CancelOrderKeepsInv DEF Statuses
<1>2. /\ orders' = [orders EXCEPT ![id].status = "cancelled"]
      /\ Push(t, frames)
      /\ UNCHANGED <<nextId, routing, parentOf>>
  BY DEF CancelOrder
<1>3. Calm
  BY <1>2 DEF Calm, SameShape, TablesInv, OrderRecord
<1>4. sets \in Seq(FrameRecord) /\ NoLoops(sets)
  <2>1. children \in Seq(Nat)
    BY DEF TablesInv, RoutingRecord
  <2>. HIDE DEF children
  <2>2. <<>> \in Seq(Nat)
    OBVIOUS
  <2>3. ASSUME NEW i \in DOMAIN children
        PROVE  /\ SetLater(children[i], "cancelled") \in FrameRecord
               /\ ~Loops(SetLater(children[i], "cancelled"))
    BY <1>1, <2>1, <2>2 DEF SetLater, Frame, FrameRecord, FrameKinds, Loops
  <2>4. sets \in Seq(FrameRecord) /\ DOMAIN sets = DOMAIN children
    BY <2>1, <2>3
  <2>. QED BY <2>3, <2>4 DEF NoLoops
<1>5. own \in Seq(FrameRecord) /\ NoLoops(own)
  BY <1>1, SingleFrames, FramesWithoutLoops
<1>. HIDE DEF own, sets
<1>6. Adds(t, frames) /\ NoLoops(frames)
  BY <1>2, <1>4, <1>5, NoLoopsInARow, ConcatenatedFrames DEF Adds
<1>. HIDE DEF frames
<1>. QED BY <1>1, <1>3, <1>6, CalmStep

\* modify_order(): at most a callback.
LEMMA ModifyOrderStep ==
  ASSUME TablesInv, FramesInv, ChildrenInv, NEW t \in Threads, NEW id \in DOMAIN orders,
         NEW quantity \in Quantities \cup {0}, ModifyOrder(t, id, quantity)
  PROVE  ChildrenInv'
<1>. DEFINE own == <<OrderCallback(id, orders[id].status)>>
            frames == IF quantity > 0 THEN own ELSE <<>>
<1>1. TablesInv' /\ orders[id].status \in Statuses
  BY ModifyOrderKeepsInv DEF TablesInv, OrderRecord
<1>2. /\ orders' = [orders EXCEPT ![id].quantity = quantity]
      /\ Push(t, frames)
      /\ UNCHANGED <<nextId, routing, parentOf>>
  BY DEF ModifyOrder
<1>3. Calm
  BY <1>2 DEF Calm, SameShape, TablesInv, OrderRecord
<1>4. own \in Seq(FrameRecord) /\ NoLoops(own) /\ NoLoops(<<>>) /\ <<>> \in Seq(FrameRecord)
  BY <1>1, SingleFrames, FramesWithoutLoops
<1>5. Adds(t, frames) /\ NoLoops(frames)
  BY <1>2, <1>4 DEF Adds
<1>. HIDE DEF frames
<1>. QED BY <1>1, <1>3, <1>5, CalmStep

\* A callback returns: its frame goes.
LEMMA ReturnStep ==
  ASSUME TablesInv, FramesInv, ChildrenInv, NEW t \in Threads, Return(t)
  PROVE  ChildrenInv'
<1>. DEFINE none == <<>>
<1>1. /\ TablesInv' /\ stack[t] # <<>> /\ Replace(t, none)
      /\ UNCHANGED <<nextId, orders, routing, parentOf>>
  BY ReturnKeepsInv DEF Return, Todo
<1>2. Calm
  BY <1>1 DEF Calm, SameShape
<1>3. none \in Seq(FrameRecord) /\ NoLoops(none)
  BY FramesWithoutLoops
<1>4. Adds(t, none)
  BY <1>1, <1>3 DEF Adds
<1>. HIDE DEF none
<1>. QED BY <1>1, <1>2, <1>3, <1>4, CalmStep

\* A loop that is given up leaves a change of status, or nothing.
LEMMA LaunchFailsStep ==
  ASSUME TablesInv, FramesInv, ChildrenInv, NEW t \in Threads, LaunchFails(t)
  PROVE  ChildrenInv'
<1>. DEFINE id == Head(stack[t]).order
            set == <<SetLater(id, "rejected")>>
            frames == IF Head(stack[t]).kind = "activate" THEN set ELSE <<>>
<1>1. /\ Todo(t, {"activate", "next"}) /\ Replace(t, frames)
      /\ UNCHANGED <<nextId, orders, routing, parentOf>>
  BY DEF LaunchFails
<1>2. TablesInv' /\ stack[t] # <<>> /\ id \in DOMAIN orders /\ "rejected" \in Statuses
  BY <1>1, TopFrame, LaunchFailsKeepsInv DEF Fits, Statuses
<1>3. Calm
  BY <1>1 DEF Calm, SameShape
<1>4. set \in Seq(FrameRecord) /\ NoLoops(set) /\ NoLoops(<<>>) /\ <<>> \in Seq(FrameRecord)
  <2>. HIDE DEF id
  <2>. QED BY <1>2, SingleFrames, FramesWithoutLoops
<1>. HIDE DEF set
<1>5. Adds(t, frames) /\ NoLoops(frames)
  BY <1>1, <1>2, <1>4 DEF Adds
<1>. HIDE DEF frames
<1>. QED BY <1>2, <1>3, <1>5, CalmStep

\* The second half of submit_child_order() lists the child.
LEMMA AdoptChildStep ==
  ASSUME TablesInv, FramesInv, ChildrenInv, NEW t \in Threads, AdoptChild(t)
  PROVE  ChildrenInv'
<1>. DEFINE none == <<>>
            child == Head(stack[t]).order
            parent == orders[child].parent
<1>1. /\ Todo(t, {"adopt"}) /\ Replace(t, none)
      /\ routing' = [routing EXCEPT ![parent].submitted = Append(@, child)]
      /\ UNCHANGED <<nextId, orders>>
  BY DEF AdoptChild
<1>2. TablesInv' /\ stack[t] # <<>>
  BY <1>1, AdoptChildKeepsInv, TopFrame
<1>. HIDE DEF child, parent
<1>3. Calm
  BY <1>1 DEF Calm, SameShape, TablesInv, RoutingRecord
<1>4. none \in Seq(FrameRecord) /\ NoLoops(none)
  BY FramesWithoutLoops
<1>5. Adds(t, none)
  BY <1>1, <1>2, <1>4 DEF Adds
<1>. HIDE DEF none
<1>. QED BY <1>2, <1>3, <1>4, <1>5, CalmStep

\* update_order_status(), called by a caller or due.
LEMMA StatusSteps ==
  ASSUME TablesInv, FramesInv, ChildrenInv, NEW t \in Threads,
         \/ StepSet(t)
         \/ \E id \in DOMAIN orders : \E status \in ReportedStatuses :
              UpdateOrderStatus(t, id, status)
  PROVE  ChildrenInv'
<1>1. ASSUME NEW id \in DOMAIN orders, NEW status \in ReportedStatuses,
             UpdateOrderStatus(t, id, status)
      PROVE  ChildrenInv'
  <2>1. status \in Statuses
    BY OrderAssumption
  <2>2. /\ SetStatus(id, status) /\ Push(t, StatusFrames(id, status))
        /\ UNCHANGED <<nextId, parentOf>>
    BY <1>1 DEF UpdateOrderStatus
  <2>. QED BY <2>1, <2>2, SetStatusStep
<1>2. ASSUME StepSet(t)
      PROVE  ChildrenInv'
  <2>. DEFINE id == Head(stack[t]).order
              status == Head(stack[t]).status
  <2>1. /\ Todo(t, {"set"}) /\ SetStatus(id, status) /\ Replace(t, StatusFrames(id, status))
        /\ UNCHANGED <<nextId, parentOf>>
    BY <1>2 DEF StepSet
  <2>2. stack[t] # <<>> /\ id \in DOMAIN orders /\ status \in Statuses
    BY <2>1, TopFrame DEF Fits
  <2>. HIDE DEF id, status
  <2>. QED BY <2>1, <2>2, SetStatusStep
<1>. QED BY <1>1, <1>2

\* What process_fill() makes of an order and of its family.
FilledOrder(id, lots) ==
  LET filled == orders[id].filled + lots
  IN  [orders[id] EXCEPT !.filled = filled, !.status = FillStatus(filled, orders[id].quantity)]

FilledFamily(id, lots) ==
  LET status == FillStatus(orders[id].filled + lots, orders[id].quantity)
      reported == AfterChildFill(Family(id), lots)
  IN  IF status = "filled" THEN AfterChildStatus(reported, id, status) ELSE reported

\* The lots of a fill reach the order, and the counts of its family.
LEMMA FillAccounts ==
  ASSUME TablesInv, NEW id \in DOMAIN orders, NEW lots \in Nat
  PROVE  /\ FilledOrder(id, lots) \in OrderRecord
         /\ FilledOrder(id, lots).filled = orders[id].filled + lots
         /\ FilledOrder(id, lots).parent = orders[id].parent
         /\ FilledOrder(id, lots).isParent = orders[id].isParent
         /\ id \in DOMAIN parentOf =>
              /\ FilledFamily(id, lots) \in FamilyRecord
              /\ Accounts(Family(id), FilledFamily(id, lots), lots)
              /\ Len(FilledFamily(id, lots).next) <= 1
              /\ FilledFamily(id, lots).parent.parent = orders[parentOf[id]].parent
<1>. DEFINE filled == orders[id].filled + lots
            status == FillStatus(filled, orders[id].quantity)
            reported == AfterChildFill(Family(id), lots)
            final == AfterChildStatus(reported, id, status)
<1>1. /\ id \in Nat /\ orders[id] \in OrderRecord /\ filled \in Nat /\ status \in Statuses
  <2>1. id \in Nat /\ orders[id] \in OrderRecord /\ filled \in Nat
    BY DEF TablesInv, OrderRecord
  <2>2. status \in Statuses
    BY StatusesOfFills
  <2>. QED BY <2>1, <2>2
<1>2. FilledOrder(id, lots) = [orders[id] EXCEPT !.filled = filled, !.status = status]
  BY DEF FilledOrder
<1>3. FilledFamily(id, lots) = IF status = "filled" THEN final ELSE reported
  BY DEF FilledFamily
<1>. HIDE DEF status, filled
<1>4. /\ FilledOrder(id, lots) \in OrderRecord
      /\ FilledOrder(id, lots).filled = filled
      /\ FilledOrder(id, lots).parent = orders[id].parent
      /\ FilledOrder(id, lots).isParent = orders[id].isParent
  BY <1>1, <1>2 DEF OrderRecord
<1>5. ASSUME id \in DOMAIN parentOf
      PROVE  /\ FilledFamily(id, lots) \in FamilyRecord
             /\ Accounts(Family(id), FilledFamily(id, lots), lots)
             /\ Len(FilledFamily(id, lots).next) <= 1
             /\ FilledFamily(id, lots).parent.parent = orders[parentOf[id]].parent
  <2>1. Family(id) \in FamilyRecord /\ Family(id).next = <<>>
    BY <1>5, FamilyOfChild DEF Family
  <2>2. reported \in FamilyRecord /\ reported.next = <<>> /\ Accounts(Family(id), reported, lots)
    <3>1. reported \in FamilyRecord
      BY <2>1, ChildFillKeepsFamily DEF SameFamily
    <3>2. reported.next = Family(id).next
      BY <2>1 DEF AfterChildFill, FamilyRecord
    <3>. QED BY <2>1, <3>1, <3>2, ChildFillAccounts
  <2>0. reported.parent.parent = orders[parentOf[id]].parent
    BY <2>1, ChildFillKeepsFamily DEF SameFamily, Family
  <2>. HIDE DEF reported
  <2>3. /\ final \in FamilyRecord /\ Accounts(reported, final, 0)
        /\ final.parent.parent = reported.parent.parent
    BY <1>1, <2>2, ChildStatusAccounts, ChildStatusKeepsFamily DEF SameFamily
  <2>. HIDE DEF final
  <2>4. Accounts(Family(id), final, lots)
    BY <2>1, <2>2, <2>3, AccountsCompose
  <2>5. ASSUME NEW f \in FamilyRecord, Accounts(Family(id), f, lots)
        PROVE  Len(f.next) <= 1
    <3>. DEFINE fn == f.next
    <3>1. fn \in Seq(Nat) /\ (fn = <<>> \/ Len(fn) = 1)
      BY <2>1, <2>5 DEF Accounts, FamilyRecord
    <3>. HIDE DEF fn
    <3>2. Len(fn) <= 1
      <4>1. CASE fn = <<>>
        BY <4>1
      <4>2. CASE Len(fn) = 1
        BY <4>2
      <4>. QED BY <3>1, <4>1, <4>2
    <3>. QED BY <3>2 DEF fn
  <2>6. /\ FilledFamily(id, lots) \in FamilyRecord
        /\ Accounts(Family(id), FilledFamily(id, lots), lots)
    BY <1>3, <2>2, <2>3, <2>4
  <2>. QED BY <1>3, <2>0, <2>3, <2>5, <2>6
<1>. QED BY <1>4, <1>5 DEF filled

\* process_fill(): lots are filled of an order, and its family follows.
LEMMA ProcessFillStep ==
  ASSUME TablesInv, FramesInv, ChildrenInv, NEW t \in Threads, NEW id \in DOMAIN orders,
         NEW lots \in FillSizes, ProcessFill(t, id, lots)
  PROVE  ChildrenInv'
<1>. DEFINE status == FillStatus(orders[id].filled + lots, orders[id].quantity)
            updated == FilledOrder(id, lots)
            family == FilledFamily(id, lots)
            fill == <<FillCallback(id)>>
            update == <<OrderCallback(id, status)>>
            own == <<FillCallback(id), OrderCallback(id, status)>>
            frames == IF id \in DOMAIN parentOf
                        THEN own \o FamilyFrames(parentOf[id], family) ELSE own
<1>1. TablesInv' /\ lots \in Nat
  BY ProcessFillKeepsInv, OrderAssumption
<1>3. /\ ~orders[id].isParent /\ Store(id, updated, family)
      /\ nextId' = nextId /\ parentOf' = parentOf
  BY DEF ProcessFill, FilledOrder, FilledFamily
<1>5. status \in Statuses
  BY StatusesOfFills
<1>. HIDE DEF status
<1>2. own = <<FillCallback(id)>> \o <<OrderCallback(id, status)>>
  OBVIOUS
<1>4. Push(t, frames)
  BY DEF ProcessFill, FilledFamily, status
<1>6. /\ fill \in Seq(FrameRecord) /\ NoLoops(fill)
      /\ update \in Seq(FrameRecord) /\ NoLoops(update)
  BY <1>5, SingleFrames, FramesWithoutLoops
<1>7. own \in Seq(FrameRecord) /\ NoLoops(own)
  <2>. HIDE DEF fill, update, own
  <2>1. own = fill \o update
    BY <1>2 DEF fill, update
  <2>. QED BY <2>1, <1>6, NoLoopsInARow, ConcatenatedFrames
<1>. HIDE DEF own
<1>8. /\ updated \in OrderRecord /\ updated.filled = orders[id].filled + lots
      /\ updated.parent = orders[id].parent
      /\ id \in DOMAIN parentOf =>
           /\ family \in FamilyRecord /\ Accounts(Family(id), family, lots)
           /\ Len(family.next) <= 1
           /\ family.parent.parent = orders[parentOf[id]].parent
  BY <1>1, FillAccounts
<1>. HIDE DEF updated, family
<1>9. id \notin DOMAIN routing
  BY <1>3, ParentsAreRoots
<1>10. CASE id \notin DOMAIN parentOf
  <2>1. /\ orders' = [orders EXCEPT ![id] = updated] /\ routing' = routing
        /\ Adds(t, frames) /\ NoLoops(frames)
    BY <1>3, <1>4, <1>7, <1>10 DEF Store, Adds
  <2>2. SameShape
    BY <1>8, <2>1 DEF SameShape, TablesInv
  <2>. HIDE DEF frames
  <2>. QED BY <1>1, <1>3, <1>8, <1>9, <2>1, <2>2, RewriteStep
<1>11. CASE id \in DOMAIN parentOf
  <2>1. parentOf[id] \in Nat /\ parentOf[id] \in DOMAIN routing /\ parentOf[id] \in DOMAIN orders
    BY <1>11, FamilyOfChild DEF TablesInv
  <2>2. frames = own \o FamilyFrames(parentOf[id], family)
    BY <1>11
  <2>3. /\ FamilyFrames(parentOf[id], family) \in Seq(FrameRecord)
        /\ SendsAtMost(FamilyFrames(parentOf[id], family), parentOf[id], Len(family.next))
    BY <1>8, <1>11, <2>1, FamilyFramesSend
  <2>. DEFINE theirs == FamilyFrames(parentOf[id], family)
              n == Len(family.next)
  <2>. HIDE DEF frames, theirs, n
  <2>7. /\ own \o theirs \in Seq(FrameRecord)
        /\ SendsAtMost(own \o theirs, parentOf[id], n)
    <3>1. theirs \in Seq(FrameRecord) /\ SendsAtMost(theirs, parentOf[id], n)
      BY <2>3 DEF theirs, n
    <3>. QED BY <1>7, <3>1, SendsInARow, ConcatenatedFrames
  <2>4. frames \in Seq(FrameRecord) /\ SendsAtMost(frames, parentOf[id], Len(family.next))
    BY <2>2, <2>7 DEF theirs, n
  <2>5. Adds(t, frames)
    BY <1>4, <2>4 DEF Adds
  <2>6. SameShape
    <3>1. family.parent.parent = orders[parentOf[id]].parent
      BY <1>8, <1>11
    <3>. QED BY <1>3, <1>8, <1>11, <2>1, <3>1 DEF SameShape, Store, TablesInv
  <2>. QED BY <1>1, <1>3, <1>8, <1>11, <2>4, <2>5, <2>6, FamilyStep
<1>. QED BY <1>10, <1>11

\* activate_routed_order(): children leave the plan for the loop that sends them.
LEMMA ActivateRoutedOrderStep ==
  ASSUME TablesInv, FramesInv, ChildrenInv, NEW t \in Threads, NEW id \in DOMAIN routing,
         ActivateRoutedOrder(t, id)
  PROVE  ChildrenInv'
<1>. DEFINE pending == routing[id].pending
            sent == IF routing[id].mode = "parallel" THEN Len(pending)
                                                     ELSE Lesser(1, Len(pending))
            children == SubSeq(pending, 1, sent)
            left == SubSeq(pending, sent + 1, Len(pending))
            loop == Activation(id, children)
            frames == <<loop>>
<1>1. /\ routing' = [routing EXCEPT ![id].activated = TRUE, ![id].pending = left]
      /\ Push(t, frames) /\ UNCHANGED <<nextId, orders, parentOf>>
  BY DEF ActivateRoutedOrder
<1>2. TablesInv' /\ SameShape
  BY <1>1, ActivateRoutedOrderKeepsInv DEF SameShape
<1>3. id \in Nat /\ routing[id] \in RoutingRecord /\ pending \in Seq(Nat)
  BY DEF TablesInv, RoutingRecord
<1>4. Len(pending) \in Nat /\ sent \in 0..Len(pending)
  BY <1>3 DEF Lesser
<1>. HIDE DEF sent
<1>5. /\ Len(left) = Len(pending) - sent /\ Len(children) = sent
      /\ children \in Seq(Nat) /\ left \in Seq(Nat)
  <2>. HIDE DEF pending
  <2>1. \A s \in Seq(Nat), m, n \in Nat : n <= Len(s) /\ m <= n + 1 /\ m >= 1 =>
          SubSeq(s, m, n) \in Seq(Nat) /\ Len(SubSeq(s, m, n)) = n - m + 1
    <3>1. ASSUME NEW s \in Seq(Nat), NEW m \in Nat, NEW n \in Nat, n <= Len(s), m <= n + 1, m >= 1
          PROVE  SubSeq(s, m, n) \in Seq(Nat) /\ Len(SubSeq(s, m, n)) = n - m + 1
      BY <3>1, SubSeqProperties
    <3>. QED BY <3>1
  <2>. QED BY <1>3, <1>4, <2>1
<1>6. frames \in Seq(FrameRecord) /\ SendsAtMost(frames, id, sent)
  <2>1. loop \in FrameRecord /\ loop.order = id /\ loop.children = children
    BY <1>3, <1>5 DEF Activation, Frame, FrameRecord, FrameKinds
  <2>. HIDE DEF loop, children, left, pending
  <2>2. frames \in Seq(FrameRecord) /\ DOMAIN frames = {1} /\ frames[1] = loop
    BY <2>1
  <2>3. Len(children) <= sent
    BY <1>4, <1>5
  <2>. HIDE DEF frames
  <2>4. \A i \in DOMAIN frames :
          Loops(frames[i]) => i = 1 /\ frames[i].order = id /\ Len(frames[i].children) <= sent
    BY <2>1, <2>2, <2>3
  <2>. QED BY <2>2, <2>4 DEF SendsAtMost
<1>. HIDE DEF left, children, loop, frames
<1>7. Adds(t, frames)
  BY <1>1, <1>6 DEF Adds
<1>8. /\ routing'[id].pending = left /\ routing'[id].planned = routing[id].planned
      /\ \A p \in DOMAIN routing :
           /\ p # id => routing'[p] = routing[p]
           /\ routing'[p].filled = routing[p].filled
           /\ routing'[p].aggregation = routing[p].aggregation
  BY <1>1 DEF TablesInv, RoutingRecord
<1>9. PlansShrink(id, sent)
  <2>1. ASSUME NEW p \in DOMAIN routing
        PROVE  /\ routing'[p].planned = routing[p].planned
               /\ Len(routing'[p].pending) + (IF p = id THEN sent ELSE 0) <= Len(routing[p].pending)
    <3>1. CASE p = id
      <4>1. Len(left) + sent <= Len(pending)
        <5>. HIDE DEF pending
        <5>. QED BY <1>4, <1>5
      <4>. QED BY <1>8, <3>1, <4>1
    <3>2. CASE p # id
      <4>1. Len(routing[p].pending) \in Nat
        BY DEF TablesInv, RoutingRecord
      <4>. QED BY <1>8, <3>2, <4>1
    <3>. QED BY <3>1, <3>2
  <2>. QED BY <2>1 DEF PlansShrink
<1>10. PlanInv'
  <2>1. sent \in Nat /\ nextId' = nextId
    BY <1>1, <1>4
  <2>. QED BY <1>2, <1>6, <1>7, <1>9, <2>1, PlanStep DEF ChildrenInv
<1>11. FillsFollow
  <2>1. ASSUME NEW p \in DOMAIN routing
        PROVE  ChildFills(p)' = ChildFills(p)
    BY <1>1, <1>2, ChildFillsSame
  <2>. QED BY <1>1, <1>8, <2>1 DEF FillsFollow
<1>12. ParentFillsAreChildFills'
  BY <1>2, <1>11, FillsStep DEF ChildrenInv
<1>. QED BY <1>10, <1>12 DEF ChildrenInv

\* Nothing is sent yet for an order that does not exist.
LEMMA NothingInFlight ==
  ASSUME TablesInv, FramesInv
  PROVE  InFlight(nextId) = {}
<1>1. ASSUME NEW x \in InFlight(nextId)
      PROVE  FALSE
  <2>1. IsPlace(x, stack, nextId)
    BY InFlightPlaces, PlacesOfLoops
  <2>2. PICK u \in Threads : \E i \in DOMAIN stack[u] : IsLoopOver(stack[u][i], nextId)
    BY <2>1 DEF IsPlace
  <2>3. PICK i \in DOMAIN stack[u] : stack[u][i].order = nextId
    BY <2>2 DEF IsLoopOver
  <2>4. nextId \in DOMAIN orders
    BY <2>3 DEF FramesInv, Fits
  <2>. QED BY <2>4 DEF TablesInv
<1>. QED BY <1>1

\* An order is added to the table, and perhaps a plan for it.
PlanAdded ==
  /\ DOMAIN routing \subseteq DOMAIN routing'
  /\ DOMAIN routing' \subseteq DOMAIN routing \cup {nextId}
  /\ \A p \in DOMAIN routing : routing'[p] = routing[p]
  /\ nextId \in DOMAIN routing' =>
       /\ routing'[nextId].filled = 0
       /\ routing'[nextId].planned = Len(routing'[nextId].pending)

\* submit_order(): the new order has no children, and its plan is untouched.
LEMMA SubmittedStep ==
  ASSUME TablesInv, TablesInv', FramesInv, ChildrenInv, nextId' = nextId + 1,
         OrderAdded(0), PlanAdded,
         NEW t \in Threads, NEW frames, Adds(t, frames), NoLoops(frames)
  PROVE  ChildrenInv'
<1>1. \A id \in DOMAIN orders' : orders'[id].parent < nextId'
  <2>1. ASSUME NEW id \in DOMAIN orders
        PROVE  orders'[id].parent < nextId'
    <3>1. orders[id].parent < nextId /\ orders[id].parent \in Nat /\ nextId \in Nat
      BY DEF ChildrenInv, PlanInv, TablesInv, OrderRecord
    <3>. QED BY <3>1 DEF OrderAdded
  <2>2. orders'[nextId].parent < nextId'
    BY DEF OrderAdded, TablesInv
  <2>. QED BY <2>1, <2>2 DEF OrderAdded
<1>2. ASSUME NEW p, IsFiniteSet(InFlight(p))
      PROVE  /\ IsFiniteSet(InFlight(p)')
             /\ Cardinality(InFlight(p)') <= Cardinality(InFlight(p))
             /\ Cardinality(InFlight(p)') \in Nat /\ Cardinality(InFlight(p)) \in Nat
  <2>1. 0 \in Nat /\ SendsOf(frames, p, 0)
    BY DEF SendsOf, NoLoops, Loops, IsLoopOver
  <2>2. /\ IsFiniteSet(InFlight(p)')
        /\ Cardinality(InFlight(p)') <= Cardinality(InFlight(p)) + 0
    BY <1>2, <2>1, PushedLoops
  <2>3. Cardinality(InFlight(p)') \in Nat /\ Cardinality(InFlight(p)) \in Nat
    BY <1>2, <2>2, FS_CardinalityType
  <2>. QED BY <2>2, <2>3
<1>3. ASSUME NEW p, p # 0
      PROVE  Launched(p)' = Launched(p) /\ Launched(p) \in Nat
  <2>1. Launched(p)' = Launched(p) + (IF p = 0 THEN 1 ELSE 0) /\ Launched(p) \in Nat
    BY LaunchedAdded, ChildrenAreFinite
  <2>. QED BY <1>3, <2>1
<1>4. ASSUME NEW p \in DOMAIN routing
      PROVE  /\ IsFiniteSet(InFlight(p)')
             /\ Launched(p)' + Cardinality(InFlight(p)') + Len(routing'[p].pending)
                  <= routing'[p].planned
  <2>. DEFINE flying == Cardinality(InFlight(p))
              flyingNext == Cardinality(InFlight(p)')
              sent == Launched(p)
              left == Len(routing[p].pending)
              planned == routing[p].planned
  <2>1. routing'[p] = routing[p] /\ p # 0
    BY ParentsAreRoots DEF PlanAdded
  <2>2. IsFiniteSet(InFlight(p)) /\ sent + flying + left <= planned
    BY DEF ChildrenInv, PlanInv, PlannedOnce
  <2>3. /\ IsFiniteSet(InFlight(p)') /\ flyingNext <= flying
        /\ flyingNext \in Nat /\ flying \in Nat
    BY <1>2, <2>2
  <2>4. Launched(p)' = sent /\ sent \in Nat
    BY <1>3, <2>1
  <2>5. left \in Nat /\ planned \in Nat
    BY DEF TablesInv, RoutingRecord
  <2>6. sent + flyingNext + left <= planned
    <3>. HIDE DEF flying, flyingNext, sent, left, planned
    <3>. QED BY <2>2, <2>3, <2>4, <2>5
  <2>. QED BY <2>1, <2>3, <2>4, <2>6
<1>5. ASSUME NEW p \in DOMAIN routing', p = nextId
      PROVE  /\ IsFiniteSet(InFlight(p)')
             /\ Launched(p)' + Cardinality(InFlight(p)') + Len(routing'[p].pending)
                  <= routing'[p].planned
  <2>. DEFINE flyingNext == Cardinality(InFlight(p)')
              left == Len(routing'[p].pending)
              planned == routing'[p].planned
  <2>1. InFlight(p) = {}
    BY <1>5, NothingInFlight
  <2>2. IsFiniteSet(InFlight(p)) /\ Cardinality(InFlight(p)) = 0
    BY <2>1, FS_EmptySet
  <2>3. IsFiniteSet(InFlight(p)') /\ flyingNext = 0
    <3>1. /\ IsFiniteSet(InFlight(p)') /\ flyingNext <= Cardinality(InFlight(p))
          /\ flyingNext \in Nat
      BY <1>2, <2>2
    <3>. HIDE DEF flyingNext
    <3>. QED BY <2>2, <3>1
  <2>4. Launched(p)' = 0
    <3>1. {id \in DOMAIN orders : orders[id].parent = p} = {}
      BY <1>5 DEF ChildrenInv, PlanInv, TablesInv, OrderRecord
    <3>2. Launched(p) = 0
      BY <3>1, FS_EmptySet DEF Launched
    <3>3. p # 0
      BY <1>5 DEF TablesInv
    <3>. QED BY <1>3, <3>2, <3>3
  <2>5. planned = left /\ left \in Nat
    BY <1>5 DEF PlanAdded, TablesInv, RoutingRecord
  <2>6. 0 + flyingNext + left <= planned
    <3>. HIDE DEF flyingNext, left, planned
    <3>. QED BY <2>3, <2>5
  <2>. QED BY <2>3, <2>4, <2>6
<1>6. PlanInv'
  <2>1. ASSUME NEW p \in DOMAIN routing'
        PROVE  /\ IsFiniteSet(InFlight(p)')
               /\ Launched(p)' + Cardinality(InFlight(p)') + Len(routing'[p].pending)
                    <= routing'[p].planned
    <3>1. CASE p = nextId
      BY <1>5, <3>1
    <3>2. CASE p # nextId
      BY <1>4, <3>2 DEF PlanAdded
    <3>. QED BY <3>1, <3>2
  <2>. QED BY <1>1, <2>1 DEF PlanInv, PlannedOnce
<1>7. ASSUME NEW p \in DOMAIN routing'
      PROVE  /\ orders'[p].filled <= routing'[p].filled
             /\ routing'[p].filled <= ChildFills(p)'
             /\ routing'[p].aggregation = "none" => orders'[p].filled = 0
  <2>1. ChildFills(p)' = ChildFills(p) /\ ChildFills(p) \in Nat
    BY ChildFillsAdded, FillsAreNumbers
  <2>2. CASE p = nextId
    BY <2>1, <2>2 DEF OrderAdded, PlanAdded
  <2>3. CASE p # nextId
    <3>1. p \in DOMAIN routing /\ p \in DOMAIN orders
      BY <2>3 DEF PlanAdded, TablesInv
    <3>. QED BY <2>1, <3>1 DEF OrderAdded, PlanAdded, ChildrenInv, ParentFillsAreChildFills
  <2>. QED BY <2>2, <2>3
<1>8. ParentFillsAreChildFills'
  BY <1>7 DEF ParentFillsAreChildFills
<1>. QED BY <1>6, <1>8 DEF ChildrenInv

\* submit_order() of an order that is not routed.
LEMMA SubmitStep ==
  ASSUME TablesInv, FramesInv, ChildrenInv, NEW t \in Threads, NEW quantity \in Quantities,
         Submit(t, quantity)
  PROVE  ChildrenInv'
<1>1. TablesInv' /\ quantity \in Nat
  BY SubmitKeepsInv, OrderAssumption
<1>2. /\ nextId' = nextId + 1
      /\ orders' = Put(orders, nextId, NewOrder(quantity, 0, FALSE))
      /\ Push(t, SubmitFrames(nextId))
      /\ UNCHANGED <<routing, parentOf>>
  BY DEF Submit
<1>3. OrderAdded(0)
  <2>1. /\ DOMAIN orders' = DOMAIN orders \cup {nextId} /\ nextId \notin DOMAIN orders
        /\ orders'[nextId].parent = 0
        /\ \A id \in DOMAIN orders : orders'[id] = orders[id]
    BY <1>1, <1>2, AddOrderKeepsTables
  <2>2. orders'[nextId].filled = 0
    BY <1>2 DEF Put, NewOrder
  <2>. QED BY <2>1, <2>2 DEF OrderAdded
<1>4. PlanAdded
  BY <1>2 DEF PlanAdded, TablesInv
<1>5. SubmitFrames(nextId) \in Seq(FrameRecord) /\ NoLoops(SubmitFrames(nextId))
  <2>1. nextId \in Nat /\ nextId \in DOMAIN orders'
    BY <1>3 DEF TablesInv, OrderAdded
  <2>. QED BY <2>1, SubmitFramesAreHarmless, FramesWithoutLoops DEF Harmless
<1>6. Adds(t, SubmitFrames(nextId))
  BY <1>2, <1>5 DEF Adds
<1>. QED BY <1>1, <1>2, <1>3, <1>4, <1>5, <1>6, SubmittedStep

\* submit_order() of a routed order: its plan is as long as planned says.
LEMMA SubmitRoutedStep ==
  ASSUME TablesInv, FramesInv, ChildrenInv, NEW t \in Threads, NEW plan \in Plans,
         SubmitRouted(t, plan)
  PROVE  ChildrenInv'
<1>. DEFINE state == [mode |-> plan.mode, aggregation |-> plan.aggregation,
                      activated |-> FALSE, filled |-> 0, hadReject |-> FALSE,
                      pending |-> plan.children, submitted |-> <<>>, terminal |-> {},
                      planned |-> Len(plan.children)]
<1>1. TablesInv'
  BY SubmitRoutedKeepsInv
<1>2. /\ nextId' = nextId + 1
      /\ orders' = Put(orders, nextId, NewOrder(plan.quantity, 0, TRUE))
      /\ routing' = Put(routing, nextId, state)
      /\ Push(t, SubmitFrames(nextId))
  BY DEF SubmitRouted
<1>3. state.filled = 0 /\ state.planned = Len(state.pending)
  OBVIOUS
<1>. HIDE DEF state
<1>4. nextId \notin DOMAIN orders /\ nextId \notin DOMAIN routing /\ nextId \in Nat
  BY DEF TablesInv
<1>5. OrderAdded(0)
  BY <1>2, <1>4 DEF OrderAdded, Put, NewOrder
<1>6. PlanAdded
  BY <1>2, <1>3, <1>4 DEF PlanAdded, Put
<1>7. SubmitFrames(nextId) \in Seq(FrameRecord) /\ NoLoops(SubmitFrames(nextId))
  <2>1. nextId \in DOMAIN orders'
    BY <1>5 DEF OrderAdded
  <2>. QED BY <1>4, <2>1, SubmitFramesAreHarmless, FramesWithoutLoops DEF Harmless
<1>8. Adds(t, SubmitFrames(nextId))
  BY <1>2, <1>7 DEF Adds
<1>. QED BY <1>1, <1>2, <1>5, <1>6, <1>7, <1>8, SubmittedStep

\* submit_child_order(): the first child of a loop becomes an order.
LEMMA LaunchChildStep ==
  ASSUME TablesInv, FramesInv, ChildrenInv, NEW t \in Threads, LaunchChild(t)
  PROVE  ChildrenInv'
<1>. DEFINE top == Head(stack[t])
            quantity == Head(top.children)
            submit == SubmitFrames(nextId)
            adopt == AdoptLater(nextId)
            loop == Remaining(top)
            own == submit \o <<adopt>>
            frames == own \o loop
<1>0. PICK q : q = top.order
  OBVIOUS
<1>1. /\ Todo(t, {"activate", "next"}) /\ Replace(t, submit \o <<adopt>> \o loop)
      /\ nextId' = nextId + 1
      /\ orders' = Put(orders, nextId, NewOrder(quantity, q, FALSE))
      /\ UNCHANGED <<routing, parentOf>>
  BY <1>0 DEF LaunchChild
<1>2. /\ stack[t] # <<>> /\ q \in DOMAIN orders /\ q \in DOMAIN routing
      /\ top.children \in Seq(Nat) /\ top.children # <<>> /\ q \in Nat
      /\ IsLoopOver(top, q) /\ quantity \in Nat
  <2>1. /\ stack[t] # <<>> /\ top \in FrameRecord /\ top.kind \in {"activate", "next"}
        /\ Fits(top, orders, routing, parentOf)
    BY <1>1, TopFrame
  <2>2. top.children \in Seq(Nat) /\ top.children # <<>>
    BY <2>1 DEF Fits, FrameRecord
  <2>. QED BY <1>0, <2>1, <2>2 DEF Fits, FrameRecord, IsLoopOver
<1>3. TablesInv'
  BY LaunchChildKeepsInv
<1>. HIDE DEF quantity
<1>4. OrderAdded(q)
  <2>1. /\ DOMAIN orders' = DOMAIN orders \cup {nextId} /\ nextId \notin DOMAIN orders
        /\ orders'[nextId].parent = q
        /\ \A id \in DOMAIN orders : orders'[id] = orders[id]
    BY <1>1, <1>2, AddOrderKeepsTables
  <2>2. orders'[nextId].filled = 0
    BY <1>1 DEF Put, NewOrder
  <2>. QED BY <2>1, <2>2 DEF OrderAdded
<1>5. /\ own \in Seq(FrameRecord) /\ NoLoops(own) /\ Len(own) = 3
  <2>1. nextId \in Nat /\ nextId \in DOMAIN orders' /\ <<>> \in Seq(Nat)
    BY <1>4 DEF TablesInv, OrderAdded
  <2>2. submit \in Seq(FrameRecord) /\ NoLoops(submit)
    BY <2>1, SubmitFramesAreHarmless, FramesWithoutLoops DEF Harmless
  <2>3. adopt \in FrameRecord /\ ~Loops(adopt)
    BY <2>1 DEF AdoptLater, Frame, FrameRecord, FrameKinds, Loops
  <2>4. Len(submit) = 2
    BY DEF SubmitFrames
  <2>. HIDE DEF submit, adopt
  <2>5. <<adopt>> \in Seq(FrameRecord) /\ NoLoops(<<adopt>>) /\ Len(<<adopt>>) = 1
    BY <2>3 DEF NoLoops
  <2>6. Len(own) = Len(submit) + Len(<<adopt>>)
    BY <2>2, <2>5
  <2>7. NoLoops(own) /\ own \in Seq(FrameRecord)
    BY <2>2, <2>5, NoLoopsInARow, ConcatenatedFrames
  <2>. QED BY <2>4, <2>5, <2>6, <2>7
<1>6. /\ loop \in Seq(FrameRecord)
      /\ \A i \in DOMAIN loop : i = 1 /\ loop[i].order = q /\ loop[i].children = Tail(top.children)
  <2>1. CASE loop = <<>>
    <3>. HIDE DEF loop
    <3>. QED BY <2>1
  <2>2. CASE loop = <<Activation(q, Tail(top.children))>>
    <3>. DEFINE one == Activation(q, Tail(top.children))
    <3>1. Tail(top.children) \in Seq(Nat)
      BY <1>2
    <3>2. one \in FrameRecord /\ one.order = q /\ one.children = Tail(top.children)
      BY <1>2, <3>1 DEF Activation, Frame, FrameRecord, FrameKinds
    <3>. HIDE DEF one, loop
    <3>3. loop = <<one>>
      BY <2>2 DEF one
    <3>. QED BY <3>2, <3>3
  <2>. QED BY <1>0, <2>1, <2>2 DEF Remaining
<1>. HIDE DEF own, loop, submit, adopt
<1>7. /\ frames \in Seq(FrameRecord)
      /\ \A i \in DOMAIN frames :
           Loops(frames[i]) =>
             i = 4 /\ frames[i].order = q /\ frames[i].children = Tail(top.children)
  <2>. DEFINE tail == Tail(top.children)
  <2>1. /\ frames \in Seq(FrameRecord)
        /\ \A i \in DOMAIN frames :
             \/ i \in DOMAIN own /\ frames[i] = own[i]
             \/ i - Len(own) \in DOMAIN loop /\ frames[i] = loop[i - Len(own)] /\ i \in Nat
    BY <1>5, <1>6, ConcatenatedFrames
  <2>2. \A i \in DOMAIN loop : i = 1 /\ loop[i].order = q /\ loop[i].children = tail
    BY <1>6
  <2>. HIDE DEF frames, tail
  <2>3. \A i \in DOMAIN frames :
           Loops(frames[i]) => i = 4 /\ frames[i].order = q /\ frames[i].children = tail
    BY <1>5, <2>1, <2>2 DEF NoLoops
  <2>. QED BY <2>1, <2>3 DEF tail
<1>8. Replace(t, frames) /\ Adds(t, frames)
  <2>1. Replace(t, frames)
    BY <1>1 DEF own, submit, adopt, loop
  <2>. QED BY <1>2, <1>7, <2>1 DEF Adds
<1>. HIDE DEF frames
<1>9. ASSUME NEW p \in DOMAIN routing
      PROVE  /\ IsFiniteSet(InFlight(p)')
             /\ Launched(p)' + Cardinality(InFlight(p)') + Len(routing[p].pending)
                  <= routing[p].planned
  <2>. DEFINE flying == Cardinality(InFlight(p))
              flyingNext == Cardinality(InFlight(p)')
              sent == Launched(p)
              sentNext == Launched(p)'
              left == Len(routing[p].pending)
              planned == routing[p].planned
  <2>1. IsFiniteSet(InFlight(p)) /\ sent + flying + left <= planned
    BY DEF ChildrenInv, PlanInv, PlannedOnce
  <2>2. sentNext = sent + (IF p = q THEN 1 ELSE 0)
    BY <1>4, LaunchedAdded
  <2>3. /\ IsFiniteSet(InFlight(p)')
        /\ IF p = q THEN flyingNext <= flying - 1 ELSE flyingNext <= flying + 0
    <3>1. CASE p = q
      <4>1. KeepsRest(frames, q, 4, Tail(Head(stack[t]).children))
        BY <1>7 DEF IsLoopOver, Loops, KeepsRest
      <4>2. IsLoopOver(Head(stack[t]), q) /\ Head(stack[t]).children # <<>>
        BY <1>2
      <4>3. IsFiniteSet(InFlight(q))
        BY <2>1, <3>1
      <4>4. /\ IsFiniteSet(InFlight(q)')
            /\ Cardinality(InFlight(q)') <= Cardinality(InFlight(q)) - 1
        BY <1>2, <1>7, <1>8, <4>1, <4>2, <4>3, SentLoop
      <4>. QED BY <3>1, <4>4
    <3>2. CASE p # q
      <4>1. 0 \in Nat /\ SendsOf(frames, p, 0)
        BY <1>7, <3>2 DEF SendsOf, Loops, IsLoopOver
      <4>2. IsFiniteSet(InFlight(p)') /\ flyingNext <= flying + 0
        BY <1>8, <2>1, <4>1, PushedLoops
      <4>. QED BY <3>2, <4>2
    <3>. QED BY <3>1, <3>2
  <2>4. /\ flyingNext \in Nat /\ flying \in Nat /\ sent \in Nat
        /\ left \in Nat /\ planned \in Nat
    <3>1. left \in Nat /\ planned \in Nat
      BY DEF TablesInv, RoutingRecord
    <3>. QED BY <2>1, <2>3, <3>1, FS_CardinalityType, ChildrenAreFinite
  <2>5. sentNext + flyingNext + left <= planned
    <3>. HIDE DEF flying, flyingNext, sent, sentNext, left, planned
    <3>. QED BY <2>1, <2>2, <2>3, <2>4
  <2>. QED BY <2>3, <2>5
<1>10. \A id \in DOMAIN orders' : orders'[id].parent < nextId'
  <2>3. nextId' = nextId + 1
    BY <1>1
  <2>1. ASSUME NEW id \in DOMAIN orders
        PROVE  orders'[id].parent < nextId'
    <3>1. orders[id].parent < nextId /\ orders[id].parent \in Nat /\ nextId \in Nat
      BY DEF ChildrenInv, PlanInv, TablesInv, OrderRecord
    <3>. QED BY <1>4, <2>3, <3>1 DEF OrderAdded
  <2>2. orders'[nextId].parent < nextId'
    <3>1. q \in Nat /\ nextId \in Nat /\ q < nextId /\ orders'[nextId].parent = q
      BY <1>2, <1>4 DEF OrderAdded, TablesInv
    <3>. QED BY <2>3, <3>1
  <2>. QED BY <1>4, <2>1, <2>2 DEF OrderAdded
<1>11. PlanInv'
  BY <1>1, <1>9, <1>10 DEF PlanInv, PlannedOnce
<1>12. ParentFillsAreChildFills'
  <2>1. ASSUME NEW p \in DOMAIN routing
        PROVE  /\ orders'[p].filled <= routing[p].filled
               /\ routing[p].filled <= ChildFills(p)'
               /\ routing[p].aggregation = "none" => orders'[p].filled = 0
    <3>1. ChildFills(p)' = ChildFills(p) /\ orders'[p] = orders[p]
      BY <1>1, <1>3, <1>4, ChildFillsAdded, ParentsAreRoots DEF OrderAdded
    <3>. QED BY <3>1 DEF ChildrenInv, ParentFillsAreChildFills
  <2>. QED BY <1>1, <2>1 DEF ParentFillsAreChildFills
<1>. QED BY <1>11, <1>12 DEF ChildrenInv

\* The router is set or cleared; its plans go with it.
LEMMA ConfigureStep ==
  ASSUME ChildrenInv, Configure
  PROVE  ChildrenInv'
<1>1. CASE SetRouter
  BY <1>1 DEF SetRouter, ChildrenInv, PlanInv, PlannedOnce, ParentFillsAreChildFills,
       InFlight, LoopsOver, Launched, ChildFills
<1>2. CASE ClearRouter
  BY <1>2 DEF ClearRouter, EmptyMap, ChildrenInv, PlanInv, PlannedOnce,
       ParentFillsAreChildFills
<1>. QED BY <1>1, <1>2 DEF Configure

\* The invariant of the children is inductive next to that of the routing.
LEMMA NextPreservesChildren ==
  ASSUME RoutingInv, ChildrenInv, [Next]_vars
  PROVE  ChildrenInv'
<1>1. TablesInv /\ FramesInv
  BY RoutingInvParts, Zenon
<1>2. ASSUME NEW t \in Threads, CallBy(t)
      PROVE  ChildrenInv'
  <2>1. ASSUME NEW quantity \in Quantities, Submit(t, quantity)
        PROVE  ChildrenInv'
    BY <1>1, <2>1, SubmitStep
  <2>2. ASSUME NEW plan \in Plans, SubmitRouted(t, plan)
        PROVE  ChildrenInv'
    BY <1>1, <2>2, SubmitRoutedStep
  <2>3. ASSUME NEW id \in DOMAIN orders, CancelOrder(t, id)
        PROVE  ChildrenInv'
    BY <1>1, <2>3, CancelOrderStep
  <2>4. ASSUME NEW id \in DOMAIN orders, NEW quantity \in Quantities \cup {0},
               ModifyOrder(t, id, quantity)
        PROVE  ChildrenInv'
    BY <1>1, <2>4, ModifyOrderStep
  <2>5. ASSUME NEW id \in DOMAIN orders, NEW lots \in FillSizes, ProcessFill(t, id, lots)
        PROVE  ChildrenInv'
    BY <1>1, <2>5, ProcessFillStep
  <2>6. ASSUME NEW id \in DOMAIN orders, NEW status \in ReportedStatuses,
               UpdateOrderStatus(t, id, status)
        PROVE  ChildrenInv'
    BY <1>1, <2>6, StatusSteps
  <2>7. ASSUME NEW id \in DOMAIN routing, ActivateRoutedOrder(t, id)
        PROVE  ChildrenInv'
    BY <1>1, <2>7, ActivateRoutedOrderStep
  <2>. QED BY <1>2, <2>1, <2>2, <2>3, <2>4, <2>5, <2>6, <2>7 DEF CallBy
<1>3. ASSUME NEW t \in Threads, Continue(t)
      PROVE  ChildrenInv'
  <2>1. CASE Return(t)
    BY <1>1, <2>1, ReturnStep
  <2>2. CASE StepSet(t)
    BY <1>1, <2>2, StatusSteps
  <2>3. CASE LaunchChild(t)
    BY <1>1, <2>3, LaunchChildStep
  <2>4. CASE LaunchFails(t)
    BY <1>1, <2>4, LaunchFailsStep
  <2>5. CASE AdoptChild(t)
    BY <1>1, <2>5, AdoptChildStep
  <2>. QED BY <1>3, <2>1, <2>2, <2>3, <2>4, <2>5 DEF Continue
<1>4. CASE UNCHANGED vars
  BY <1>4 DEF vars, ChildrenInv, PlanInv, PlannedOnce, ParentFillsAreChildFills,
       InFlight, LoopsOver, Launched, ChildFills
<1>. QED BY <1>2, <1>3, <1>4, ConfigureStep DEF Next

\* Without orders there is nothing to account for.
LEMMA InitEstablishesChildren == Init => ChildrenInv
  BY DEF Init, EmptyMap, ChildrenInv, PlanInv, PlannedOnce, ParentFillsAreChildFills

\* Both invariants hold of every behaviour.
LEMMA ChildrenInvariant == Spec => [](RoutingInv /\ ChildrenInv)
<1>. DEFINE Inv == RoutingInv /\ ChildrenInv
<1>1. Init => Inv
  BY InitEstablishesInv, InitEstablishesChildren
<1>2. Inv /\ [Next]_vars => Inv'
  BY NextPreservesInv, NextPreservesChildren
<1>. QED BY <1>1, <1>2, PTL DEF Spec

\* Each child of a plan is submitted at most once.
THEOREM PlansAreCarriedOutOnce == Spec => []PlannedOnce
<1>1. RoutingInv /\ ChildrenInv => PlannedOnce
  BY DEF ChildrenInv, PlanInv
<1>. QED BY <1>1, ChildrenInvariant, PTL

\* A parent shows what its children filled, or less.
THEOREM FillsReachTheParent == Spec => []ParentFillsAreChildFills
<1>1. RoutingInv /\ ChildrenInv => ParentFillsAreChildFills
  BY DEF ChildrenInv
<1>. QED BY <1>1, ChildrenInvariant, PTL
-----------------------------------------------------------------------------
(* Which parents become filled.                                            *)

\* The changes of status that are still to come cancel, reject or open orders.
NoneFilled(frames) ==
  \A i \in DOMAIN frames : frames[i].kind = "set" => frames[i].status # "filled"

SetsDoNotFill == \A t \in Threads : NoneFilled(stack[t])

\* Such frames on top of a stack keep it so.
LEMMA AddedSets ==
  ASSUME FramesInv, SetsDoNotFill, NEW t \in Threads, NEW frames, Adds(t, frames),
         NoneFilled(frames)
  PROVE  SetsDoNotFill'
<1>1. frames \in Seq(FrameRecord) /\ stack[t] \in Seq(FrameRecord)
  BY DEF Adds, FramesInv
<1>2. PICK rest, k : IsRest(rest, t, k) /\ stack' = [stack EXCEPT ![t] = frames \o rest]
  BY RestOfStack DEF Adds, Push, Replace
<1>3. Moved(t, frames, k)
  BY <1>1, <1>2, MovedFrames
<1>4. NoneFilled(stack[t])
  BY DEF SetsDoNotFill
<1>5. ASSUME NEW i \in DOMAIN stack'[t]
      PROVE  stack'[t][i].kind = "set" => stack'[t][i].status # "filled"
  BY <1>3, <1>4 DEF Moved, NoneFilled
<1>6. ASSUME NEW u \in Threads
      PROVE  NoneFilled(stack'[u])
  <2>1. CASE u = t
    BY <1>5, <2>1 DEF NoneFilled
  <2>2. CASE u # t
    BY <1>3, <2>2 DEF Moved, SetsDoNotFill
  <2>. QED BY <2>1, <2>2
<1>. QED BY <1>6 DEF SetsDoNotFill

\* Frames of which none fills an order by decree.
Quiet(frames) == frames \in Seq(FrameRecord) /\ NoneFilled(frames)

\* Two quiet lists of frames make one.
LEMMA QuietInARow ==
  ASSUME NEW a, NEW b, Quiet(a), Quiet(b)
  PROVE  Quiet(a \o b)
<1>. DEFINE c == a \o b
<1>1. /\ c \in Seq(FrameRecord)
      /\ \A i \in DOMAIN c :
           (i \in DOMAIN a /\ c[i] = a[i]) \/ (i - Len(a) \in DOMAIN b /\ c[i] = b[i - Len(a)])
  BY ConcatenatedFrames DEF Quiet
<1>. HIDE DEF c
<1>2. Quiet(c)
  BY <1>1 DEF Quiet, NoneFilled
<1>. QED BY <1>2 DEF c

\* All frames but a change of status to Filled are quiet.
LEMMA QuietFrames ==
  ASSUME NEW id \in Nat, NEW status \in Statuses
  PROVE  /\ Quiet(<<>>)
         /\ Quiet(<<OrderCallback(id, status)>>)
         /\ Quiet(<<FillCallback(id)>>)
         /\ status # "filled" => Quiet(<<SetLater(id, status)>>)
         /\ Quiet(SubmitFrames(id))
         /\ Quiet(<<AdoptLater(id)>>)
         /\ \A children \in Seq(Nat) : Quiet(<<Activation(id, children)>>)
<1>. USE DEF Frame, FrameRecord, FrameKinds
<1>1. /\ <<>> \in Seq(Nat) /\ "none" \in Statuses \cup {"none"}
      /\ {"created", "pending"} \subseteq Statuses
  BY DEF Statuses
<1>2. ASSUME NEW frame \in FrameRecord, frame.kind = "set" => frame.status # "filled"
      PROVE  Quiet(<<frame>>)
  <2>1. <<frame>> \in Seq(FrameRecord) /\ DOMAIN <<frame>> = {1} /\ <<frame>>[1] = frame
    OBVIOUS
  <2>. QED BY <1>2, <2>1 DEF Quiet, NoneFilled
<1>3. Quiet(<<>>)
  BY DEF Quiet, NoneFilled
<1>4. \A s \in Statuses : Quiet(<<OrderCallback(id, s)>>)
  <2>1. ASSUME NEW s \in Statuses
        PROVE  OrderCallback(id, s) \in FrameRecord /\ OrderCallback(id, s).kind # "set"
    BY <1>1 DEF OrderCallback
  <2>. QED BY <1>2, <2>1
<1>5. Quiet(<<FillCallback(id)>>)
  <2>1. FillCallback(id) \in FrameRecord /\ FillCallback(id).kind # "set"
    BY <1>1 DEF FillCallback
  <2>. QED BY <1>2, <2>1
<1>6. \A s \in Statuses : s # "filled" => Quiet(<<SetLater(id, s)>>)
  <2>1. ASSUME NEW s \in Statuses, s # "filled"
        PROVE  SetLater(id, s) \in FrameRecord /\ SetLater(id, s).status # "filled"
    BY <1>1, <2>1 DEF SetLater
  <2>. QED BY <1>2, <2>1
<1>7. Quiet(<<AdoptLater(id)>>)
  <2>1. AdoptLater(id) \in FrameRecord /\ AdoptLater(id).kind # "set"
    BY <1>1 DEF AdoptLater
  <2>. QED BY <1>2, <2>1
<1>8. \A children \in Seq(Nat) : Quiet(<<Activation(id, children)>>)
  <2>1. ASSUME NEW children \in Seq(Nat)
        PROVE  Activation(id, children) \in FrameRecord /\ Activation(id, children).kind # "set"
    BY <1>1 DEF Activation
  <2>. QED BY <1>2, <2>1
<1>9. Quiet(SubmitFrames(id))
  <2>1. SubmitFrames(id) = <<OrderCallback(id, "created")>> \o <<SetLater(id, "pending")>>
    BY DEF SubmitFrames
  <2>2. Quiet(<<OrderCallback(id, "created")>>) /\ Quiet(<<SetLater(id, "pending")>>)
    BY <1>1, <1>4, <1>6
  <2>. QED BY <2>1, <2>2, QuietInARow
<1>. QED BY <1>3, <1>4, <1>5, <1>6, <1>7, <1>8, <1>9

\* What a report leaves for the family.
LEMMA QuietFamily ==
  ASSUME NEW f \in FamilyRecord, NEW p \in Nat
  PROVE  Quiet(FamilyFrames(p, f))
<1>. DEFINE told == [i \in DOMAIN f.updates |-> OrderCallback(p, f.updates[i])]
            next == [i \in DOMAIN f.next |-> NextChild(p, f.next[i])]
<1>1. f.updates \in Seq(Statuses) /\ f.next \in Seq(Nat)
  BY DEF FamilyRecord
<1>2. Quiet(told)
  <2>1. ASSUME NEW i \in DOMAIN f.updates
        PROVE  /\ OrderCallback(p, f.updates[i]) \in FrameRecord
               /\ OrderCallback(p, f.updates[i]).kind # "set"
    BY <1>1 DEF OrderCallback, Frame, FrameRecord, FrameKinds
  <2>2. told \in Seq(FrameRecord) /\ DOMAIN told = DOMAIN f.updates
    BY <1>1, <2>1
  <2>. QED BY <2>1, <2>2 DEF Quiet, NoneFilled
<1>3. Quiet(next)
  <2>1. ASSUME NEW i \in DOMAIN f.next
        PROVE  /\ NextChild(p, f.next[i]) \in FrameRecord
               /\ NextChild(p, f.next[i]).kind # "set"
    BY <1>1 DEF NextChild, Frame, FrameRecord, FrameKinds
  <2>2. next \in Seq(FrameRecord) /\ DOMAIN next = DOMAIN f.next
    BY <1>1, <2>1
  <2>. QED BY <2>1, <2>2 DEF Quiet, NoneFilled
<1>. HIDE DEF told, next
<1>4. Quiet(told \o next)
  BY <1>2, <1>3, QuietInARow
<1>. QED BY <1>4 DEF FamilyFrames, told, next

\* The family of a child after a change of its status.
LEMMA StatusAccounts ==
  ASSUME TablesInv, NEW id \in DOMAIN parentOf, NEW status \in Statuses
  PROVE  /\ AfterChildStatus(Family(id), id, status) \in FamilyRecord
         /\ Accounts(Family(id), AfterChildStatus(Family(id), id, status), 0)
<1>1. Family(id) \in FamilyRecord /\ Family(id).next = <<>> /\ id \in Nat
  BY FamilyOfChild DEF Family, TablesInv
<1>. QED BY <1>1, ChildStatusAccounts, ChildStatusKeepsFamily DEF SameFamily

\* What update_order_status() leaves to do is callbacks and the next child.
LEMMA QuietStatus ==
  ASSUME TablesInv, NEW id \in DOMAIN orders, NEW status \in Statuses
  PROVE  Quiet(StatusFrames(id, status))
<1>. DEFINE f == AfterChildStatus(Family(id), id, status)
<1>1. Quiet(<<OrderCallback(id, status)>>)
  <2>1. id \in Nat
    BY DEF TablesInv
  <2>. QED BY <2>1, QuietFrames
<1>2. ASSUME id \in DOMAIN parentOf
      PROVE  Quiet(FamilyFrames(parentOf[id], f))
  <2>1. parentOf[id] \in Nat /\ f \in FamilyRecord
    BY <1>2, StatusAccounts, FamilyOfChild DEF TablesInv
  <2>. HIDE DEF f
  <2>. QED BY <2>1, QuietFamily
<1>3. CASE id \in DOMAIN parentOf
  <2>1. StatusFrames(id, status) = <<OrderCallback(id, status)>> \o FamilyFrames(parentOf[id], f)
    BY <1>3 DEF StatusFrames
  <2>. HIDE DEF f
  <2>. QED BY <1>1, <1>2, <1>3, <2>1, QuietInARow
<1>4. CASE id \notin DOMAIN parentOf
  BY <1>1, <1>4 DEF StatusFrames
<1>. QED BY <1>3, <1>4

\* What a step leaves to do fills nothing by decree.
LEMMA QuietStep ==
  ASSUME FramesInv, SetsDoNotFill, NEW t \in Threads, NEW frames, Quiet(frames),
         Push(t, frames) \/ (stack[t] # <<>> /\ Replace(t, frames))
  PROVE  SetsDoNotFill'
<1>1. Adds(t, frames) /\ NoneFilled(frames)
  BY DEF Adds, Quiet
<1>. QED BY <1>1, AddedSets

\* No operation makes a change of status to Filled for later.
LEMMA NextKeepsSets ==
  ASSUME TablesInv, FramesInv, SetsDoNotFill, [Next]_vars
  PROVE  SetsDoNotFill'
<1>1. /\ nextId \in Nat /\ Quiet(<<>>)
      /\ {"cancelled", "rejected"} \subseteq Statuses \ {"filled"}
      /\ \A id \in DOMAIN orders : id \in Nat
  <2>1. nextId \in Nat /\ \A id \in DOMAIN orders : id \in Nat
    BY DEF TablesInv
  <2>2. {"cancelled", "rejected"} \subseteq Statuses \ {"filled"}
    BY DEF Statuses
  <2>3. Quiet(<<>>)
    BY <2>1, <2>2, QuietFrames
  <2>. QED BY <2>1, <2>2, <2>3
<1>2. ASSUME NEW t \in Threads, CallBy(t)
      PROVE  SetsDoNotFill'
  <2>1. ASSUME Push(t, SubmitFrames(nextId))
        PROVE  SetsDoNotFill'
    BY <1>1, <2>1, QuietFrames, QuietStep
  <2>2. ASSUME NEW id \in DOMAIN orders, CancelOrder(t, id)
        PROVE  SetsDoNotFill'
    <3>. DEFINE children == IF id \in DOMAIN routing THEN routing[id].submitted ELSE <<>>
                sets == [i \in DOMAIN children |-> SetLater(children[i], "cancelled")]
                own == <<OrderCallback(id, "cancelled")>>
    <3>1. Push(t, own \o sets)
      BY <2>2 DEF CancelOrder
    <3>2. children \in Seq(Nat)
      BY DEF TablesInv, RoutingRecord
    <3>. HIDE DEF children
    <3>3. Quiet(sets)
      <4>1. <<>> \in Seq(Nat)
        OBVIOUS
      <4>2. ASSUME NEW i \in DOMAIN children
            PROVE  /\ SetLater(children[i], "cancelled") \in FrameRecord
                   /\ SetLater(children[i], "cancelled").status # "filled"
        BY <1>1, <3>2, <4>1 DEF SetLater, Frame, FrameRecord, FrameKinds
      <4>3. sets \in Seq(FrameRecord) /\ DOMAIN sets = DOMAIN children
        BY <3>2, <4>2
      <4>. QED BY <4>2, <4>3 DEF Quiet, NoneFilled
    <3>4. Quiet(own)
      BY <1>1, QuietFrames
    <3>. HIDE DEF own, sets
    <3>5. Quiet(own \o sets)
      BY <3>3, <3>4, QuietInARow
    <3>. QED BY <3>1, <3>5, QuietStep
  <2>3. ASSUME NEW id \in DOMAIN orders, NEW quantity, ModifyOrder(t, id, quantity)
        PROVE  SetsDoNotFill'
    <3>. DEFINE own == <<OrderCallback(id, orders[id].status)>>
                frames == IF quantity > 0 THEN own ELSE <<>>
    <3>1. Push(t, frames)
      BY <2>3 DEF ModifyOrder
    <3>2. orders[id].status \in Statuses /\ id \in Nat
      BY DEF TablesInv, OrderRecord
    <3>3. Quiet(own)
      BY <3>2, QuietFrames
    <3>4. Quiet(frames)
      BY <1>1, <3>3
    <3>. HIDE DEF frames
    <3>. QED BY <3>1, <3>4, QuietStep
  <2>4. ASSUME NEW id \in DOMAIN orders, NEW lots \in FillSizes, ProcessFill(t, id, lots)
        PROVE  SetsDoNotFill'
    <3>. DEFINE status == FillStatus(orders[id].filled + lots, orders[id].quantity)
                family == FilledFamily(id, lots)
                own == <<FillCallback(id), OrderCallback(id, status)>>
                frames == IF id \in DOMAIN parentOf
                            THEN own \o FamilyFrames(parentOf[id], family) ELSE own
    <3>1. Push(t, frames)
      BY <2>4 DEF ProcessFill, FilledFamily
    <3>2. status \in Statuses /\ lots \in Nat
      BY StatusesOfFills, OrderAssumption
    <3>. HIDE DEF status
    <3>3. own = <<FillCallback(id)>> \o <<OrderCallback(id, status)>>
      OBVIOUS
    <3>4. Quiet(own)
      <4>1. Quiet(<<FillCallback(id)>>) /\ Quiet(<<OrderCallback(id, status)>>)
        BY <1>1, <3>2, QuietFrames
      <4>. QED BY <3>3, <4>1, QuietInARow
    <3>5. id \in DOMAIN parentOf => Quiet(FamilyFrames(parentOf[id], family))
      <4>1. id \in DOMAIN parentOf => parentOf[id] \in Nat /\ family \in FamilyRecord
        BY <3>2, FillAccounts, FamilyOfChild DEF TablesInv
      <4>. HIDE DEF family
      <4>. QED BY <4>1, QuietFamily
    <3>. HIDE DEF own, family
    <3>6. Quiet(frames)
      BY <3>4, <3>5, QuietInARow
    <3>. HIDE DEF frames
    <3>. QED BY <3>1, <3>6, QuietStep
  <2>5. ASSUME NEW id \in DOMAIN orders, NEW status \in ReportedStatuses,
               UpdateOrderStatus(t, id, status)
        PROVE  SetsDoNotFill'
    <3>1. Push(t, StatusFrames(id, status)) /\ status \in Statuses
      BY <2>5, OrderAssumption DEF UpdateOrderStatus
    <3>. QED BY <3>1, QuietStatus, QuietStep
  <2>6. ASSUME NEW id \in DOMAIN routing, ActivateRoutedOrder(t, id)
        PROVE  SetsDoNotFill'
    <3>1. PICK sent \in Nat : /\ sent <= Len(routing[id].pending)
                              /\ Push(t, <<Activation(id, SubSeq(routing[id].pending, 1, sent))>>)
      <4>1. Len(routing[id].pending) \in Nat
        BY DEF TablesInv, RoutingRecord
      <4>. QED BY <2>6, <4>1 DEF ActivateRoutedOrder, Lesser
    <3>2. SubSeq(routing[id].pending, 1, sent) \in Seq(Nat) /\ id \in Nat
      <4>. DEFINE s == routing[id].pending
      <4>1. s \in Seq(Nat) /\ id \in Nat
        BY DEF TablesInv, RoutingRecord
      <4>2. sent <= Len(s)
        BY <3>1
      <4>. HIDE DEF s
      <4>3. SubSeq(s, 1, sent) \in Seq(Nat)
        BY <4>1, <4>2, SubSeqProperties
      <4>. QED BY <4>1, <4>3 DEF s
    <3>3. "created" \in Statuses
      BY DEF Statuses
    <3>. QED BY <3>1, <3>2, <3>3, QuietFrames, QuietStep
  <2>. QED BY <1>2, <2>1, <2>2, <2>3, <2>4, <2>5, <2>6 DEF CallBy, Submit, SubmitRouted
<1>3. ASSUME NEW t \in Threads, Continue(t)
      PROVE  SetsDoNotFill'
  <2>1. CASE Return(t)
    BY <1>1, <2>1, QuietStep DEF Return, Todo
  <2>2. CASE StepSet(t)
    <3>. DEFINE id == Head(stack[t]).order
                status == Head(stack[t]).status
    <3>1. /\ Todo(t, {"set"}) /\ Replace(t, StatusFrames(id, status))
      BY <2>2 DEF StepSet
    <3>2. stack[t] # <<>> /\ id \in DOMAIN orders /\ status \in Statuses
      BY <3>1, TopFrame DEF Fits
    <3>. HIDE DEF id, status
    <3>. QED BY <3>1, <3>2, QuietStatus, QuietStep
  <2>3. CASE LaunchChild(t)
    <3>. DEFINE top == Head(stack[t])
                submit == SubmitFrames(nextId)
                adopt == <<AdoptLater(nextId)>>
                loop == Remaining(top)
    <3>1. /\ Todo(t, {"activate", "next"}) /\ Replace(t, submit \o adopt \o loop)
          /\ top.children # <<>>
      BY <2>3 DEF LaunchChild
    <3>2. stack[t] # <<>> /\ top \in FrameRecord
      BY <3>1, TopFrame
    <3>3. Quiet(loop)
      <4>1. Tail(top.children) \in Seq(Nat) /\ top.order \in Nat /\ "created" \in Statuses
        BY <3>1, <3>2 DEF FrameRecord, Statuses
      <4>2. Quiet(<<Activation(top.order, Tail(top.children))>>)
        BY <4>1, QuietFrames
      <4>. QED BY <1>1, <4>2 DEF Remaining
    <3>4. Quiet(submit) /\ Quiet(adopt)
      BY <1>1, QuietFrames
    <3>. HIDE DEF submit, adopt, loop, top
    <3>5. Quiet(submit \o adopt)
      BY <3>4, QuietInARow
    <3>6. Quiet(submit \o adopt \o loop)
      BY <3>3, <3>5, QuietInARow
    <3>. QED BY <3>1, <3>2, <3>6, QuietStep
  <2>4. CASE LaunchFails(t)
    <3>. DEFINE id == Head(stack[t]).order
                set == <<SetLater(id, "rejected")>>
                frames == IF Head(stack[t]).kind = "activate" THEN set ELSE <<>>
    <3>1. Todo(t, {"activate", "next"}) /\ Replace(t, frames)
      BY <2>4 DEF LaunchFails
    <3>2. stack[t] # <<>> /\ id \in Nat
      BY <3>1, TopFrame DEF Fits, TablesInv
    <3>3. Quiet(set)
      <4>. HIDE DEF id
      <4>. QED BY <1>1, <3>2, QuietFrames
    <3>4. Quiet(frames)
      BY <1>1, <3>3
    <3>. HIDE DEF frames
    <3>. QED BY <3>1, <3>2, <3>4, QuietStep
  <2>5. CASE AdoptChild(t)
    BY <1>1, <2>5, QuietStep DEF AdoptChild, Todo
  <2>. QED BY <1>3, <2>1, <2>2, <2>3, <2>4, <2>5 DEF Continue
<1>4. CASE Configure \/ UNCHANGED vars
  BY <1>4 DEF Configure, SetRouter, ClearRouter, vars, SetsDoNotFill
<1>. QED BY <1>2, <1>3, <1>4 DEF Next

\* What FilledParentIsBacked says of a step.
Backed ==
  \A p \in DOMAIN routing :
    orders[p].status # "filled" /\ orders'[p].status = "filled"
      => ChildFills(p)' >= orders'[p].quantity

\* The fills of the children are a number after the step, too.
LEMMA FillsNext ==
  ASSUME TablesInv', NEW p
  PROVE  ChildFills(p)' \in Nat
<1>. DEFINE r == [c \in DOMAIN orders' |-> IF orders'[c].parent = p THEN orders'[c].filled ELSE 0]
<1>1. nextId' - 1 \in Nat /\ DOMAIN orders' = 1..(nextId' - 1)
  BY DEF TablesInv
<1>2. \A c \in DOMAIN orders' : (IF orders'[c].parent = p THEN orders'[c].filled ELSE 0) \in Nat
  BY DEF TablesInv, OrderRecord
<1>3. r \in [1..(nextId' - 1) -> Nat]
  BY <1>1, <1>2
<1>4. r \in Seq(Nat)
  <2>. HIDE DEF r
  <2>. QED BY <1>1, <1>3
<1>5. ChildFills(p)' = SumOf(r)
  BY DEF ChildFills
<1>. HIDE DEF r
<1>. QED BY <1>4, <1>5, SumOfNaturals

\* A report that completes a parent has its fills behind it.
LEMMA StoreIsBacked ==
  ASSUME TablesInv, TablesInv', ParentFillsAreChildFills, ParentFillsAreChildFills',
         NEW id \in DOMAIN orders, NEW updated, NEW f, NEW lots, Store(id, updated, f),
         id \in DOMAIN routing => updated.status # "filled",
         id \in DOMAIN parentOf => f \in FamilyRecord /\ Accounts(Family(id), f, lots)
  PROVE  Backed
<1>1. ASSUME NEW p \in DOMAIN routing,
             orders[p].status # "filled", orders'[p].status = "filled"
      PROVE  ChildFills(p)' >= orders'[p].quantity
  <2>1. p \in DOMAIN orders
    BY DEF TablesInv
  <2>2. id \in DOMAIN parentOf /\ p = parentOf[id]
    <3>1. CASE id \notin DOMAIN parentOf
      <4>1. orders' = [orders EXCEPT ![id] = updated]
        BY <3>1 DEF Store
      <4>. QED BY <1>1, <2>1, <4>1
    <3>2. CASE id \in DOMAIN parentOf /\ p # parentOf[id]
      <4>1. orders' = [orders EXCEPT ![id] = updated, ![parentOf[id]] = f.parent]
        BY <3>2 DEF Store
      <4>2. parentOf[id] # id
        BY <3>2, FamilyOfChild
      <4>. QED BY <1>1, <2>1, <3>2, <4>1, <4>2
    <3>. QED BY <3>1, <3>2
  <2>3. p # id /\ Family(id).state = routing[p] /\ Family(id).parent = orders[p]
    BY <2>2, FamilyOfChild DEF Family
  <2>4. orders'[p] = f.parent /\ routing'[p] = f.state /\ p \in DOMAIN routing'
    BY <2>1, <2>2, <2>3 DEF Store
  <2>5. orders[p].filled <= routing[p].filled
    BY DEF ParentFillsAreChildFills
  <2>6. f.state.filled >= f.parent.quantity
    BY <1>1, <2>2, <2>3, <2>4, <2>5 DEF Accounts
  <2>7. f.state.filled <= ChildFills(p)'
    BY <2>4 DEF ParentFillsAreChildFills
  <2>9. f.state.filled \in Nat /\ f.parent.quantity \in Nat /\ ChildFills(p)' \in Nat
    <3>1. f \in FamilyRecord
      BY <2>2
    <3>. QED BY <3>1, FillsNext DEF FamilyRecord, RoutingRecord, OrderRecord
  <2>. QED BY <2>4, <2>6, <2>7, <2>9
<1>. QED BY <1>1 DEF Backed

\* A change of status that is not to Filled.
LEMMA StatusIsBacked ==
  ASSUME TablesInv, TablesInv', ParentFillsAreChildFills, ParentFillsAreChildFills',
         NEW id \in DOMAIN orders, NEW status \in Statuses, status # "filled",
         SetStatus(id, status)
  PROVE  Backed
<1>. DEFINE f == AfterChildStatus(Family(id), id, status)
            updated == [orders[id] EXCEPT !.status = status]
<1>1. Store(id, updated, f)
  BY DEF SetStatus
<1>2. updated.status # "filled"
  BY DEF TablesInv, OrderRecord
<1>3. id \in DOMAIN parentOf => f \in FamilyRecord /\ Accounts(Family(id), f, 0)
  BY StatusAccounts
<1>. HIDE DEF f, updated
<1>. QED BY <1>1, <1>2, <1>3, StoreIsBacked

\* Every step, when callers report fills as fills.
LEMMA StepIsBacked ==
  ASSUME "filled" \notin ReportedStatuses, TablesInv, FramesInv, SetsDoNotFill, TablesInv',
         ParentFillsAreChildFills, ParentFillsAreChildFills', [Next]_vars
  PROVE  Backed
<1>1. ASSUME \A p \in DOMAIN routing :
               orders'[p].status = orders[p].status \/ orders'[p].status # "filled"
      PROVE  Backed
  BY <1>1 DEF Backed
<1>2. ASSUME orders' = orders PROVE Backed
  BY <1>1, <1>2
<1>3. ASSUME NEW t \in Threads, CallBy(t)
      PROVE  Backed
  <2>1. ASSUME NEW order, orders' = Put(orders, nextId, order)
        PROVE  Backed
    <3>1. \A p \in DOMAIN routing : p \in DOMAIN orders /\ p # nextId
      BY DEF TablesInv
    <3>. QED BY <1>1, <2>1, <3>1 DEF Put
  <2>2. ASSUME NEW id \in DOMAIN orders, CancelOrder(t, id)
        PROVE  Backed
    <3>1. orders' = [orders EXCEPT ![id].status = "cancelled"]
      BY <2>2 DEF CancelOrder
    <3>. QED BY <1>1, <3>1 DEF TablesInv, OrderRecord
  <2>3. ASSUME NEW id \in DOMAIN orders, NEW quantity, ModifyOrder(t, id, quantity)
        PROVE  Backed
    <3>1. orders' = [orders EXCEPT ![id].quantity = quantity]
      BY <2>3 DEF ModifyOrder
    <3>. QED BY <1>1, <3>1 DEF TablesInv, OrderRecord
  <2>4. ASSUME NEW id \in DOMAIN orders, NEW lots \in FillSizes, ProcessFill(t, id, lots)
        PROVE  Backed
    <3>1. /\ ~orders[id].isParent /\ lots \in Nat
          /\ Store(id, FilledOrder(id, lots), FilledFamily(id, lots))
      BY <2>4, OrderAssumption DEF ProcessFill, FilledOrder, FilledFamily
    <3>2. id \notin DOMAIN routing
      BY <3>1, ParentsAreRoots
    <3>3. id \in DOMAIN parentOf => /\ FilledFamily(id, lots) \in FamilyRecord
                                   /\ Accounts(Family(id), FilledFamily(id, lots), lots)
      BY <3>1, FillAccounts
    <3>. QED BY <3>1, <3>2, <3>3, StoreIsBacked
  <2>5. ASSUME NEW id \in DOMAIN orders, NEW status \in ReportedStatuses,
               UpdateOrderStatus(t, id, status)
        PROVE  Backed
    <3>1. status \in Statuses /\ status # "filled" /\ SetStatus(id, status)
      BY <2>5, OrderAssumption DEF UpdateOrderStatus
    <3>. QED BY <3>1, StatusIsBacked
  <2>6. ASSUME NEW id \in DOMAIN routing, ActivateRoutedOrder(t, id)
        PROVE  Backed
    <3>1. orders' = orders
      BY <2>6 DEF ActivateRoutedOrder
    <3>. QED BY <1>2, <3>1
  <2>. QED BY <1>3, <2>1, <2>2, <2>3, <2>4, <2>5, <2>6 DEF CallBy, Submit, SubmitRouted
<1>4. ASSUME NEW t \in Threads, Continue(t)
      PROVE  Backed
  <2>1. CASE Return(t) \/ LaunchFails(t) \/ AdoptChild(t)
    BY <1>2, <2>1 DEF Return, LaunchFails, AdoptChild
  <2>2. CASE StepSet(t)
    <3>. DEFINE id == Head(stack[t]).order
                status == Head(stack[t]).status
    <3>1. Todo(t, {"set"}) /\ SetStatus(id, status)
      BY <2>2 DEF StepSet
    <3>2. /\ stack[t] # <<>> /\ id \in DOMAIN orders /\ status \in Statuses
          /\ 1 \in DOMAIN stack[t] /\ stack[t][1] = Head(stack[t]) /\ Head(stack[t]).kind = "set"
      BY <3>1, TopFrame DEF Fits
    <3>3. status # "filled"
      BY <3>2 DEF SetsDoNotFill, NoneFilled
    <3>. HIDE DEF id, status
    <3>. QED BY <3>1, <3>2, <3>3, StatusIsBacked
  <2>3. CASE LaunchChild(t)
    <3>1. PICK order : orders' = Put(orders, nextId, order)
      BY <2>3 DEF LaunchChild
    <3>2. \A p \in DOMAIN routing : p \in DOMAIN orders /\ p # nextId
      BY DEF TablesInv
    <3>. QED BY <1>1, <3>1, <3>2 DEF Put
  <2>. QED BY <1>4, <2>1, <2>2, <2>3 DEF Continue
<1>5. CASE Configure \/ UNCHANGED vars
  BY <1>2, <1>5 DEF Configure, SetRouter, ClearRouter, vars
<1>. QED BY <1>3, <1>4, <1>5 DEF Next

\* Nothing is due at the start.
LEMMA InitSetsNothing == Init => SetsDoNotFill
  BY DEF Init, SetsDoNotFill, NoneFilled

\* A plan is carried out once, and its parent shows what its children did, as
\* long as callers report fills as fills and never as a mere status.
THEOREM ChildrenStayAccountedFor ==
  ASSUME "filled" \notin ReportedStatuses
  PROVE  Spec => ChildrenAreAccountedFor
<1>. DEFINE Inv == RoutingInv /\ ChildrenInv /\ SetsDoNotFill
<1>1. Init => Inv
  BY InitEstablishesInv, InitEstablishesChildren, InitSetsNothing
<1>2. RoutingInv => TablesInv /\ FramesInv
  BY RoutingInvParts, Zenon
<1>3. Inv /\ [Next]_vars => Inv'
  BY <1>2, NextPreservesInv, NextPreservesChildren, NextKeepsSets
<1>4. Inv /\ Inv' /\ [Next]_vars =>
        [\A p \in DOMAIN routing :
           orders[p].status # "filled" /\ orders'[p].status = "filled"
             => ChildFills(p)' >= orders'[p].quantity]_vars
  <2>1. RoutingInv' => TablesInv'
    BY <1>2, PTL
  <2>. QED BY <1>2, <2>1, StepIsBacked DEF ChildrenInv, Backed
<1>5. Inv => PlannedOnce /\ ParentFillsAreChildFills
  BY DEF ChildrenInv, PlanInv
<1>6. Spec => []PlannedOnce /\ []ParentFillsAreChildFills /\ FilledParentIsBacked
  <2>. HIDE DEF Inv
  <2>. QED BY <1>1, <1>3, <1>4, <1>5, PTL DEF Spec, FilledParentIsBacked
<1>. QED BY <1>6 DEF ChildrenAreAccountedFor
=============================================================================
