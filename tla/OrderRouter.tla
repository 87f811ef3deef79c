---------------------------- MODULE OrderRouter ----------------------------
(***************************************************************************)
(* The splitting of an order over venues by SmartOrderRouter::route()      *)
(* (src/src/engine/order_routing.cpp), one step per child.  Quantities are *)
(* counted in the unit that makes every venue's share a whole number: one  *)
(* share of stock is TotalWeight units.                                    *)
(***************************************************************************)
EXTENDS Sums

CONSTANTS
  Weights,      \* venues[i].weight, in the order of the configuration
  MaxChildren,  \* max_children
  MinChildren,  \* the values of min_child_qty, in shares
  Quantities    \* the order's quantity, in shares

OrderRouterAssumption ==
  /\ Weights \in Seq(Int)
  /\ Weights # <<>>
  /\ MaxChildren \in Int
  /\ MinChildren \subseteq Nat
  /\ Quantities \subseteq Nat \ {0}

VARIABLES
  quantity,   \* routed_order.quantity
  least,      \* min_child_qty
  remaining,
  children    \* the quantities of plan.children, in the order of the venues

vars == <<quantity, least, remaining, children>>

Larger(a, b) == IF a < b THEN b ELSE a
Smaller(a, b) == IF a < b THEN a ELSE b

\* max_children as route() uses it, and the weights that count.
Count == Larger(1, Smaller(MaxChildren, Len(Weights)))
Weight(i) == Larger(0, Weights[i])

Counted == [i \in 1 .. Count |-> Weight(i)]
TotalWeight == SumOf(Counted)

\* The tests before the loop.
Splits(q, m) == Count >= 2 /\ TotalWeight > 0 /\ q >= m * Count

Init ==
  /\ quantity = 0
  /\ least = 0
  /\ remaining = 0
  /\ children = <<>>

Done == remaining <= 0 \/ Len(children) = Count

\* route() up to the loop: the router keeps nothing between two orders.
Route(q, m) ==
  /\ Done
  /\ quantity' = q * TotalWeight
  /\ least' = m * TotalWeight
  /\ remaining' = IF Splits(q, m) THEN quantity' ELSE 0
  /\ children' = <<>>

\* Mutant: the share is not limited to what remains.
ShareUnlimited(i) ==
  Larger(least, IF i = Count THEN remaining ELSE (quantity \div TotalWeight) * Weight(i))

\* Mutant: the weights are forgotten.
ShareUnweighted(i) ==
  Smaller(remaining, Larger(least, IF i = Count THEN remaining ELSE quantity \div Count))

\* The quantity of child i: its share, or all the rest for the last one, but not less
\* than min_child_qty and not more than there is.
Share(i) ==
  LET share == IF i = Count THEN remaining ELSE (quantity \div TotalWeight) * Weight(i)
  IN  Smaller(remaining, Larger(least, share))

AddChild ==
  /\ ~Done
  /\ LET share == Share(Len(children) + 1) IN
       /\ children' = Append(children, share)
       /\ remaining' = remaining - share
  /\ UNCHANGED <<quantity, least>>

Next ==
  \/ \E q \in Quantities, m \in MinChildren : Route(q, m)
  \/ AddChild

Spec == Init /\ [][Next]_vars
-----------------------------------------------------------------------------
(* Properties.                                                             *)

TypeOK ==
  /\ quantity \in Nat
  /\ least \in Nat
  /\ remaining \in 0 .. quantity
  /\ children \in Seq(0 .. quantity)

\* The children of a finished plan add up to the order: the order manager completes a
\* parent by the fills of its children and relies on it.
ChildrenAddUp ==
  Done /\ children # <<>> => remaining = 0 /\ SumOf(children) = quantity

\* The minimum given to one venue is taken from the last ones, never added: every child
\* has at most the larger of its venue's share and the minimum, and only the last child
\* may be smaller than the minimum.
SharesAreKept ==
  \A i \in DOMAIN children :
    /\ children[i] <= Larger(least, (quantity \div TotalWeight) * Weight(i))
    /\ i < Len(children) => children[i] >= least
=============================================================================
