--------------------------- MODULE MCOrderManager ---------------------------
(* Instances of OrderManager for TLC: one plan for each way the parent is   *)
(* completed, and each aggregation.                                        *)
EXTENDS OrderManager, TLC

Plan(quantity, mode, aggregation, children) ==
  [quantity |-> quantity, mode |-> mode, aggregation |-> aggregation,
   children |-> children]

\* Plans as SmartOrderRouter::route() makes them: the children add up.
AllPlans ==
  {Plan(2, "parallel", "partial", <<1, 1>>),
   Plan(2, "sequential", "final", <<1, 1>>),
   Plan(3, "sequential", "none", <<2, 1>>)}

ThreadSymmetry == Permutations(Threads)
=============================================================================
