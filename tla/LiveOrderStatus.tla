--------------------------- MODULE LiveOrderStatus --------------------------
(* The states of a live order (LiveOrderStatus) and the transitions that   *)
(* update_order_state() takes for valid.                                   *)
EXTENDS Integers

Closed == {"cancelled", "rejected", "expired", "inactive", "error"}
Fills == {"partiallyFilled", "filled"}
Statuses == {"pendingNew", "new", "pendingCancel"} \cup Fills \cup Closed

IsTerminal(status) == status \in {"filled"} \cup Closed

IsOpen(status) == status \in {"new", "pendingNew", "partiallyFilled"}

\* Mutant: an order in error takes the next report as it comes.
IsValidTransitionFromError(from, to) ==
  \/ from = to
  \/ from \in {"pendingNew", "new", "partiallyFilled", "error"} /\ to \in Fills \cup Closed
  \/ from = "pendingNew" /\ to = "new"
  \/ from = "pendingCancel" /\ to \in Closed

IsValidTransition(from, to) ==
  \/ from = to
  \/ from \in {"pendingNew", "new", "partiallyFilled"} /\ to \in Fills \cup Closed
  \/ from = "pendingNew" /\ to = "new"
  \/ from = "pendingCancel" /\ to \in Closed

Put(f, k, v) == [x \in DOMAIN f \cup {k} |-> IF x = k THEN v ELSE f[x]]

Greater(a, b) == IF a > b THEN a ELSE b
=============================================================================
