---------------------------- MODULE BoundedQueue ----------------------------
(***************************************************************************)
(* What a queue of the live engine promises: what is put in is given out   *)
(* in the same order, each once, and at most Limit values wait.            *)
(***************************************************************************)
EXTENDS Integers, Sequences

CONSTANTS Values, Limit

VARIABLES
  items,  \* the values that wait, the oldest first
  given   \* the value given out last

Init == items = <<>> /\ given \in Values

Put(value) ==
  /\ Len(items) < Limit
  /\ items' = Append(items, value)
  /\ UNCHANGED given

Take ==
  /\ items # <<>>
  /\ given' = Head(items)
  /\ items' = Tail(items)

Next == Take \/ \E value \in Values : Put(value)

Spec == Init /\ [][Next]_<<items, given>>
=============================================================================
