--------------------------- MODULE MessageChannel ---------------------------
(***************************************************************************)
(* What the event bus promises, with no thread, list or lock in it: a      *)
(* published message is handed out at most once, and while it is in hand   *)
(* each receiver chosen for it gets it at most once.  Nothing is promised  *)
(* about the order of messages, nor that a message is ever handed out.     *)
(***************************************************************************)

CONSTANTS
  Messages,     \* every message that may be published, each by one call
  Subscribers   \* every subscription id that subscribe() may return

VARIABLES
  sent,         \* the messages published so far
  inbox,        \* published and not handed out
  inHand,       \* the set holding the message being handed out, if any
  receivers,    \* who has still to get the message in hand
  delivered     \* the pairs <<subscriber, message>> of completed callbacks

vars == <<sent, inbox, inHand, receivers, delivered>>

Init ==
  /\ sent = {}
  /\ inbox = {}
  /\ inHand = {}
  /\ receivers = {}
  /\ delivered = {}

Send(m) ==
  /\ m \notin sent
  /\ sent' = sent \cup {m}
  /\ inbox' = inbox \cup {m}
  /\ UNCHANGED <<inHand, receivers, delivered>>

HandOut(m) ==
  /\ inHand = {}
  /\ m \in inbox
  /\ inbox' = inbox \ {m}
  /\ inHand' = {m}
  /\ receivers' \in SUBSET Subscribers
  /\ UNCHANGED <<sent, delivered>>

Deliver(s, m) ==
  /\ m \in inHand
  /\ s \in receivers
  /\ <<s, m>> \notin delivered
  /\ receivers' = receivers \ {s}
  /\ delivered' = delivered \cup {<<s, m>>}
  /\ UNCHANGED <<sent, inbox, inHand>>

Finish ==
  /\ inHand # {}
  /\ receivers = {}
  /\ inHand' = {}
  /\ UNCHANGED <<sent, inbox, receivers, delivered>>

Next ==
  \/ \E m \in Messages : Send(m) \/ HandOut(m)
  \/ \E s \in Subscribers, m \in Messages : Deliver(s, m)
  \/ Finish

Spec == Init /\ [][Next]_vars
=============================================================================
