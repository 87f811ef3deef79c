----------------------------- MODULE MCEventBus -----------------------------
(* Instances of EventBus for TLC: two messages on one topic and one on     *)
(* another, a subscription of the first topic and one of the second.       *)
EXTENDS EventBus

CONSTANTS m1, m2, m3, s1, s2

AllMessages == {m1, m2, m3}
AllSubscribers == {s1, s2}
Topics == [x \in AllMessages \cup AllSubscribers |->
             IF x \in {m1, m2, s1} THEN "MarketData" ELSE "System"]

TwoMessages == {m1, m2}
OneSubscriber == {s1}
OneTopic == [x \in TwoMessages \cup OneSubscriber |-> "MarketData"]
=============================================================================
