---------------------------- MODULE MCLiveOrders ----------------------------
(***************************************************************************)
(* Instances of LiveOrderManager.  Four are checked by one run, told apart *)
(* by `scenario`.  "ids": two fingerprints of one lot, numbered by the     *)
(* engine and by the manager, an order that is not ours, the duplicate     *)
(* window, calls without an answer, and reconciliation.  The name of an    *)
(* adapter: one fingerprint of two lots, whose reports, as that adapter    *)
(* makes them, are reordered and lost, without reconciliation.  "alone":   *)
(* the instance that a configuration makes of the module's constants.      *)
(* The two fingerprints of "ids" may be exchanged: no other instance uses  *)
(* them in the same run.                                                   *)
(***************************************************************************)
EXTENDS LiveOrderManager

CONSTANTS k1, k2, k3

VARIABLE scenario

OneLot == [k \in Keys |-> 1]
TwoLots == [k \in Keys |-> 2]
Alike == Permutations({k1, k2})

Ids == INSTANCE LiveOrderManager WITH
  Keys <- {k1, k2}, QuantityOf <- [k \in {k1, k2} |-> 1], MaxLost <- 0

Adapters == {"alpaca", "ib", "fills"}

Reports(adapter) == INSTANCE LiveOrderManager WITH
  Adapter <- adapter, Keys <- {k3}, QuantityOf <- [k \in {k3} |-> 2], CallerIds <- {0}, Window <- FALSE, Reconciling <- FALSE,
  CloseStatuses <- {"expired"}, NewQuantities <- {1, 2}, MaxForeign <- 0,
  MaxPlaced <- IF adapter = "fills" THEN 2 ELSE 1

ScenarioInit ==
  \/ scenario = "ids" /\ Ids!Init
  \/ scenario \in Adapters /\ Reports(scenario)!Init

ScenarioNext ==
  /\ UNCHANGED scenario
  /\ \/ scenario = "ids" /\ Ids!Next
     \/ \E adapter \in Adapters : scenario = adapter /\ Reports(adapter)!Next

ScenarioSpec == ScenarioInit /\ [][ScenarioNext]_<<vars, scenario>>

AloneSpec ==
  /\ scenario = "alone" /\ Init
  /\ [][UNCHANGED scenario /\ Next]_<<vars, scenario>>

AloneFairSpec == AloneSpec /\ Fairness
=============================================================================
