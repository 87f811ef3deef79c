CONSTANTS
  Quantities = {1}
  Refusals = {"Rejected"}
  Adapters = {"polled"}
  MaxOrders = 1
  MaxPlaced = 1
  MaxUpsets = 1
SPECIFICATION Spec
INVARIANT CancelsReachTheBroker
CHECK_DEADLOCK FALSE
