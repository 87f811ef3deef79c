CONSTANTS
  Quantities = {1}
  Refusals = {"Rejected"}
  Adapters = {"polled", "threaded"}
  MaxOrders = 2
  MaxPlaced = 2
  MaxUpsets = 2
SPECIFICATION FairSpec
INVARIANTS TablesAreConsistent IdsAreConsistent
PROPERTY SettlesWithBroker
CHECK_DEADLOCK FALSE
