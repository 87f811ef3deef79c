CONSTANTS
  k1 = k1
  k2 = k2
  k3 = k3
  Adapter = "alpaca"
  Keys = {k1, k2, k3}
  QuantityOf <- OneLot
  CallerIds = {0, 1}
  Window = TRUE
  Reconciling = TRUE
  CloseStatuses = {}
  NewQuantities = {1}
  MaxPlaced = 2
  MaxForeign = 1
  MaxId = 2
  MaxFilled = 2
  MaxLost = 1
SYMMETRY Alike
SPECIFICATION ScenarioSpec
INVARIANTS IdsAreConsistent NoTwinInWindow LotsAreCountedOnce
PROPERTIES ActiveOrderKeepsItsId OnlyCancelReopens
CHECK_DEADLOCK FALSE
