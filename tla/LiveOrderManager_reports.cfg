CONSTANTS
  k1 = k1
  k2 = k2
  k3 = k3
  Adapter = "ib"
  Keys = {k1}
  QuantityOf <- TwoLots
  CallerIds = {1}
  Window = FALSE
  Reconciling = FALSE
  CloseStatuses = {}
  NewQuantities = {}
  MaxPlaced = 1
  MaxForeign = 0
  MaxId = 2
  MaxFilled = 2
  MaxLost = 0
SPECIFICATION AloneSpec
INVARIANT FilledIsExecuted
CHECK_DEADLOCK FALSE
