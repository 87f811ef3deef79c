CONSTANTS
  k1 = k1
  k2 = k2
  k3 = k3
  Adapter = "alpaca"
  Keys = {k1}
  QuantityOf <- OneLot
  CallerIds = {1}
  Window = FALSE
  Reconciling = TRUE
  CloseStatuses = {}
  NewQuantities = {}
  MaxPlaced = 1
  MaxForeign = 0
  MaxId = 2
  MaxFilled = 2
  MaxLost = 1
SPECIFICATION AloneFairSpec
PROPERTY Converges
CHECK_DEADLOCK FALSE
