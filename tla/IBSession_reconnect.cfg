SPECIFICATION FairSpec
CONSTANTS
  Submitters = {1, 2}
  MaxConnects = 2
  MaxOrders = 3
PROPERTY ReconnectReturns
CHECK_DEADLOCK FALSE
