CONSTANTS
  Threads = {t1, t2}
  Quantities = {1}
  FillSizes = {1}
  ReportedStatuses = {"pending", "cancelled"}
  Plans <- AllPlans
  MaxSubmits = 1
  MaxFilled = 2
  MaxCalls = 5
SPECIFICATION Spec
SYMMETRY ThreadSymmetry
INVARIANT RoutingIsConsistent
PROPERTY ChildrenAreAccountedFor
CHECK_DEADLOCK FALSE
