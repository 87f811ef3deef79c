SPECIFICATION ScenarioSpec
CONSTANTS
    OrderIds <- TwoOrders
    Latency = 3
    Liquidity = {2}
    SplitFills = TRUE
    PriceDriftAction = "Reject"
    FillPolicy = "PreserveOrder"
    SessionMayClose = TRUE
    Feed <- TwoDays
    DayLength = 25
    WallClock = 100
    Plans <- WaitingPlans
    Quantities = {}
    StartOps = {"submit"}
    MarketOps = {"submit", "cancel"}
    FillOps = {"cancel"}
    UpdateOps = {"submit"}
    MaxCalls = 4
    MaxFilled = 4
    RiskMayRefuse = TRUE
INVARIANTS
    OrdersAreConsistent
    WorkingIsTracked
    ExecutionsAreSound
    TimeInForceIsKept
PROPERTIES
    WaitingRunEnds
CHECK_DEADLOCK FALSE
