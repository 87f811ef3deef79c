SPECIFICATION FairSpec
CONSTANTS
    OrderIds <- OneOrder
    Latency = 0
    Liquidity = {1}
    SplitFills = FALSE
    PriceDriftAction = "Ignore"
    FillPolicy = "PreserveOrder"
    SessionMayClose = FALSE
    Feed <- TwoDays
    DayLength = 25
    WallClock = 100
    Plans <- LimitDay
    Quantities = {}
    StartOps = {}
    MarketOps = {"submit"}
    FillOps = {}
    UpdateOps = {}
    MaxCalls = 1
    MaxFilled = 4
    RiskMayRefuse = FALSE
PROPERTIES
    RunEnds
CHECK_DEADLOCK FALSE
