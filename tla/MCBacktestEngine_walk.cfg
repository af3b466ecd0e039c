CONSTANTS
    Plans <- MCPlans
    PlanOf <- MCPlanOf
    Bars <- MCBars
    Shares <- MCShares
    Whole = 4
    OrderType = "limit"
    Sizes <- MCSizes
    TrailBy = 4
    MaxBarsInTrade = 2
    WalkForward = TRUE
    Train = 0
    Test = 3
    Step = 3
    NBars = 6
    MoveToBreakeven = TRUE
    Slip = 0
    Fee = 1
    InitialCapital = 100
    NoPrice = NoPrice
SPECIFICATION Spec
CHECK_DEADLOCK FALSE
INVARIANTS CapitalExplained PlanTradedOnce
PROPERTY StopNeverLoosens
