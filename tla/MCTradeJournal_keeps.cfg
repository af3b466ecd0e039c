SPECIFICATION Spec
CONSTANTS
    Panes = {p1, p2}
    Charts = {c1, c2}
    Nil = Nil
    Setups <- MCSetups
    Feed <- MCFeed
    Personalities <- MCPersonalities
    Kept <- MCKept
    Slip = 1
    Floor = 2
    Thresh = 2
    Near = 0
    Cap = 2
    PlanCap = 2
    StrategyOf <- MCStrategyOf
    TypeOf <- MCTypeOf
    ConfidenceOf <- MCConfidenceOf
    SymbolOf <- MCSymbolOf
    MarketOf <- MCMarketOf
    TimeframeOf <- MCTimeframeOf
    Ladder <- MCLadder
    Late = 1
    Early = 1
    MaxDays = 1
    MaxEvents = 2
INVARIANTS
    ExitIsFirstTouch
    WonMeansEntered
    BooksBalance
PROPERTIES
    HistoryKept
    MissStands
SYMMETRY MCSymmetry
CHECK_DEADLOCK FALSE
