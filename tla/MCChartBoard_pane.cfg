CONSTANTS
    btc = btc
    nifty = nifty
    NoSymbol = NoSymbol
    Symbols <- MCSymbols
    Nse <- MCNse
    Misstamped <- MCNse
    Mounted <- MCNse
    Tape <- MCTape
    Timeframe = 2
    DayLength = 8
    SessionOpen = 2
    SessionClose = 7
    Weekend <- MCWeekend
    Start = 9
    Horizon = 11
    Stored <- MCStored
    Limit = 2
    Cooldown = 2
    MaxEvents = 2
SPECIFICATION FairSpec
INVARIANTS NoHole
PROPERTIES TipSettles EmptyChartFills
CHECK_DEADLOCK FALSE
