CONSTANTS
    ema9 = ema9
    Workers = {w1, w2}
    NBars = 4
    Close <- Spike
    Params = {ema9}
    NoParams = NoParams
    Window = 1
SPECIFICATION FairStoreSpec
INVARIANTS HistoryFinal
PROPERTIES CatchesUp
CHECK_DEADLOCK FALSE
