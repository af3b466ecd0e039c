CONSTANTS
    Loop = Loop
    Api = Api
    s1 = s1
    nifty = nifty
    bank = bank
    NoPrice = NoPrice
    NoId = NoId
    NoOne = NoOne
    SetupIds = {s1}
    Markets = {nifty, bank}
    Watchlist <- TwoMarketWatch
    MarketOf <- OneMarketOf
    KeyOf <- OneKey
    Levels <- LadderLevels
    Prices <- LadderPrices
    MaxCrashes = 1
SPECIFICATION FairSpec
INVARIANTS MailBound DiskAtRest
PROPERTIES KeepsTheBook ScanAnswered
CHECK_DEADLOCK FALSE
