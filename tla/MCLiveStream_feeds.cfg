CONSTANTS
    nifty = nifty
    btc = btc
    NPanes = 2
    Symbols <- MCSymbols
    Polled <- MCPolled
    NoSymbol = NoSymbol
    MaxConnects = 2
    MaxProbes = 1
    MaxTimers = 2
    MaxOutages = 1
SPECIFICATION FairSpec
INVARIANTS OneStream
PROPERTIES StoppedStaysQuiet CalmSettles
CHECK_DEADLOCK FALSE
