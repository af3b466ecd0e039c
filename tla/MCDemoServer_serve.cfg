SPECIFICATION ServerSpec
CONSTANTS
    btc = btc
    dead = dead
    Nil = Nil
    Clients = {c1, c2}
    Keys <- MCKeys
    Market <- MCMarket
    Walk <- MCWalk
    Window = 32
    MinBars = 30
    StartBar = 20
    TTL = 2
    Timeout = 2
    Strides = {4}
    Horizon = 4
    MaxMoves = 1
    MaxRuns = 1
INVARIANTS
    BreaksWereKnown
    PlansHold
PROPERTIES
    AnswersMoveForward
    Answered
