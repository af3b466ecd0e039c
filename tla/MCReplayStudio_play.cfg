CONSTANTS
    Nil = Nil
    s1 = s1
    Sessions = {1, 2}
    Bars = 2
    EventBars = {1}
    BarOf <- MCBarOf
    MaxClicks = 4
    MaxCalls = 2
    MaxFaults = 1
SPECIFICATION Spec
INVARIANT FramesNotAhead
INVARIANT ReviewedWasSeen
PROPERTY PlayEnds
CHECK_DEADLOCK FALSE
