SPECIFICATION LiveSpec
CONSTANTS
    Models <- TwoModels
    Residents <- OneResident
    Window = 2
    MinInterval = 1
    MaxSweep = 1
    MaxNow = 2
    MaxChildren = 2
    MaxSignals = 1
INVARIANT StopEndsEveryChild
CHECK_DEADLOCK FALSE
