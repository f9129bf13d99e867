SPECIFICATION LiveSpec
CONSTANTS
    Models <- TwoModels
    Residents <- OneResident
    Window = 2
    MinInterval = 1
    MaxSweep = 1
    MaxNow = 5
    MaxChildren = 2
    MaxSignals = 2
INVARIANTS
    TypeOK
    IdleIsUnloaded
    FallIsTheChilds
    StopEndsWhatItTook
PROPERTIES
    SweepTakesOnlyIdle
    SignalEnds
CHECK_DEADLOCK FALSE
