SPECIFICATION Spec
CONSTANTS
    MaxHeadBytes = 8
    MaxHeadLines = 2
    MaxBodyBytes = 4
    MaxCount = 4000
    StartupTimeout = 300
    MiB = 4
    OverheadBytes = 12
    MaxPairs = 12
    MaxLayerArray = 8
    MaxDepth = 3
    RootName <- RootWords
    FallbackContext = 5
    KeyOrder <- KeysInOrder
    MinDeviceMargin = 4
    SystemShare = 80
    WaitDefault = 60
    MaxLimit = 1000
    UnitsPerMib = 10
    AssignedWithin = 3
INVARIANTS
    HeadBoundsHold
    OnlyWhatCanBeAnsweredAsks
    ToldToSendIsRead
    EveryFaultIsSaid
    EstimateErrsHigh
    EveryFileIsOneEntry
    NothingIsGuessed
CHECK_DEADLOCK FALSE
