SPECIFICATION LiveSpec
CONSTANTS
    Streams = {"stdout", "stderr"}
    PipeRoom = 1
    Kept = 2
    MaxLines = 3
INVARIANTS
    TypeOK
    LastWordsAreTheLast
PROPERTIES
    ImplementsStart
    StartEnds
    ChildIsNeverBlocked
CHECK_DEADLOCK FALSE
