SPECIFICATION Spec
CONSTANTS
    OutLimit = 2
    ErrLimit = 0
    Answer = 2
    PipeSize = 1
    MaxFaults = 1
INVARIANTS
    ResultIsWhole
    DecidedOnEverything
    ChildIsReaped
    CaptureIsBounded
PROPERTY
    EveryCallEnds
CHECK_DEADLOCK FALSE
