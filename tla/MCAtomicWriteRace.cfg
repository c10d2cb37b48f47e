SPECIFICATION Spec
CONSTANTS
    Count = 2
    None = None
    MaxForeign = 1
    MaxFaults = 1
PROPERTY
    ReplacementNeverDeleted
CHECK_DEADLOCK FALSE
