SPECIFICATION Spec
CONSTANTS
    Count = 3
    None = None
    MaxForeign = 2
    MaxFaults = 2
INVARIANTS
    AllOrNothing
    OriginalsKept
PROPERTY
    ReplacementsKept
CHECK_DEADLOCK FALSE
