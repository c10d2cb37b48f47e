SPECIFICATION Spec
CONSTANTS
    Size = 5
    Keys <- MCKeys
    Enumeration <- MCEnumeration
    Default = 0
    Candidate <- MCCandidate
    AttemptsPerPoint = 2
    Radii <- MCRadii
    FirstRadius = 2
    Widened <- MCWidened
    Narrowed <- MCNarrowed
    Budgets = {3, 4, 6}
    BatchSize = 2
    MaxStagnation = 3
    WallTime = TRUE
    MaxNodes = 10
    LedgerFits <- MCLedgerFits
    Room = 7
    MaxFaults = 3
INVARIANTS
    LedgerMatchesCheckpoint
    TrialsAreDistinct
    RefusedOnlyWhenExhausted
    StagnationCounts
    ReportIsCommitted
PROPERTIES
    CommittedIsFinal
    PendingIsFinished
    ImplementsSearch
