SPECIFICATION FairSpec
CONSTANTS
    Size = 7
    Keys <- MCKeys
    Enumeration <- MCEnumeration
    Default = 0
    Candidate <- MCCandidate
    AttemptsPerPoint = 2
    Radii <- MCRadii
    FirstRadius = 2
    Widened <- MCWidened
    Narrowed <- MCNarrowed
    Budgets = {2, 3, 4, 6}
    BatchSize = 2
    MaxStagnation = 3
    WallTime = TRUE
    MaxNodes = 3
    LedgerFits <- MCLedgerFits
    Room = 6
    MaxFaults = 2
INVARIANT
    CommitFits
PROPERTIES
    EveryProcessEnds
    PendingIsCommitted
