SPECIFICATION Spec
CONSTANTS
    Size = 3
    Keys <- MCKeys
    Enumeration <- MCEnumeration
    Default = 0
    Candidate <- MCCandidate
    AttemptsPerPoint = 2
    Radii <- MCRadii
    FirstRadius = 2
    Widened <- MCWidened
    Narrowed <- MCNarrowed
    Budgets = {3, 5}
    BatchSize = 2
    MaxStagnation = 3
    WallTime = TRUE
    MaxNodes = 10
    LedgerFits <- MCLedgerFits
    Room = 20
    MaxFaults = 1
INVARIANT
    NeverRefused
