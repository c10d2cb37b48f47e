CONSTANTS
    Documents <- MCDocuments
    Coordinates <- MCCoordinates
    Precision = 8
    MaxEnumerable = 16
    MaxDraws = 2
SPECIFICATION Spec
INVARIANTS
    ExhaustionIsProof
    CanonicalPoint
CHECK_DEADLOCK FALSE
