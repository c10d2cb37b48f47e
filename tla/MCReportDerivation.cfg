CONSTANTS
    Largest = 30
    Saturation = 1
    Margin = 1
    Problems <- MCProblems
    Outcomes <- MCOutcomes
    Budget = 2
    BatchSize = 1
SPECIFICATION Spec
INVARIANT
    DerivationIsReported
CHECK_DEADLOCK FALSE
