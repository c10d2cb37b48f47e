CONSTANTS
    Largest = 30
    Saturation = 1
    Margin = 1
    Problems <- MCProblems
    Outcomes <- MCOutcomes
    Budget = 4
    BatchSize = 2
SPECIFICATION Spec
INVARIANTS
    FrontCovers
    AnchorsAreUndominated
    SelectionFollowsTheFronts
    PreferenceIsTotal
    VolumeIsExact
    CurveEndsAtTheFront
    ComparisonIsMonotone
PROPERTY
    ProgressIsANewTrial
CHECK_DEADLOCK FALSE
