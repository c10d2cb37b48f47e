CONSTANTS
    Largest = 30
    Saturation = 1
    PopulationSize = 5
    Window = 3
    Default = 5
    Keys <- MCKeys
    Points <- MCKeys
    Drawn <- MCDrawn
    Objectives = 2
    NeighborhoodSize = 4
    Configs <- MCConfigs
    NewOptimizers <- MCNewOptimizers
    Propose <- MCPropose
    Observe <- MCObserve
    Outcomes <- MCOutcomes
SPECIFICATION FairSpec
INVARIANTS
    StagnationIsMeasured
    StopReasonIsTrue
    BookkeepingIsExact
PROPERTIES
    ImplementsCatalogSearch
    FeasibilityIsNeverTraded
    RunEnds
CHECK_DEADLOCK FALSE
