SPECIFICATION FairSpec
CONSTANTS
    Writers = {w1, w2, w3}
    Identities = {i1, i2, i3}
    None = None
INVARIANTS
    MutualExclusion
    ActiveOwns
    NoLeak
PROPERTIES
    ImplementsClaim
    EveryWriterEnds
CHECK_DEADLOCK FALSE
