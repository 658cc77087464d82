SPECIFICATION MCSpec
CONSTANTS
    Truth <- ThreeEntries
    StaleLog <- LostSuffix
    Terms <- TwoTerms
    Compactions = {2, 3}
    Chunks = 2
    SnapshotLimit = 1
    MaxBatch = 1
    MaxLate = 1
    MaxCrash = 1
    Recapture = FALSE
    NONE = NONE
INVARIANTS
    CommittedIsTruth
    
PROPERTIES
    
    MarkGivenBack
    
CHECK_DEADLOCK FALSE
