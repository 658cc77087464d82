CONSTANTS
    n1 = n1
    n2 = n2
    n3 = n3
    NONE = NONE
    Node <- ThreeNodes
    InitVoters <- TwoNodes
    Request = {}
    AddTargets <- ThirdNode
    RemoveTargets <- ThreeNodes
    MaxBatch = 256
    MaxTerm = 3
    MaxLog = 4
    MaxNet = 1
    MaxRestart = 1
    MaxRead = 1
SPECIFICATION BoundedSpec
SYMMETRY PairSymmetry
CHECK_DEADLOCK FALSE
INVARIANTS
    TypeOK
    ElectionSafety
    OnePendingConfig
    MatchIndexTrue
    StateMachineSafety
    ReadLinearizable
PROPERTIES
    AppliedPrefixKept
    PromotionFindsMember
