CONSTANTS
    n1 = n1
    n2 = n2
    n3 = n3
    v1 = v1
    NONE = NONE
    Node <- ThreeNodes
    InitVoters <- ThreeNodes
    Request <- OneRequest
    AddTargets = {}
    RemoveTargets = {}
    MaxBatch = 1
    MaxTerm = 4
    MaxLog = 3
    MaxNet = 2
    MaxRestart = 1
SPECIFICATION ShapedSpec
SYMMETRY Symmetry
CHECK_DEADLOCK FALSE
INVARIANTS
    MatchIndexTrue
    LogMatching
    LeaderCompleteness
    StateMachineSafety
PROPERTIES
    VoteKept
