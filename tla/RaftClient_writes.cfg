CONSTANTS
    n1 = n1
    n2 = n2
    n3 = n3
    p1 = p1
    c1 = c1
    NONE = NONE
    Node <- ThreeNodes
    InitVoters <- ThreeNodes
    Request <- PutAndCas
    AddTargets = {}
    RemoveTargets = {}
    MaxBatch = 256
    MaxTerm = 3
    MaxLog = 4
    MaxNet = 1
    MaxRestart = 1
    CasRequest <- OneCas
SPECIFICATION ShapedSpec
SYMMETRY Symmetry
CHECK_DEADLOCK FALSE
INVARIANTS
    AckedByLeaderIsApplied
    AckedCasIsApplied
    RequestLoggedOnce
