CONSTANTS
    n1 = n1
    n2 = n2
    n3 = n3
    p1 = p1
    c1 = c1
    NONE = NONE
    Node <- ThreeNodes
    InitVoters <- ThreeNodes
    Request <- OnePut
    AddTargets = {}
    RemoveTargets = {}
    MaxBatch = 256
    MaxTerm = 2
    MaxLog = 2
    MaxNet = 1
    MaxRestart = 0
    CasRequest = {}
SPECIFICATION DeposedSpec
SYMMETRY Symmetry
CHECK_DEADLOCK FALSE
INVARIANT AckedIsApplied
