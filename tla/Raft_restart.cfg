CONSTANTS
    n1 = n1
    n2 = n2
    n3 = n3
    v1 = v1
    NONE = NONE
    Node <- ThreeNodes
    InitVoters <- ThreeNodes
    Request = {}
    AddTargets = {}
    RemoveTargets <- ThreeNodes
    MaxBatch = 256
    MaxTerm = 2
    MaxLog = 4
    MaxNet = 1
    MaxRestart = 1
SPECIFICATION LedSpec
SYMMETRY Symmetry
CHECK_DEADLOCK FALSE
INVARIANT StateMachineSafety
