CONSTANTS
    Node = {n1, n2}
    MaxRetries = 2
    RouteMaxRetries = 1
    MaxElection = 2
    NONE = NONE
SPECIFICATION Spec
CHECK_DEADLOCK FALSE
INVARIANTS
    OkIsApplied
    RefusalIsFinal
PROPERTIES
    RequestReturns
    CacheFollowsLeader
