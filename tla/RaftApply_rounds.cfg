CONSTANTS
    Budget = 2
    MaxLog = 7
SPECIFICATION Spec
CHECK_DEADLOCK FALSE
INVARIANTS
    BacklogDrained
    AppliedOnceInOrder
    SkipsOnlyBeforeConfig
