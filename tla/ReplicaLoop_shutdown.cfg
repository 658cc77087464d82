CONSTANTS
    Put = {p1, p2}
    Get = {g1}
    Direct = {d1}
    MaxBatch = 2
    MaxEvent = 1
    MaxCall = 2
    NONE = NONE
SPECIFICATION Spec
CHECK_DEADLOCK FALSE
INVARIANTS
    NobodyInsideAfterDrain
    WaiterRegistered
    WaiterHeld
PROPERTIES
    EveryCallReturns
    ShutdownCompletes
