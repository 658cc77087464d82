CONSTANTS
    Budget = 2
    MaxLog = 7
SPECIFICATION Spec
CHECK_DEADLOCK FALSE
INVARIANT EveryEntryApplied
