SPECIFICATION Spec
CONSTANTS
    Others = {}
    Failing = {}
INVARIANT FinishFindsLock
CHECK_DEADLOCK FALSE
