SPECIFICATION FairSpec
CONSTANTS
    Flow = {"workbuddy", "traework", "qoder"}
    KindOf <- MCKindOf
    MaxPolls = 1
    None = None
INVARIANTS BusyIsRunning OnlyAuthorised
PROPERTIES LoginEnds
CHECK_DEADLOCK FALSE
