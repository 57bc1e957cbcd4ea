SPECIFICATION Spec
CONSTANTS
    Uid = {a1}
    Run = {"loop", "panel", "activity", "page", "tray", "single"}
    KindOf <- MCKindOf
    MaxStarts = 3
    MaxSpends = 1
    Lossy = TRUE
    None = None
INVARIANTS SeesFreshTrip CountersEarned
PROPERTY ReadingsInOrder
CHECK_DEADLOCK FALSE
