SPECIFICATION Spec
CONSTANTS
    Uid = {a1, a2}
    Model = {}
    Credits = {0, 1}
    Cooldowns = {1}
    Threshold = 2
    ErrCooldown = 1
    DeadThreshold = 1
    ModelCap = 1
    ResetDelays = {}
    SaveMayFail = FALSE
    MaxTime = 2
    None = None
SYMMETRY MCSymmetry
PROPERTIES PoolIsLedger
CHECK_DEADLOCK FALSE
