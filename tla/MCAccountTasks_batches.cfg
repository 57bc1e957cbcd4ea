SPECIFICATION FairTaskSpec
CONSTANTS
    Task = {"scheduler", "panel"}
    KindsOf <- MCKindsOf
    Chat = {c1, c2}
    Uid = {a1}
    Model = {}
    Credits = {0, 1}
    Cooldowns = {1}
    Threshold = 1
    ErrCooldown = 1
    DeadThreshold = 2
    ModelCap = 1
    ResetDelays = {}
    SaveMayFail = FALSE
    MaxTime = 1
    None = None
PROPERTIES DisabledAfterDeads BatchesEnd
CHECK_DEADLOCK FALSE
