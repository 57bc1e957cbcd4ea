SPECIFICATION FairChatSpec
CONSTANTS
    Req = {r1, r2}
    Uid = {a1}
    Model = {m1}
    ModelOf <- MCModelOf
    Credits = {0}
    Cooldowns = {1}
    Threshold = 2
    ErrCooldown = 1
    HardCooldown = 1
    SoftCooldown = 1
    DeadThreshold = 2
    ModelCap = 2
    ResetDelays = {1}
    SaveMayFail = FALSE
    MaxTime = 1
    MaxReqs = 1
    MaxRotate = 3
    Faults = {"transport", "client", "refreshDead", "refreshFail", "hard", "soft", "softModel", "dead", "server"}
    None = None
PROPERTIES EveryRequestAnswered
CHECK_DEADLOCK FALSE
