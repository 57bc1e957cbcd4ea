SPECIFICATION ChatSpec
CONSTANTS
    Req = {r1, r2}
    Uid = {a1, a2}
    Model = {m1}
    ModelOf <- MCModelOf
    Credits = {0}
    Cooldowns = {1}
    Threshold = 1
    ErrCooldown = 1
    HardCooldown = 1
    SoftCooldown = 1
    DeadThreshold = 1
    ModelCap = 2
    ResetDelays = {1}
    SaveMayFail = FALSE
    MaxTime = 1
    MaxReqs = 1
    MaxRotate = 2
    Faults = {"transport", "client", "refreshDead", "refreshFail", "hard", "soft", "softModel", "dead", "server"}
    None = None
SYMMETRY MCSymmetry
INVARIANTS StickyOverrun ClientErrorsHarmless
PROPERTIES GivesUpLast
CHECK_DEADLOCK FALSE
