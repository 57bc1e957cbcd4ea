SPECIFICATION Spec
CONSTANTS
    Uid = {a1}
    Model = {m1}
    Credits = {0, 1}
    Cooldowns = {1, 2}
    Threshold = 2
    ErrCooldown = 1
    DeadThreshold = 3
    ModelCap = 1
    ResetDelays = {0, 1, 3}
    SaveMayFail = TRUE
    MaxTime = 4
    None = None
INVARIANTS CooldownBounded SavedStateAgrees
PROPERTIES OnlyOperatorReenables
CHECK_DEADLOCK FALSE
