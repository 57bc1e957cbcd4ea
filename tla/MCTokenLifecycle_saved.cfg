SPECIFICATION Spec
CONSTANTS
    Proc = {chat, keepalive}
    Saver = {chat, keepalive}
    Obj = {o1, o2, o3}
    MaxToken = 4
    SaveMayFail = TRUE
    None = None
SYMMETRY MCSymmetry
INVARIANTS SavedTokenIsLive
CHECK_DEADLOCK FALSE
