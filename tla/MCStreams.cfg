SPECIFICATION StreamsSpec
CONSTANTS
    FirstContent = 1
    Idle = 2
    SinkCap = 2
    SlowClient = TRUE
    MaxLines = 3
    MaxTime = 3
    NoTime = NoTime
    Channel = {"workbuddy", "traework", "qoder"}
    MaxChunks = 5
    Tool = {t0, t1}
    OwnForm = FALSE
    MaxPieces = 3
    NoTool = NoTool
    Cap = 2
    Old = 3
    MaxCalls = 3
    MaxStarts = 3
    NoRecord = NoRecord
INVARIANTS StreamsTypeOK Replayed EndIsTold TagsNest AnswersArrive LogKept
PROPERTIES CutsDeadOnly StreamEnds
CHECK_DEADLOCK FALSE
