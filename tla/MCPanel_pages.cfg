SPECIFICATION PanelSpec
CONSTANTS
    Requests = {1, 2, 3, 4}
    MaxChained = 2
    MaxGen = 3
    MaxVersion = 3
    MaxFaults = 1
    Uids = {u1, u2}
    RunSlots = {r1}
    TimerSlots = {x1}
    Batch = batch
    NoUid = NoUid
    MaxRev = 2
    MaxFailures = 1
    TickSlots = {1, 2}
    MaxLogins = 2
    MaxLosses = 1
    Files = {f1, f2}
    NotJson = NotJson
    ImportRuns = {1, 2}
    MaxMisses = 1
    Owners = {u1, u2}
    NoOwner = NoOwner
    DetailSlots = {1, 2}
    StatusSlots = {1, 2}
    FeedSlots = {1}
    MaxRuns = 1
    MaxDrops = 1
INVARIANTS PollingAlive InForce ImportsTold DetailOfView
PROPERTIES NeverBack ActionShown ToldWhenOver WaitingEnds PagesCatchUp
CHECK_DEADLOCK FALSE
