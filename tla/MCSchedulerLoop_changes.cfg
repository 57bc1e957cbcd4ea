SPECIFICATION FairLoopSpec
CONSTANTS
    Hour = 3
    Hours = 5
    InitialCheckin = {1}
    CheckinSets <- MCCheckinSets
    KeepaliveHours = {3}
    TravelHours = {5}
    ActivityHours = {13}
    MaxDuration = 2
    MaxChanges = 3
    NoSlot = NoSlot
PROPERTIES OncePerDay ApartSlotsRun
