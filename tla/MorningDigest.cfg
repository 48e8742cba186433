SPECIFICATION LiveSpec
CONSTANTS
    Slots = 3
    MaxTime = 10
    Limit = 2
    DigestTimes = {1}
    MaxRun = 1
    MaxRestarts = 1
    None = None
    Dialogs = {d}
    Unlisted = {u}
    d = d
    u = u
    PageSize = 2
    MaxFaults = 2
INVARIANTS
    EveryMessageOnce
PROPERTIES
    NoDayIsSkipped
    CatchesUp
CHECK_DEADLOCK FALSE
