SPECIFICATION LiveSpec
CONSTANTS
    c1 = c1
    Chats = {c1}
    MaxMessages = 2
    ChatOf <- OneChat
    Contents <- Pairs
    Rules <- Defaults
    Suspicious <- First
    PerChat = 1
    Total = 2
    Back = 2
    Recent = 0
    Hour = 1
    Cap = 1
    MaxTime = 1
    MaxCrashes = 1
    None = None
INVARIANTS
    CursorIsBehindStored
    CompleteIsComplete
    StrictIsAlerted
    WithinTwiceTheCap
PROPERTIES
    BackfillEnds
    EveryUpdateIsSettled
CHECK_DEADLOCK FALSE
