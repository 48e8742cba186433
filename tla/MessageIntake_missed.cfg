SPECIFICATION Spec
CONSTANTS
    c1 = c1
    Chats = {c1}
    MaxMessages = 1
    ChatOf <- OneChat
    Contents <- Single
    Rules <- Defaults
    Suspicious <- First
    PerChat = 2
    Total = 2
    Back = 2
    Recent = 1
    Hour = 1
    Cap = 1
    MaxTime = 1
    MaxCrashes = 1
    None = None
INVARIANTS
    MissedIsStored
CHECK_DEADLOCK FALSE
