SPECIFICATION LiveSpec
CONSTANTS
    c1 = c1
    Conversations = {c1}
    MaxEvents = 2
    ConversationOf <- OneConversation
    PageSize = 2
    Fresh = 2
    Snoozes = {1, 2}
    Skew = 0
    Tolerance = 1
    MaxTime = 2
    MaxToggles = 2
    None = None
INVARIANTS
    AtMostOnce
    NoMutedBacklog
PROPERTIES
    EveryRowIsConsumed
CHECK_DEADLOCK FALSE
