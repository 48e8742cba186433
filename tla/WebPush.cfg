SPECIFICATION PushLiveSpec
CONSTANTS
    s1 = s1
    c1 = c1
    Subscriptions = {s1}
    Conversations = {c1}
    MaxEvents = 2
    ConversationOf <- OneConversation
    Window = 1
    MaxAttempts = 3
    Backoff <- MCBackoff
    MaxDeaths = 1
    NoDelivery = NoDelivery
    NoPush = NoPush
INVARIANTS
    PushedOnce
PROPERTIES
    ImplementsOutbox
    EveryPushEnds
CHECK_DEADLOCK FALSE
