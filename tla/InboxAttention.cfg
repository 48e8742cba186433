SPECIFICATION Spec
CONSTANTS
    h1 = h1
    LastId = 2
    Threads = {0, 1}
    Home <- Forum
    Observers = {h1}
    Lifetime = 1
    ViewLease = 1
    NoRow = NoRow
    NoThread = NoThread
INVARIANTS
    StartKeepsAttention
    UnreadIsExact
    UnreadDoesNotExpire
PROPERTIES
    ReplayChangesNothing
CHECK_DEADLOCK FALSE
