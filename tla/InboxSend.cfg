SPECIFICATION BrowserSpec
CONSTANTS
    h1 = h1
    h2 = h2
    h3 = h3
    r1 = r1
    r2 = r2
    c1 = c1
    c2 = c2
    Requests = {r1, r2}
    Scopes = {c1, c2}
    Handlers = {h1, h2, h3}
    Retention = 1
    MaxCrashes = 1
    NoRecord = NoRecord
    NoHandler = NoHandler
    NoPost = NoPost
    Target = c1
    MaxEdits = 3
    Tab = {h1, h2}
    Foreign = {r1}
    NoRequest = NoRequest
INVARIANTS
    DeliveredOnce
    OkMeansDelivered
    DraftIsSentOnce
PROPERTIES
    NothingWrittenIsLost
    FailedMeansNotSent
    EveryPostIsAnswered
CHECK_DEADLOCK FALSE
