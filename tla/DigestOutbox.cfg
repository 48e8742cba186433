CONSTANTS
    m1 = m1  m2 = m2  c1 = c1  c2 = c2
    Messages = {m1, m2}
    ChatOf <- OwnChats
    Pipelines = {p1, p2}
    Retrier = retrier
    Cli = cli
    MaxDigests = 2
    MaxMessages = 2
    StaleAfter = 2
    MaxSend = 1
    Backoff <- MCBackoff
    MaxIncidents = 1
    MaxRuns = 3
    None = None
SPECIFICATION Spec
SYMMETRY Symmetry
CHECK_DEADLOCK FALSE
INVARIANTS
    OneSender
    DigestedWasMailed
    ClaimedIsLive
    RetryRespectsIgnored
PROPERTIES
    ImplementsOutbox
