SPECIFICATION FairSpec
CONSTANTS
    backfill = backfill
    live = live
    m1 = m1
    old = old
    Messages = {m1, old}
    Legacy = {old}
    Ingesters = {live, backfill}
    Backfillers = {backfill}
    Retrier = Retrier
    Cli = Cli
    NoWorker = NoWorker
    NoMessage = NoMessage
    MentionOnly = FALSE
    Lags = {0}
    StaleAfter = 2
    MaxSend = 1
    Horizon = 3
    Backoff <- MCBackoff
INVARIANTS
    OneSender
    LegacyIsNeverMailed
    NoNeedlessDuplicate
PROPERTIES
    SentIsFinal
    ImplementsOutbox
    JobsAreSettled
CHECK_DEADLOCK FALSE
