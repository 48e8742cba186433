SPECIFICATION Spec
CONSTANTS
    a = a
    ta = ta
    fa = fa
    b = b
    tb = tb
    fb = fb
    Humans = {a}
    TgKey <- MCTgKey
    FileKey <- MCFileKey
    Daily = Daily
    Poll = Poll
    Cli = Cli
    Service = {Daily, Poll}
    Commands = {}
    Cached = {ta}
    InFile = {}
    Edited = {a}
    InTelegram = {a}
    StaleAfter = 2
    MaxLag = 1
    MaxIncidents = 1
    NoNotice = NoNotice
INVARIANTS
    OneMail
CHECK_DEADLOCK FALSE
