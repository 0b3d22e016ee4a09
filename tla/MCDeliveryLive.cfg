SPECIFICATION FairSpec
CONSTANTS
    a = a
    b = b
    c = c
    None = None
    Subs = {a, b}
    Steady = {a}
    Modes = {"peer", "since", "inbox", "loop"}
    Kinds = {"request", "otherRequest"}
    MaxEntries = 2
    MaxClock = 1
    MaxAttempts = 2
    Retain = 1
    Horizon = 1
    MayPurge = TRUE
CHECK_DEADLOCK FALSE
INVARIANT BoardHonest
PROPERTY EveryEntryDelivered
