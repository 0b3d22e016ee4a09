SPECIFICATION FairSpec
CONSTANTS
    d1 = d1
    d2 = d2
    None = None
    Slots = {d1}
    MaxTries = 1
    Retry = 1
    T = 1
    workingFactor = 1
    RecipientActs = FALSE
    MayStall = TRUE
    MayTrim = FALSE
    MaxMessages = 2
    MaxProcs = 1
    MaxFaults = 1
    MaxPauses = 0
    MaxSwaps = 0
PROPERTY NeverForgotten
