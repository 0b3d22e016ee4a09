SPECIFICATION FairSpec
CONSTANTS
    d1 = d1
    d2 = d2
    None = None
    Slots = {d1}
    MaxTries = 1
    Retry = 1
    T = 1
    workingFactor = 1
    RecipientActs = TRUE
    MayStall = FALSE
    MayTrim = FALSE
    MaxMessages = 1
    MaxProcs = 2
    MaxFaults = 0
    MaxPauses = 1
    MaxSwaps = 1
INVARIANT NoPromptIntoSwap
PROPERTY NeverForgotten
