SPECIFICATION Spec
CONSTANTS
    d1 = d1
    d2 = d2
    None = None
    Slots = {d1, d2}
    MaxTries = 2
    Retry = 1
    T = 1
    workingFactor = 1
    RecipientActs = TRUE
    MayStall = FALSE
    MayTrim = TRUE
    MaxMessages = 1
    MaxProcs = 1
    MaxFaults = 1
    MaxPauses = 0
    MaxSwaps = 0
SYMMETRY Symmetry
INVARIANTS PromptsBounded EscalatedWasTold HolderKnowsRecord TypesUnderReservation
