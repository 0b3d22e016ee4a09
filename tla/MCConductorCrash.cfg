SPECIFICATION FairSpec
CONSTANTS
    N = 2
    DependsOn <- Chain
    MaxAttempts = 1
    Commits = {1}
    Operations = {}
    MayBeLate = TRUE
    MaxOps = 0
    MaxFaults = 0
    MaxCrashes = 1
    MaxVerdicts = 2
    MaxSoils = 1
INVARIANTS MergedWasReviewed IntegratedIsGreen DeliveredByCurrent
PROPERTIES MissionsLife NeverStalls CompletionIsDecided
