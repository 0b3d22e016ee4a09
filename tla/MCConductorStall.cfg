SPECIFICATION FairSpec
CONSTANTS
    N = 1
    DependsOn <- Chain
    MaxAttempts = 1
    Commits = {1}
    Operations = {}
    MayBeLate = FALSE
    MaxOps = 0
    MaxFaults = 1
    MaxCrashes = 0
    MaxVerdicts = 1
    MaxSoils = 0
PROPERTIES ChecksEnd
