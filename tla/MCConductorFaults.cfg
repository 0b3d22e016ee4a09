SPECIFICATION FairSpec
CONSTANTS
    N = 1
    DependsOn <- Chain
    MaxAttempts = 1
    Commits = {1}
    Operations = {"retry", "reassign", "skip", "abort"}
    MayBeLate = FALSE
    MaxOps = 1
    MaxFaults = 1
    MaxCrashes = 0
    MaxVerdicts = 2
    MaxSoils = 0
INVARIANTS OnlyRecordedMerges NoForgottenRequest SignalsHonest
PROPERTIES OwedIsDone
