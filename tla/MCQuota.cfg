SPECIFICATION FairSpec
CONSTANTS
    a1 = a1
    a2 = a2
    Order <- ByName
    Budgets <- Small
INVARIANTS TypeOK ResumedOncePerEpisode NoSecondResume
PROPERTIES ReleaseLeavesNobody InterruptedIsResumed
