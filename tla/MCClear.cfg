SPECIFICATION FairSpec
CONSTANTS
    d1 = d1
    d2 = d2
    None = None
    Slots = {d1, d2}
    MaxSessions = 2
    MaxStatuses = 2
    Budgets <- Small
INVARIANTS TypeOK OneMessagePerSession NoClearForgotten ClearOncePerHandoff
PROPERTIES ResumeCoversWork EveryClearSettles
