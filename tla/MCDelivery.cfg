SPECIFICATION Spec
CONSTANTS
    a = a
    b = b
    c = c
    None = None
    Subs = {a, b}
    Steady = {}
    Modes = {"drain", "once"}
    Kinds = {"person", "timed", "other"}
    MaxEntries = 2
    MaxClock = 2
    MaxAttempts = 2
    Retain = 1
    Horizon = 1
    MayPurge = FALSE
CHECK_DEADLOCK FALSE
SYMMETRY Symmetry
INVARIANTS AckedWasWritten PersonKept FirstWriteOnce
PROPERTY OnlyHolderSettles
