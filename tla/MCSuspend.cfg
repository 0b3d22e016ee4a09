SPECIFICATION FairSpec
CONSTANTS
    Unread = Unread
    Budgets <- Small
INVARIANTS TypeOK QuietMeansQuiet StopsOnlyWhenQuiet
PROPERTIES ServicesComeBack OnlyCommandsLift SuspendIsLifted
CHECK_DEADLOCK FALSE
