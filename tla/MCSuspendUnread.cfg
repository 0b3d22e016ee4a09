SPECIFICATION Spec
CONSTANTS
    Unread = Unread
    Budgets <- Small
PROPERTY UnreadStartsAll
CHECK_DEADLOCK FALSE
