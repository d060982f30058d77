CONSTANTS
    Settings <- MCSettings
SPECIFICATION Spec
INVARIANT LowerPriorityFirst
CHECK_DEADLOCK FALSE
