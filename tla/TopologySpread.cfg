CONSTANTS
    Settings <- MCSettings
SPECIFICATION Spec
INVARIANTS  NotPastAverage EvictedFromCrowded
PROPERTY LoopEnds
CHECK_DEADLOCK FALSE
