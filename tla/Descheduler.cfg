CONSTANTS
    p1 = p1  p2 = p2  NoHolder = NoHolder
    Procs <- MCProcs
    Profiles <- MCProfiles
    Configs <- Config
    MaxEvictions = 2
    MaxFaults = 2
    MaxLosses = 2
    MaxCrashes = 1
SPECIFICATION FairSpec
INVARIANTS LoopRunsAll 
PROPERTIES SingleRunEnds GoesOn
CHECK_DEADLOCK FALSE
