CONSTANTS
    p1 = p1  p2 = p2  NoHolder = NoHolder
    Procs <- MCProcs
    Profiles <- MCProfiles
    Configs <- MCElected
    MaxEvictions = 1
    MaxFaults = 0
    MaxLosses = 1
    MaxCrashes = 0
SPECIFICATION Spec
INVARIANT OneActive
