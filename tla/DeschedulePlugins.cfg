CONSTANTS
    Settings <- MCSettings
SPECIFICATION Spec
INVARIANTS EveryMatchTried WorstFirst ConflictAtEviction ConflictsResolved LowerPriorityGoes NotEvictedTwice MinReplicasKept ProtectedPodsStay
CHECK_DEADLOCK FALSE
