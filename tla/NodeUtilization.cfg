CONSTANTS
    Scale = 6
    Settings <- MCSettings
SPECIFICATION Spec
INVARIANTS StopsAtTarget RoomAtDestinations StopsForAReason  AroundAverage
CHECK_DEADLOCK FALSE
