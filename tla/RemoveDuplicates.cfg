CONSTANTS
    Settings <- MCSettings
    Rounds = 2
SPECIFICATION Spec
INVARIANTS KeepsShare ExcessTried Settles RepresentativesSuffice
CHECK_DEADLOCK FALSE
