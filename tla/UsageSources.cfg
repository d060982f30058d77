CONSTANTS
    Nodes = {n1, n2}
    MaxUsage = 24
    Usages <- MCUsages
    Tokens = {"t1", "t2"}
    MaxChanges = 3
SPECIFICATION Spec
INVARIANTS StaleIsPending
PROPERTIES Converges RotationPickedUp
