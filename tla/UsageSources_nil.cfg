CONSTANTS
    Nodes = {n1}
    MaxUsage = 24
    Usages <- MCUsages
    Tokens = {"t1", "t2"}
    MaxChanges = 3
SPECIFICATION Spec
INVARIANTS ClientInitialized
