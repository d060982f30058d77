CONSTANTS
    a = a  b = b  a1 = a1  a2 = a2  b1 = b1  n1 = n1  n2 = n2  s1 = s1  s2 = s2
    NoNode = NoNode  NoPod = NoPod  NoLimit = NoLimit
    Names <- MCNames
    Uids <- MCUids
    Nodes <- MCNodes
    Namespaces <- MCNamespaces
    NameOf <- MCNameOf
    NodeOf <- MCNodeOf
    NamespaceOf <- MCNamespaceOf
    AssumedTimeout = 0
    MaxPodsToEvictTotal = 2
    MaxPodsToEvictPerNode = 2
    MaxPodsToEvictPerNamespace = NoLimit
    FeatureGates = {TRUE}
    MaxChanges = 2
    MaxWatchGaps = 0
    MaxRestarts = 0
    AcceptedCap = 0
SPECIFICATION Spec
INVARIANTS
    TypeOK
    CountersMatch
    BudgetKept
    NotRequestedTwice
    DetectedAreInProgress
    StartupCounted
