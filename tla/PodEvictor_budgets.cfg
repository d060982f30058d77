CONSTANTS
    a = a  b = b  a1 = a1  a2 = a2  b1 = b1  n1 = n1  n2 = n2  s1 = s1  s2 = s2
    NoNode = NoNode  NoPod = NoPod  NoLimit = NoLimit
    Names <- MCOneName
    Uids <- MCIncarnations
    Nodes <- MCNodes
    Namespaces <- MCNamespaces
    NameOf <- MCOneNameOf
    NodeOf <- MCOneNodeOf
    NamespaceOf <- MCOneNamespaceOf
    AssumedTimeout = 0
    MaxPodsToEvictTotal = 3
    MaxPodsToEvictPerNode = NoLimit
    MaxPodsToEvictPerNamespace = 2
    FeatureGates = {TRUE, FALSE}
    MaxChanges = 2
    MaxWatchGaps = 1
    MaxRestarts = 1
    AcceptedCap = 0
SPECIFICATION FairSpec
PROPERTIES
    KeepsBudgets
    GonePodsLeave
