CONSTANTS
    a = a  b = b  a1 = a1  a2 = a2  b1 = b1  NoPod = NoPod
    Names <- MCNames
    Uids <- MCTwice
    NameOf <- MCNameOfTwice
    MaxChanges = 2
    MaxWatchGaps = 1
    MaxTimeouts = 1
SPECIFICATION FairSpec
INVARIANTS NoPodForgotten RestoredSeen BystandersMirrored
PROPERTY EvictedComeBack
