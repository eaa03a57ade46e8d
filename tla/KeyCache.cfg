SPECIFICATION FairSpec
CONSTANTS
    Keys = {k1}
    Callers = {h1, h2}
    TTL = 2
    NegCap = 1
    MaxTime = 5
INVARIANT OldKeyFades
INVARIANT RefusalFades
PROPERTY ExpiredIsDropped
PROPERTY ImplementsReplyMemory
