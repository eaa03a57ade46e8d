SPECIFICATION FairSpec
CONSTANTS
    Secrets = {s1, s2}
    Empty = Empty
    MaxStops = 2
CHECK_DEADLOCK FALSE
INVARIANT SessionsSurvive
PROPERTY ImplementsWholeUpgrade
PROPERTY ComesUp
