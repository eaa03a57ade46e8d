SPECIFICATION FairSpec
CONSTANTS
    s1 = s1
    s2 = s2
    q1 = q1
    Requests <- Three
    Queries = {q1}
    Subs = {s1, s2}
    Callers = {h1, h2}
    TTL = 1
    MaxSize = 2
    Timeout = 1
    MaxTime = 3
INVARIANT AnswersTheCaller
INVARIANT Bounded
INVARIANT AgeBounded
PROPERTY ExpiredGoFirst
PROPERTY JanitorStops
PROPERTY ExpiredIsSwept
