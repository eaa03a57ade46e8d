SPECIFICATION Spec
CONSTANTS
    Keys = {k1}
    Limit = 2
    Window = 5
    Second = 2
    MaxTime = 13
INVARIANT PassBudget
INVARIANT RetryNearlyEnough
INVARIANT RefusedOnlyWhenSpent
