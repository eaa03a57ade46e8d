SPECIFICATION Spec
CONSTANTS
    Tools <- MCTools
    Contract <- MCContract
    ToolScopes <- MCToolScopes
    CostMeasures <- MCCostMeasures
    Kind <- MCKind
    FilterFields <- MCFilterFields
    Scopes <- MCScopes
    CostScope <- MCCostScope
    Mirrored <- MCMirrored
    RestRequired <- MCRestRequired
    RestMeasures <- MCRestMeasures
    RestGroups <- MCRestGroups
    RestFilters <- MCRestFilters
    RestRequested <- MCRestRequested
    Everything = Everything
    Rights <- MCRights
    Profiles <- MCProfiles
    NoProfile = NoProfile
    Version = 1
    Requested <- MCRequested
    MaxRows = 7
    ResolveLimit = 3
    MaxDepth = 4
    Listers = {l1, l2}
    Callers = {c1}
    TTL = 1
    Timeout = 1
    MaxTime = 3
INVARIANTS WithinRights FiltersKept RestSaysWhatToolsSay ListedIsCallable ProfileFresh
SYMMETRY MCSymmetry
