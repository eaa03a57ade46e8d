SPECIFICATION Spec
CONSTANTS
    Slugs = {d1, d2}
    ClientIds = {i1}
    Redirects = {u1, u2, plain}
    Allowed = {u1, u2}
    Apps = {a1, a2}
    Visitors = {v1}
    Keys = {k1}
    Scopes = {read, cost}
    Supported <- MCSupported
    DevUser = DevUser
    NoKey = NoKey
    Codes = {c1}
    Pairs = {p1, p2}
    MaxChanges = 1
SYMMETRY MCSymmetry
INVARIANTS CodeGoesHome TracesToKey
PROPERTY ImplementsLedger
