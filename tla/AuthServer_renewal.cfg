SPECIFICATION Spec
CONSTANTS
    Slugs = {d1}
    ClientIds = {i1}
    Redirects = {u1}
    Allowed = {u1}
    Apps = {a1}
    Visitors = {v1}
    Keys = {k1}
    Scopes = {read}
    Supported <- MCSupported
    DevUser = DevUser
    NoKey = NoKey
    Codes = {c1}
    Pairs = {p1, p2}
    MaxChanges = 1
INVARIANTS OffEndsRenewal
