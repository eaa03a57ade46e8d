SPECIFICATION Spec
CONSTANTS
    Tenants = {t1}
    Clients = {k1}
    Scopes = {read}
    Codes = {c1}
    Tokens = {f1, f2}
    Legacy = {}
    Empty = Empty
    CodeTTL = 1
    AccessTTL = 1
    RefreshTTL = 1
    MaxTime = 1
INVARIANTS ReplayEndsFamily
