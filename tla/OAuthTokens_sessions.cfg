SPECIFICATION FairSpec
CONSTANTS
    Tenants = {t1, t2}
    Clients = {k1}
    Scopes = {read, cost}
    Codes = {c1}
    Tokens = {l1, f1}
    Legacy = {l1}
    Empty = Empty
    CodeTTL = 0
    AccessTTL = 0
    RefreshTTL = 0
    MaxTime = 1
PROPERTIES RevocationIsPrecise ExpiredIsPurged
