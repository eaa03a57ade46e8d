SPECIFICATION Spec
CONSTANTS
    Tenants = {t1}
    Clients = {k1}
    Scopes = {read, cost}
    Codes = {c1}
    Tokens = {f1, f2, f3}
    Legacy = {}
    Empty = Empty
    CodeTTL = 1
    AccessTTL = 1
    RefreshTTL = 2
    MaxTime = 3
SYMMETRY Symmetry
INVARIANTS AtMostOneLive ChainWithinGrant SpentOnce SettledStaysDead
PROPERTIES SweepSparesUnexpired ImplementsGrantChain ImplementsLedger
