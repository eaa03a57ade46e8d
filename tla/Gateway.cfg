SPECIFICATION GSpec
CONSTANTS
    d1 = d1
    p1 = p1
    p2 = p2
    b1 = b1
    Admins = {a1, a2}
    Slugs = {d1}
    Passwords = {p1, p2}
    Blank = Blank
    Tokens = {b1}
    NoToken = NoToken
    Forms <- MCForms
    Requests = {q1}
    NoSession = NoSession
    MaxWrites = 3
    MaxBuilds = 3
SYMMETRY Symmetry
INVARIANTS NeverServesClosed NothingLeaks StaleOnlyIfOvertaken CredentialMeetsTarget OrphansNeedRebirth
PROPERTIES BlankKeepsPassword ImplementsPublication
CHECK_DEADLOCK FALSE
