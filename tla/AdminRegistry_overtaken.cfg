SPECIFICATION Spec
CONSTANTS
    Admins = {a1, a2}
    Slugs = {d1}
    Passwords = {p1}
    Blank = Blank
    Tokens = {}
    NoToken = NoToken
    Forms <- MCForms
    MaxWrites = 3
    MaxBuilds = 4
SYMMETRY Symmetry
INVARIANTS SavesTakeEffect
CHECK_DEADLOCK FALSE
