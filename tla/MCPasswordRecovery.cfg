CONSTANTS
    Users = {u1}
    Requests = {r1, r2, r3}
    Sessions = {s1}
    NoToken = NoToken
    Delay = 2
    MaxTime = 5
SYMMETRY Symmetry
SPECIFICATION Spec
INVARIANTS
    IInv
    LinkIsNotLost
    TokenAgeBounded
CHECK_DEADLOCK FALSE
