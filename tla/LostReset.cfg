SPECIFICATION Spec
CONSTANTS
    Passwords = {p1, p2}
    First = p1
    Sessions = {s1}
    Links = {l1}
    Requests = {r1, r2}
    NoSession = NoSession
    LockAfter = 2
SYMMETRY Symmetric
PROPERTY ThePasswordChosenStands
CHECK_DEADLOCK FALSE
