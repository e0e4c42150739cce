SPECIFICATION Spec
CONSTANTS
    Passwords = {p1, p2}
    First = p1
    Sessions = {s1, s2}
    Links = {l1, l2}
    Requests = {r1, r2, r3}
    NoSession = NoSession
    LockAfter = 2
SYMMETRY Symmetric
INVARIANTS SignInTypeOK GuessesAreCounted LeaversAreSignedOut ALinkServesOnce
PROPERTY TheLockHolds
CHECK_DEADLOCK FALSE
