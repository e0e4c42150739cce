SPECIFICATION AccountsSpec
CONSTANTS
    People = {a, b, c}
    Invites = {i1}
    Requests = {r1, r2}
    Nobody = Nobody
    Gone = Gone
    Keep = Keep
    Persons = {a, b, c}
    Forms = {r1, r2}
    DisplayNames <- Spelt
    Emails = {1, 2, 3}
    NoPerson = Nobody
SYMMETRY Symmetric
INVARIANTS AccountsTypeOK JoiningIsSafe
PROPERTIES AlwaysAnAdmin OnlyAdminsDecide
CHECK_DEADLOCK FALSE
