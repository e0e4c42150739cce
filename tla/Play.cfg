SPECIFICATION Spec
CONSTANTS
    Questions = {1, 2}
    NoQuestion = NoQuestion
    Quiz = {1, 2}
    Requests = {p1, p2}
    LastDay = 1
    NewSeason = 5
    StaleAfter = 1
    MaxRuns = 2
    MaxPractice = 1
    MaxReviews = 1
CONSTRAINT Bounded
SYMMETRY Symmetric
INVARIANTS PlayTypeOK FullPayOnceASeason ShownAnswersPayLess XpIsTheSum OneTryAtATime
PROPERTY TheDrawStands
CHECK_DEADLOCK FALSE
