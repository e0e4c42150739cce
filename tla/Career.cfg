SPECIFICATION CareerSpec
CONSTANTS
    Ladder <- Placed
    Division = 2
    Top = 5
    SeasonDrop = 4
    Seasons = 3
    Moves <- LPs
    MaxPoints = 13
    None = None
    LastDay = 13
    FreezeEvery = 4
    FreezeCap = 2
    CatchUp = 3
    Calls = {c1, c2}
    LastDate = 3
    DailyDates = {1, 2}
    FirstWins = 1
    RestedCap = 2
    Members = {a, b}
    Views = {c1, c2}
    Boards = {"ranked", "week"}
    Vertical <- OneVertical
    MinVertical = 2
    WeekDays = 2
    TopRank = 1
    BoardTtl = 1
    DayLength = 2
    SeasonStarts = {0, 1}
    Won = {1}
    LastTick = 2
    MaxAnswers = 1
    MaxMoves = 1
    Nothing = Nothing
SYMMETRY Symmetric
INVARIANTS CareerTypeOK UndoneRaisesCostNothing AsIfEveryNight HintsAlwaysCost BonusesAreRationed BoardsTellTheTruth
PROPERTY TheRankMovesByItsAnswers
CHECK_DEADLOCK FALSE
