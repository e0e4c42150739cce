SPECIFICATION StartedSpec
CONSTANTS
    Users = {1, 2, 3}
    Host = 1
    Tables = {1, 2}
    NumQuestions = 1
    NoUser = NoUser
    NoTable = NoTable
    RankPoints <- MCRankPoints
    Department <- MCDepartment
    Configs <- MCConfigs
    Sharers = {"stream", "nightly"}
    Nightly = "nightly"
    MaxCrashes = 1
    NoAnswer = NoAnswer
VIEW shareView
CONSTRAINT PeopleOnlyChangeTables
INVARIANT ScoredOnce
CHECK_DEADLOCK FALSE
