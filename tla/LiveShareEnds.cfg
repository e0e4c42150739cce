SPECIFICATION FairStartedSpec
CONSTANTS
    Users = {1, 2, 3}
    Host = 1
    Tables = {1}
    NumQuestions = 2
    NoUser = NoUser
    NoTable = NoTable
    RankPoints <- MCRankPoints
    Department <- MCDepartment
    Configs <- MCConfigs
    Sharers = {"stream", "nightly"}
    Nightly = "nightly"
    MaxCrashes = 1
    NoAnswer = NoAnswer
VIEW shareView
CONSTRAINT PeopleOnlyChangeTables
INVARIANT SharersNeverDeadlock
PROPERTY EveryAnswerIsShared
CHECK_DEADLOCK FALSE
