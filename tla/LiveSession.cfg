SPECIFICATION Spec
CONSTANTS
    Users = {1, 2, 3, 4}
    Host = 1
    Tables = {1, 2}
    NumQuestions = 2
    NoUser = NoUser
    NoTable = NoTable
    RankPoints <- MCRankPoints
    Department <- MCDepartment
    Configs <- MCConfigs
VIEW view
INVARIANTS TypeOK TablesAreLed
PROPERTIES ChangesMoveTheVersion ClosesForAReason RevealsAreSeen ImplementsFlow
CHECK_DEADLOCK FALSE
