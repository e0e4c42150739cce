SPECIFICATION StreakSpec
CONSTANTS
    LastDay = 8
    FreezeEvery = 3
    FreezeCap = 1
    CatchUp = 2
PROPERTY TheNightStoresWhatIsRead
CHECK_DEADLOCK FALSE
