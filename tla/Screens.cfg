SPECIFICATION Spec
CONSTANTS
    Screens = {s1, s2}
    Workers = {w1}
    LastVersion = 2
    MaxFaults = 1
    None = None
PROPERTIES ScreensNeverGoBack EveryScreenCatchesUp
CHECK_DEADLOCK FALSE
