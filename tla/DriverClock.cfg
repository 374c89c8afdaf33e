CONSTANTS
    Tries = 4
    FastTries = 2
    SupportedGroups = {14}
    InitialGroup = 14
    Base = 1
    MaxDelay = 4
    FastBase = 1
    Dpd = 5
    Retry = 11
    RekeyAfter = {0, 4, 9}
SPECIFICATION Spec
INVARIANT DeadInTime
INVARIANT DeadSoonAfterWake
CHECK_DEADLOCK FALSE
