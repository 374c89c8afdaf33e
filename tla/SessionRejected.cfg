CONSTANTS
    Tries = 1
    FastTries = 1
    SupportedGroups = {14, 31}
    InitialGroup = 14
    Environments <- RejectionEnvironments
SPECIFICATION Spec
INVARIANT NoBlackHole
CHECK_DEADLOCK FALSE
