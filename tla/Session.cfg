CONSTANTS
    Tries = 2
    FastTries = 1
    SupportedGroups = {14, 31}
    InitialGroup = 14
    Environments <- SessionEnvironments
SPECIFICATION Spec
INVARIANT OneRequestPerID
INVARIANT OneAnswerPerRequest
INVARIANT IKEKeysAgree
INVARIANT ChildKeysAgree
INVARIANT NoBlackHole
PROPERTY ExchangeEndsAnswered
PROPERTY NoFalseTeardown
CHECK_DEADLOCK FALSE
