CONSTANTS
    Settings <- MCSettings
    MaxRounds = 5
    MaxHalf = 2
SPECIFICATION Spec
INVARIANT AuthAnswersRequest
INVARIANT AuthAfterProof
INVARIANT NoSpuriousFailure
PROPERTY HandshakeEnds
CHECK_DEADLOCK FALSE
