CONSTANTS
    W = 3
    ReqSize = 7
    MaxWindow = 12
    MaxSeq = 13
SPECIFICATION Spec
INVARIANT VerdictExact
PROPERTY ImplementsAntiReplay
