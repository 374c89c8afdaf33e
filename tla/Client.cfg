CONSTANTS
    Closers = {c1}
    MaxGen = 3
    MaxPanics = 1
SPECIFICATION Spec
INVARIANT SocketOutlivesWorkers
INVARIANT OneGeneration
INVARIANT ClosedClean
PROPERTY CloseReturns
PROPERTY DeathHandled
CHECK_DEADLOCK FALSE
