CONSTANTS
    c1 = c1
    c2 = c2
    c3 = c3
    Conns = {c1, c2, c3}
    Idle = 2
    Scenes <- SocksScenes
SPECIFICATION Spec
INVARIANT SlotsExact
INVARIANT Relayed
PROPERTY SlotsReclaimed
PROPERTY ServeEnds
CHECK_DEADLOCK FALSE
