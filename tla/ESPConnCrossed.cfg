CONSTANTS
    Writers = {w1, w2}
    SeqMax = 3
    MaxSA = 2
    MaxWrites = 2
    WindowSize = 2
    Lengths = {14, 15}
    MaxArrivals = 3
    Callers = {w1, w2, "driver", "keepalive", "rx"}
    Receivers = {"rx"}
    Contexts = {"tunnel", "workers", "bye", "attempt"}
    Timed = {"bye", "attempt"}
    Casts = {{w1, "driver", "stall", "close"}}
    MaxSends = 1
    MaxRecvs = 2
    MaxReads = 2
    MaxSets = 2
    MaxTime = 2
SPECIFICATION ConnSpec
PROPERTY CloseEnds
CHECK_DEADLOCK FALSE
