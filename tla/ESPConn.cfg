CONSTANTS
    Writers = {w1, w2}
    SeqMax = 3
    MaxSA = 2
    MaxWrites = 2
    WindowSize = 2
    Lengths = {14, 15}
    MaxArrivals = 3
    Callers = {w1, w2, "driver", "keepalive", "rx"}
    Receivers = {"rx"}
    Contexts = {"tunnel", "workers", "bye", "attempt"}
    Timed = {"bye", "attempt"}
    Casts = {{w1, w2, "rekey"}, {w1, w2, "peer"}, {w1, "driver", "stall", "close"}, {w1, "stall", "owner", "close"}, {"driver", "keepalive", "close"}, {"driver", "rx", "close"}, {"rx", "dial", "close"}, {"reader", "owner"}}
    MaxSends = 1
    MaxRecvs = 2
    MaxReads = 2
    MaxSets = 2
    MaxTime = 2
SPECIFICATION ConnSpec
INVARIANT UniqueSeq
INVARIANT DeliveredOnce
INVARIANT Interrupted
INVARIANT FailsForCause
INVARIANT NoLostWake
PROPERTY FreshDelivered
PROPERTY WriteEnds
PROPERTY CloseEndsUncrossed
PROPERTY ReadEnds
CHECK_DEADLOCK FALSE
