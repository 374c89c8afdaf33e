------------------------------ MODULE ESPConn ------------------------------
(***************************************************************************)
(* One session's data path, composed: the Writes of ESPSender go out       *)
(* through the socket of UDPConn, which the IKE driver and the keepalive   *)
(* loop send on too and rxDemux reads from; ESPReceiver stands at the far  *)
(* end; the netstack's readLoop blocks in espConn.Read; and Client.Close   *)
(* takes it all down, workers first, then the tunnel, then the socket.     *)
(*                                                                         *)
(* A behaviour has a cast, the goroutines that take part in it; the casts  *)
(* are chosen so that each lets a few parts interact without restriction.  *)
(***************************************************************************)
EXTENDS ESPReceiver, UDPConn

CONSTANTS
    Casts,      \* sets of goroutines: one of them takes part
    MaxSends,   \* bound: Sends of a worker, its goodbye apart
    MaxRecvs,   \* bound: attempts of the handshake, datagrams received
    MaxReads,   \* bound: Reads of the conn
    MaxSets,    \* bound: calls of SetReadDeadline
    MaxTime     \* bound: the clock of the read deadlines

VARIABLES
    cast,      \* who takes part
    dialing,   \* the socket's reader is still the handshake
    work,      \* the workers: "running", "bye" or "gone"
    calls,     \* their Sends and Recvs
    closer,    \* how far Client.Close is
    sent,      \* the packets the socket has taken
    now,       \* the clock
    readDeadline, wake,   \* of espConn: 0 is the zero time; wake has room for one
    wakes,     \* SetReadDeadlines that have stored and not yet woken
    sets, reads,          \* their number, and that of the Reads
    rd, dl     \* where the Read stands, and the deadline it works with

readVars == <<now, readDeadline, wake, wakes, sets, reads, rd, dl>>
workVars == <<dialing, work, calls, closer>>
connVars == <<vars, rcvVars, udpVars, readVars, workVars, cast, sent>>

Workers == {"driver", "keepalive", "rx"}

ASSUME ConnAssumption ==
    /\ Callers = Writers \cup Workers /\ Receivers = {"rx"}
    /\ Contexts = {"tunnel", "workers", "bye", "attempt"} /\ Timed = {"bye", "attempt"}

ConnInit ==
    /\ Init /\ RcvInit /\ UDPInit
    /\ cast \in Casts
    /\ dialing = ("dial" \in cast)
    /\ work = [p \in Workers |-> IF p \in cast THEN "running" ELSE "gone"]
    /\ calls = [p \in Workers |-> 0]
    /\ closer = "up"
    /\ sent = {}
    /\ now = 0 /\ readDeadline = 0 /\ dl = 0
    /\ wake = FALSE /\ wakes = 0
    /\ sets = 0 /\ reads = 0
    /\ rd = "out"

-----------------------------------------------------------------------------
(* Write.                                                                  *)

\* Up to the sealed packet a Write does not touch the socket.
Encrypting(w) ==
    /\ Enter(w) \/ LoadSA(w) \/ LoadSeq(w) \/ CompareAndSwap(w) \/ SealFails(w)
    /\ UNCHANGED <<rcvVars, udpVars, readVars, workVars, cast, sent>>

\* The packet is sealed and send called with the context that Close cancels.
SealAndSend(w) ==
    /\ Seal(w) /\ Begin(w, "tunnel")
    /\ UNCHANGED <<rcvVars, readVars, workVars, cast, sent>>

\* The Send of w goes on; if the socket takes the packet, it is on its way.
Sending(w) ==
    /\ CallStep(w)
    /\ sent' = IF call[w] = "io" /\ result'[w] = "ok"
               THEN sent \cup {p \in wire : p.by = w /\ p.nth = writes[w]}
               ELSE sent
    /\ UNCHANGED <<vars, rcvVars, readVars, workVars, cast>>

WriteReturns(w) ==
    /\ call[w] = "out" /\ SendReturns(w)
    /\ UNCHANGED <<rcvVars, udpVars, readVars, workVars, cast, sent>>

Rekey ==
    /\ "rekey" \in cast /\ swapSA
    /\ UNCHANGED <<rcvVars, udpVars, readVars, workVars, cast, sent>>

WriterStep(w) == Encrypting(w) \/ SealAndSend(w) \/ Sending(w) \/ WriteReturns(w)

-----------------------------------------------------------------------------
(* The other users of the socket.                                          *)

\* The driver or the keepalive loop sends; it may do so once more although the
\* context is done, as select takes any of its ready cases.
WorkerSend(p) ==
    /\ work[p] = "running" /\ p # "rx" /\ calls[p] < MaxSends
    /\ Begin(p, "workers")
    /\ calls' = [calls EXCEPT ![p] = @ + 1]
    /\ UNCHANGED <<vars, rcvVars, readVars, dialing, work, closer, cast, sent>>

\* Fault: the goodbye waits as long as the tunnel is there.
WorkerLeaves_Unbounded(p) ==
    /\ work[p] = "running" /\ p # "rx" /\ call[p] = "out" /\ "workers" \in ended
    /\ IF p = "driver"
       THEN work' = [work EXCEPT ![p] = "bye"] /\ Begin(p, "tunnel")
       ELSE work' = [work EXCEPT ![p] = "gone"] /\ UNCHANGED udpVars
    /\ UNCHANGED <<vars, rcvVars, readVars, dialing, calls, closer, cast, sent>>

\* The context is done: the driver says goodbye (sendGracefulDelete, within a
\* deadline of its own), the keepalive loop just returns.
WorkerLeaves(p) ==
    /\ work[p] = "running" /\ p # "rx" /\ call[p] = "out" /\ "workers" \in ended
    /\ IF p = "driver"
       THEN work' = [work EXCEPT ![p] = "bye"] /\ Begin(p, "bye")
       ELSE work' = [work EXCEPT ![p] = "gone"] /\ UNCHANGED udpVars
    /\ UNCHANGED <<vars, rcvVars, readVars, dialing, calls, closer, cast, sent>>

DriverGone ==
    /\ work["driver"] = "bye" /\ call["driver"] = "out"
    /\ work' = [work EXCEPT !["driver"] = "gone"]
    /\ UNCHANGED <<vars, rcvVars, udpVars, readVars, dialing, calls, closer, cast, sent>>

\* Recv by the handshake, whose attempts have a deadline each, then by rxDemux,
\* which returns at the first error.
Recv ==
    /\ work["rx"] = "running" /\ (dialing => calls["rx"] < MaxRecvs)
    /\ dialing \/ ctx["rx"] # "workers" \/ result["rx"] = "ok"
    /\ Begin("rx", IF dialing THEN "attempt" ELSE "workers")
    /\ calls' = [calls EXCEPT !["rx"] = @ + 1]
    /\ UNCHANGED <<vars, rcvVars, readVars, dialing, work, closer, cast, sent>>

RxLeaves ==
    /\ work["rx"] = "running" /\ ~dialing /\ call["rx"] = "out"
    /\ ctx["rx"] = "workers" /\ result["rx"] # "ok"
    /\ work' = [work EXCEPT !["rx"] = "gone"]
    /\ UNCHANGED <<vars, rcvVars, udpVars, readVars, dialing, calls, closer, cast, sent>>

\* The next attempt, or the end of the handshake.
NextAttempt ==
    /\ dialing /\ Renew("attempt")
    /\ UNCHANGED <<vars, rcvVars, readVars, workVars, cast, sent>>
Established ==
    /\ dialing /\ call["rx"] = "out"
    /\ dialing' = FALSE
    /\ UNCHANGED <<vars, rcvVars, udpVars, readVars, work, calls, closer, cast, sent>>

\* Only so many datagrams arrive.
Calling(p) ==
    /\ CallStep(p)
    /\ call[p] = "io" /\ result'[p] = "ok" => calls[p] <= (IF p = "rx" THEN MaxRecvs ELSE MaxSends)
    /\ UNCHANGED <<vars, rcvVars, readVars, workVars, cast, sent>>

WorkerStep(p) ==
    \/ WorkerSend(p) \/ WorkerLeaves(p) \/ Calling(p)
    \/ p = "driver" /\ DriverGone
    \/ p = "rx" /\ (Recv \/ RxLeaves \/ Established)

\* The socket and the contexts.
AfterFuncRuns(p) ==
    /\ AfterFunc(p)
    /\ UNCHANGED <<vars, rcvVars, readVars, workVars, cast, sent>>
Time(c) ==
    /\ \E p \in Callers : ctx[p] = c /\ work[p] # "gone"
    /\ Elapse(c) \/ Expire(c)
    /\ UNCHANGED <<vars, rcvVars, readVars, workVars, cast, sent>>
Backpressure ==
    /\ "stall" \in cast /\ Stall
    /\ UNCHANGED <<vars, rcvVars, readVars, workVars, cast, sent>>

-----------------------------------------------------------------------------
(* Close.                                                                  *)

\* espConn.Close, once.
CloseConn ==
    \/ Close /\ Cancel({"tunnel"})
    \/ conn = "closed" /\ UNCHANGED <<vars, udpVars>>

\* The owner of the netstack closes the tunnel.
TunnelClose ==
    /\ "owner" \in cast /\ closer = "up" /\ conn = "open"
    /\ CloseConn
    /\ UNCHANGED <<rcvVars, readVars, workVars, cast, sent>>

\* Client.Close: the workers' context is cancelled; when they are gone the tunnel
\* is closed; then the socket.
CloseBegins ==
    /\ "close" \in cast /\ closer = "up" /\ ~dialing
    /\ closer' = "waiting"
    /\ Cancel({"workers"})
    /\ UNCHANGED <<vars, rcvVars, readVars, dialing, work, calls, cast, sent>>
CloseTunnel ==
    /\ closer = "waiting" /\ \A p \in Workers : work[p] = "gone"
    /\ closer' = "tunnel"
    /\ CloseConn
    /\ UNCHANGED <<rcvVars, readVars, dialing, work, calls, cast, sent>>
CloseSession ==
    /\ closer = "tunnel"
    /\ closer' = "done"
    /\ CloseSocket
    /\ UNCHANGED <<vars, rcvVars, readVars, dialing, work, calls, cast, sent>>

-----------------------------------------------------------------------------
(* Read and SetReadDeadline.                                               *)

ReadEnter ==
    /\ "reader" \in cast /\ rd = "out" /\ reads < MaxReads
    /\ reads' = reads + 1
    /\ rd' = "load"
    /\ UNCHANGED <<now, readDeadline, wake, wakes, sets, dl>>

\* The deadline is read under the lock.
ReadLoad ==
    /\ rd = "load"
    /\ dl' = readDeadline
    /\ rd' = "loaded"
    /\ UNCHANGED <<now, readDeadline, wake, wakes, sets, reads>>

\* A deadline in the past ends the Read; otherwise it waits.
ReadWait ==
    /\ rd = "loaded"
    /\ rd' = IF dl # 0 /\ dl <= now THEN "out" ELSE "wait"
    /\ UNCHANGED <<now, readDeadline, wake, wakes, sets, reads, dl>>

\* Fault: without a deadline the Read waits for a new one only.
ReadSelect_DeafToClose ==
    /\ rd = "wait"
    /\ \/ dl # 0 /\ conn = "closed" /\ rd' = "out" /\ UNCHANGED wake
       \/ dl # 0 /\ dl <= now /\ rd' = "out" /\ UNCHANGED wake
       \/ wake /\ wake' = FALSE /\ rd' = "load"
    /\ UNCHANGED <<now, readDeadline, wakes, sets, reads, dl>>

\* The select: closed, the timer, or a changed deadline, whichever is ready.
ReadSelect ==
    /\ rd = "wait"
    /\ \/ conn = "closed" /\ rd' = "out" /\ UNCHANGED wake
       \/ dl # 0 /\ dl <= now /\ rd' = "out" /\ UNCHANGED wake
       \/ wake /\ wake' = FALSE /\ rd' = "load"
    /\ UNCHANGED <<now, readDeadline, wakes, sets, reads, dl>>

SetReadDeadline(t) ==
    /\ "reader" \in cast /\ sets < MaxSets
    /\ readDeadline' = t
    /\ sets' = sets + 1 /\ wakes' = wakes + 1
    /\ UNCHANGED <<now, wake, reads, rd, dl>>

\* Fault: a channel without room: nobody is woken who is not waiting yet.
Wake_Unbuffered ==
    /\ wakes > 0
    /\ wakes' = wakes - 1
    /\ IF rd = "wait" THEN wake' = FALSE /\ rd' = "load" ELSE UNCHANGED <<wake, rd>>
    /\ UNCHANGED <<now, readDeadline, sets, reads, dl>>

\* SetReadDeadline's send on wake, which does not wait for room.
Wake ==
    /\ wakes > 0
    /\ wakes' = wakes - 1
    /\ wake' = TRUE
    /\ UNCHANGED <<now, readDeadline, sets, reads, rd, dl>>

Tick ==
    /\ "reader" \in cast /\ now < MaxTime
    /\ now' = now + 1
    /\ UNCHANGED <<readDeadline, wake, wakes, sets, reads, rd, dl>>

ReadStep == ReadEnter \/ ReadLoad \/ ReadWait \/ ReadSelect

NotRead == <<vars, rcvVars, udpVars, workVars, cast, sent>>

-----------------------------------------------------------------------------
(* The far end: a packet the socket took arrives, or a forged one does.    *)
Arrival ==
    /\ "peer" \in cast
    /\ \/ \E p \in sent, suite \in Suites, n \in Lengths, v \in {4, 6} : Arrive(p, suite, n, v)
       \/ \E a \in SA, n \in 1..SeqMax, suite \in Suites : ArriveForged(a, n, suite)
    /\ UNCHANGED <<vars, udpVars, readVars, workVars, cast, sent>>

\* What the goroutines, the timers and Close, once begun, do.
System ==
    \/ \E w \in Writers \cap cast : WriterStep(w)
    \/ \E p \in Workers \cap cast : WorkerStep(p)
    \/ \E p \in Callers : AfterFuncRuns(p)
    \/ \E c \in Timed : Time(c)
    \/ CloseTunnel \/ CloseSession
    \/ (ReadStep \/ Wake \/ Tick) /\ UNCHANGED NotRead

\* What the users of the conn, the gateway and the network may do.
Environment ==
    \/ NextAttempt \/ Backpressure \/ Rekey \/ Arrival
    \/ TunnelClose \/ CloseBegins
    \/ (\E t \in 0..MaxTime : SetReadDeadline(t)) /\ UNCHANGED NotRead

ConnNext == System \/ Environment

\* Some goroutine or timer that can run is run. This is less than what a scheduler
\* that is fair to every goroutine does, and enough because every goroutine takes
\* finitely many steps. Nobody has to call Close, and the socket may stay blocked.
ConnSpec == ConnInit /\ [][ConnNext]_connVars /\ WF_connVars(System)

-----------------------------------------------------------------------------
(* Properties.  Those of ESPSender and UDPConn hold here too: UniqueSeq,   *)
(* Interrupted and FailsForCause.                                          *)

\* No datagram that a Write accepted comes out twice, however often its packet
\* arrives (Encrypt's counter and Decrypt's replay check together).
DeliveredOnce == again = {}

\* A packet that arrives for the first time is delivered unless it has fallen out
\* of the window: neither another packet of the SA nor a forged one can take its
\* place, and its trailer reads back ("only authenticated packets move the replay
\* window").
FreshDelivered ==
    [][\A p \in sent \ delivered' :
          (\A q \in delivered : q.sa = p.sa => q.seq < p.seq + WindowSize)
          => ~ \E suite \in Suites, n \in Lengths, v \in {4, 6} : Arrive(p, suite, n, v)]_connVars

\* Every Write returns while the socket takes datagrams: the CAS loop of one
\* writer ends although others move the counter, and nobody spins at the end of
\* the number space.
WriteEnds == \A w \in Writers : pc[w] # "idle" ~> pc[w] = "idle" \/ Blocked

\* A Read never sleeps on a deadline that was replaced: somebody has woken it or is
\* about to (SetReadDeadline and the wake channel with room for one).
NoLostWake == rd = "wait" /\ dl # readDeadline => wake \/ wakes > 0

\* A Read returns once the conn is closed, and once its deadline has passed, unless
\* the deadline is moved again.
ReadEnds ==
    /\ rd # "out" /\ conn = "closed" ~> rd = "out"
    /\ rd # "out" /\ readDeadline # 0 /\ readDeadline <= now
       ~> rd = "out" \/ ~(readDeadline # 0 /\ readDeadline <= now)

\* "Close() waits for the workers before it closes the socket": Close comes to its
\* end although the socket is blocked, because cancellation interrupts the Sends.
CloseEnds == closer = "waiting" ~> closer = "done"

\* Close comes to its end, whatever the workers are at and although the socket is
\* blocked for ever, unless two Sends crossed.
CloseEndsUncrossed == closer = "waiting" ~> closer = "done" \/ \E p \in Callers : overlap[p]
=============================================================================
