------------------------------- MODULE Socks -------------------------------
(***************************************************************************)
(* The SOCKS5 proxy of cmd/ipsec2socks: the accept loop with its slots,    *)
(* the handler of a connection from negotiation to dial, and splice, with  *)
(* a pump per direction, half-close and the idle watchdog.                 *)
(*                                                                         *)
(* Clients and upstreams are external: they may talk, fall silent, stop    *)
(* reading, close one half or vanish, at any time.  "up" is the direction  *)
(* from the client to the upstream, "down" the other one.                  *)
(***************************************************************************)
EXTENDS Naturals, FiniteSets

CONSTANTS
    Conns,   \* client connections
    Idle,    \* the idle timeout, in ticks of the clock
    Scenes   \* server settings and bounds, one of which holds for a behaviour:
             \* conns: who connects; max: -max-conns (0: no limit); idle: whether
             \* the watchdog is on; half: whether the conns can CloseWrite; acts:
             \* what the others do: send, fin, slow, gone, cancel; units: bound on what they send

ASSUME SocksAssumption ==
    /\ IsFiniteSet(Conns) /\ Conns \cap {"accept", "returned"} = {}
    /\ Idle \in Nat \ {0}
    /\ \A s \in Scenes : s.max \in Nat

VARIABLES
    scene,      \* the settings
    cancelled,  \* the server's context is done
    listener,   \* "open" or "closed"
    acceptor,   \* serveListener: "accept", the conn that waits for a slot, "returned"
    held,       \* slots taken in sem
    phase,      \* where each connection's handler stands
    link        \* the two directions of each connection, once spliced

vars == <<scene, cancelled, listener, acceptor, held, phase, link>>

Dirs == {"up", "down"}
Other(d) == IF d = "up" THEN "down" ELSE "up"

\* Phases in which a goroutine runs handle.
Handled == {"negotiate", "request", "resolve", "dial", "reply", "splice"}

\* Per direction: the pump; what the source sent and the sink got; fin: the source
\* has closed its half; eof: so has the pump, towards the sink; sink: it reads, has
\* stopped reading ("slow") or is gone. torn: stop was called. quiet: time since
\* lastNanos. History: still: time since a byte was read; silent: that was Idle once.
Unspliced ==
    [pump |-> [d \in Dirs |-> "off"], sent |-> [d \in Dirs |-> 0], got |-> [d \in Dirs |-> 0],
     fin |-> [d \in Dirs |-> FALSE], eof |-> [d \in Dirs |-> FALSE],
     sink |-> [d \in Dirs |-> "reads"], torn |-> FALSE,
     quiet |-> 0, still |-> 0, silent |-> FALSE]

Init ==
    /\ scene \in Scenes
    /\ cancelled = FALSE
    /\ listener = "open"
    /\ acceptor = "accept"
    /\ held = 0
    /\ phase = [c \in Conns |-> "none"]
    /\ link = [c \in Conns |-> Unspliced]

-----------------------------------------------------------------------------
(* serveListener.                                                          *)

Accept(c) ==
    /\ acceptor = "accept" /\ listener = "open"
    /\ c \in scene.conns /\ phase[c] = "none"
    /\ acceptor' = c
    /\ phase' = [phase EXCEPT ![c] = "accepted"]
    /\ UNCHANGED <<scene, cancelled, listener, held, link>>

\* A slot, if there is a limit, and a goroutine for the connection.
Spawn(c) ==
    /\ acceptor = c
    /\ scene.max > 0 => held < scene.max
    /\ held' = IF scene.max > 0 THEN held + 1 ELSE held
    /\ acceptor' = "accept"
    /\ phase' = [phase EXCEPT ![c] = "negotiate"]
    /\ UNCHANGED <<scene, cancelled, listener, link>>

\* Fault: nothing but a slot ends the wait.
GiveUp_Never(c) == acceptor = c /\ FALSE

\* The context is done while the connection waits for a slot.
GiveUp(c) ==
    /\ acceptor = c /\ cancelled /\ scene.max > 0
    /\ acceptor' = "returned"
    /\ listener' = "closed"
    /\ phase' = [phase EXCEPT ![c] = "closed"]
    /\ UNCHANGED <<scene, cancelled, held, link>>

\* Accept fails, because the listener was closed or for a reason of its own.
AcceptFails ==
    /\ acceptor = "accept"
    /\ acceptor' = "returned"
    /\ listener' = "closed"
    /\ UNCHANGED <<scene, cancelled, held, phase, link>>

\* The context is done; a goroutine closes the listener.
Cancel ==
    /\ ~cancelled
    /\ cancelled' = TRUE
    /\ UNCHANGED <<scene, listener, acceptor, held, phase, link>>
CloseListener ==
    /\ cancelled /\ listener = "open"
    /\ listener' = "closed"
    /\ UNCHANGED <<scene, cancelled, acceptor, held, phase, link>>

-----------------------------------------------------------------------------
(* handle.                                                                 *)

\* Fault: the slot is given back only by handlers that got as far as splice.
Leave_Leak(c) ==
    /\ phase' = [phase EXCEPT ![c] = "closed"]
    /\ held' = IF scene.max > 0 /\ phase[c] = "splice" THEN held - 1 ELSE held

\* The handler returns: the client is closed and the slot given back.
Leave(c) ==
    /\ phase' = [phase EXCEPT ![c] = "closed"]
    /\ held' = IF scene.max > 0 THEN held - 1 ELSE held

\* The client, the tunnel's DNS or the upstream does its part: a method both accept
\* and credentials that match; a CONNECT to an address, or to a name that has to be
\* resolved, and routable; an upstream that answers; a client that takes the reply.
Follows == {<<"negotiate", "request">>, <<"request", "resolve">>, <<"request", "dial">>,
            <<"resolve", "dial">>, <<"dial", "reply">>, <<"reply", "splice">>}
Progress(c) ==
    /\ \E to \in Handled :
          /\ <<phase[c], to>> \in Follows
          /\ phase' = [phase EXCEPT ![c] = to]
          /\ link' = IF to = "splice" THEN [link EXCEPT ![c].pump = [d \in Dirs |-> "read"]]
                     ELSE link
    /\ UNCHANGED <<scene, cancelled, listener, acceptor, held>>

\* Or it does not: refusals, errors, and the deadlines on the client's half of the
\* handshake (handshakeTimeout), on the lookup and on the dial, which end with the
\* server's context too. A reply, which is ten octets, does not wait for the client:
\* they fit into the send buffer.
Fail(c) ==
    /\ phase[c] \in Handled \ {"splice"}
    /\ Leave(c)
    /\ UNCHANGED <<scene, cancelled, listener, acceptor, link>>

-----------------------------------------------------------------------------
(* splice.                                                                 *)

Spliced(c) == phase[c] = "splice"
Relay(c, l) ==
    /\ link' = [link EXCEPT ![c] = l]
    /\ UNCHANGED <<scene, cancelled, listener, acceptor, held, phase>>

\* stop: both conns are closed, once.
Torn(l) == [l EXCEPT !.torn = TRUE]

\* Units the pump has read so far.
Taken(l, d) == l.got[d] + (IF l.pump[d] = "write" THEN 1 ELSE 0)

\* Fault: only what the client sends counts as activity.
PumpReads_OneSided(c, d) ==
    LET l == link[c] IN
    /\ Spliced(c) /\ l.pump[d] = "read" /\ ~l.torn /\ Taken(l, d) < l.sent[d]
    /\ Relay(c, [l EXCEPT !.pump[d] = "write", !.quiet = IF d = "up" THEN 0 ELSE @, !.still = 0])

\* The pump reads, and notes the time.
PumpReads(c, d) ==
    LET l == link[c] IN
    /\ Spliced(c) /\ l.pump[d] = "read" /\ ~l.torn /\ Taken(l, d) < l.sent[d]
    /\ Relay(c, [l EXCEPT !.pump[d] = "write", !.quiet = 0, !.still = 0])

\* It writes what it read; a sink that is gone tears down both directions.
PumpWrites(c, d) ==
    LET l == link[c] IN
    /\ Spliced(c) /\ l.pump[d] = "write"
    /\ \/ /\ ~l.torn /\ l.sink[d] = "reads"
          /\ Relay(c, [l EXCEPT !.pump[d] = "read", !.got[d] = @ + 1])
       \/ /\ l.torn \/ l.sink[d] = "gone"
          /\ Relay(c, Torn([l EXCEPT !.pump[d] = "done"]))

\* Its source is at the end: half-close the sink if that is possible and the
\* watchdog can reap it, else close both.
PumpEnds(c, d) ==
    LET l == link[c] IN
    /\ Spliced(c) /\ l.pump[d] = "read"
    /\ l.torn \/ (l.fin[d] /\ Taken(l, d) = l.sent[d])
    /\ Relay(c, IF scene.half /\ scene.idle THEN [l EXCEPT !.pump[d] = "done", !.eof[d] = TRUE]
                ELSE Torn([l EXCEPT !.pump[d] = "done"]))

\* Fault: a pump that is busy writing counts as activity.
Watchdog_WhileReading(c) ==
    /\ Spliced(c) /\ scene.idle /\ ~link[c].torn /\ link[c].quiet >= Idle
    /\ \A d \in Dirs : link[c].pump[d] # "write"
    /\ Relay(c, Torn(link[c]))

\* The watchdog finds that nothing was read for the idle timeout.
Watchdog(c) ==
    /\ Spliced(c) /\ scene.idle /\ ~link[c].torn /\ link[c].quiet >= Idle
    /\ Relay(c, Torn(link[c]))

\* Both pumps are done: splice and handle return.
SpliceReturns(c) ==
    /\ Spliced(c) /\ \A d \in Dirs : link[c].pump[d] = "done"
    /\ link' = [link EXCEPT ![c] = Torn(@)]
    /\ Leave(c)
    /\ UNCHANGED <<scene, cancelled, listener, acceptor>>

Tick(c) ==
    LET l == link[c] IN
    /\ Spliced(c) /\ ~l.torn /\ l.quiet < Idle
    /\ Relay(c, [l EXCEPT !.quiet = @ + 1, !.still = @ + 1, !.silent = @ \/ l.still + 1 >= Idle])

\* The peers: one more unit, the end of a half, a sink that stops reading or is gone.
Peer(c, d) ==
    LET l == link[c] IN
    /\ Spliced(c) /\ ~l.torn
    /\ \/ /\ "send" \in scene.acts /\ ~l.fin[d] /\ l.sent[d] < scene.units
          /\ Relay(c, [l EXCEPT !.sent[d] = @ + 1])
       \/ "fin" \in scene.acts /\ ~l.fin[d] /\ Relay(c, [l EXCEPT !.fin[d] = TRUE])
       \/ \E k \in {"slow", "gone"} \cap scene.acts :
             l.sink[d] = "reads" /\ Relay(c, [l EXCEPT !.sink[d] = k])

-----------------------------------------------------------------------------
\* What the server's goroutines and timers do.
System ==
    \/ listener = "closed" /\ AcceptFails
    \/ CloseListener
    \/ \E c \in Conns :
          \/ Spawn(c) \/ GiveUp(c) \/ Fail(c)
          \/ Watchdog(c) \/ SpliceReturns(c) \/ Tick(c)
          \/ \E d \in Dirs : PumpReads(c, d) \/ PumpWrites(c, d) \/ PumpEnds(c, d)

\* What the others may do.
Environment ==
    \/ "cancel" \in scene.acts /\ (AcceptFails \/ Cancel)
    \/ \E c \in Conns :
          Accept(c) \/ Progress(c) \/ \E d \in Dirs : Peer(c, d)

Next == System \/ Environment

\* Some goroutine or timer that can run is run, less than what a fair scheduler
\* does: it is enough because each connection takes finitely many steps.
Spec == Init /\ [][Next]_vars /\ WF_vars(System)

-----------------------------------------------------------------------------
(* Properties.                                                             *)

\* A slot is taken exactly while a handler runs, on every way out of it, and never
\* more of them than there are (sem, with its release deferred).
SlotsExact ==
    scene.max > 0 =>
        /\ held = Cardinality({c \in Conns : phase[c] \in Handled})
        /\ held <= scene.max

\* "handshakeTimeout guarantees stalled slots are reclaimed": no client, name server
\* or upstream keeps a handler before splice; and with the watchdog on, an accepted
\* connection is closed in the end, whatever its peers do or leave undone.
SlotsReclaimed ==
    \A c \in Conns :
        /\ phase[c] \in Handled \ {"splice"} ~> phase[c] \in {"splice", "closed"}
        /\ scene.idle /\ phase[c] # "none" ~> phase[c] = "closed"

\* The server returns once its context is done, also when it waits for a slot that
\* nobody gives back.
ServeEnds == cancelled ~> acceptor = "returned"

\* Each direction is relayed to its end although the other one ended first ("still
\* gets the full response") and although only one of them is active, unless a sink
\* fails or stalls or both directions were quiet for the idle timeout.
Relayed ==
    \A c \in Conns :
        LET l == link[c] IN
        /\ phase[c] = "closed" /\ l.torn /\ scene.half /\ scene.idle
        /\ ~l.silent /\ \A d \in Dirs : l.sink[d] = "reads"
        => \A d \in Dirs : l.got[d] = l.sent[d]
=============================================================================
