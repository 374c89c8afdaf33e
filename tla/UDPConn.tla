------------------------------ MODULE UDPConn ------------------------------
(***************************************************************************)
(* The datagram transport (internal/transport, udpConn): Sends and Recvs   *)
(* of several goroutines on one socket.  A deadline belongs to the socket, *)
(* one for writing and one for reading, while a context belongs to a call: *)
(* every call sets the deadline, registers a function that moves it into   *)
(* the past when the context is done, reads or writes, unregisters the     *)
(* function, and clears the deadline.                                      *)
(*                                                                         *)
(* The socket is external (net.PacketConn): a blocked call fails while its *)
(* deadline lies in the past, and one that was woken by such a deadline    *)
(* goes on waiting if the deadline was reset before it ran.                *)
(***************************************************************************)
EXTENDS Naturals

CONSTANTS
    Callers,     \* goroutines that call Send or Recv, each one of the two
    Receivers,   \* those of them that call Recv
    Contexts,    \* the contexts they pass
    Timed        \* those of them that have a deadline

ASSUME UDPAssumption ==
    /\ Receivers \subseteq Callers /\ Timed \subseteq Contexts
    /\ "none" \notin Contexts /\ "past" \notin Contexts

VARIABLES
    sock,      \* udpConn.closed and the socket: "open" or "closed"
    pressure,  \* 0: the socket takes datagrams; 1: it takes none; 2: it does again
    deadline,  \* of the socket: "none", "past", or the context it was taken from
    overdue,   \* contexts whose deadline has passed
    ended,     \* contexts that are done
    call,      \* where each goroutine's call stands
    ctx,       \* the context of its call
    result,    \* how its reading or writing ended, then whether there is an error
    waiting,   \* callers whose AfterFunc is registered
    running,   \* AfterFuncs that were started and have not run, by caller
    overlap,   \* history: the call met another one in the same direction
    stray      \* history: an AfterFunc of an earlier call was still to run

callVars == <<call, ctx, result>>
ctxVars == <<overdue, ended>>
hookVars == <<waiting, running>>
udpVars == <<sock, pressure, deadline, callVars, ctxVars, hookVars, overlap, stray>>

Dir(p) == IF p \in Receivers THEN "read" ELSE "write"
Peers(p) == {q \in Callers \ {p} : Dir(q) = Dir(p)}
Blocked == pressure = 1
Past(d) == deadline[d] = "past" \/ deadline[d] \in overdue

UDPInit ==
    /\ sock = "open"
    /\ pressure = 0
    /\ deadline = [d \in {"read", "write"} |-> "none"]
    /\ overdue = {} /\ ended = {}
    /\ call = [p \in Callers |-> "out"]
    /\ ctx = [p \in Callers |-> "none"]
    /\ result = [p \in Callers |-> "none"]
    /\ waiting = {}
    /\ running = [p \in Callers |-> 0]
    /\ overlap = [p \in Callers |-> FALSE]
    /\ stray = [p \in Callers |-> FALSE]

\* A call's deadline: the one of its context, or none.
OwnDeadline(c) == IF c \in Timed THEN c ELSE "none"

\* Fault: the deadline is set only for a context that has one, so that what an
\* earlier call left behind stays.
Begin_Leftover(p, c) ==
    /\ call[p] = "out" /\ sock = "open"
    /\ deadline' = [deadline EXCEPT ![Dir(p)] = IF c \in Timed THEN c ELSE @]
    /\ call' = [call EXCEPT ![p] = "set"]
    /\ ctx' = [ctx EXCEPT ![p] = c]
    /\ result' = [result EXCEPT ![p] = "none"]
    /\ overlap' = [overlap EXCEPT ![p] = FALSE]
    /\ stray' = [stray EXCEPT ![p] = \E q \in Peers(p) \cup {p} : running[q] > 0]
    /\ UNCHANGED <<sock, pressure, ctxVars, hookVars>>

\* Send, Recv: refused on a closed conn; otherwise the deadline is set anew.
Begin(p, c) ==
    /\ call[p] = "out"
    /\ \/ /\ sock = "closed"
          /\ result' = [result EXCEPT ![p] = "err"]
          /\ UNCHANGED <<deadline, call, ctx, overlap, stray>>
       \/ /\ sock = "open"
          /\ deadline' = [deadline EXCEPT ![Dir(p)] = OwnDeadline(c)]
          /\ call' = [call EXCEPT ![p] = "set"]
          /\ ctx' = [ctx EXCEPT ![p] = c]
          /\ result' = [result EXCEPT ![p] = "none"]
          /\ LET met == {q \in Peers(p) : call[q] # "out"}
             IN  overlap' = [q \in Callers |-> IF q = p THEN met # {}
                                               ELSE overlap[q] \/ q \in met]
          /\ stray' = [stray EXCEPT ![p] = \E q \in Peers(p) \cup {p} : running[q] > 0]
    /\ UNCHANGED <<sock, pressure, ctxVars, hookVars>>

\* Fault: a context that is done already starts nothing.
Register_IfLive(p) ==
    /\ call[p] = "set"
    /\ call' = [call EXCEPT ![p] = "io"]
    /\ waiting' = IF ctx[p] \in ended THEN waiting ELSE waiting \cup {p}
    /\ UNCHANGED <<sock, pressure, deadline, ctx, result, ctxVars, running, overlap, stray>>

\* context.AfterFunc: started at once if the context is done already.
Register(p) ==
    /\ call[p] = "set"
    /\ call' = [call EXCEPT ![p] = "io"]
    /\ IF ctx[p] \in ended
       THEN running' = [running EXCEPT ![p] = @ + 1] /\ UNCHANGED waiting
       ELSE waiting' = waiting \cup {p} /\ UNCHANGED running
    /\ UNCHANGED <<sock, pressure, deadline, ctx, result, ctxVars, overlap, stray>>

\* WriteTo and ReadFrom (a Recv goes on reading past datagrams of other hosts),
\* and how Send and Recv name the error: the context first, then the closed conn.
Finish(p) ==
    /\ call[p] = "io"
    /\ \/ /\ sock = "open" /\ (Dir(p) = "write" => ~Blocked)
          /\ result' = [result EXCEPT ![p] = "ok"]
       \/ /\ sock = "closed" \/ Past(Dir(p))
          /\ result' = [result EXCEPT ![p] = IF ctx[p] \in ended THEN "cancelled"
                                             ELSE IF sock = "closed" THEN "closed"
                                             ELSE "timeout"]
    /\ call' = [call EXCEPT ![p] = "stop"]
    /\ UNCHANGED <<sock, pressure, deadline, ctx, ctxVars, hookVars, overlap, stray>>

\* The deferred stop: an AfterFunc that was started already is not waited for.
Stop(p) ==
    /\ call[p] = "stop"
    /\ call' = [call EXCEPT ![p] = "clear"]
    /\ waiting' = waiting \ {p}
    /\ UNCHANGED <<sock, pressure, deadline, ctx, result, ctxVars, running, overlap, stray>>

\* The deferred clear, the last step; the caller only sees whether there is an error.
Clear(p) ==
    /\ call[p] = "clear"
    /\ call' = [call EXCEPT ![p] = "out"]
    /\ deadline' = [deadline EXCEPT ![Dir(p)] = "none"]
    /\ overlap' = [overlap EXCEPT ![p] = FALSE]
    /\ stray' = [stray EXCEPT ![p] = FALSE]
    /\ result' = [result EXCEPT ![p] = IF @ = "ok" THEN "ok" ELSE "err"]
    /\ UNCHANGED <<sock, pressure, ctx, ctxVars, hookVars>>

\* The body of an AfterFunc, in a goroutine of its own.
AfterFunc(p) ==
    /\ running[p] > 0
    /\ running' = [running EXCEPT ![p] = @ - 1]
    /\ deadline' = [deadline EXCEPT ![Dir(p)] = "past"]
    /\ UNCHANGED <<sock, pressure, callVars, ctxVars, waiting, overlap, stray>>

\* The contexts in C are done: their AfterFuncs are started.
Done(C) ==
    /\ ended' = ended \cup C
    /\ LET started == {p \in waiting : ctx[p] \in C}
       IN  /\ waiting' = waiting \ started
           /\ running' = [p \in Callers |-> IF p \in started THEN running[p] + 1 ELSE running[p]]

\* Somebody cancels the contexts in C.
Cancel(C) ==
    /\ ~(C \subseteq ended)
    /\ Done(C)
    /\ UNCHANGED <<sock, pressure, deadline, callVars, overdue, overlap, stray>>

\* A deadline passes for the socket and, with a timer of its own, for the context.
Elapse(c) ==
    /\ c \in Timed \ overdue
    /\ overdue' = overdue \cup {c}
    /\ UNCHANGED <<sock, pressure, deadline, callVars, ended, hookVars, overlap, stray>>
Expire(c) ==
    /\ c \in overdue \ ended
    /\ Done({c})
    /\ UNCHANGED <<sock, pressure, deadline, callVars, overdue, overlap, stray>>

\* A timed context takes the name of one that is over and nobody uses any more.
Renew(c) ==
    /\ c \in Timed /\ c \in ended \cup overdue
    /\ \A p \in Callers : ctx[p] = c => call[p] = "out"
    /\ overdue' = overdue \ {c} /\ ended' = ended \ {c}
    /\ UNCHANGED <<sock, pressure, deadline, callVars, hookVars, overlap, stray>>

\* Backpressure of the socket comes, and may go.
Stall ==
    /\ pressure < 2
    /\ pressure' = pressure + 1
    /\ UNCHANGED <<sock, deadline, callVars, ctxVars, hookVars, overlap, stray>>

CloseSocket ==
    /\ sock = "open"
    /\ sock' = "closed"
    /\ UNCHANGED <<pressure, deadline, callVars, ctxVars, hookVars, overlap, stray>>

\* What a goroutine inside a call does next.
CallStep(p) == Register(p) \/ Finish(p) \/ Stop(p) \/ Clear(p)

\* Whoever uses the socket, with whatever context, takes these steps.
UDPNext ==
    \/ \E p \in Callers : (\E c \in Contexts : Begin(p, c)) \/ CallStep(p) \/ AfterFunc(p)
    \/ \E C \in SUBSET Contexts : Cancel(C)
    \/ \E c \in Timed : Elapse(c) \/ Expire(c) \/ Renew(c)
    \/ Stall \/ CloseSocket
UDPSpec == UDPInit /\ [][UDPNext]_udpVars

-----------------------------------------------------------------------------
(* Properties.                                                             *)
UDPTypeOK ==
    /\ sock \in {"open", "closed"} /\ pressure \in 0..2
    /\ deadline \in [{"read", "write"} -> {"none", "past"} \cup Timed]
    /\ overdue \subseteq Timed /\ ended \subseteq Contexts
    /\ call \in [Callers -> {"out", "set", "io", "stop", "clear"}]
    /\ ctx \in [Callers -> {"none"} \cup Contexts]
    /\ result \in [Callers -> {"none", "ok", "timeout", "cancelled", "closed", "err"}]
    /\ waiting \subseteq Callers /\ running \in [Callers -> Nat]
    /\ overlap \in [Callers -> BOOLEAN] /\ stray \in [Callers -> BOOLEAN]

\* A call whose context is done is not left alone in the socket, whether it was
\* there before or came later: the deadline is in the past or its AfterFunc is on
\* the way, unless another call in its direction crossed it and reset the deadline.
Interrupted ==
    \A p \in Callers :
        call[p] = "io" /\ ctx[p] \in ended => Past(Dir(p)) \/ running[p] > 0 \/ overlap[p]

\* A call fails with a timeout only when its own context is over, unless another
\* call crossed it or the AfterFunc of an earlier one had not run when it began:
\* what earlier calls leave behind on the socket does it no harm.
FailsForCause ==
    \A p \in Callers :
        result[p] = "timeout" => ctx[p] \in overdue \cup ended \/ overlap[p] \/ stray[p]
=============================================================================
