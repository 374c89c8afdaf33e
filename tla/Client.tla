------------------------------- MODULE Client -------------------------------
(***************************************************************************)
(* The life of a Client (ipsec.go, reconnect.go, startWorkers of           *)
(* dataplane.go, internal/workers): the goroutine of Dial, the reconnect   *)
(* supervisor, the three workers of every generation under their Manager,  *)
(* the callers of Close and the first caller of netstack.                  *)
(*                                                                         *)
(* A generation is one dialed session with its manager and its workers;    *)
(* generation n is the n-th session dialed.  What the driver does inside a *)
(* generation is in Driver; here it runs, declares its peer dead, or says  *)
(* goodbye when its context is done.                                       *)
(***************************************************************************)
EXTENDS Naturals

CONSTANTS
    Closers,        \* goroutines of the application that may call Close
    MaxGen,         \* bound: sessions dialed
    MaxPanics       \* bound: worker panics

ASSUME ClientAssumption ==
    /\ MaxGen \in Nat \ {0}
    /\ MaxPanics \in Nat
    /\ "reaper" \notin Closers

Gen == 1..MaxGen
Kind == {"rx", "driver", "keepalive"}
Thread == {"dial", "sup"}
\* The goroutine that onDead starts to call Close when AutoReconnect is off.
AllClosers == Closers \cup {"reaper"}

VARIABLES
    autoReconnect, \* Config.AutoReconnect
    pc,         \* where Dial and the supervisor stand
    gen,        \* the session c.session points to
    next,       \* the session dialed last (reconnect's sess)
    sess,       \* every session: not dialed, open, or closed
    mgr,        \* the generation whose Manager is c.mgr
    shut,       \* the Managers that were shut down
    work,       \* every worker: not started, running, leaving, caught (its
                \* panic is being handled), or gone
    deathSig,   \* tokens in the channel of capacity 1
    cancelled,  \* superCtx is done
    closed,     \* c.closed
    once,       \* closeOnce: free, held or done
    closer,     \* where every call of Close stands
    builder,    \* where the first call of netstack stands
    net,        \* the netstack: none, up or closed
    panics,     \* panics so far
    died        \* history: generations that called onDead

vars == <<autoReconnect, pc, gen, next, sess, mgr, shut, work, deathSig, cancelled, closed, once,
          closer, builder, net, panics, died>>

managers == <<mgr, shut, work>>
sessions == <<gen, next, sess>>
closing == <<cancelled, closed, once, closer>>
stack == <<builder, net>>
history == <<panics, died, autoReconnect>>

\* Dial has a session; startDataPlane is about to launch supervisor and workers.
Init ==
    /\ autoReconnect \in BOOLEAN
    /\ pc = [t \in Thread |-> IF t = "dial" THEN "launch" ELSE "off"]
    /\ gen = 1 /\ next = 1
    /\ sess = [g \in Gen |-> IF g = 1 THEN "open" ELSE "none"]
    /\ mgr = 0 /\ shut = {}
    /\ work = [g \in Gen |-> [k \in Kind |-> "none"]]
    /\ deathSig = 0
    /\ cancelled = FALSE /\ closed = FALSE /\ once = "free"
    /\ closer = [c \in AllClosers |-> "idle"]
    /\ builder = "idle" /\ net = "none"
    /\ panics = 0 /\ died = {}

-----------------------------------------------------------------------------
(* workers.Manager.                                                        *)

\* The context of a generation's Manager, a child of superCtx.
CtxDone(g) == cancelled \/ g \in shut

\* Wait returns: every worker that was started has returned.
Drained(g) == \A k \in Kind : work[g][k] \in {"none", "gone"}

\* Fault: Go does not look at the shutdown flag.
Go_Unchecked(g, k) ==
    work' = [work EXCEPT ![g][k] = "run"]

\* Go: a worker is not started once the Manager was shut down.
Go(g, k) ==
    work' = IF g \in shut THEN work ELSE [work EXCEPT ![g][k] = "run"]

-----------------------------------------------------------------------------
(* The death of a generation.                                              *)

\* Fault: the channel has no buffer, so only a waiting supervisor hears.
signalDeath_Unbuffered ==
    deathSig' = IF pc["sup"] = "idle" THEN 1 ELSE deathSig

\* A second notification finds the channel full and is dropped.
signalDeath == deathSig' = 1

onDead(g) ==
    /\ died' = died \cup {g}
    /\ IF autoReconnect
       THEN signalDeath /\ UNCHANGED closer
       ELSE /\ closer' = [closer EXCEPT !["reaper"] = IF @ = "idle" THEN "call" ELSE @]
            /\ UNCHANGED deathSig

Become(g, k, state) == work' = [work EXCEPT ![g][k] = state]

\* handleInbound or housekeeping declares the peer dead, then the driver returns.
DriverDies(g) ==
    /\ work[g]["driver"] = "run"
    /\ Become(g, "driver", "leaving")
    /\ onDead(g)
    /\ UNCHANGED <<pc, sessions, mgr, shut, cancelled, closed, once, stack, panics, autoReconnect>>

\* The context is done: the driver sends its DELETE, the others just return.
WorkerStops(g, k) ==
    /\ work[g][k] = "run" /\ CtxDone(g)
    /\ Become(g, k, IF k = "driver" THEN "leaving" ELSE "gone")
    /\ UNCHANGED <<pc, sessions, mgr, shut, deathSig, closing, stack, history>>

DriverLeaves(g) ==
    /\ work[g]["driver"] = "leaving"
    /\ Become(g, "driver", "gone")
    /\ UNCHANGED <<pc, sessions, mgr, shut, deathSig, closing, stack, history>>

\* rxDemux returns on any error of RecvRaw, and tells nobody.
RxFails(g) ==
    /\ work[g]["rx"] = "run" /\ ~CtxDone(g)
    /\ Become(g, "rx", "gone")
    /\ UNCHANGED <<pc, sessions, mgr, shut, deathSig, closing, stack, history>>

\* A worker panics: the panic handler is onDead.
Panic(g, k) ==
    /\ work[g][k] = "run" /\ panics < MaxPanics
    /\ panics' = panics + 1
    /\ Become(g, k, "caught")
    /\ onDead(g)
    /\ UNCHANGED <<pc, sessions, mgr, shut, cancelled, closed, once, stack, autoReconnect>>

\* The recovered panic shuts the Manager down, then wg.Done.
Recovered(g, k) ==
    /\ work[g][k] = "caught"
    /\ shut' = shut \cup {g}
    /\ Become(g, k, "gone")
    /\ UNCHANGED <<pc, sessions, mgr, deathSig, closing, stack, history>>

-----------------------------------------------------------------------------
(* startDataPlane and startWorkers, run by Dial and by the supervisor.     *)
Goto(t, where) == pc' = [pc EXCEPT ![t] = where]

\* startDataPlane: the supervisor first, then the workers.
Launch ==
    /\ pc["dial"] = "launch"
    /\ pc' = [pc EXCEPT !["dial"] = "publish", !["sup"] = IF autoReconnect THEN "idle" ELSE "off"]
    /\ UNCHANGED <<sessions, managers, deathSig, closing, stack, history>>

\* The generation a thread starts workers for.
Starting(t) == IF t = "dial" THEN 1 ELSE next

\* startWorkers: a fresh Manager is published under c.mu.
PublishManager(t) ==
    /\ pc[t] = "publish"
    /\ mgr' = Starting(t)
    /\ Goto(t, "rx")
    /\ UNCHANGED <<sessions, shut, work, deathSig, closing, stack, history>>

\* startWorkers: the three workers, one after the other.
StartWorker(t, k) ==
    /\ pc[t] = k
    /\ Go(Starting(t), k)
    /\ Goto(t, CASE k = "rx" -> "driver"
                 [] k = "driver" -> "keepalive"
                 [] k = "keepalive" -> IF t = "dial" THEN "done" ELSE "idle")
    /\ UNCHANGED <<sessions, mgr, shut, deathSig, closing, stack, history>>

-----------------------------------------------------------------------------
(* supervise and reconnect.                                                *)

\* supervise: superCtx is done.
SupExits ==
    /\ pc["sup"] = "idle" /\ cancelled
    /\ Goto("sup", "exit")
    /\ UNCHANGED <<sessions, managers, deathSig, closing, stack, history>>

\* supervise: a death is taken; when both are ready select picks either.
SupTakes ==
    /\ pc["sup"] = "idle" /\ deathSig = 1
    /\ deathSig' = 0
    /\ Goto("sup", "reconnect")
    /\ UNCHANGED <<sessions, managers, closing, stack, history>>

\* reconnect: bail out when closing, else (1) shut the dead generation down.
StopGeneration ==
    /\ pc["sup"] = "reconnect"
    /\ IF cancelled
       THEN Goto("sup", "idle") /\ UNCHANGED shut
       ELSE Goto("sup", "wait") /\ shut' = shut \cup {mgr}
    /\ UNCHANGED <<sessions, mgr, work, deathSig, closing, stack, history>>

\* Fault: the socket is closed without waiting for the workers.
CloseDeadSession_NoWait ==
    /\ pc["sup"] = "wait"
    /\ sess' = [sess EXCEPT ![gen] = "closed"]
    /\ Goto("sup", "redial")
    /\ UNCHANGED <<gen, next, managers, deathSig, closing, stack, history>>

\* (1) wait for its workers, (2) close its session.
CloseDeadSession ==
    /\ pc["sup"] = "wait" /\ Drained(mgr)
    /\ sess' = [sess EXCEPT ![gen] = "closed"]
    /\ Goto("sup", "redial")
    /\ UNCHANGED <<gen, next, managers, deathSig, closing, stack, history>>

\* Fault: the retry loop does not notice that the client is closing.
Redial_Forever ==
    /\ pc["sup"] = "redial"
    /\ Goto("sup", "dialing")
    /\ UNCHANGED <<sessions, managers, deathSig, closing, stack, history>>

\* (4) redialWithBackoff: the top of the loop, and the wait before it.
Redial ==
    /\ pc["sup"] = "redial"
    /\ Goto("sup", IF cancelled THEN "idle" ELSE "dialing")
    /\ UNCHANGED <<sessions, managers, deathSig, closing, stack, history>>

\* dialSession fails, or its context is done.
DialFails ==
    /\ pc["sup"] = "dialing"
    /\ Goto("sup", "redial")
    /\ UNCHANGED <<sessions, managers, deathSig, closing, stack, history>>

\* dialSession succeeds, perhaps while Close cancels its context.
DialSucceeds ==
    /\ pc["sup"] = "dialing" /\ next < MaxGen
    /\ next' = next + 1
    /\ sess' = [sess EXCEPT ![next'] = "open"]
    /\ Goto("sup", "build")
    /\ UNCHANGED <<gen, managers, deathSig, closing, stack, history>>

\* (5) espSAFromChild fails: drop the session and ask for another reconnect.
BuildFails ==
    /\ pc["sup"] = "build"
    /\ sess' = [sess EXCEPT ![next] = "closed"]
    /\ signalDeath
    /\ Goto("sup", "idle")
    /\ UNCHANGED <<gen, next, managers, closing, stack, history>>

\* (5) and (6): the new session is stored and the tunnel re-addressed.
SwapGeneration ==
    /\ pc["sup"] = "build"
    /\ gen' = next
    /\ Goto("sup", "publish")
    /\ UNCHANGED <<next, sess, managers, deathSig, closing, stack, history>>

-----------------------------------------------------------------------------
(* Close.                                                                  *)
Move(c, where) == closer' = [closer EXCEPT ![c] = where]

\* The application has the Client only once Dial has returned.
CallClose(c) ==
    /\ closer[c] = "idle" /\ c \in Closers /\ pc["dial"] = "done"
    /\ Move(c, "call")
    /\ UNCHANGED <<pc, sessions, managers, deathSig, cancelled, closed, once, stack, history>>

\* closeOnce: the first caller runs the teardown.
EnterOnce(c) ==
    /\ closer[c] = "call" /\ once = "free"
    /\ once' = "held"
    /\ closed' = TRUE
    /\ Move(c, "cancel")
    /\ UNCHANGED <<pc, sessions, managers, deathSig, cancelled, stack, history>>

\* closeOnce: the others wait for the first.
PassOnce(c) ==
    /\ closer[c] = "call" /\ once = "done"
    /\ Move(c, "returned")
    /\ UNCHANGED <<pc, sessions, managers, deathSig, cancelled, closed, once, stack, history>>

\* (1) superCancel.
Cancel(c) ==
    /\ closer[c] = "cancel"
    /\ cancelled' = TRUE
    /\ Move(c, "super")
    /\ UNCHANGED <<pc, sessions, managers, deathSig, closed, once, stack, history>>

\* Fault: Close does not wait for the supervisor.
StopWorkers_NoSuper(c) ==
    /\ closer[c] = "super"
    /\ shut' = shut \cup {mgr}
    /\ Move(c, "workers")
    /\ UNCHANGED <<pc, sessions, mgr, work, deathSig, cancelled, closed, once, stack, history>>

\* (2) superWG.Wait, (3) Shutdown of the current Manager.
StopWorkers(c) ==
    /\ closer[c] = "super" /\ pc["sup"] \in {"off", "exit"}
    /\ shut' = shut \cup {mgr}
    /\ Move(c, "workers")
    /\ UNCHANGED <<pc, sessions, mgr, work, deathSig, cancelled, closed, once, stack, history>>

\* (3) mgr.Wait, (4) the netstack this Close can see, and the tunnel.
CloseNet(c) ==
    /\ closer[c] = "workers" /\ Drained(mgr)
    /\ net' = IF builder = "published" THEN "closed" ELSE net
    /\ Move(c, "session")
    /\ UNCHANGED <<pc, sessions, managers, deathSig, cancelled, closed, once, builder, history>>

\* (4) the session; closeOnce is done.
CloseSession(c) ==
    /\ closer[c] = "session"
    /\ sess' = [sess EXCEPT ![gen] = "closed"]
    /\ once' = "done"
    /\ Move(c, "returned")
    /\ UNCHANGED <<pc, gen, next, managers, deathSig, cancelled, closed, stack, history>>

CloseStep(c) ==
    EnterOnce(c) \/ PassOnce(c) \/ Cancel(c) \/ StopWorkers(c) \/ CloseNet(c) \/ CloseSession(c)

-----------------------------------------------------------------------------
(* netstack: built outside the lock, published under it.                   *)
BuildNet ==
    /\ builder = "idle" /\ pc["dial"] = "done"
    /\ net' = "up"
    /\ builder' = "built"
    /\ UNCHANGED <<pc, sessions, managers, deathSig, closing, history>>

PublishNet ==
    /\ builder = "built"
    /\ builder' = IF closed THEN "discard" ELSE "published"
    /\ UNCHANGED <<pc, sessions, managers, deathSig, closing, net, history>>

DiscardNet ==
    /\ builder = "discard"
    /\ net' = "closed"
    /\ builder' = "discarded"
    /\ UNCHANGED <<pc, sessions, managers, deathSig, closing, history>>
-----------------------------------------------------------------------------
DialStep == Launch \/ PublishManager("dial") \/ \E k \in Kind : StartWorker("dial", k)

SupStep ==
    \/ SupExits \/ SupTakes \/ StopGeneration \/ CloseDeadSession
    \/ Redial \/ DialFails \/ DialSucceeds \/ BuildFails \/ SwapGeneration
    \/ PublishManager("sup") \/ \E k \in Kind : StartWorker("sup", k)

WorkerStep(g, k) == WorkerStops(g, k) \/ Recovered(g, k)

Next ==
    \/ DialStep \/ SupStep
    \/ \E g \in Gen : DriverDies(g) \/ DriverLeaves(g) \/ RxFails(g)
    \/ \E g \in Gen, k \in Kind : WorkerStep(g, k) \/ Panic(g, k)
    \/ \E c \in AllClosers : CallClose(c) \/ CloseStep(c)
    \/ BuildNet \/ PublishNet \/ DiscardNet

\* Without rx-demux the driver hears nothing and dead peer detection ends it
\* (DeadInTime in DriverClock, which needs that no rekey is due).
DeafDriverDies(g) == work[g]["rx"] = "gone" /\ DriverDies(g)

\* A goroutine that can run is run; whether a worker fails, a dial succeeds or
\* the application calls anything is left open.
Fairness ==
    /\ WF_vars(DialStep) /\ WF_vars(SupStep)
    /\ \A g \in Gen : WF_vars(DriverLeaves(g)) /\ WF_vars(DeafDriverDies(g))
    /\ \A g \in Gen, k \in Kind : WF_vars(WorkerStep(g, k))
    /\ \A c \in AllClosers : WF_vars(CloseStep(c))
    /\ WF_vars(PublishNet \/ DiscardNet)

Spec == Init /\ [][Next]_vars /\ Fairness

-----------------------------------------------------------------------------
(* Properties.                                                             *)
TypeOK ==
    /\ pc \in [Thread -> {"off", "launch", "publish", "done", "idle", "reconnect", "wait",
                          "redial", "dialing", "build", "exit"} \cup Kind]
    /\ gen \in Gen /\ next \in Gen /\ mgr \in Gen \cup {0}
    /\ sess \in [Gen -> {"none", "open", "closed"}]
    /\ shut \subseteq Gen /\ died \subseteq Gen
    /\ work \in [Gen -> [Kind -> {"none", "run", "leaving", "caught", "gone"}]]
    /\ deathSig \in 0..1
    /\ cancelled \in BOOLEAN /\ closed \in BOOLEAN
    /\ once \in {"free", "held", "done"}
    /\ closer \in [AllClosers -> {"idle", "call", "cancel", "super", "workers", "session", "returned"}]
    /\ builder \in {"idle", "built", "published", "discard", "discarded"}
    /\ net \in {"none", "up", "closed"}
    /\ panics \in 0..MaxPanics

\* A session's socket is closed only when no worker of its generation is left:
\* the driver's graceful DELETE always finds the socket open (Close, "while the
\* socket is still open", and reconnect step 1), and rx-demux never reads a
\* closed one, whoever closes first and whenever a worker fails or panics.
SocketOutlivesWorkers == \A g \in Gen : sess[g] = "closed" => Drained(g)

\* The workers of two generations never run side by side, although Dial may
\* still be starting the first when the supervisor replaces it ("a reconnect's
\* swap never crosses generations").
OneGeneration == \A g, h \in Gen : Drained(g) \/ Drained(h) \/ g = h

\* When Close has returned nothing is left of the Client: no worker of any
\* generation, no supervisor, no open socket, also not of a session dialed
\* while Close ran, and no netstack but one its builder is about to close.
ClosedClean ==
    once = "done" =>
        /\ \A g \in Gen : Drained(g) /\ sess[g] # "open"
        /\ pc["sup"] \in {"off", "exit"}
        /\ net = "up" => builder \in {"built", "discard"}

\* Every call of Close returns: whatever reconnect is in flight is interrupted,
\* and no goroutine waits for itself or for one that waits for it.
CloseReturns == \A c \in AllClosers : closer[c] = "call" ~> closer[c] = "returned"

\* A gateway that can be reached again answers a dial in the end.
Reachable == SF_vars(DialSucceeds)

\* A generation that died, or lost its reader, is replaced or the client is
\* closed: no notification is lost, not even one sent while the supervisor is
\* still busy, or sent by the supervisor itself.  (next = MaxGen: the bound on
\* dialed sessions is used up.)  Without AutoReconnect a dead generation closes
\* the client, to the end.
DeathHandled ==
    /\ Reachable => \A g \in Gen :
          (autoReconnect /\ gen = g /\ (g \in died \/ work[g]["rx"] = "gone"))
              ~> (gen # g \/ closed \/ next = MaxGen)
    /\ died # {} /\ ~autoReconnect ~> once = "done"
=============================================================================
