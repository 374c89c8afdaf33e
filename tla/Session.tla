------------------------------ MODULE Session ------------------------------
(***************************************************************************)
(* The driver, the gateway and the network between them.                   *)
(*                                                                         *)
(* A datagram that was sent stays in net for ever and may be delivered any *)
(* number of times, in any order, or never: loss, duplication, reordering  *)
(* and arbitrarily late arrival (also of retransmissions, which are the    *)
(* same bytes) all come from that.                                         *)
(***************************************************************************)
EXTENDS Driver, Gateway

\* Environments maps the name of an environment to what may happen in it: what
\* the gateway may do (Gateway), and
\*   timers    the deadlines that can pass
\*   failures  the local failures that can happen: a subset of Errors
\*   collides  whether a random SPI may equal the SPI being replaced
\*   shutdown  whether the client may be closed
\*   vanish    whether the gateway may go silent
\*   pfs       Config.ChildSAPFS
\*   fresh     bound: nonces drawn by the two ends together
\*   ids       bound: Message IDs the client uses per IKE SA
CONSTANT Environments

ASSUME EnvironmentAssumption ==
    \A name \in DOMAIN Environments :
        LET e == Environments[name]
        IN /\ GatewayEnvironment(e)
           /\ e.timers \subseteq Timers
           /\ e.failures \subseteq Errors /\ "ok" \in e.failures
           /\ {e.collides, e.shutdown, e.vanish, e.pfs} \subseteq BOOLEAN
           /\ e.fresh \in Nat /\ e.ids \in Nat

VARIABLES env,    \* the environment of this behaviour
          s,      \* the client's session
          gw,     \* the gateway
          net,    \* every datagram ever sent
          fresh   \* the last nonce drawn

vars == <<env, s, gw, net, fresh>>

E == Environments[env]

Init ==
    /\ env \in DOMAIN Environments
    /\ s = InitialSession(E.pfs)
    /\ gw = InitialGateway(InitialGroup)
    /\ net = {}
    /\ fresh = 2

Inputs ==
    [n : {fresh + 1},
     spi : {fresh + 1} \cup (IF E.collides THEN {s.child.in} ELSE {}),
     err : E.failures]

Up == s.status = "up"

\* The nonce a step was offered is spent if it shows in what the step left.
Draw(spent) ==
    /\ fresh' = IF spent THEN fresh + 1 ELSE fresh
    /\ fresh' <= E.fresh

\* The client's state becomes t, and what t sent is on the wire.
ClientStep(t) ==
    /\ t.messageID <= E.ids
    /\ s' = [t EXCEPT !.out = {}]
    /\ net' = net \cup t.out
    /\ Draw(fresh + 1 \in {t.pending.ni, t.child.key.n[1], t.child.key.n[2],
                           t.ike.n[1], t.ike.n[2]})
    /\ UNCHANGED <<env, gw>>

GatewayStep(h) ==
    /\ gw' = [h EXCEPT !.out = {}]
    /\ net' = net \cup h.out
    /\ Draw(\E m \in h.out : m.body.t \in {"child", "ike"})
    /\ UNCHANGED <<env, s>>

\* Driver: one datagram from the inbox.
Inbound(m, in) ==
    /\ Up
    /\ m.from = "gw"
    /\ CanDecode(s, m)
    /\ ClientStep(handleInbound(s, m, in))

\* The deadlines a tick can notice in this state: the others are not looked at.
Relevant ==
    E.timers \ ( (IF HasOld(s) THEN {} ELSE {"grace"})
            \cup (IF s.oldIKEDelete.kind # "none" THEN {} ELSE {"oldDel"})
            \cup (IF s.throttled THEN {} ELSE {"backoff"})
            \cup (IF Pending(s) THEN {"backoff", "volume", "ike", "child", "idle"}
                  ELSE {"retry"}) )

\* Driver: one tick.
Tick(due, in) ==
    /\ Up
    /\ ClientStep(housekeeping(s, due, in))

\* Driver: the context is cancelled.
Shutdown ==
    /\ Up
    /\ E.shutdown
    /\ ClientStep(sendGracefulDelete(s))

GatewayReceives(m) ==
    /\ m.from = "client"
    /\ CanReceive(gw, m)
    /\ \E h \in Receive(gw, m, fresh + 1, E) : GatewayStep(h)

GatewayConcludes(m) ==
    /\ m.from = "client"
    /\ CanConclude(gw, m)
    /\ GatewayStep(Conclude(gw, m))

GatewayStarts ==
    /\ \E h \in Startable(gw, fresh + 1, E) : GatewayStep(h)

GatewayVanishes ==
    /\ E.vanish
    /\ gw.alive
    /\ GatewayStep([gw EXCEPT !.alive = FALSE])

Next ==
    \/ \E m \in net, in \in Inputs : Inbound(m, in)
    \/ \E due \in SUBSET Relevant, in \in Inputs : Tick(due, in)
    \/ Shutdown
    \/ \E m \in net : GatewayReceives(m)
    \/ \E m \in net : GatewayConcludes(m)
    \/ GatewayStarts
    \/ GatewayVanishes

Spec == Init /\ [][Next]_vars

-----------------------------------------------------------------------------
(* Properties.                                                             *)

\* A Message ID under one IKE SA names one request for ever: what the driver
\* sends twice under the same number is the same datagram (initiate*,
\* sendChildDelete, sendIKEDeleteUnderCurrent and sendGracefulDelete all draw
\* from s.messageID, which swapIKE resets).
OneRequestPerID ==
    \A m1, m2 \in net :
        /\ m1.from = "client" /\ m2.from = "client" /\ ~m1.resp /\ ~m2.resp
        /\ m1.sa = m2.sa /\ m1.id = m2.id
        => m1 = m2

\* A request of the gateway is acted on once, however often and late it is
\* repeated, also across an IKE SA cutover: the driver never gives two different
\* answers to one request (dedupPeerRequest, recordPeerResponse and the
\* migration of the slot in swapIKE).
OneAnswerPerRequest ==
    \A m1, m2 \in net :
        /\ m1.from = "client" /\ m2.from = "client" /\ m1.resp /\ m2.resp
        /\ m1.sa = m2.sa /\ m1.id = m2.id
        => m1 = m2

\* Two ends that know a Child SA by the same pair of SPIs hold the same keys
\* for it, whichever end started the exchange, under whichever IKE SA it ran
\* and whatever was agreed about PFS.
ChildKeysAgree ==
    \A k \in gw.kids : k.in = s.child.in /\ k.out = s.child.out => k = s.child

\* The IKE SA the driver talks under is one the gateway has held, or the answer
\* from which the gateway will derive that very SA has been sent.
IKEKeysAgree ==
    \/ s.ike \in gw.ever
    \/ \E r \in net, q \in Outstanding(gw) :
          /\ r.from = "client" /\ Answers(r, q)
          /\ q.body.t = "ike" /\ r.body.t = "ike"
          /\ s.ike = DeriveRekeyIKE(q.sa, q.body.ni, r.body.nr, r.body.ke)

\* An exchange is over only when the gateway has answered that very request, or
\* the retransmissions are spent, or a rekey of the gateway's replaced the IKE
\* SA under a probe or a DELETE.  A Message ID that coincides with one of
\* another IKE SA or another exchange ends nothing (clearPending,
\* completeMatchingRekey and their viaOld and kind guards).
ExchangeEndsAnswered ==
    [][Up /\ Pending(s) /\ s'.pending.req # s.pending.req =>
         \/ \E r \in net : Answers(r, s.pending.req)
         \/ s.pending.attempts >= pendingTries(s.pending)
         \/ s'.ike # s.ike /\ s.pending.kind \in {"dpd", "delete"}]_vars

\* The tunnel is torn down only when a probe went unanswered, or the gateway has
\* deleted the IKE SA the driver is using now.  Its clean-up of an IKE SA that a
\* rekey superseded never costs the tunnel (handleInformationalRequest).
NoFalseTeardown ==
    [][s'.status = "dead" /\ Up =>
         \/ s.pending.kind = "dpd" /\ s.pending.attempts >= pendingTries(s.pending)
         \/ \E m \in net : /\ m.from = "gw" /\ ~m.resp /\ m.body.t = "delIKE"
                           /\ m.sa = s.ike /\ m.sa \notin gw.stale]_vars

\* What will mend a Child SA that the gateway does not have: a re-establishment
\* that is queued or in flight, or a request of the gateway's that is not
\* concluded yet and says what happened to the Child SA.
RecoveryUnderWay ==
    \/ s.childReestablish \/ s.pending.reest
    \/ \E q \in Outstanding(gw) :
          \/ q.body.t = "delESP" /\ q.body.spi = s.child.out
          \/ q.body.t = "child" /\ q.body.spi = s.child.out
          \/ q.body.t = "delIKE" /\ q.sa = s.ike

\* The data plane is never left dead behind a live IKE SA: while the gateway is
\* there and uses the IKE SA we use, the Child SA we send on is one it holds with the
\* same keys, or something is under way that mends it (handleInboundChildDelete,
\* housekeeping, completeChildRekey, handleChildRekeyRequest).
NoBlackHole ==
    Up /\ gw.alive /\ s.ike = gw.cur /\ s.ike \in Held(gw)
        => s.child \in gw.kids \/ RecoveryUnderWay
=============================================================================
