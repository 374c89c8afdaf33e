------------------------------- MODULE Driver -------------------------------
(***************************************************************************)
(* The post-handshake driver of internal/session: rekey.go,                *)
(* informational.go and the decode path of protected.go.                   *)
(*                                                                         *)
(* The driver is one goroutine and the only writer of the session, so each *)
(* handler is a function from the session's state to its next state; the   *)
(* functions call each other as the methods of Session do.  Field out      *)
(* collects the datagrams a handler sends; Session puts them on the wire.  *)
(*                                                                         *)
(* Time is what the environment says it is: each tick of the driver comes  *)
(* with the set of deadlines that have passed.                             *)
(***************************************************************************)
EXTENDS IKEWire

CONSTANTS
    Tries,           \* retransmitTries(): sends of a request before it is abandoned
    FastTries,       \* fastDPDTries
    SupportedGroups, \* the DH groups the client runs
    InitialGroup     \* the group IKE_SA_INIT negotiated

ASSUME TriesAssumption == Tries \in Nat \ {0} /\ FastTries \in Nat \ {0}
ASSUME GroupAssumption ==
    /\ SupportedGroups \subseteq Nat \ {0}
    /\ InitialGroup \in SupportedGroups

\* What a handler draws from outside: n, a fresh nonce; spi, a random SPI; err,
\* what goes wrong in it: "ok", nothing; "early", there is no randomness or no
\* encoding for a request, nothing changed yet; "send", the socket refuses the
\* request; "ack", the answer to the gateway cannot be encoded.
Errors == {"ok", "early", "send", "ack"}

-----------------------------------------------------------------------------
(* State.                                                                  *)

\* pendingExchange, with the fields of childRekeyCtx and ikeRekeyCtx.
NoExchange ==
    [kind |-> "none", req |-> NoMessage, attempts |-> 0, fast |-> FALSE,
     reest |-> FALSE, newIn |-> 0, oldIn |-> 0, ni |-> 0, dh |-> 0]
Exchange(kind, req) == [NoExchange EXCEPT !.kind = kind, !.req = req, !.attempts = 1]

\* peerDedup: the last request of the gateway that was answered, and the answer.
NoDedup == [set |-> FALSE, id |-> 0, resp |-> NoMessage]

\* The session as Driver finds it when the handshake is over (the IKE_AUTH
\* exchange was Message ID 1, so the next request of ours is numbered 2); pfs is
\* Config.ChildSAPFS.
InitialSession(pfs) ==
    [ike        |-> FirstIKE(InitialGroup),
     messageID  |-> 2,
     ikeDHGroup |-> InitialGroup,
     pending    |-> NoExchange,
     peer       |-> NoDedup,
     oldIKE     |-> NoIKE,
     oldPeer    |-> NoDedup,
     oldIKEDelete |-> NoExchange,
     child      |-> FirstChild(InitialGroup),
     childPFS      |-> pfs,
     childPFSGroup |-> 0,
     childReestablish |-> FALSE,
     throttled  |-> FALSE,    \* nextChildReestablish is set
     fastDPDDue |-> FALSE,
     status     |-> "up",     \* "dead": onDead fired; "closed": shut down
     out        |-> {}]

Pending(s) == s.pending.kind # "none"
HasOld(s) == s.oldIKE # NoIKE

-----------------------------------------------------------------------------
(* Sending.                                                                *)
Send(s, m) == [s EXCEPT !.out = @ \cup {m}]

\* A request under the current IKE SA with the next Message ID.
Request(s, ex, body) == Message("client", s.ike, ex, FALSE, s.messageID, body)

\* The tail of every initiate*: number the request, make it the pending
\* exchange, send it.  The exchange stays pending if the send fails.
Begin(s, x, err) ==
    LET t == [s EXCEPT !.messageID = @ + 1, !.pending = x]
    IN IF err = "send" THEN t ELSE Send(t, x.req)

\* Fault: the probe does not advance the Message ID.
initiateDPD_KeepsID(s, fast, err) ==
    IF err = "early" THEN s
    ELSE [Begin(s, [Exchange("dpd", Request(s, "INFO", Empty)) EXCEPT !.fast = fast], err)
            EXCEPT !.messageID = s.messageID]

initiateDPD(s, fast, err) ==
    IF err = "early" THEN s
    ELSE Begin(s, [Exchange("dpd", Request(s, "INFO", Empty)) EXCEPT !.fast = fast], err)

childRekeyGroup(s) == IF s.childPFSGroup # 0 THEN s.childPFSGroup ELSE s.ikeDHGroup

initiateChildRekey(s, reest, in) ==
    LET dh  == IF s.childPFS THEN childRekeyGroup(s) ELSE 0
        old == IF reest THEN 0 ELSE s.child.in
        req == Request(s, "CCSA", ChildRequest(in.n, in.spi, old, dh, "good"))
        x   == [Exchange("child", req) EXCEPT
                   !.reest = reest, !.newIn = in.spi, !.oldIn = s.child.in,
                   !.ni = in.n, !.dh = dh]
    IN IF in.err = "early" THEN s ELSE Begin(s, x, in.err)

initiateIKERekey(s, in) ==
    LET req == Request(s, "CCSA", IKERequest(in.n, s.ikeDHGroup, "good"))
        x   == [Exchange("ike", req) EXCEPT !.ni = in.n, !.dh = s.ikeDHGroup]
    IN IF in.err = "early" THEN s ELSE Begin(s, x, in.err)

sendChildDelete(s, inSPI, err) ==
    IF err = "early" THEN s
    ELSE Begin(s, Exchange("delete", Request(s, "INFO", DeleteESP(inSPI))), err)

\* The DELETE of the IKE SA being superseded has a slot of its own.
sendIKEDeleteUnderCurrent(s, err) ==
    LET req == Request(s, "INFO", DeleteIKE)
        t   == [s EXCEPT !.messageID = @ + 1, !.oldIKEDelete = Exchange("delete", req)]
    IN CASE err = "early" -> s
         [] err = "send"  -> t
         [] OTHER         -> Send(t, req)

\* Shutdown: numbered and sent whatever is pending.
sendGracefulDelete(s) ==
    [Send(s, Request(s, "INFO", DeleteIKE)) EXCEPT
        !.messageID = @ + 1, !.status = "closed"]

swapIKE(s, new) ==
    [s EXCEPT !.oldIKE = s.ike, !.oldPeer = s.peer, !.peer = NoDedup,
              !.ike = new, !.messageID = 0, !.pending = NoExchange]

-----------------------------------------------------------------------------
(* Responder side: answering the gateway's requests.                       *)

\* recordPeerResponse, in the slot of the SA that carried the request.
recordPeerResponse(s, viaOld, r) ==
    LET d == [set |-> TRUE, id |-> r.id, resp |-> r]
    IN IF viaOld THEN [s EXCEPT !.oldPeer = d] ELSE [s EXCEPT !.peer = d]

Response(req, body) == Message("client", req.sa, req.ex, TRUE, req.id, body)

\* Cache the answer, send it.  One that cannot be encoded is not cached either.
Answer(s, viaOld, req, body, err) ==
    LET r == Response(req, body)
    IN IF err = "ack" THEN s ELSE Send(recordPeerResponse(s, viaOld, r), r)

\* sendNotifyResponse, sendTemporaryFailure, sendInvalidKEPayload.
sendNotifyResponse(s, viaOld, req, why, err) == Answer(s, viaOld, req, Notify(why), err)

DedupSlot(s, viaOld) == IF viaOld THEN s.oldPeer ELSE s.peer

\* dedupPeerRequest: an answered request is not processed again, ...
IsDuplicate(s, viaOld, id) ==
    DedupSlot(s, viaOld).set /\ id <= DedupSlot(s, viaOld).id
\* ... and the answer to the last one is sent again.
ResendCached(s, viaOld, id) ==
    IF id = DedupSlot(s, viaOld).id THEN Send(s, DedupSlot(s, viaOld).resp) ELSE s

deleteRefsChild(spi, child) == spi = child.out \/ spi = child.in

handleInboundChildDelete(s, spi, in) ==
    IF ~deleteRefsChild(spi, s.child) THEN s
    ELSE IF Pending(s) THEN [s EXCEPT !.childReestablish = TRUE]
    ELSE IF in.err \in {"early", "send"}
         THEN [initiateChildRekey(s, TRUE, in) EXCEPT !.childReestablish = TRUE]
         ELSE [initiateChildRekey(s, TRUE, in) EXCEPT
                  !.childReestablish = FALSE, !.throttled = FALSE]

\* Fault: a DELETE of a superseded IKE SA ends the session.
handleInformationalRequest_AnySA(s, viaOld, req, in) ==
    LET t == IF req.body.t = "delESP"
             THEN handleInboundChildDelete(s, req.body.spi, in) ELSE s
        u == Answer(t, viaOld, req, Empty, in.err)
    IN IF req.body.t = "delIKE" THEN [u EXCEPT !.status = "dead"] ELSE u

handleInformationalRequest(s, viaOld, req, in) ==
    LET t == IF req.body.t = "delESP"
             THEN handleInboundChildDelete(s, req.body.spi, in) ELSE s
        u == Answer(t, viaOld, req, Empty, in.err)
    IN IF req.body.t = "delIKE" /\ ~viaOld THEN [u EXCEPT !.status = "dead"] ELSE u

\* The notify a rekey request draws instead of an SA, "none" if it is granted: the
\* payloads are there, the client runs the group, a proposal matches a suite and
\* advertises the group, there is randomness, and the KE value is sound.
Refusal(b, err) ==
    IF b.offer = "incomplete" THEN "NO_PROPOSAL"
    ELSE IF b.ke \notin SupportedGroups \cup {0} THEN "INVALID_KE"
    ELSE IF b.offer \in {"NO_PROPOSAL", "INVALID_KE"} THEN b.offer
    ELSE IF err = "early" THEN "TEMPORARY_FAILURE"
    ELSE IF b.offer = "SYNTAX" THEN "SYNTAX"
    ELSE "none"

\* Keys come from the SA that carried the request, which may be the old one.  The
\* answer is encoded before the new SA is installed.
handleChildRekeyRequest(s, viaOld, req, in) ==
    LET b   == req.body
        why == Refusal(b, in.err)
        new == [in |-> in.spi, out |-> b.spi,
                key |-> DeriveChildKeys(req.sa, b.ni, in.n, b.ke)]
        t   == [s EXCEPT !.child = new,
                         !.childPFS = @ \/ b.ke # 0,
                         !.childPFSGroup = IF b.ke # 0 THEN b.ke ELSE @]
    IN IF why # "none" THEN sendNotifyResponse(s, viaOld, req, why, in.err)
       ELSE IF in.err = "ack" THEN s
       ELSE Answer(t, viaOld, req, ChildResponse(in.n, in.spi, b.ke, b.ke), in.err)

\* Fault: the cutover comes first, so the answer lands in the new SA's slot.
handleIKERekeyRequest_CachesLate(s, req, in) ==
    LET b   == req.body
        why == Refusal(b, in.err)
        new == DeriveRekeyIKE(req.sa, b.ni, in.n, b.ke)
    IN IF why # "none" THEN sendNotifyResponse(s, FALSE, req, why, in.err)
       ELSE IF in.err = "ack" THEN sendNotifyResponse(s, FALSE, req, "TEMPORARY_FAILURE", "ok")
       ELSE [Answer(swapIKE(s, new), FALSE, req, IKEResponse(in.n, b.ke), in.err)
                EXCEPT !.ikeDHGroup = b.ke]

\* Cache, cut over, send: the answer is cached before swapIKE moves the slot.
handleIKERekeyRequest(s, req, in) ==
    LET b   == req.body
        why == Refusal(b, in.err)
        new == DeriveRekeyIKE(req.sa, b.ni, in.n, b.ke)
        t   == Answer(s, FALSE, req, IKEResponse(in.n, b.ke), in.err)
    IN IF why # "none" THEN sendNotifyResponse(s, FALSE, req, why, in.err)
       ELSE IF in.err = "ack" THEN sendNotifyResponse(s, FALSE, req, "TEMPORARY_FAILURE", "ok")
       ELSE [swapIKE(t, new) EXCEPT !.ikeDHGroup = b.ke]

-----------------------------------------------------------------------------
(* Initiator side: completing our own exchanges.                           *)

clearPending(s, id) ==
    IF s.pending.kind \in {"dpd", "delete"} /\ s.pending.req.id = id
    THEN [s EXCEPT !.pending = NoExchange] ELSE s

clearOldIKEDelete(s, id) ==
    IF s.oldIKEDelete.kind # "none" /\ s.oldIKEDelete.req.id = id
    THEN [s EXCEPT !.oldIKEDelete = NoExchange] ELSE s

\* Fault: a selected DH group without a KE payload is let through.
ChildResponseOK_IgnoresSelection(p, b) ==
    b.t = "child" /\ (b.ke # 0 => b.ke = p.dh)

\* childRekeyResponse and the KE checks of completeChildRekey: what the
\* gateway selected has to be something both ends can key.
ChildResponseOK(p, b) ==
    /\ b.t = "child"
    /\ b.ke # 0 => b.ke = p.dh
    /\ b.ke = 0 => p.dh = 0 \/ b.sel = 0

\* s is the session with the exchange p already off the pending slot.
completeChildRekey(s, b, p, err) ==
    LET new == [in |-> p.newIn, out |-> b.spi,
                key |-> DeriveChildKeys(s.ike, p.ni, b.nr, b.ke)]
        t   == [s EXCEPT !.child = new, !.childReestablish = FALSE, !.throttled = FALSE]
    IN IF ~ChildResponseOK(p, b) THEN s
       ELSE IF p.reest \/ p.oldIn = p.newIn THEN t
       ELSE sendChildDelete(t, p.oldIn, err)

completeIKERekey(s, b, p, err) ==
    IF b.t = "ike" /\ b.ke = p.dh
    THEN swapIKE(sendIKEDeleteUnderCurrent(s, err), DeriveRekeyIKE(s.ike, p.ni, b.nr, b.ke))
    ELSE s

\* Fault: an answer under the superseded SA may complete a rekey of the new one.
completeMatchingRekey_AnySA(s, viaOld, r, err) ==
    LET p == s.pending
        t == [s EXCEPT !.pending = NoExchange]
    IN IF p.kind \notin {"child", "ike"} \/ p.req.id # r.id THEN s
       ELSE IF p.kind = "child" THEN completeChildRekey(t, r.body, p, err)
       ELSE completeIKERekey(t, r.body, p, err)

completeMatchingRekey(s, viaOld, r, err) ==
    LET p == s.pending
        t == [s EXCEPT !.pending = NoExchange]
    IN IF viaOld \/ p.kind \notin {"child", "ike"} \/ p.req.id # r.id THEN s
       ELSE IF p.kind = "child" THEN completeChildRekey(t, r.body, p, err)
       ELSE completeIKERekey(t, r.body, p, err)

-----------------------------------------------------------------------------
(* Dispatch of one datagram.                                               *)

\* decodeIKE: the current SA, then the superseded one while its grace lasts.
CanDecode(s, m) == OpenSK(s.ike, m) \/ (HasOld(s) /\ OpenSK(s.oldIKE, m))
ViaOld(s, m) == ~OpenSK(s.ike, m)

handleRequest(s, viaOld, req, in) ==
    IF IsDuplicate(s, viaOld, req.id) THEN ResendCached(s, viaOld, req.id)
    ELSE IF req.ex = "INFO" THEN handleInformationalRequest(s, viaOld, req, in)
    ELSE IF s.pending.kind \in {"child", "ike"} \/ (req.body.t = "ike" /\ viaOld)
         THEN sendNotifyResponse(s, viaOld, req, "TEMPORARY_FAILURE", in.err)
    ELSE IF req.body.t = "ike" THEN handleIKERekeyRequest(s, req, in)
    ELSE handleChildRekeyRequest(s, viaOld, req, in)

handleResponse(s, viaOld, r, err) ==
    CASE r.ex = "CCSA" -> completeMatchingRekey(s, viaOld, r, err)
      [] r.ex = "INFO" /\ viaOld -> clearOldIKEDelete(s, r.id)
      [] r.ex = "INFO" /\ ~viaOld -> clearPending(s, r.id)

handleInbound(s, m, in) ==
    IF ~CanDecode(s, m) THEN s
    ELSE IF m.resp THEN handleResponse(s, ViaOld(s, m), m, in.err)
    ELSE handleRequest(s, ViaOld(s, m), m, in)

-----------------------------------------------------------------------------
(* housekeeping: one tick.  due is the set of deadlines that have passed.  *)

Timers == {"wake",     \* wall-clock gap over suspendThreshold
           "grace",    \* oldIKEUntil
           "oldDel",   \* oldIKEDelete.nextRetransmit
           "retry",    \* pending.nextRetransmit
           "backoff",  \* nextChildReestablish
           "volume",   \* ChildSAVolume over its threshold and not throttled
           "ike",      \* nextIKERekey
           "child",    \* nextChildRekey
           "idle"}     \* nothing inbound for dpdInterval

\* Fault: a wake that finds the window busy forgets to probe once it is free.
detectSuspend_ForgetsProbe(s, due, err) ==
    IF "wake" \notin due THEN s
    ELSE IF ~Pending(s) THEN initiateDPD(s, TRUE, err)
    ELSE [s EXCEPT !.pending.fast = TRUE]

detectSuspend(s, due, err) ==
    IF "wake" \notin due THEN s
    ELSE IF ~Pending(s) THEN initiateDPD(s, TRUE, err)
    ELSE [s EXCEPT !.pending.fast = TRUE,
                   !.fastDPDDue = @ \/ s.pending.kind # "dpd"]

expireGrace(s, due) ==
    IF HasOld(s) /\ "grace" \in due
    THEN [s EXCEPT !.oldIKE = NoIKE, !.oldPeer = NoDedup, !.oldIKEDelete = NoExchange]
    ELSE s

retransmitOldDelete(s, due) ==
    LET x == s.oldIKEDelete
    IN IF x.kind = "none" THEN s
       ELSE IF ~HasOld(s) THEN [s EXCEPT !.oldIKEDelete = NoExchange]
       ELSE IF "oldDel" \notin due THEN s
       ELSE IF x.attempts + 1 > Tries THEN [s EXCEPT !.oldIKEDelete = NoExchange]
       ELSE Send([s EXCEPT !.oldIKEDelete.attempts = @ + 1], x.req)

pendingTries(x) == IF x.fast THEN FastTries ELSE Tries

\* Fault: an abandoned re-establishment is forgotten.
abandonPending_Forgets(s) ==
    LET p == s.pending
    IN [s EXCEPT !.pending = NoExchange,
                 !.status = IF p.kind = "dpd" THEN "dead" ELSE @]

\* The last retransmission of p went unanswered: only a lost probe is fatal, and
\* a lost re-establishment is queued again.
abandonPending(s) ==
    LET p == s.pending
    IN [s EXCEPT !.pending = NoExchange,
                 !.status = IF p.kind = "dpd" THEN "dead" ELSE @,
                 !.childReestablish = @ \/ p.reest,
                 !.throttled = @ \/ p.reest]

\* Fault: one retransmission too many.
retransmitPending_OneMore(s, due) ==
    IF "retry" \notin due THEN s
    ELSE IF s.pending.attempts > pendingTries(s.pending) THEN abandonPending(s)
    ELSE Send([s EXCEPT !.pending.attempts = @ + 1], s.pending.req)

retransmitPending(s, due) ==
    IF "retry" \notin due THEN s
    ELSE IF s.pending.attempts + 1 > pendingTries(s.pending) THEN abandonPending(s)
    ELSE Send([s EXCEPT !.pending.attempts = @ + 1], s.pending.req)

\* The window is free: the first thing that is due takes it.
reestablishChild(s, in) ==
    LET t == initiateChildRekey(s, TRUE, in)
    IN IF in.err \in {"early", "send"} THEN [t EXCEPT !.throttled = TRUE]
       ELSE [t EXCEPT !.childReestablish = FALSE, !.throttled = FALSE]

startExchange(s, due, in) ==
    IF s.fastDPDDue
    THEN initiateDPD([s EXCEPT !.fastDPDDue = FALSE], TRUE, in.err)
    ELSE IF s.childReestablish /\ (s.throttled => "backoff" \in due)
    THEN reestablishChild(s, in)
    ELSE IF ~s.childReestablish /\ "volume" \in due THEN initiateChildRekey(s, FALSE, in)
    ELSE IF "ike" \in due THEN initiateIKERekey(s, in)
    ELSE IF ~s.childReestablish /\ "child" \in due THEN initiateChildRekey(s, FALSE, in)
    ELSE IF "idle" \in due THEN initiateDPD(s, FALSE, in.err)
    ELSE s

\* nextRetransmit is re-armed by a wake, so "retry" cannot be due in that tick.
housekeeping(s, due, in) ==
    LET t == retransmitOldDelete(expireGrace(detectSuspend(s, due, in.err), due), due)
    IN IF Pending(t) THEN retransmitPending(t, IF "wake" \in due THEN {} ELSE due)
       ELSE startExchange(t, due, in)
=============================================================================
