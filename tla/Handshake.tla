------------------------------ MODULE Handshake ------------------------------
(***************************************************************************)
(* Dialing a session: IKE_SA_INIT with its COOKIE and INVALID_KE_PAYLOAD   *)
(* retries (session.go), then IKE_AUTH with a pre-shared key or with EAP   *)
(* (ikeauth.go, internal/eap), every request sent and awaited by exchange  *)
(* and recvMatching over a network that loses, delays, reorders and (with  *)
(* dup) duplicates datagrams.                                           *)
(*                                                                         *)
(* A DH value is known by its group, a cookie by the epoch of the secret   *)
(* it was made with, an IKE SA by the responder's SPI.  The gateway is     *)
(* external: stateless until it accepts an IKE_SA_INIT request, window 1   *)
(* after that.  It may or may not hold the right certificate and the       *)
(* secret, and with misorders it sends EAP packets in any order.           *)
(***************************************************************************)
EXTENDS Naturals, Sequences

\* Settings maps a name to the configuration of the client and what the gateway
\* and the network may do:
\*   psk        Config.PSK is set
\*   tries      RetransmitTries
\*   group      the DH group the gateway insists on
\*   epochs     bound: cookie secrets the gateway goes through; 0: no cookies
\*   dup        the network may deliver a datagram again
\*   misorders  the gateway sends EAP packets in any order
CONSTANTS
    Settings,
    MaxRounds,  \* maxEAPRounds
    MaxHalf     \* bound: IKE SAs the gateway opens

ASSUME HandshakeAssumption ==
    /\ MaxRounds \in Nat /\ MaxHalf \in Nat
    /\ \A name \in DOMAIN Settings :
          LET c == Settings[name]
          IN /\ c.tries \in Nat \ {0} /\ c.epochs \in Nat /\ c.group \in Nat
             /\ {c.psk, c.dup, c.misorders} \subseteq BOOLEAN

\* supportedDHGroup: x25519 and MODP-2048, in the order of preference.
X25519 == 31
MODP2048 == 14
supportedDHGroup == {X25519, MODP2048}

VARIABLES
    setting,    \* the setting of this behaviour
    stage,      \* which exchange of the handshake is under way
    req,        \* its request
    tries,      \* how often it was sent
    cookie,     \* the cookie that is echoed, 0: none
    group,      \* s.dh.Group
    initReq,    \* s.initSAInitReq
    sa,         \* the IKE SA, 0: none
    round,      \* rounds of the EAP loop
    challenged, \* the MSCHAPv2 state holds the inputs of the MSK
    verified,   \* MSCHAPv2.authChecked
    why,        \* why the handshake failed
    asked,      \* history: the request whose answer was accepted last
    took,       \* history: that answer
    net,        \* datagrams in flight
    gw          \* the gateway

vars == <<setting, stage, req, tries, cookie, group, initReq, sa, round, challenged, verified, why,
          asked, took, net, gw>>

C == Settings[setting]
local == <<cookie, group, initReq, sa, round, challenged, verified>>

None == [to |-> "nobody", id |-> 0]

\* buildSAInit: Message ID 0, the cookie first when there is one.
buildSAInit(c, g) == [to |-> "gw", id |-> 0, sa |-> 0, cookie |-> c, group |-> g]
Init0 == buildSAInit(0, X25519)

Init ==
    /\ setting \in DOMAIN Settings
    /\ stage = "init" /\ req = Init0 /\ tries = 1
    /\ cookie = 0 /\ group = X25519 /\ initReq = Init0
    /\ sa = 0 /\ round = 0 /\ challenged = FALSE /\ verified = FALSE
    /\ why = "" /\ asked = None /\ took = None
    /\ net = {Init0}
    /\ \E k, c \in BOOLEAN : gw = [knows |-> k, cert |-> c, epoch |-> 0, half |-> <<>>]

-----------------------------------------------------------------------------
(* The network.                                                            *)
Arrive(m) == IF C.dup THEN net ELSE net \ {m}

Lose(m) == net' = net \ {m} /\ UNCHANGED <<stage, req, tries, local, why, asked, took, gw>>

-----------------------------------------------------------------------------
(* exchange and recvMatching.                                              *)

\* A response of the expected Message ID ends the wait; all else is dropped.
Matching(m) == m.to = "client" /\ m.id = req.id

\* Fault: attempts are not counted.
Retransmit_Forever ==
    /\ stage \notin {"up", "failed"}
    /\ net' = net \cup {req}
    /\ UNCHANGED <<stage, req, tries, local, why, asked, took, gw>>

\* The wait times out: the same request again, while attempts are left.
Retransmit ==
    /\ stage \notin {"up", "failed"} /\ tries < C.tries
    /\ tries' = tries + 1
    /\ net' = net \cup {req}
    /\ UNCHANGED <<stage, req, local, why, asked, took, gw>>

GiveUp ==
    /\ stage \notin {"up", "failed"} /\ tries = C.tries
    /\ stage' = "failed" /\ why' = "timeout"
    /\ UNCHANGED <<req, tries, local, asked, took, net, gw>>

\* The answer m ends the exchange; the next one is opened with request r.
Open(m, where, r) ==
    /\ stage' = where /\ req' = r /\ tries' = 1
    /\ net' = Arrive(m) \cup {r}
    /\ UNCHANGED why

Fail(m, reason) ==
    /\ stage' = "failed" /\ why' = reason
    /\ net' = Arrive(m)
    /\ UNCHANGED <<req, tries>>

Take(m) == asked' = req /\ took' = m /\ UNCHANGED gw
-----------------------------------------------------------------------------
(* IKESAInit.                                                              *)
sendSAInit(m, where, c, g) ==
    /\ Open(m, where, buildSAInit(c, g))
    /\ initReq' = buildSAInit(c, g)
    /\ UNCHANGED <<sa, round, challenged, verified>>

\* The first request of IKE_AUTH: with a PSK it carries AUTH, which covers
\* the IKE_SA_INIT request; with EAP it carries none.
FirstAuth(spi) ==
    [to |-> "gw", id |-> 1, sa |-> spi, m1 |-> initReq, body |-> IF C.psk THEN "auth" ELSE "first"]

\* The keys are derived only from a selection in our group; a notify that is
\* not an error leaves "missing SA/KE/Nonce".
handleSAInitResponse(m) ==
    /\ \/ /\ m.body = "sa" /\ m.group = group
          /\ Open(m, IF C.psk THEN "final" ELSE "auth1", FirstAuth(m.half))
          /\ sa' = m.half
       \/ /\ ~(m.body = "sa" /\ m.group = group)
          /\ Fail(m, "missing")
          /\ UNCHANGED sa
    /\ UNCHANGED <<cookie, group, initReq, round, challenged, verified>>

\* INVALID_KE_PAYLOAD: once more, with the group the responder wants.
HandleInvalidKE(m) ==
    \/ /\ m.body = "invalidKE" /\ m.group \in supportedDHGroup \ {group}
       /\ group' = m.group
       /\ sendSAInit(m, "ke", cookie, m.group)
       /\ UNCHANGED cookie
    \/ /\ m.body = "invalidKE" /\ m.group \notin supportedDHGroup \ {group}
       /\ Fail(m, "noGroup")
       /\ UNCHANGED local
    \/ /\ m.body # "invalidKE"
       /\ handleSAInitResponse(m)

\* Fault: a cookie demanded only after the change of group is not echoed.
IKESAInit_NoLateCookie(m) ==
    \/ /\ stage = "init" /\ m.body = "cookie"
       /\ cookie' = m.cookie
       /\ sendSAInit(m, "cookie", m.cookie, group)
       /\ UNCHANGED group
    \/ stage = "init" /\ m.body # "cookie" /\ HandleInvalidKE(m)
    \/ stage = "cookie" /\ HandleInvalidKE(m)
    \/ stage = "ke" /\ handleSAInitResponse(m)

\* A COOKIE is echoed once, then INVALID_KE_PAYLOAD obeyed once, and after
\* that a COOKIE echoed once more.
IKESAInit(m) ==
    \/ /\ stage = "init" /\ m.body = "cookie"
       /\ cookie' = m.cookie
       /\ sendSAInit(m, "cookie", m.cookie, group)
       /\ UNCHANGED group
    \/ stage = "init" /\ m.body # "cookie" /\ HandleInvalidKE(m)
    \/ stage = "cookie" /\ HandleInvalidKE(m)
    \/ /\ stage = "ke" /\ m.body = "cookie"
       /\ sendSAInit(m, "keCookie", m.cookie, group)
       /\ UNCHANGED <<cookie, group>>
    \/ stage = "ke" /\ m.body # "cookie" /\ handleSAInitResponse(m)
    \/ stage = "keCookie" /\ handleSAInitResponse(m)

-----------------------------------------------------------------------------
(* IKE_AUTH.                                                               *)

\* Fault: the Message ID does not advance between the EAP rounds.
Ask_SameID(body) == [to |-> "gw", id |-> 2, sa |-> sa, m1 |-> initReq, body |-> body]

\* The next SK{} request on this SA.
Ask(body) == [to |-> "gw", id |-> req.id + 1, sa |-> sa, m1 |-> initReq, body |-> body]

\* Fault: any EAP-Success ends the loop once there was a challenge.
EAPSuccess_NoGate(m) ==
    /\ m.eap = "EAPSuccess"
    /\ IF challenged THEN Open(m, "final", Ask("auth")) ELSE Fail(m, "unverified")
    /\ UNCHANGED local

\* EAP-Success ends the loop: refused when the server has not proved that it
\* knows the password, useless when no challenge gave the inputs of the MSK.
EAPSuccess(m) ==
    /\ m.eap = "EAPSuccess"
    /\ IF challenged /\ verified THEN Open(m, "final", Ask("auth"))
                                 ELSE Fail(m, "unverified")
    /\ UNCHANGED local

\* A challenge is answered with a response, and leaves the inputs of the MSK.
HandleChallenge(m) ==
    /\ m.eap = "challenge"
    /\ Open(m, "eap", Ask("response"))
    /\ challenged' = TRUE
    /\ UNCHANGED verified

\* MSCHAPv2-Success is checked against the last challenge, of which there has to
\* be one.
HandleSuccess(m) ==
    /\ m.eap = "success"
    /\ IF challenged /\ m.ok
       THEN Open(m, "eap", Ask("ack")) /\ verified' = TRUE
       ELSE Fail(m, "eap") /\ UNCHANGED verified
    /\ UNCHANGED challenged

buildEAPResponse(m) ==
    /\ m.eap # "EAPSuccess"
    /\ \/ HandleChallenge(m)
       \/ HandleSuccess(m)
       \/ /\ m.eap \in {"identity", "notification"}
          /\ Open(m, "eap", Ask(m.eap))
          /\ UNCHANGED <<challenged, verified>>
       \/ /\ m.eap \in {"failure", "EAPFailure"}
          /\ Fail(m, "eap")
          /\ UNCHANGED <<challenged, verified>>
    /\ round' = round + 1
    /\ UNCHANGED <<cookie, group, initReq, sa>>

\* One pass of the EAP loop over the packet of the last response.
EAPRound(m) ==
    \/ m.body = "eap" /\ round < MaxRounds /\ EAPSuccess(m)
    \/ m.body = "eap" /\ round < MaxRounds /\ buildEAPResponse(m)
    \/ m.body = "eap" /\ round >= MaxRounds /\ Fail(m, "rounds") /\ UNCHANGED local
    \/ m.body # "eap" /\ Fail(m, "peer") /\ UNCHANGED local

\* Message 4: the certificate and its AUTH, then the first EAP packet.
handleAuthResponse(m) ==
    \/ m.body = "eap" /\ ~m.cert /\ Fail(m, "cert") /\ UNCHANGED local
    \/ (m.body = "eap" => m.cert) /\ EAPRound(m)

\* The responder's AUTH proves that it holds the PSK or the MSK; then the
\* first Child SA is there.
handleFinalAuthResponse(m) ==
    /\ IF m.body = "final" /\ m.ok
       THEN stage' = "up" /\ net' = Arrive(m) /\ UNCHANGED <<req, tries, why>>
       ELSE Fail(m, IF m.body = "final" THEN "auth" ELSE "peer")
    /\ UNCHANGED local

IKEAuth(m) ==
    \/ stage = "auth1" /\ handleAuthResponse(m)
    \/ stage = "eap" /\ EAPRound(m)
    \/ stage = "final" /\ handleFinalAuthResponse(m)

Receive(m) == Matching(m) /\ Take(m) /\ (IKESAInit(m) \/ IKEAuth(m))

\* recvMatching drops what does not match.
Drop(m) ==
    /\ ~C.dup /\ m.to = "client" /\ ~Matching(m) /\ stage \notin {"up", "failed"}
    /\ net' = net \ {m}
    /\ UNCHANGED <<stage, req, tries, local, why, asked, took, gw>>
-----------------------------------------------------------------------------
(* The gateway (external).                                                 *)
GwSend(m, r) ==
    /\ net' = Arrive(m) \cup {r}
    /\ UNCHANGED <<stage, req, tries, local, why, asked, took>>

\* The gateway crosses its cookie threshold, or changes its secret.
GwEpoch ==
    /\ gw.epoch < C.epochs
    /\ gw' = [gw EXCEPT !.epoch = @ + 1]
    /\ UNCHANGED <<stage, req, tries, local, why, asked, took, net>>

GwRefuse(m) ==
    /\ m.id = 0
    /\ \/ /\ gw.epoch > 0 /\ m.cookie # gw.epoch
          /\ GwSend(m, [to |-> "client", id |-> 0, body |-> "cookie", cookie |-> gw.epoch, re |-> m])
       \/ /\ gw.epoch > 0 => m.cookie = gw.epoch
          /\ m.group # C.group
          /\ GwSend(m, [to |-> "client", id |-> 0, body |-> "invalidKE", group |-> C.group, re |-> m])
    /\ UNCHANGED gw

Selection(m, n) ==
    [to |-> "client", id |-> 0, body |-> "sa", group |-> C.group, half |-> n, re |-> m]

\* A request it has accepted before is answered as before.
GwAccept(m) ==
    /\ m.id = 0
    /\ LET known == {n \in 1..Len(gw.half) : gw.half[n].m1 = m}
       IN \/ \E n \in known : GwSend(m, Selection(m, n)) /\ UNCHANGED gw
          \/ /\ known = {} /\ Len(gw.half) < MaxHalf
             /\ m.group = C.group /\ (gw.epoch > 0 => m.cookie = gw.epoch)
             /\ GwSend(m, Selection(m, Len(gw.half) + 1))
             /\ gw' = [gw EXCEPT !.half = Append(@, [m1 |-> m, next |-> 1, last |-> None])]

EAPPackets == {"identity", "notification", "challenge", "success", "failure",
               "EAPSuccess", "EAPFailure"}

\* What follows a request in an orderly EAP-MSCHAPv2 conversation.
Orderly(body) ==
    CASE body = "first" -> {"identity", "challenge"}
      [] body = "identity" -> {"notification", "challenge"}
      [] body = "notification" -> {"challenge"}
      [] body = "response" -> IF gw.knows THEN {"success"} ELSE {"failure"}
      [] body = "ack" -> {"EAPSuccess"}

\* What it may answer to m.
GwAnswers(m) ==
    IF m.body = "auth"
    THEN {[to |-> "client", id |-> m.id, re |-> m, ok |-> gw.knows,
           body |-> IF gw.knows /\ m.m1 # gw.half[m.sa].m1 THEN "error" ELSE "final"]}
    ELSE {[to |-> "client", id |-> m.id, re |-> m, ok |-> gw.knows, cert |-> gw.cert,
           body |-> "eap", eap |-> e] :
             e \in IF C.misorders THEN EAPPackets ELSE Orderly(m.body)}

GwAuth(m) ==
    /\ m.id > 0
    /\ \/ /\ m.id = gw.half[m.sa].next
          /\ \E r \in GwAnswers(m) :
                /\ GwSend(m, r)
                /\ gw' = [gw EXCEPT !.half[m.sa].next = @ + 1, !.half[m.sa].last = r]
       \/ /\ m.id = gw.half[m.sa].next - 1
          /\ GwSend(m, gw.half[m.sa].last)
          /\ UNCHANGED gw

-----------------------------------------------------------------------------
Step == Retransmit \/ GiveUp
Next ==
    /\ \/ Step \/ GwEpoch
       \/ \E m \in net :
             \/ m.to = "client" /\ (Receive(m) \/ Drop(m))
             \/ m.to = "gw" /\ (GwRefuse(m) \/ GwAccept(m) \/ GwAuth(m))
             \/ ~C.dup /\ Lose(m)
    /\ UNCHANGED setting

\* Every wait has a deadline.
Spec == Init /\ [][Next]_vars /\ WF_vars(Step /\ UNCHANGED setting)

-----------------------------------------------------------------------------
(* Properties.                                                             *)
\* After IKE_SA_INIT the answer that exchange accepts is the answer to the
\* request it sent, however often requests are retransmitted and answers
\* duplicated or delayed (one Message ID per request; recvMatching).
AuthAnswersRequest == took.id > 0 => took.re = asked

\* With EAP our own AUTH goes only to a gateway that has shown a certificate we
\* trust and proved that it knows the password, whatever EAP packets it sends
\* and in which order (handleAuthResponse, and the gate on Verified).
AuthAfterProof == ~C.psk /\ stage \in {"final", "up"} => gw.knows /\ gw.cert

\* The handshake ends, established or failed.
HandshakeEnds == <>(stage \in {"up", "failed"})

\* A gateway that can be served is served: COOKIE and INVALID_KE_PAYLOAD, in
\* every order a threshold crossed at any time produces, end in a proper
\* IKE_SA_INIT response, and the AUTH of both sides fits (IKESAInit).  Not so once
\* a request is repeated, by a retransmission or by the network: the rounds of
\* IKE_SA_INIT share Message ID 0, and a late answer to one is taken for the answer
\* to the next (recvMatching).  Nor when the gateway changes its cookie secret
\* between two rounds: only the change of group allows a second cookie.
NoSpuriousFailure ==
    /\ stage = "failed"
    /\ C.tries = 1 /\ ~C.dup /\ ~C.misorders /\ C.epochs <= 1
    => \/ why = "timeout" \/ (why = "rounds" /\ round = MaxRounds)
       \/ ~gw.knows \/ (~C.psk /\ ~gw.cert) \/ C.group \notin supportedDHGroup
=============================================================================
