-------------------------- MODULE HandshakeProofs --------------------------
(***************************************************************************)
(* Two facts about the handshake, for every setting, every number of EAP   *)
(* rounds and of half-open SAs: an answer of IKE_AUTH that is accepted     *)
(* belongs to the request it is accepted for, and our AUTH follows proof.  *)
(*                                                                         *)
(* The invariant says of every datagram that travels, of the answer the    *)
(* gateway keeps for each SA and of the request under way that it is       *)
(* Sound.  A request never has a higher Message ID than the one under way, *)
(* and after IKE_SA_INIT one of the same Message ID is that request.       *)
(***************************************************************************)
EXTENDS Handshake, TLAPS

USE ZenonT(2), SMTT(30), ZenonT(20)

\* r is a request of an earlier exchange, or of IKE_SA_INIT, or the one under way.
Earlier(r) == r.id \in Nat /\ r.id <= req.id /\ (r.id = req.id /\ r.id > 0 => r = req)

Halves == 1..Len(gw.half)

Sound(m) ==
    /\ m.to = "gw" => Earlier(m) /\ (m.id > 0 => m.sa \in Halves)
    /\ m.to = "client" =>
          /\ m.id \in Nat
          /\ m.id > 0 => Earlier(m.re) /\ m.re.id = m.id
          /\ m.body = "sa" => m.half \in Halves
          /\ m.body = "eap" => m.ok = gw.knows /\ m.cert = gw.cert

\* The answer the gateway keeps for its n-th SA.
Kept(n) == "last" \in DOMAIN gw.half[n] /\ Sound(gw.half[n].last)

GatewayOK ==
    /\ DOMAIN gw = {"knows", "cert", "epoch", "half"}
    /\ gw.knows \in BOOLEAN /\ gw.cert \in BOOLEAN
    /\ \E S : gw.half \in Seq(S)
    /\ \A n \in Halves : Kept(n)

RequestOK ==
    /\ req.to = "gw" /\ Sound(req)
    /\ stage \in {"init", "cookie", "ke", "keCookie"} => req.id = 0
    /\ stage \in {"auth1", "eap", "final"} => sa \in Halves

\* What the stages and the MSCHAPv2 state say about the gateway.
Gated ==
    /\ verified \in BOOLEAN /\ (verified => gw.knows)
    /\ stage = "eap" => gw.cert
    /\ ~C.psk /\ stage \in {"final", "up"} => gw.knows /\ gw.cert

HandshakeInv == GatewayOK /\ RequestOK /\ (\A m \in net : Sound(m)) /\ Gated /\ AuthAnswersRequest

LEMMA HandshakeInit == Init => HandshakeInv
<1> SUFFICES ASSUME Init PROVE HandshakeInv
  OBVIOUS
<1>1. PICK k, c \in BOOLEAN : gw = [knows |-> k, cert |-> c, epoch |-> 0, half |-> <<>>]
  BY DEF Init
<1>2. gw.half = <<>> /\ Len(gw.half) = 0 /\ gw.half \in Seq({})
  BY <1>1
<1>3. req = Init0 /\ req.to = "gw" /\ req.id = 0 /\ net = {req}
  BY DEF Init, Init0, buildSAInit
<1>4. Sound(req)
  BY <1>3 DEF Sound, Earlier
<1>5. GatewayOK
  <2>1. Halves = {}
    BY <1>2 DEF Halves
  <2>2. DOMAIN gw = {"knows", "cert", "epoch", "half"} /\ gw.knows \in BOOLEAN /\ gw.cert \in BOOLEAN
    BY <1>1
  <2> QED BY <1>2, <2>1, <2>2 DEF GatewayOK
<1>6. RequestOK /\ Gated
  BY <1>3, <1>4 DEF Init, RequestOK, Gated
<1>7. AuthAnswersRequest
  <2>1. took = None
    BY DEF Init
  <2>2. took.id = 0
    BY <2>1 DEF None
  <2> QED BY <2>2 DEF AuthAnswersRequest
<1> QED BY <1>3, <1>4, <1>5, <1>6, <1>7 DEF HandshakeInv

-----------------------------------------------------------------------------
(* What travels.                                                           *)

\* What is Sound stays so when the request under way stays and the gateway keeps
\* its SAs, and also when a later request, or one of IKE_SA_INIT, takes its place.
LEMMA SoundKept ==
    ASSUME NEW m, Sound(m), req.id \in Nat,
           gw'.knows = gw.knows, gw'.cert = gw.cert, Halves \subseteq Halves',
           req' = req \/ (req'.id \in Nat /\ req'.id > req.id) \/ (req.id = 0 /\ req'.id = 0)
    PROVE  Sound(m)'
<1>1. ASSUME NEW r, Earlier(r) PROVE Earlier(r)'
  BY <1>1 DEF Earlier
<1> QED BY <1>1 DEF Sound

\* A step of the client sends nothing but its request, which is the one under way,
\* a further one of IKE_SA_INIT, or the next one on an SA of the gateway.
ClientSends ==
    /\ UNCHANGED gw
    /\ net' \subseteq net \cup {req'}
    /\ \/ req' = req
       \/ req'.to = "gw" /\ req.id = 0 /\ req'.id = 0
       \/ req'.to = "gw" /\ req'.id = req.id + 1 /\ req'.sa \in Halves

LEMMA ClientSendsSound ==
    ASSUME HandshakeInv, ClientSends
    PROVE  GatewayOK' /\ Sound(req)' /\ req'.to = "gw" /\ (\A m \in net' : Sound(m)')
<1>1. GatewayOK /\ RequestOK /\ \A m \in net : Sound(m)
  BY DEF HandshakeInv
<1>2. req.id \in Nat /\ req.to = "gw" /\ Sound(req)
  BY <1>1 DEF RequestOK, Sound, Earlier
<1>3. gw' = gw /\ Halves' = Halves
  BY DEF ClientSends, Halves
<1>4. ASSUME NEW m, Sound(m) PROVE Sound(m)'
  BY <1>2, <1>3, <1>4, SoundKept DEF ClientSends
<1>5. \A n \in Halves' : Kept(n)'
  <2> SUFFICES ASSUME NEW n \in Halves PROVE Kept(n)'
    BY <1>3
  <2>1. PICK v : v = gw.half[n].last
    OBVIOUS
  <2>2. Sound(v)' /\ "last" \in DOMAIN gw.half[n]
    BY <1>1, <1>4, <2>1 DEF GatewayOK, Kept
  <2> QED BY <1>3, <2>1, <2>2 DEF Kept
<1>6. GatewayOK'
  BY <1>1, <1>3, <1>5 DEF GatewayOK
<1>7. Sound(req)' /\ req'.to = "gw"
  BY <1>2, <1>3 DEF ClientSends, Sound, Earlier
<1>8. ASSUME NEW m \in net' PROVE Sound(m)'
  BY <1>1, <1>4, <1>7 DEF ClientSends
<1> QED BY <1>6, <1>7, <1>8
-----------------------------------------------------------------------------
(* The client receives.                                                    *)

\* The answer that is taken is the answer to the request under way.
LEMMA TakesItsAnswer ==
    ASSUME HandshakeInv, NEW m \in net, m.to = "client", Matching(m), Take(m)
    PROVE  AuthAnswersRequest'
<1>1. Sound(m) /\ RequestOK
  BY DEF HandshakeInv
<1>2. m.id = req.id /\ took' = m /\ asked' = req
  BY DEF Matching, Take
<1>3. m.id > 0 => m.re = req
  BY <1>1, <1>2 DEF Sound, Earlier
<1> QED BY <1>2, <1>3 DEF AuthAnswersRequest

\* The ways a response of IKE_SA_INIT is handled: one more request of IKE_SA_INIT,
\* the first of IKE_AUTH, or failure.
LEMMA IKESAInitCases ==
    ASSUME NEW m, IKESAInit(m)
    PROVE  /\ stage \in {"init", "cookie", "ke", "keCookie"}
           /\ verified' = verified
           /\ net' \subseteq net \cup {req'}
           /\ \/ /\ req'.to = "gw" /\ req'.id = 0
                 /\ stage' \in {"cookie", "ke", "keCookie"}
              \/ /\ m.body = "sa" /\ sa' = m.half /\ stage' = IF C.psk THEN "final" ELSE "auth1"
                 /\ req'.to = "gw" /\ req'.id = 1 /\ req'.sa = m.half
              \/ req' = req /\ stage' = "failed"
<1>1. Arrive(m) \subseteq net
  BY DEF Arrive
<1>2. ASSUME NEW w \in {"cookie", "ke", "keCookie"}, NEW c, NEW g, sendSAInit(m, w, c, g)
      PROVE  /\ verified' = verified /\ net' \subseteq net \cup {req'}
             /\ req'.to = "gw" /\ req'.id = 0 /\ stage' \in {"cookie", "ke", "keCookie"}
  BY <1>1, <1>2 DEF sendSAInit, Open, buildSAInit
<1>3. ASSUME handleSAInitResponse(m)
      PROVE  /\ verified' = verified /\ net' \subseteq net \cup {req'}
             /\ \/ /\ m.body = "sa" /\ sa' = m.half /\ stage' = IF C.psk THEN "final" ELSE "auth1"
                   /\ req'.to = "gw" /\ req'.id = 1 /\ req'.sa = m.half
                \/ req' = req /\ stage' = "failed"
  <2>1. CASE /\ m.body = "sa"
             /\ Open(m, IF C.psk THEN "final" ELSE "auth1", FirstAuth(m.half)) /\ sa' = m.half
    <3>1. req' = FirstAuth(m.half) /\ net' = Arrive(m) \cup {req'}
          /\ stage' = IF C.psk THEN "final" ELSE "auth1"
      BY <2>1 DEF Open
    <3>2. req'.to = "gw" /\ req'.id = 1 /\ req'.sa = m.half
      BY <3>1 DEF FirstAuth
    <3> QED BY <1>1, <1>3, <2>1, <3>1, <3>2 DEF handleSAInitResponse
  <2>2. CASE Fail(m, "missing")
    BY <1>1, <1>3, <2>2 DEF handleSAInitResponse, Fail
  <2> QED BY <1>3, <2>1, <2>2 DEF handleSAInitResponse
<1>4. ASSUME HandleInvalidKE(m)
      PROVE  /\ verified' = verified /\ net' \subseteq net \cup {req'}
             /\ \/ /\ req'.to = "gw" /\ req'.id = 0 /\ stage' \in {"cookie", "ke", "keCookie"}
                \/ /\ m.body = "sa" /\ sa' = m.half /\ stage' = IF C.psk THEN "final" ELSE "auth1"
                   /\ req'.to = "gw" /\ req'.id = 1 /\ req'.sa = m.half
                \/ req' = req /\ stage' = "failed"
  <2>1. CASE Fail(m, "noGroup") /\ UNCHANGED local
    BY <1>1, <2>1 DEF Fail, local
  <2> QED BY <1>2, <1>3, <1>4, <2>1 DEF HandleInvalidKE
<1> QED BY <1>2, <1>3, <1>4 DEF IKESAInit

LEMMA IKESAInitInv ==
    ASSUME HandshakeInv, NEW m \in net, m.to = "client", Matching(m), Take(m), IKESAInit(m),
           UNCHANGED setting
    PROVE  HandshakeInv'
<1>1. Sound(m) /\ RequestOK /\ Gated
  BY DEF HandshakeInv
<1>2. req.id = 0 /\ gw' = gw /\ C' = C /\ Halves' = Halves
  BY <1>1, IKESAInitCases DEF RequestOK, Take, C, Halves
<1>3. ClientSends
  BY <1>1, <1>2, IKESAInitCases DEF ClientSends, Sound
<1>4. Gated'
  BY <1>1, <1>2, IKESAInitCases DEF Gated
<1>5. RequestOK'
  BY <1>1, <1>2, <1>3, ClientSendsSound, IKESAInitCases DEF RequestOK, Sound
<1> QED BY <1>3, <1>4, <1>5, ClientSendsSound, TakesItsAnswer DEF HandshakeInv
\* The ways a response of IKE_AUTH is handled: the next request on the SA, in the
\* EAP loop or past it, failure, or success.
LEMMA IKEAuthCases ==
    ASSUME NEW m, IKEAuth(m)
    PROVE  /\ stage \in {"auth1", "eap", "final"} /\ sa' = sa
           /\ net' \subseteq net \cup {req'}
           /\ stage = "auth1" /\ stage' \in {"eap", "final"} => m.body = "eap" /\ m.cert
           /\ verified' = verified \/ (m.body = "eap" /\ m.ok /\ verified' = TRUE)
           /\ \/ /\ stage \in {"auth1", "eap"} /\ stage' = "eap"
                 /\ req'.to = "gw" /\ req'.id = req.id + 1 /\ req'.sa = sa
              \/ /\ stage \in {"auth1", "eap"} /\ stage' = "final" /\ verified
                 /\ req'.to = "gw" /\ req'.id = req.id + 1 /\ req'.sa = sa
              \/ req' = req /\ stage = "final" /\ stage' = "up"
              \/ req' = req /\ stage' = "failed"
<1>1. Arrive(m) \subseteq net
  BY DEF Arrive
<1>2. ASSUME NEW reason, Fail(m, reason)
      PROVE  net' \subseteq net \cup {req'} /\ req' = req /\ stage' = "failed"
  BY <1>1, <1>2 DEF Fail
<1>3. ASSUME NEW w, NEW b, Open(m, w, Ask(b))
      PROVE  /\ net' \subseteq net \cup {req'} /\ stage' = w
             /\ req'.to = "gw" /\ req'.id = req.id + 1 /\ req'.sa = sa
  BY <1>1, <1>3 DEF Open, Ask
<1>4. ASSUME EAPRound(m)
      PROVE  /\ sa' = sa /\ net' \subseteq net \cup {req'}
             /\ verified' = verified \/ (m.body = "eap" /\ m.ok /\ verified' = TRUE)
             /\ \/ /\ m.body = "eap" /\ (stage' = "eap" \/ (stage' = "final" /\ verified))
                   /\ req'.to = "gw" /\ req'.id = req.id + 1 /\ req'.sa = sa
                \/ req' = req /\ stage' = "failed"
  <2>1. CASE m.body = "eap" /\ EAPSuccess(m)
    <3>1. sa' = sa /\ verified' = verified
      BY <2>1 DEF EAPSuccess, local
    <3>2. (verified /\ Open(m, "final", Ask("auth"))) \/ Fail(m, "unverified")
      BY <2>1 DEF EAPSuccess
    <3> QED BY <1>2, <1>3, <2>1, <3>1, <3>2
  <2>2. CASE m.body = "eap" /\ buildEAPResponse(m)
    <3>1. sa' = sa
      BY <2>2 DEF buildEAPResponse
    <3>2. CASE HandleChallenge(m)
      BY <1>3, <2>2, <3>1, <3>2 DEF HandleChallenge
    <3>3. CASE HandleSuccess(m)
      <4>1. \/ m.ok /\ verified' = TRUE /\ Open(m, "eap", Ask("ack"))
            \/ verified' = verified /\ Fail(m, "eap")
        BY <3>3, Zenon DEF HandleSuccess
      <4> QED BY <1>2, <1>3, <2>2, <3>1, <4>1
    <3>4. CASE (\E b : Open(m, "eap", Ask(b))) /\ UNCHANGED verified
      BY <1>3, <2>2, <3>1, <3>4
    <3>5. CASE Fail(m, "eap") /\ UNCHANGED verified
      BY <1>2, <2>2, <3>1, <3>5
    <3> QED BY <2>2, <3>2, <3>3, <3>4, <3>5 DEF buildEAPResponse
  <2>3. CASE (\E reason : Fail(m, reason)) /\ UNCHANGED local
    BY <1>2, <2>3 DEF local
  <2> QED BY <1>4, <2>1, <2>2, <2>3 DEF EAPRound
<1>5. CASE stage = "auth1" /\ handleAuthResponse(m)
  <2>1. CASE Fail(m, "cert") /\ UNCHANGED local
    BY <1>2, <1>5, <2>1 DEF local
  <2>2. CASE (m.body = "eap" => m.cert) /\ EAPRound(m)
    BY <1>4, <1>5, <2>2
  <2> QED BY <1>5, <2>1, <2>2 DEF handleAuthResponse
<1>6. CASE stage = "eap" /\ EAPRound(m)
  BY <1>4, <1>6
<1>7. CASE stage = "final" /\ handleFinalAuthResponse(m)
  <2>1. UNCHANGED local
    BY <1>7 DEF handleFinalAuthResponse
  <2>2. \/ stage' = "up" /\ net' = Arrive(m) /\ req' = req
        \/ \E reason : Fail(m, reason)
    BY <1>7 DEF handleFinalAuthResponse
  <2> QED BY <1>1, <1>2, <1>7, <2>1, <2>2 DEF local
<1> QED BY <1>5, <1>6, <1>7 DEF IKEAuth

LEMMA IKEAuthInv ==
    ASSUME HandshakeInv, NEW m \in net, m.to = "client", Matching(m), Take(m), IKEAuth(m),
           UNCHANGED setting
    PROVE  HandshakeInv'
<1>1. Sound(m) /\ GatewayOK /\ RequestOK /\ Gated
  BY DEF HandshakeInv
<1>2. gw' = gw /\ C' = C /\ Halves' = Halves
  BY DEF Take, C, Halves
<1>3. ClientSends
  BY <1>1, <1>2, IKEAuthCases DEF ClientSends, RequestOK
<1>4. m.body = "eap" => m.ok = gw.knows /\ m.cert = gw.cert
  BY <1>1 DEF Sound
<1>5. Gated'
  <2>1. verified' \in BOOLEAN /\ (verified' => gw.knows)
    BY <1>1, <1>4, IKEAuthCases DEF Gated
  <2>2. stage' \in {"eap", "final"} => gw.cert
    BY <1>1, <1>4, IKEAuthCases DEF Gated
  <2>3. ~C.psk /\ stage' \in {"final", "up"} => gw.knows /\ gw.cert
    BY <1>1, <2>2, IKEAuthCases DEF Gated
  <2> QED BY <1>2, <2>1, <2>2, <2>3 DEF Gated
<1>6. RequestOK'
  BY <1>1, <1>2, <1>3, ClientSendsSound, IKEAuthCases DEF RequestOK
<1> QED BY <1>3, <1>5, <1>6, ClientSendsSound, TakesItsAnswer DEF HandshakeInv
-----------------------------------------------------------------------------
(* The gateway, and the steps that touch little.                           *)

\* A gateway that stays as honest as it was, keeps its SAs and keeps sound answers
\* for them may put sound answers on the wire.
LEMMA GatewaySendsInv ==
    ASSUME HandshakeInv,
           UNCHANGED <<setting, stage, req, tries, local, why, asked, took>>,
           DOMAIN gw' = DOMAIN gw, gw'.knows = gw.knows, gw'.cert = gw.cert,
           Halves \subseteq Halves', \E S : gw'.half \in Seq(S),
           \A n \in Halves' : (n \in Halves /\ gw'.half[n] = gw.half[n]) \/ Kept(n)',
           \A m \in net' : m \in net \/ Sound(m)'
    PROVE  HandshakeInv'
<1>1. GatewayOK /\ RequestOK /\ Gated /\ AuthAnswersRequest /\ \A m \in net : Sound(m)
  BY DEF HandshakeInv
<1>2. req' = req /\ stage' = stage /\ sa' = sa /\ verified' = verified /\ C' = C
  BY DEF local, C
<1>3. req.id \in Nat
  BY <1>1 DEF RequestOK, Sound, Earlier
<1>4. ASSUME NEW m, Sound(m) PROVE Sound(m)'
  BY <1>2, <1>3, <1>4, SoundKept
<1>5. GatewayOK'
  <2>1. ASSUME NEW n \in Halves' PROVE Kept(n)'
    <3>1. CASE n \in Halves /\ gw'.half[n] = gw.half[n]
      <4>1. PICK v : v = gw.half[n].last
        OBVIOUS
      <4>2. Sound(v)' /\ "last" \in DOMAIN gw.half[n]
        BY <1>1, <1>4, <3>1, <4>1 DEF GatewayOK, Kept
      <4> QED BY <3>1, <4>1, <4>2 DEF Kept
    <3> QED BY <2>1, <3>1
  <2> QED BY <1>1, <2>1 DEF GatewayOK
<1>6. RequestOK'
  <2>1. PICK r : r = req
    OBVIOUS
  <2>2. Sound(r)'
    BY <1>1, <1>4, <2>1 DEF RequestOK
  <2>3. Sound(req)'
    BY <1>2, <2>1, <2>2
  <2> QED BY <1>1, <1>2, <2>3 DEF RequestOK
<1>7. Gated' /\ AuthAnswersRequest'
  BY <1>1, <1>2 DEF Gated, AuthAnswersRequest
<1> QED BY <1>1, <1>4, <1>5, <1>6, <1>7 DEF HandshakeInv

LEMMA GatewayInv ==
    ASSUME HandshakeInv, NEW m \in net, m.to = "gw", GwRefuse(m) \/ GwAccept(m) \/ GwAuth(m),
           UNCHANGED setting
    PROVE  HandshakeInv'
<1>1. GatewayOK /\ Sound(m)
  BY DEF HandshakeInv
<1>2. Earlier(m) /\ (m.id > 0 => m.sa \in Halves) /\ Arrive(m) \subseteq net
  BY <1>1 DEF Sound, Arrive
<1>3. PICK S : gw.half \in Seq(S)
  BY <1>1 DEF GatewayOK
<1>4. ASSUME NEW r, GwSend(m, r)
      PROVE  /\ net' \subseteq net \cup {r}
             /\ UNCHANGED <<setting, stage, req, tries, local, why, asked, took>>
  BY <1>2, <1>4 DEF GwSend
<1>5. ASSUME NEW r, GwSend(m, r), UNCHANGED gw, Sound(r)' PROVE HandshakeInv'
  BY <1>3, <1>4, <1>5, GatewaySendsInv DEF Halves
<1>6. CASE GwRefuse(m)
  <2>1. ASSUME NEW r, GwSend(m, r), r.to = "client", r.id = 0, r.body \in {"cookie", "invalidKE"},
               UNCHANGED gw
        PROVE  HandshakeInv'
    BY <1>5, <2>1 DEF Sound
  <2> QED BY <1>6, <2>1 DEF GwRefuse
<1>7. CASE GwAccept(m)
  <2>2. CASE \E n \in Halves : GwSend(m, Selection(m, n)) /\ UNCHANGED gw
    <3>1. PICK n \in Halves : GwSend(m, Selection(m, n)) /\ UNCHANGED gw
      BY <2>2
    <3>2. n \in Halves' /\ C' = C
      BY <3>1 DEF Halves, C
    <3>3. PICK r : r = Selection(m, n)
      OBVIOUS
    <3>4. Sound(r)'
      BY <3>2, <3>3 DEF Selection, Sound
    <3> QED BY <1>5, <3>1, <3>3, <3>4
  <2>3. CASE /\ GwSend(m, Selection(m, Len(gw.half) + 1))
             /\ gw' = [gw EXCEPT !.half = Append(@, [m1 |-> m, next |-> 1, last |-> None])]
    <3>1. PICK h : h = [m1 |-> m, next |-> 1, last |-> None]
      OBVIOUS
    <3>2. /\ gw'.half = Append(gw.half, h) /\ DOMAIN gw' = DOMAIN gw
          /\ gw'.knows = gw.knows /\ gw'.cert = gw.cert
      BY <1>1, <2>3, <3>1 DEF GatewayOK
    <3>3. /\ gw'.half \in Seq(S \cup {h}) /\ Len(gw'.half) = Len(gw.half) + 1
          /\ gw'.half[Len(gw.half) + 1] = h
          /\ \A n \in 1..Len(gw.half) : gw'.half[n] = gw.half[n]
      BY <1>3, <3>2
    <3>4. Halves' = Halves \cup {Len(gw.half) + 1}
      BY <1>3, <3>3 DEF Halves
    <3>6. ASSUME NEW n \in Halves'
          PROVE  (n \in Halves /\ gw'.half[n] = gw.half[n]) \/ Kept(n)'
      BY <3>1, <3>3, <3>4 DEF Halves, Kept, Sound, None
    <3>7. PICK r : r = Selection(m, Len(gw.half) + 1)
      OBVIOUS
    <3>8. Sound(r)'
      BY <3>4, <3>7 DEF Selection, Sound
    <3> QED BY <1>4, <2>3, <3>2, <3>3, <3>4, <3>6, <3>7, <3>8, GatewaySendsInv
  <2> QED BY <1>7, <2>2, <2>3 DEF GwAccept, Halves
<1>8. CASE GwAuth(m)
  <2>1. m.id > 0 /\ m.sa \in Halves /\ m.id \in Nat
    BY <1>2, <1>8 DEF GwAuth, Earlier
  <2>2. CASE GwSend(m, gw.half[m.sa].last) /\ UNCHANGED gw
    <3>1. PICK r : r = gw.half[m.sa].last
      OBVIOUS
    <3>2. Sound(r) /\ req.id \in Nat
      BY <1>1, <2>1, <3>1 DEF GatewayOK, Kept, HandshakeInv, RequestOK, Sound, Earlier
    <3>3. Sound(r)'
      BY <1>4, <2>2, <3>1, <3>2, SoundKept DEF Halves
    <3> QED BY <1>5, <2>2, <3>1, <3>3
  <2>3. ASSUME NEW r \in GwAnswers(m), GwSend(m, r),
               gw' = [gw EXCEPT !.half[m.sa].next = @ + 1, !.half[m.sa].last = r]
        PROVE  HandshakeInv'
    <3>1. PICK h : /\ h = [gw.half[m.sa] EXCEPT !.next = @ + 1, !.last = r]
                   /\ gw'.half = [gw.half EXCEPT ![m.sa] = h]
      BY <1>1, <2>3 DEF GatewayOK
    <3>2. DOMAIN gw' = DOMAIN gw /\ gw'.knows = gw.knows /\ gw'.cert = gw.cert
      BY <1>1, <2>3 DEF GatewayOK
    <3>3. m.sa \in 1..Len(gw.half) /\ "last" \in DOMAIN gw.half[m.sa]
      BY <1>1, <2>1 DEF GatewayOK, Kept, Halves
    <3>4. /\ gw'.half \in Seq(S \cup {h}) /\ Len(gw'.half) = Len(gw.half) /\ gw'.half[m.sa] = h
          /\ \A n \in 1..Len(gw.half) : n # m.sa => gw'.half[n] = gw.half[n]
      BY <1>3, <3>1, <3>3
    <3>5. Halves' = Halves /\ h.last = r /\ "last" \in DOMAIN h
      BY <3>1, <3>3, <3>4 DEF Halves
    <3>6. req' = req /\ net' \subseteq net \cup {r}
      BY <1>4, <2>3
    <3>7. Earlier(m)'
      BY <1>2, <3>6 DEF Earlier
    <3>8. /\ r.to = "client" /\ r.id = m.id /\ r.re = m /\ r.body \in {"error", "final", "eap"}
          /\ r.body = "eap" => r.ok = gw.knows /\ r.cert = gw.cert
      BY <2>3 DEF GwAnswers
    <3>9. Sound(r)'
      BY <2>1, <3>2, <3>7, <3>8 DEF Sound
    <3>10. ASSUME NEW n \in Halves' PROVE (n \in Halves /\ gw'.half[n] = gw.half[n]) \/ Kept(n)'
      BY <3>4, <3>5, <3>9 DEF Kept, Halves
    <3> QED BY <1>4, <2>3, <3>2, <3>4, <3>5, <3>6, <3>9, <3>10, GatewaySendsInv
  <2> QED BY <1>8, <2>2, <2>3 DEF GwAuth
<1> QED BY <1>6, <1>7, <1>8

LEMMA HandshakeStep == HandshakeInv /\ [Next]_vars => HandshakeInv'
<1> SUFFICES ASSUME HandshakeInv, [Next]_vars PROVE HandshakeInv'
  OBVIOUS
<1>1. PICK S : gw.half \in Seq(S)
  BY DEF HandshakeInv, GatewayOK
<1>2. ASSUME UNCHANGED <<setting, stage, req, tries, local, why, asked, took, gw>>, net' \subseteq net
      PROVE  HandshakeInv'
  BY <1>1, <1>2, GatewaySendsInv DEF Halves
<1>3. CASE UNCHANGED vars
  BY <1>2, <1>3 DEF vars, local
<1>4. CASE Retransmit /\ UNCHANGED setting
  <2>1. ClientSends
    BY <1>4 DEF Retransmit, ClientSends
  <2>2. RequestOK /\ Gated /\ AuthAnswersRequest
    BY DEF HandshakeInv
  <2>3. RequestOK' /\ Gated' /\ AuthAnswersRequest'
    BY <1>4, <2>1, <2>2, ClientSendsSound DEF Retransmit, local, RequestOK, Gated, C, Halves,
       AuthAnswersRequest
  <2> QED BY <2>1, <2>3, ClientSendsSound DEF HandshakeInv
<1>5. CASE GiveUp /\ UNCHANGED setting
  <2>1. ClientSends
    BY <1>5 DEF GiveUp, ClientSends
  <2>2. RequestOK /\ Gated /\ AuthAnswersRequest
    BY DEF HandshakeInv
  <2>3. RequestOK' /\ Gated' /\ AuthAnswersRequest'
    BY <1>5, <2>1, <2>2, ClientSendsSound DEF GiveUp, local, RequestOK, Gated, AuthAnswersRequest
  <2> QED BY <2>1, <2>3, ClientSendsSound DEF HandshakeInv
<1>6. CASE GwEpoch /\ UNCHANGED setting
  <2>1. DOMAIN gw' = DOMAIN gw /\ gw'.knows = gw.knows /\ gw'.cert = gw.cert /\ gw'.half = gw.half
    BY <1>6 DEF GwEpoch, HandshakeInv, GatewayOK
  <2> QED BY <1>1, <1>6, <2>1, GatewaySendsInv DEF GwEpoch, Halves
<1>7. ASSUME NEW m \in net, m.to = "client", Receive(m), UNCHANGED setting PROVE HandshakeInv'
  BY <1>7, IKESAInitInv, IKEAuthInv DEF Receive
<1>8. ASSUME NEW m \in net, Drop(m) \/ Lose(m), UNCHANGED setting PROVE HandshakeInv'
  BY <1>2, <1>8 DEF Drop, Lose
<1> QED BY <1>3, <1>4, <1>5, <1>6, <1>7, <1>8, GatewayInv DEF Next, Step

-----------------------------------------------------------------------------
\* An answer accepted after IKE_SA_INIT is the answer to the request it was accepted
\* for, however often requests and answers are repeated (exchange, recvMatching).
THEOREM AnswersMatch == Spec => []AuthAnswersRequest
<1>1. HandshakeInv => AuthAnswersRequest
  BY DEF HandshakeInv
<1> QED BY <1>1, HandshakeInit, HandshakeStep, PTL DEF Spec

\* With EAP our own AUTH goes only to a gateway that has shown the certificate and
\* proved that it knows the password, in whatever order it sends EAP packets.
THEOREM AuthOnlyAfterProof == Spec => []AuthAfterProof
<1>1. HandshakeInv => AuthAfterProof
  BY DEF HandshakeInv, Gated, AuthAfterProof
<1> QED BY <1>1, HandshakeInit, HandshakeStep, PTL DEF Spec

-----------------------------------------------------------------------------
(* No failure without a cause.  In a setting where nothing is repeated, one   *)
(* datagram travels while Message ID 0 is in use, so that every answer taken  *)
(* is the answer to the last request; and what the gateway answers is what    *)
(* the stage expects.                                                         *)

\* The gateway can be served.
Serves ==
    /\ C.tries = 1 /\ ~C.dup /\ ~C.misorders /\ C.epochs <= 1
    /\ gw.knows /\ (C.psk \/ gw.cert) /\ C.group \in supportedDHGroup

\* m fits the request it answers.
Right(m) ==
    m.to = "client" =>
        /\ m.id = 0 =>
              /\ m.body \in {"cookie", "invalidKE", "sa"}
              /\ m.body = "cookie" => m.cookie = 1 /\ gw.epoch = 1 /\ m.re.cookie # 1
              /\ m.body = "invalidKE" => m.group = C.group /\ m.re.group # C.group
              /\ m.body = "sa" => /\ m.group = C.group /\ m.re.group = C.group
                                  /\ m.half \in Halves /\ gw.half[m.half].m1 = m.re
        /\ m.id > 0 =>
              /\ m.re.sa \in Halves
              /\ m.re.body = "auth" /\ m.re.m1 = gw.half[m.re.sa].m1 => m.body = "final" /\ m.ok
              /\ m.re.body # "auth" => m.body = "eap" /\ m.eap \in Orderly(m.re.body)

\* While Message ID 0 is in use one datagram travels: the request or its answer.
OneDatagram ==
    req.id = 0 =>
        /\ \A m, n \in net : m = n
        /\ \A m \in net : m.to = "gw" => m = req
        /\ \A m \in net : m.to = "client" => m.re = req

HalvesOK ==
    /\ C.epochs \in Nat /\ gw.epoch \in 0..C.epochs
    /\ \A n \in Halves : /\ DOMAIN gw.half[n] = {"m1", "next", "last"}
                         /\ gw.half[n].m1.group = C.group /\ Right(gw.half[n].last)

\* What the stages say about the request under way.
StageOK ==
    /\ tries \in Nat \ {0} /\ round \in 0..MaxRounds
    /\ stage \in {"init", "cookie", "ke", "keCookie"} => req.group = group /\ initReq = req
    /\ stage \in {"ke", "keCookie"} => req.group = C.group
    /\ stage \in {"cookie", "keCookie"} => req.cookie = 1 /\ gw.epoch = 1
    /\ stage \in {"auth1", "eap", "final"} =>
          req.id > 0 /\ req.sa = sa /\ req.m1 = initReq /\ gw.half[sa].m1 = initReq
    /\ stage = "auth1" => ~C.psk /\ req.body = "first"
    /\ stage = "eap" =>
          /\ ~C.psk /\ req.body \in {"identity", "notification", "response", "ack"}
          /\ req.body = "response" => challenged
          /\ req.body = "ack" => challenged /\ verified
    /\ stage = "final" => req.body = "auth"
    /\ stage = "failed" => why = "timeout" \/ (why = "rounds" /\ round = MaxRounds)

ServedInv == Serves => OneDatagram /\ HalvesOK /\ StageOK /\ \A m \in net : Right(m)

LEMMA ServedInit == Init => ServedInv
<1> SUFFICES ASSUME Init PROVE ServedInv
  OBVIOUS
<1>1. PICK k, c \in BOOLEAN : gw = [knows |-> k, cert |-> c, epoch |-> 0, half |-> <<>>]
  BY DEF Init
<1>2. gw.epoch = 0 /\ gw.half = <<>> /\ Len(gw.half) = 0
  BY <1>1
<1>3. Halves = {}
  BY <1>2 DEF Halves
<1>4. req = Init0 /\ req.to = "gw" /\ req.id = 0 /\ req.group = X25519 /\ net = {req} /\ initReq = req
  BY DEF Init, Init0, buildSAInit
<1>5. C.epochs \in Nat
  BY HandshakeAssumption DEF Init, C
<1>6. OneDatagram /\ \A m \in net : Right(m)
  BY <1>4 DEF OneDatagram, Right
<1>7. HalvesOK
  BY <1>2, <1>3, <1>5 DEF HalvesOK
<1>8. StageOK
  <2>1. stage = "init" /\ tries = 1 /\ round = 0 /\ group = X25519 /\ MaxRounds \in Nat
    BY HandshakeAssumption DEF Init
  <2> QED BY <1>4, <2>1 DEF StageOK
<1> QED BY <1>6, <1>7, <1>8 DEF ServedInv

\* What fits keeps fitting while the gateway keeps its SAs and, once it asks for
\* cookies, its secret.
LEMMA RightKept ==
    ASSUME NEW m, Right(m), C' = C, gw'.knows = gw.knows, gw.epoch = 1 => gw'.epoch = 1,
           Halves \subseteq Halves', \A n \in Halves : gw'.half[n].m1 = gw.half[n].m1
    PROVE  Right(m)'
<1>1. \A b : Orderly(b)' = Orderly(b)
  BY DEF Orderly
<1> QED BY <1>1 DEF Right

\* The client's part of a step: the gateway stays.
LEMMA ClientServed ==
    ASSUME ServedInv, UNCHANGED <<setting, gw>>, Serves => OneDatagram' /\ StageOK',
           net' \subseteq net \cup {req'}, req'.to = "gw"
    PROVE  ServedInv'
<1> SUFFICES ASSUME Serves' PROVE OneDatagram' /\ HalvesOK' /\ StageOK' /\ \A m \in net' : Right(m)'
  BY DEF ServedInv
<1>1. C' = C /\ gw' = gw /\ Halves' = Halves
  BY DEF C, Halves
<1>2. Serves
  BY <1>1 DEF Serves
<1>3. HalvesOK /\ \A m \in net : Right(m)
  BY <1>2 DEF ServedInv
<1>4. ASSUME NEW m, Right(m) PROVE Right(m)'
  BY <1>1, <1>4, RightKept
<1>5. HalvesOK'
  <2>1. ASSUME NEW n \in Halves PROVE Right(gw.half[n].last)'
    <3>1. PICK v : v = gw.half[n].last
      OBVIOUS
    <3>2. Right(v)'
      BY <1>3, <1>4, <3>1 DEF HalvesOK
    <3> QED BY <1>1, <3>1, <3>2
  <2> QED BY <1>1, <1>3, <2>1 DEF HalvesOK
<1>6. ASSUME NEW m \in net' PROVE Right(m)'
  <2>1. CASE m = req'
    BY <2>1 DEF Right
  <2> QED BY <1>3, <1>4, <1>6, <2>1
<1> QED BY <1>2, <1>5, <1>6

\* The gateway's part: the client stays, and what is put on the wire fits.
LEMMA GatewayServed ==
    ASSUME ServedInv, UNCHANGED <<setting, stage, req, tries, local, why, asked, took>>,
           gw'.knows = gw.knows, gw'.cert = gw.cert,
           Serves => /\ gw'.epoch \in 0..C.epochs /\ (gw.epoch = 1 => gw'.epoch = 1)
                     /\ Halves \subseteq Halves'
                     /\ \A n \in Halves : gw'.half[n].m1 = gw.half[n].m1
                     /\ \A n \in Halves' :
                           \/ n \in Halves /\ gw'.half[n] = gw.half[n]
                           \/ /\ DOMAIN gw'.half[n] = {"m1", "next", "last"}
                              /\ gw'.half[n].m1.group = C.group /\ Right(gw.half[n].last)'
                     /\ \A m \in net' : m \in net \/ Right(m)'
                     /\ OneDatagram',
           stage \in {"auth1", "eap", "final"} => sa \in Halves
    PROVE  ServedInv'
<1> SUFFICES ASSUME Serves' PROVE OneDatagram' /\ HalvesOK' /\ StageOK' /\ \A m \in net' : Right(m)'
  BY DEF ServedInv
<1>1. C' = C
  BY DEF C
<1>2. Serves
  BY <1>1 DEF Serves
<1>3. HalvesOK /\ StageOK /\ \A m \in net : Right(m)
  BY <1>2 DEF ServedInv
<1>4. ASSUME NEW m, Right(m) PROVE Right(m)'
  BY <1>1, <1>2, <1>4, RightKept
<1>5. HalvesOK'
  <2>1. ASSUME NEW n \in Halves'
        PROVE  /\ DOMAIN gw'.half[n] = {"m1", "next", "last"}
               /\ gw'.half[n].m1.group = C.group /\ Right(gw.half[n].last)'
    <3>1. CASE n \in Halves /\ gw'.half[n] = gw.half[n]
      <4>1. PICK v : v = gw.half[n].last
        OBVIOUS
      <4>2. Right(v)'
        BY <1>3, <1>4, <3>1, <4>1 DEF HalvesOK
      <4>3. Right(gw.half[n].last)'
        BY <3>1, <4>1, <4>2
      <4> QED BY <1>3, <3>1, <4>3 DEF HalvesOK
    <3> QED BY <1>2, <2>1, <3>1
  <2> QED BY <1>1, <1>2, <1>3, <2>1 DEF HalvesOK
<1>6. StageOK'
  BY <1>1, <1>2, <1>3 DEF StageOK, local
<1> QED BY <1>2, <1>3, <1>4, <1>5, <1>6

-----------------------------------------------------------------------------
\* The gateway answers.
LEMMA AnswersFit ==
    ASSUME HandshakeInv, ServedInv, NEW m \in net, m.to = "gw",
           GwRefuse(m) \/ GwAccept(m) \/ GwAuth(m), UNCHANGED setting
    PROVE  ServedInv'
<1>1. GatewayOK /\ RequestOK /\ Sound(m)
  BY DEF HandshakeInv
<1>2. Earlier(m) /\ (m.id > 0 => m.sa \in Halves) /\ m.id \in Nat
  BY <1>1 DEF Sound, Earlier
<1>3. PICK S : gw.half \in Seq(S)
  BY <1>1 DEF GatewayOK
<1>4. stage \in {"auth1", "eap", "final"} => sa \in Halves
  BY <1>1 DEF RequestOK
<1>5. C' = C
  BY DEF C
<1>6. Serves => OneDatagram /\ HalvesOK /\ ~C.dup
  BY DEF ServedInv, Serves
<1>7. ASSUME NEW r, GwSend(m, r)
      PROVE  /\ UNCHANGED <<setting, stage, req, tries, local, why, asked, took>>
             /\ Serves => net' = (net \ {m}) \cup {r}
             /\ Serves /\ ((r.to = "client" /\ r.re = m) \/ m.id > 0) => OneDatagram'
  <2>1. UNCHANGED <<setting, stage, req, tries, local, why, asked, took>>
    BY <1>7 DEF GwSend
  <2>2. Serves => net' = (net \ {m}) \cup {r}
    BY <1>6, <1>7 DEF GwSend, Arrive
  <2>3. Serves /\ r.to = "client" /\ r.re = m => OneDatagram'
    BY <1>6, <2>1, <2>2 DEF OneDatagram
  <2>4. m.id > 0 => OneDatagram'
    BY <1>2, <2>1 DEF OneDatagram, Earlier
  <2> QED BY <2>1, <2>2, <2>3, <2>4
<1>8. ASSUME NEW r, GwSend(m, r), UNCHANGED gw, Serves => Right(r)',
             (r.to = "client" /\ r.re = m) \/ m.id > 0
      PROVE  ServedInv'
  <2>1. Halves' = Halves /\ gw' = gw
    BY <1>8 DEF Halves
  <2>2. Serves => \A x \in net' : x \in net \/ Right(x)'
    BY <1>7, <1>8
  <2>3. Serves => gw'.epoch \in 0..C.epochs
    BY <1>6, <2>1 DEF HalvesOK
  <2> QED BY <1>4, <1>7, <1>8, <2>1, <2>2, <2>3, GatewayServed
<1>9. CASE GwRefuse(m)
  <2>1. CASE /\ gw.epoch > 0 /\ m.cookie # gw.epoch
             /\ GwSend(m, [to |-> "client", id |-> 0, body |-> "cookie", cookie |-> gw.epoch, re |-> m])
    <3>0. PICK r : r = [to |-> "client", id |-> 0, body |-> "cookie", cookie |-> gw.epoch, re |-> m]
      OBVIOUS
    <3>1. gw' = gw
      BY <1>9 DEF GwRefuse
    <3>2. Serves => gw.epoch = 1
      BY <1>6, <2>1, HandshakeAssumption DEF Serves, HalvesOK
    <3>3. /\ r.to = "client" /\ r.id = 0 /\ r.body = "cookie" /\ r.cookie = gw.epoch /\ r.re = m
      BY <3>0
    <3>4. Serves => Right(r)'
      BY <2>1, <3>1, <3>2, <3>3 DEF Right
    <3> QED BY <1>8, <2>1, <3>1, <3>0, <3>3, <3>4
  <2>2. CASE /\ m.group # C.group
             /\ GwSend(m, [to |-> "client", id |-> 0, body |-> "invalidKE", group |-> C.group, re |-> m])
    <3>0. PICK r : r = [to |-> "client", id |-> 0, body |-> "invalidKE", group |-> C.group, re |-> m]
      OBVIOUS
    <3>1. gw' = gw
      BY <1>9 DEF GwRefuse
    <3>3. /\ r.to = "client" /\ r.id = 0 /\ r.body = "invalidKE" /\ r.group = C.group /\ r.re = m
      BY <3>0
    <3>4. Right(r)'
      BY <1>5, <2>2, <3>1, <3>3 DEF Right
    <3> QED BY <1>8, <2>2, <3>1, <3>0, <3>3, <3>4
  <2> QED BY <1>9, <2>1, <2>2 DEF GwRefuse
<1>10. CASE GwAccept(m)
  <2>1. ASSUME NEW n \in Halves, gw.half[n].m1 = m, GwSend(m, Selection(m, n)), UNCHANGED gw
        PROVE  ServedInv'
    <3>0. PICK r : r = Selection(m, n)
      OBVIOUS
    <3>1. r.to = "client" /\ r.id = 0 /\ r.body = "sa" /\ r.group = C.group /\ r.half = n /\ r.re = m
      BY <3>0 DEF Selection
    <3>2. Serves => m.group = C.group
      BY <1>6, <2>1 DEF HalvesOK
    <3>3. Serves => Right(r)'
      BY <1>5, <2>1, <3>1, <3>2 DEF Right, Halves
    <3> QED BY <1>8, <2>1, <3>0, <3>1, <3>3
  <2>2. ASSUME m.group = C.group, GwSend(m, Selection(m, Len(gw.half) + 1)),
               gw' = [gw EXCEPT !.half = Append(@, [m1 |-> m, next |-> 1, last |-> None])]
        PROVE  ServedInv'
    <3>1. PICK h : h = [m1 |-> m, next |-> 1, last |-> None]
      OBVIOUS
    <3>2. /\ gw'.half = Append(gw.half, h)
          /\ gw'.knows = gw.knows /\ gw'.cert = gw.cert /\ gw'.epoch = gw.epoch
      BY <1>1, <2>2, <3>1 DEF GatewayOK
    <3>3. /\ Len(gw'.half) = Len(gw.half) + 1 /\ Len(gw.half) \in Nat
          /\ gw'.half[Len(gw.half) + 1] = h
          /\ \A n \in 1..Len(gw.half) : gw'.half[n] = gw.half[n]
      BY <1>3, <3>2
    <3>4. Halves' = Halves \cup {Len(gw.half) + 1} /\ \A n \in Halves : gw'.half[n] = gw.half[n]
      BY <3>3 DEF Halves
    <3>5. DOMAIN h = {"m1", "next", "last"} /\ h.m1 = m /\ h.last = None
      BY <3>1
    <3>6. ASSUME NEW k, k = Len(gw.half) + 1 PROVE Right(gw.half[k].last)'
      <4>1. Right(None)'
        BY DEF Right, None
      <4>2. gw'.half[k].last = None
        BY <3>3, <3>5, <3>6
      <4> QED BY <4>1, <4>2 DEF None
    <3>7. PICK r : r = Selection(m, Len(gw.half) + 1)
      OBVIOUS
    <3>8. /\ r.to = "client" /\ r.id = 0 /\ r.body = "sa" /\ r.group = C.group
          /\ r.half = Len(gw.half) + 1 /\ r.re = m
      BY <3>7 DEF Selection
    <3>9. Right(r)'
      BY <1>5, <2>2, <3>3, <3>4, <3>5, <3>8 DEF Right
    <3>10. Serves => gw.epoch \in 0..C.epochs
      BY <1>6 DEF HalvesOK
    <3>11. \A n \in Halves' :
              \/ n \in Halves /\ gw'.half[n] = gw.half[n]
              \/ /\ DOMAIN gw'.half[n] = {"m1", "next", "last"}
                 /\ gw'.half[n].m1.group = C.group /\ Right(gw.half[n].last)'
      BY <2>2, <3>3, <3>4, <3>5, <3>6
    <3>12. Serves => (\A x \in net' : x \in net \/ Right(x)') /\ OneDatagram'
      BY <1>7, <2>2, <3>7, <3>8, <3>9
    <3>13. UNCHANGED <<setting, stage, req, tries, local, why, asked, took>>
      BY <1>7, <2>2
    <3> QED BY <1>4, <3>2, <3>4, <3>10, <3>11, <3>12, <3>13, GatewayServed
  <2> QED BY <1>10, <2>1, <2>2 DEF GwAccept, Halves
<1>11. CASE GwAuth(m)
  <2>1. m.id > 0 /\ m.sa \in Halves
    BY <1>2, <1>11 DEF GwAuth
  <2>2. CASE GwSend(m, gw.half[m.sa].last) /\ UNCHANGED gw
    <3>1. PICK r : r = gw.half[m.sa].last
      OBVIOUS
    <3>2. Serves => Right(r)
      BY <1>6, <2>1, <3>1 DEF HalvesOK
    <3>3. Serves => Right(r)'
      BY <1>5, <2>2, <3>2, RightKept DEF Halves
    <3> QED BY <1>8, <2>1, <2>2, <3>1, <3>3
  <2>3. ASSUME NEW r \in GwAnswers(m), GwSend(m, r),
               gw' = [gw EXCEPT !.half[m.sa].next = @ + 1, !.half[m.sa].last = r]
        PROVE  ServedInv'
    <3>1. PICK h : /\ h = [gw.half[m.sa] EXCEPT !.next = @ + 1, !.last = r]
                   /\ gw'.half = [gw.half EXCEPT ![m.sa] = h]
      BY <1>1, <2>3 DEF GatewayOK
    <3>2. gw'.knows = gw.knows /\ gw'.cert = gw.cert /\ gw'.epoch = gw.epoch
      BY <1>1, <2>3 DEF GatewayOK
    <3>3. /\ Len(gw'.half) = Len(gw.half) /\ gw'.half[m.sa] = h
          /\ \A n \in 1..Len(gw.half) : n # m.sa => gw'.half[n] = gw.half[n]
      BY <1>3, <2>1, <3>1 DEF Halves
    <3>4. Serves => DOMAIN h = {"m1", "next", "last"} /\ h.m1 = gw.half[m.sa].m1 /\ h.last = r
      BY <1>6, <2>1, <3>1 DEF HalvesOK
    <3>5. Halves' = Halves
      BY <3>3 DEF Halves
    <3>6. Serves => \A n \in Halves : gw'.half[n].m1 = gw.half[n].m1
      BY <3>3, <3>4 DEF Halves
    <3>7. r.to = "client" /\ r.id = m.id /\ r.re = m /\ r.ok = gw.knows
      BY <2>3 DEF GwAnswers
    <3>8. Serves =>
             IF m.body = "auth" THEN m.m1 = gw.half[m.sa].m1 => r.body = "final"
                                ELSE r.body = "eap" /\ r.eap \in Orderly(m.body)
      BY <2>3 DEF GwAnswers, Serves
    <3>9. \A b : Orderly(b)' = Orderly(b)
      BY <3>2 DEF Orderly
    <3>10. Serves => Right(r)'
      BY <2>1, <3>5, <3>6, <3>7, <3>8, <3>9 DEF Right, Serves
    <3>11. ASSUME Serves, NEW n, n = m.sa PROVE Right(gw.half[n].last)'
      <4>1. gw'.half[n].last = r
        BY <3>3, <3>4, <3>11
      <4> QED BY <3>10, <3>11, <4>1
    <3>12. Serves => gw.epoch \in 0..C.epochs
      BY <1>6 DEF HalvesOK
    <3>13. Serves => \A n \in Halves' :
              \/ n \in Halves /\ gw'.half[n] = gw.half[n]
              \/ /\ DOMAIN gw'.half[n] = {"m1", "next", "last"}
                 /\ gw'.half[n].m1.group = C.group /\ Right(gw.half[n].last)'
      BY <1>6, <2>1, <3>3, <3>4, <3>5, <3>11 DEF Halves, HalvesOK
    <3>14. Serves => \A x \in net' : x \in net \/ Right(x)'
      BY <1>7, <2>3, <3>10
    <3> QED BY <1>4, <1>7, <2>1, <2>3, <3>2, <3>5, <3>6, <3>12, <3>13, <3>14, GatewayServed
  <2> QED BY <1>11, <2>2, <2>3 DEF GwAuth
<1> QED BY <1>9, <1>10, <1>11

-----------------------------------------------------------------------------
(* The client takes an answer.                                             *)

\* The answer that is taken fits the request under way.
LEMMA TakesRight ==
    ASSUME HandshakeInv, ServedInv, Serves, NEW m \in net, m.to = "client", Matching(m)
    PROVE  m.id = req.id /\ m.re = req /\ Right(m) /\ Arrive(m) = net \ {m} /\ m.id \in Nat
<1>1. Sound(m) /\ m.id = req.id /\ OneDatagram /\ Right(m) /\ ~C.dup
  BY DEF HandshakeInv, ServedInv, Serves, Matching
<1>2. m.id \in Nat
  BY <1>1 DEF Sound
<1>3. m.re = req
  BY <1>1, <1>2 DEF Sound, Earlier, OneDatagram
<1> QED BY <1>1, <1>2, <1>3 DEF Arrive

\* A further request of IKE_SA_INIT takes the place of its answer.
LEMMA NextDatagram ==
    ASSUME OneDatagram, NEW m \in net, req.id = 0, net' = (net \ {m}) \cup {req'}, req'.to = "gw"
    PROVE  OneDatagram'
BY DEF OneDatagram

LEMMA InitServed ==
    ASSUME HandshakeInv, ServedInv, NEW m \in net, m.to = "client", Matching(m), Take(m),
           IKESAInit(m), UNCHANGED setting
    PROVE  ServedInv'
<1>1. /\ stage \in {"init", "cookie", "ke", "keCookie"} /\ net' \subseteq net \cup {req'}
      /\ req'.to = "gw" \/ req' = req
  BY IKESAInitCases
<1>2. req.to = "gw" /\ req.id = 0
  BY <1>1 DEF HandshakeInv, RequestOK
<1>3. gw' = gw /\ C' = C /\ Halves' = Halves
  BY DEF Take, C, Halves
<1>4. ASSUME Serves PROVE OneDatagram' /\ StageOK'
  <2>1. OneDatagram /\ HalvesOK /\ StageOK
    BY <1>4 DEF ServedInv
  <2>2. m.id = 0 /\ m.re = req /\ Right(m) /\ Arrive(m) = net \ {m}
    BY <1>2, <1>4, TakesRight
  <2>3. /\ m.body \in {"cookie", "invalidKE", "sa"}
        /\ m.body = "cookie" => m.cookie = 1 /\ gw.epoch = 1 /\ req.cookie # 1
        /\ m.body = "invalidKE" => m.group = C.group /\ req.group # C.group
        /\ m.body = "sa" => /\ m.group = C.group /\ req.group = C.group
                            /\ m.half \in Halves /\ gw.half[m.half].m1 = req
    BY <2>2 DEF Right
  <2>4. req.group = group /\ initReq = req /\ round \in 0..MaxRounds
    BY <1>1, <2>1 DEF StageOK
  <2>5. ASSUME NEW w \in {"cookie", "ke", "keCookie"}, NEW c, NEW g, sendSAInit(m, w, c, g),
               group' = g, w \in {"ke", "keCookie"} => g = C.group,
               w \in {"cookie", "keCookie"} => c = 1 /\ gw.epoch = 1
        PROVE  OneDatagram' /\ StageOK'
    <3>1. /\ stage' = w /\ req' = buildSAInit(c, g) /\ tries' = 1 /\ initReq' = req'
          /\ net' = (net \ {m}) \cup {req'} /\ round' = round
      BY <2>2, <2>5 DEF sendSAInit, Open
    <3>2. req'.to = "gw" /\ req'.id = 0 /\ req'.cookie = c /\ req'.group = g
      BY <3>1 DEF buildSAInit
    <3>3. OneDatagram'
      BY <1>2, <2>1, <3>1, <3>2, NextDatagram
    <3>4. StageOK'
      BY <1>3, <2>4, <2>5, <3>1, <3>2 DEF StageOK
    <3> QED BY <3>3, <3>4
  <2>6. ASSUME m.body = "sa", handleSAInitResponse(m)
        PROVE  OneDatagram' /\ StageOK'
    <3>1. /\ stage' = IF C.psk THEN "final" ELSE "auth1"
          /\ req' = FirstAuth(m.half) /\ tries' = 1 /\ sa' = m.half
          /\ initReq' = initReq /\ round' = round
      BY <2>3, <2>4, <2>6 DEF handleSAInitResponse, Open
    <3>2. /\ req'.id = 1 /\ req'.sa = m.half /\ req'.m1 = initReq
          /\ req'.body = IF C.psk THEN "auth" ELSE "first"
      BY <3>1 DEF FirstAuth
    <3>3. OneDatagram'
      BY <3>2 DEF OneDatagram
    <3>4. StageOK'
      BY <1>3, <2>3, <2>4, <2>6, <3>1, <3>2 DEF StageOK
    <3> QED BY <3>3, <3>4
  <2>7. ASSUME HandleInvalidKE(m), m.body # "cookie" PROVE OneDatagram' /\ StageOK'
    <3>1. CASE m.body = "invalidKE"
      <4>1. m.group \in supportedDHGroup \ {group} /\ m.group = C.group
        BY <1>4, <2>3, <2>4, <3>1 DEF Serves
      <4>2. group' = m.group /\ sendSAInit(m, "ke", cookie, m.group)
        BY <2>7, <3>1, <4>1 DEF HandleInvalidKE
      <4> QED BY <2>5, <4>1, <4>2
    <3>2. CASE m.body = "sa"
      BY <2>6, <2>7, <3>2 DEF HandleInvalidKE
    <3> QED BY <2>3, <2>7, <3>1, <3>2
  <2>8. CASE stage = "init" /\ m.body = "cookie"
    <3>1. sendSAInit(m, "cookie", m.cookie, group) /\ group' = group
      BY <2>8 DEF IKESAInit
    <3> QED BY <2>3, <2>5, <2>8, <3>1
  <2>9. CASE stage = "ke" /\ m.body = "cookie"
    <3>1. sendSAInit(m, "keCookie", m.cookie, group) /\ group' = group
      BY <2>9 DEF IKESAInit
    <3>2. group = C.group
      BY <2>1, <2>4, <2>9 DEF StageOK
    <3> QED BY <2>3, <2>5, <2>9, <3>1, <3>2
  <2>10. stage \in {"cookie", "keCookie"} => m.body # "cookie"
    BY <2>1, <2>3 DEF StageOK
  <2>11. stage \in {"ke", "keCookie"} => m.body # "invalidKE"
    BY <2>1, <2>3 DEF StageOK
  <2> QED BY <1>1, <2>3, <2>6, <2>7, <2>8, <2>9, <2>10, <2>11 DEF IKESAInit
<1> QED BY <1>1, <1>2, <1>3, <1>4, ClientServed

LEMMA AuthServed ==
    ASSUME HandshakeInv, ServedInv, NEW m \in net, m.to = "client", Matching(m), Take(m),
           IKEAuth(m), UNCHANGED setting
    PROVE  ServedInv'
<1>1. /\ stage \in {"auth1", "eap", "final"} /\ net' \subseteq net \cup {req'}
      /\ req' = req \/ (req'.to = "gw" /\ req'.id = req.id + 1)
  BY IKEAuthCases
<1>2. req.to = "gw" /\ req.id \in Nat /\ Sound(m) /\ sa \in Halves
  BY <1>1 DEF HandshakeInv, RequestOK, Sound, Earlier
<1>3. gw' = gw /\ C' = C /\ Halves' = Halves
  BY DEF Take, C, Halves
<1>4. ASSUME Serves PROVE OneDatagram' /\ StageOK'
  <2>1. StageOK
    BY <1>4 DEF ServedInv
  <2>2. m.id = req.id /\ m.re = req /\ Right(m)
    BY <1>4, TakesRight
  <2>3. /\ req.id > 0 /\ req.sa = sa /\ req.m1 = initReq /\ gw.half[sa].m1 = initReq
        /\ round \in 0..MaxRounds /\ MaxRounds \in Nat /\ tries \in Nat \ {0}
    BY <1>1, <2>1, HandshakeAssumption DEF StageOK
  <2>4. /\ req.body = "auth" => m.body = "final" /\ m.ok
        /\ req.body # "auth" => m.body = "eap" /\ m.eap \in Orderly(req.body)
        /\ m.body = "eap" => m.ok = gw.knows /\ m.cert = gw.cert
    BY <1>2, <2>2, <2>3 DEF Right, Sound
  <2>5. OneDatagram'
    BY <1>1, <1>2, <2>3 DEF OneDatagram
  <2>6. ASSUME NEW b, Open(m, "eap", Ask(b)), UNCHANGED <<initReq, sa>>, ~C.psk,
               b \in {"identity", "notification", "response", "ack"}, round' \in 0..MaxRounds,
               b = "response" => challenged', b = "ack" => challenged' /\ verified'
        PROVE  StageOK'
    <3>1. stage' = "eap" /\ req' = Ask(b) /\ tries' = 1
      BY <2>6 DEF Open
    <3>2. req'.id = req.id + 1 /\ req'.sa = sa /\ req'.m1 = initReq /\ req'.body = b
      BY <3>1 DEF Ask
    <3> QED BY <1>2, <1>3, <2>3, <2>6, <3>1, <3>2 DEF StageOK
  <2>7. CASE stage = "final"
    <3>1. stage' = "up" /\ UNCHANGED <<req, tries, why>> /\ UNCHANGED local
      BY <2>1, <2>4, <2>7 DEF StageOK, IKEAuth, handleFinalAuthResponse
    <3> QED BY <1>3, <2>1, <2>3, <2>5, <3>1 DEF StageOK, local
  <2>8. ASSUME stage \in {"auth1", "eap"} PROVE StageOK'
    <3>1. ~C.psk /\ req.body \in {"first", "identity", "notification", "response", "ack"}
      BY <2>1, <2>8 DEF StageOK
    <3>2. m.body = "eap" /\ m.eap \in Orderly(req.body) /\ m.ok /\ m.cert
      BY <1>4, <2>4, <3>1 DEF Serves
    <3>3. EAPRound(m)
      BY <2>8, <3>2 DEF IKEAuth, handleAuthResponse
    <3>4. m.eap \in {"identity", "notification", "challenge", "success", "EAPSuccess"}
      BY <1>4, <3>1, <3>2 DEF Orderly, Serves
    <3>5. m.eap = "success" => req.body = "response"
      BY <3>1, <3>2 DEF Orderly
    <3>6. m.eap = "EAPSuccess" => req.body = "ack"
      BY <1>4, <3>1, <3>2 DEF Orderly, Serves
    <3>7. (m.eap = "success" => challenged) /\ (m.eap = "EAPSuccess" => challenged /\ verified)
      BY <2>1, <2>8, <3>5, <3>6 DEF StageOK
    <3>8. CASE round < MaxRounds /\ EAPSuccess(m)
      <4>1. Open(m, "final", Ask("auth")) /\ UNCHANGED local
        BY <3>7, <3>8 DEF EAPSuccess
      <4>2. stage' = "final" /\ req' = Ask("auth") /\ tries' = 1
        BY <4>1 DEF Open
      <4>3. req'.id = req.id + 1 /\ req'.sa = sa /\ req'.m1 = initReq /\ req'.body = "auth"
        BY <4>2 DEF Ask
      <4> QED BY <1>2, <1>3, <2>3, <4>1, <4>2, <4>3 DEF StageOK, local
    <3>9. CASE round < MaxRounds /\ buildEAPResponse(m)
      <4>1. round' \in 0..MaxRounds /\ UNCHANGED <<initReq, sa>>
        BY <2>3, <3>9 DEF buildEAPResponse
      <4>2. CASE HandleChallenge(m)
        BY <2>6, <3>1, <4>1, <4>2 DEF HandleChallenge
      <4>3. CASE HandleSuccess(m)
        <5>1. challenged /\ m.ok
          BY <3>2, <3>7, <4>3 DEF HandleSuccess
        <5>2. Open(m, "eap", Ask("ack")) /\ verified' = TRUE /\ challenged' = challenged
          BY <4>3, <5>1 DEF HandleSuccess
        <5> QED BY <2>6, <3>1, <4>1, <5>1, <5>2
      <4>4. CASE m.eap \in {"identity", "notification"} /\ Open(m, "eap", Ask(m.eap))
        BY <2>6, <3>1, <4>1, <4>4
      <4> QED BY <3>4, <3>9, <4>2, <4>3, <4>4 DEF buildEAPResponse
    <3>10. CASE round >= MaxRounds /\ Fail(m, "rounds") /\ UNCHANGED local
      BY <2>3, <3>10 DEF Fail, local, StageOK
    <3> QED BY <3>2, <3>3, <3>8, <3>9, <3>10 DEF EAPRound
  <2> QED BY <1>1, <2>5, <2>7, <2>8
<1> QED BY <1>1, <1>2, <1>3, <1>4, ClientServed

-----------------------------------------------------------------------------
LEMMA ServedStep == HandshakeInv /\ ServedInv /\ [Next]_vars => ServedInv'
<1> SUFFICES ASSUME HandshakeInv, ServedInv, [Next]_vars PROVE ServedInv'
  OBVIOUS
<1>1. stage \in {"auth1", "eap", "final"} => sa \in Halves
  BY DEF HandshakeInv, RequestOK
<1>2. req.to = "gw"
  BY DEF HandshakeInv, RequestOK
<1>3. Serves => OneDatagram /\ HalvesOK /\ StageOK /\ C.tries = 1
  BY DEF ServedInv, Serves
<1>4. ASSUME UNCHANGED <<setting, stage, req, tries, local, why, gw>>, net' \subseteq net
      PROVE  ServedInv'
  <2>1. C' = C /\ Halves' = Halves
    BY <1>4 DEF C, Halves
  <2>2. Serves => OneDatagram' /\ StageOK'
    BY <1>3, <1>4, <2>1 DEF OneDatagram, StageOK, local
  <2> QED BY <1>2, <1>4, <2>2, ClientServed
<1>5. CASE UNCHANGED vars
  BY <1>4, <1>5 DEF vars, local
<1>6. CASE Retransmit /\ UNCHANGED setting
  <2>1. Serves => FALSE
    BY <1>3, <1>6 DEF Retransmit, StageOK
  <2> QED BY <1>2, <1>6, <2>1, ClientServed DEF Retransmit
<1>7. CASE GiveUp /\ UNCHANGED setting
  <2>1. Serves => OneDatagram' /\ StageOK'
    BY <1>3, <1>7 DEF GiveUp, OneDatagram, StageOK, local
  <2> QED BY <1>2, <1>7, <2>1, ClientServed DEF GiveUp
<1>8. CASE GwEpoch /\ UNCHANGED setting
  <2>1. /\ gw'.knows = gw.knows /\ gw'.cert = gw.cert /\ gw'.half = gw.half
        /\ gw'.epoch = gw.epoch + 1
    BY <1>8 DEF GwEpoch, HandshakeInv, GatewayOK
  <2>2. Halves' = Halves
    BY <2>1 DEF Halves
  <2>3. Serves => gw'.epoch \in 0..C.epochs /\ (gw.epoch = 1 => gw'.epoch = 1)
    BY <1>3, <1>8, <2>1 DEF GwEpoch, HalvesOK, Serves
  <2>4. Serves => OneDatagram'
    BY <1>3, <1>8 DEF GwEpoch, OneDatagram
  <2> QED BY <1>1, <1>8, <2>1, <2>2, <2>3, <2>4, GatewayServed DEF GwEpoch
<1>9. ASSUME NEW m \in net, m.to = "client", Receive(m), UNCHANGED setting PROVE ServedInv'
  BY <1>9, InitServed, AuthServed DEF Receive
<1>10. ASSUME NEW m \in net, Drop(m) \/ Lose(m), UNCHANGED setting PROVE ServedInv'
  BY <1>4, <1>10 DEF Drop, Lose
<1> QED BY <1>5, <1>6, <1>7, <1>8, <1>9, <1>10, AnswersFit DEF Next, Step

\* A gateway that can be served is served: without a repeated request, and with one
\* cookie secret, the handshake fails only for the clock or for too many EAP rounds,
\* whenever the gateway crosses its cookie threshold and whichever group it wants
\* (IKESAInit, IKEAuth).
THEOREM ServedUnlessLate == Spec => []NoSpuriousFailure
<1>1. ASSUME HandshakeInv, ServedInv PROVE NoSpuriousFailure
  <2>1. gw.knows \in BOOLEAN /\ gw.cert \in BOOLEAN
    BY <1>1 DEF HandshakeInv, GatewayOK
  <2>2. Serves /\ stage = "failed" => why = "timeout" \/ (why = "rounds" /\ round = MaxRounds)
    BY <1>1 DEF ServedInv, StageOK
  <2> QED BY <2>1, <2>2 DEF NoSpuriousFailure, Serves
<1> QED BY <1>1, HandshakeInit, HandshakeStep, ServedInit, ServedStep, PTL DEF Spec
=============================================================================
