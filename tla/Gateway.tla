------------------------------ MODULE Gateway ------------------------------
(***************************************************************************)
(* The VPN gateway: not part of this repository, and modelled from what    *)
(* the driver expects of it.  It follows RFC 7296 with a window of one in  *)
(* each direction of each IKE SA: it answers requests in the order of      *)
(* their Message IDs, repeats an answer when a request is repeated, and    *)
(* has at most one request of its own outstanding per IKE SA.              *)
(***************************************************************************)
EXTENDS IKEWire

\* What an instance lets the gateway do is a record e:
\*   kinds     what it starts: a subset of AllGwKinds
\*   budget    bound: requests it starts
\*   groups    groups of the KE payloads in its rekeys (0: none)
\*   offers    what its rekey requests offer (IKEWire)
\*   declines  how often it may decline a request it could have granted
\*   sloppyKE  whether it may answer with a KE or a DH group nobody asked for
AllGwKinds == {"dpd", "child", "delESP", "ike", "delIKE"}

GatewayEnvironment(e) ==
    /\ e.kinds \subseteq AllGwKinds
    /\ e.budget \in Nat /\ e.declines \in Nat
    /\ e.offers \subseteq Offer
    /\ e.groups \subseteq Nat /\ e.sloppyKE \in BOOLEAN

\* One direction pair of windows: rx, the Message ID expected next; tx, the one
\* to use next; req, the request outstanding.
Window(rx) == [rx |-> rx, tx |-> 0, req |-> NoMessage]

InitialGateway(g) ==
    [win  |-> [sa \in {FirstIKE(g)} |-> Window(2)],  \* IKE SAs held, with their windows
     cur  |-> FirstIKE(g),               \* the one new requests are sent under
     kids |-> {FirstChild(g)},           \* Child SAs held
     newborn |-> {},                     \* Child SAs its last answer created
     stale |-> {},                       \* IKE SAs its own rekey superseded
     ever |-> {FirstIKE(g)},             \* history: IKE SAs it ever held
     started |-> 0, declined |-> 0,
     alive |-> TRUE,
     out  |-> {}]

Held(g) == DOMAIN g.win
Outstanding(g) == {g.win[sa].req : sa \in Held(g)} \ {NoMessage}
Busy(g, kinds) == \E q \in Outstanding(g) : q.body.t \in kinds

Drop(f, x) == [y \in DOMAIN f \ {x} |-> f[y]]
With(f, x, v) == [y \in DOMAIN f \cup {x} |-> IF y = x THEN v ELSE f[y]]

Emit(g, m) == [g EXCEPT !.out = @ \cup {m}]
Reply(g, req, body) == Emit(g, Message("gw", req.sa, req.ex, TRUE, req.id, body))

Adopt(g, sa) ==
    [g EXCEPT !.win = With(@, sa, Window(0)), !.cur = sa, !.ever = @ \cup {sa}]

-----------------------------------------------------------------------------
(* Answering the client.                                                   *)

Decline(g, req, why) == Reply(g, req, Notify(why))

\* The KE payload and the DH group it may put in an answer to a request with ke.
KEAnswers(ke, e) ==
    IF e.sloppyKE
    THEN {[ke |-> k, sel |-> s] : k \in e.groups \cup {0}, s \in e.groups \cup {0}}
    ELSE {[ke |-> 0, sel |-> 0], [ke |-> ke, sel |-> ke]}

\* The Child SA as the gateway keys it: with a DH exchange if the client sent a KE
\* payload and the answer shows one in any form.
AcceptChild(g, req, n, a) ==
    LET b   == req.body
        dh  == IF b.ke = 0 THEN 0 ELSE IF a.ke # 0 THEN a.ke ELSE a.sel
        kid == [in |-> b.spi, out |-> n, key |-> DeriveChildKeys(req.sa, b.ni, n, dh)]
    IN Reply([g EXCEPT !.kids = @ \cup {kid}, !.newborn = {kid}], req, ChildResponse(n, n, a.ke, a.sel))

AcceptIKE(g, req, n) ==
    Reply(Adopt(g, DeriveRekeyIKE(req.sa, req.body.ni, n, req.body.ke)),
          req, IKEResponse(n, req.body.ke))

Declined(g, req, e) ==
    IF g.declined < e.declines
    THEN {Decline([g EXCEPT !.declined = @ + 1], req, "TEMPORARY_FAILURE")} ELSE {}

\* Everything the gateway may do with a request, fresh nonce n.  It refuses to
\* rekey a Child SA it does not have, any Child SA while it rekeys or closes the
\* IKE SA, and the IKE SA while it creates, rekeys or closes any SA (RFC 7296,
\* section 2.25).
Process(g, req, n, e) ==
    LET b == req.body
    IN CASE b.t = "empty"  -> {Reply(g, req, Empty)}
         [] b.t = "delESP" ->
              {Reply([g EXCEPT !.kids = {k \in @ : k.in # b.spi}], req, Empty)}
         [] b.t = "delIKE" ->
              {Reply([g EXCEPT !.win = Drop(@, req.sa),
                               !.kids = IF g.cur = req.sa THEN {} ELSE @], req, Empty)}
         [] b.t = "child" ->
              IF b.rekey # 0 /\ ~\E k \in g.kids : k.in = b.rekey
              THEN {Decline(g, req, "CHILD_SA_NOT_FOUND")}
              ELSE IF Busy(g, {"ike", "delIKE"}) THEN {Decline(g, req, "TEMPORARY_FAILURE")}
              ELSE {AcceptChild(g, req, n, a) : a \in KEAnswers(b.ke, e)} \cup Declined(g, req, e)
         [] b.t = "ike" ->
              IF Busy(g, {"child", "delESP", "ike", "delIKE"})
              THEN {Decline(g, req, "TEMPORARY_FAILURE")}
              ELSE {AcceptIKE(g, req, n)} \cup Declined(g, req, e)
         [] OTHER -> {}

\* A request in order is processed; one that was answered already is answered
\* again (the answer is on the wire); any other is ignored.
CanReceive(g, req) ==
    g.alive /\ ~req.resp /\ req.sa \in Held(g) /\ req.id = g.win[req.sa].rx

Receive(g, req, n, e) ==
    Process([g EXCEPT !.win[req.sa].rx = @ + 1,
                      !.newborn = IF req.sa = g.cur THEN {} ELSE @], req, n, e)

-----------------------------------------------------------------------------
(* Requests of its own.                                                    *)

Start(g, sa, ex, body) ==
    LET req == Message("gw", sa, ex, FALSE, g.win[sa].tx, body)
    IN Emit([g EXCEPT !.win[sa].tx = @ + 1, !.win[sa].req = req, !.started = @ + 1], req)

CanStart(g, kind, sa, e) ==
    /\ g.alive /\ kind \in e.kinds /\ g.started < e.budget
    /\ sa \in Held(g) /\ g.win[sa].req = NoMessage

\* A KE payload of one of the groups and an offer: without a KE payload no group
\* can be missing from the proposals and no KE value can be malformed.
KEOffers(groups, e) ==
    {o \in [ke : groups, offer : e.offers] :
        o.ke = 0 => o.offer \notin {"INVALID_KE", "SYNTAX"}}

\* The requests it may start, fresh nonce n.  It deletes a Child SA it created
\* for the client only after another request has shown that the client is past
\* the exchange that created it.
Startable(g, n, e) ==
    (IF CanStart(g, "dpd", g.cur, e) THEN {Start(g, g.cur, "INFO", Empty)} ELSE {})
    \cup
    (IF CanStart(g, "child", g.cur, e)
     THEN {Start(g, g.cur, "CCSA", ChildRequest(n, n, old, o.ke, o.offer)) :
              old \in {k.in : k \in g.kids} \cup {0}, o \in KEOffers(e.groups, e)}
     ELSE {})
    \cup
    (IF CanStart(g, "delESP", g.cur, e)
     THEN {Start([g EXCEPT !.kids = @ \ {k}], g.cur, "INFO", DeleteESP(k.out)) :
              k \in g.kids \ g.newborn}
     ELSE {})
    \cup
    (IF CanStart(g, "ike", g.cur, e)
     THEN {Start(g, g.cur, "CCSA", IKERequest(n, o.ke, o.offer)) :
              o \in KEOffers({g.cur.dh} \cup (e.groups \ {0}), e)}
     ELSE {})
    \cup
    {Start(g, sa, "INFO", DeleteIKE) : sa \in {x \in g.stale : CanStart(g, "ike", x, e)}}
    \cup
    (IF CanStart(g, "delIKE", g.cur, e)
     THEN {Start([g EXCEPT !.kids = {}], g.cur, "INFO", DeleteIKE)} ELSE {})

-----------------------------------------------------------------------------
(* Answers of the client to them.                                          *)

CanConclude(g, r) ==
    g.alive /\ r.resp /\ r.sa \in Held(g) /\ Answers(r, g.win[r.sa].req)

Conclude(g, r) ==
    LET q == g.win[r.sa].req
        h == [g EXCEPT !.win[r.sa].req = NoMessage]
    IN CASE q.body.t = "child" /\ r.body.t = "child" ->
              [h EXCEPT !.kids = @ \cup
                 {[in |-> r.body.spi, out |-> q.body.spi,
                   key |-> DeriveChildKeys(r.sa, q.body.ni, r.body.nr, r.body.ke)]}]
         [] q.body.t = "ike" /\ r.body.t = "ike" ->
              Adopt([h EXCEPT !.stale = @ \cup {r.sa}],
                    DeriveRekeyIKE(r.sa, q.body.ni, r.body.nr, r.body.ke))
         [] q.body.t = "delIKE" -> [h EXCEPT !.win = Drop(@, r.sa)]
         [] OTHER -> h
=============================================================================
