---------------------------- MODULE SessionProofs ----------------------------
(***************************************************************************)
(* Message IDs, answers and keys of the driver, for every environment: any *)
(* number of rekeys from both ends, of losses, repetitions and reorderings.*)
(*                                                                         *)
(* The invariant is about a session t, the messages M, the gateway g and   *)
(* the last nonce k.  Between two steps these are s, net, gw and fresh.    *)
(* Within a step of the client, M is what net and the field out of t hold, *)
(* so that each handler can be shown to keep the invariant by itself.      *)
(***************************************************************************)
EXTENDS Session, TLAPS

\* The sessions and messages are large records: the provers get more time.
USE ZenonT(2), SMTT(30), ZenonT(20)

SessionFields ==
    {"ike", "messageID", "ikeDHGroup", "pending", "peer", "oldIKE", "oldPeer", "oldIKEDelete",
     "child", "childPFS", "childPFSGroup", "childReestablish", "throttled", "fastDPDDue",
     "status", "out"}
ExchangeFields ==
    {"kind", "req", "attempts", "fast", "reest", "newIn", "oldIn", "ni", "dh"}
GatewayFields ==
    {"win", "cur", "kids", "newborn", "stale", "ever", "started", "declined", "alive", "out"}

Shaped(t) ==
    /\ DOMAIN t = SessionFields
    /\ DOMAIN t.pending = ExchangeFields /\ DOMAIN t.oldIKEDelete = ExchangeFields
    /\ t.messageID \in Nat /\ t.pending.attempts \in Nat

-----------------------------------------------------------------------------
(* Nonces.                                                                 *)

First(sa) == sa.n[1]
Second(sa) == sa.n[2]
Old(sa, k) == First(sa) \in 0..k /\ Second(sa) \in 0..k

\* What a message says.  The provers unfold no more of it than a step needs.
From(m) == m.from
Resp(m) == m.resp
Sa(m) == m.sa
Id(m) == m.id
Ex(m) == m.ex
Kind(m) == m.body.t
Ni(m) == m.body.ni
Nr(m) == m.body.nr
Ke(m) == m.body.ke
Spi(m) == m.body.spi

\* The IKE SA that an IKE rekey request q and its answer r make.
Derived(q, r) == DeriveRekeyIKE(Sa(q), Ni(q), Nr(r), Ke(r))

\* The nonce a message of a CREATE_CHILD_SA brings.
Keyed(m) == Kind(m) \in {"child", "ike"}
Nonce(m) == IF Resp(m) THEN Nr(m) ELSE Ni(m)

\* Messages are well formed, and every nonce in use was drawn.
Drawn(t, M, k) ==
    /\ k \in Nat /\ k >= 2
    /\ Old(t.ike, k) /\ Old(t.oldIKE, k) /\ Old(Sa(t.oldIKEDelete.req), k)
    /\ t.pending.ni \in 0..k
    /\ \A m \in M : /\ Id(m) \in Nat /\ Ex(m) \in {"INFO", "CCSA"}
                     /\ Old(Sa(m), k) /\ (Keyed(m) => Nonce(m) \in 0..k)

\* While the client rekeys the IKE SA, no SA it has talked under came from the
\* nonce of that exchange, so that the SA which completes it will be new.
Novel(t, M) ==
    t.pending.kind = "ike" =>
        /\ First(t.ike) # t.pending.ni
        /\ HasOld(t) => First(t.oldIKE) # t.pending.ni
        /\ t.oldIKEDelete.kind # "none" => First(Sa(t.oldIKEDelete.req)) # t.pending.ni
        /\ \A m \in M : From(m) = "client" => First(Sa(m)) # t.pending.ni

-----------------------------------------------------------------------------
(* The client's requests.                                                  *)

\* Those on the wire and those that may still be sent.
Kept(x) == IF x.kind = "none" THEN {} ELSE {x.req}
Asked(t, M) ==
    {m \in M \cup Kept(t.pending) \cup Kept(t.oldIKEDelete) : From(m) = "client" /\ ~Resp(m)}

Numbered(t, M) ==
    /\ \A m \in Asked(t, M) : Id(m) \in Nat /\ (Sa(m) = t.ike => Id(m) < t.messageID)
    /\ \A m1, m2 \in Asked(t, M) : Sa(m1) = Sa(m2) /\ Id(m1) = Id(m2) => m1 = m2

\* A pending exchange runs under the current SA and knows what its request says.
InFlight(t) ==
    LET p == t.pending
    IN p.kind # "none" =>
        /\ From(p.req) = "client" /\ ~Resp(p.req) /\ Sa(p.req) = t.ike
        /\ p.kind \in {"dpd", "delete", "child", "ike"}
        /\ p.kind \in {"dpd", "delete"} => Ex(p.req) = "INFO" /\ Kind(p.req) \in {"empty", "delESP"}
        /\ p.kind \in {"child", "ike"} =>
              Ex(p.req) = "CCSA" /\ Kind(p.req) = p.kind /\ Ni(p.req) = p.ni /\ Ke(p.req) = p.dh
        /\ p.kind = "child" => Spi(p.req) = p.newIn

\* The client says goodbye to an IKE SA when it leaves it.
Goodbyes(t, M) ==
    /\ t.oldIKEDelete.kind # "none" =>
          LET q == t.oldIKEDelete.req
          IN /\ From(q) = "client" /\ ~Resp(q) /\ Ex(q) = "INFO" /\ Kind(q) = "delIKE"
             /\ Sa(q) # t.ike
    /\ \A m \in M : From(m) = "client" /\ ~Resp(m) /\ Kind(m) = "delIKE" =>
          Sa(m) # t.ike \/ t.status = "closed"

-----------------------------------------------------------------------------
(* The client's answers.                                                   *)

\* The slot d of the SA sa holds the last answer sent under it.
Slot(d, sa, M) ==
    /\ d.set => /\ d.resp \in M /\ From(d.resp) = "client" /\ Resp(d.resp)
                /\ Sa(d.resp) = sa /\ Id(d.resp) = d.id /\ d.id \in Nat
    /\ \A m \in M : From(m) = "client" /\ Resp(m) /\ Sa(m) = sa =>
          d.set /\ Id(m) <= d.id /\ (Id(m) = d.id => m = d.resp)

Answered(t, M) ==
    /\ Slot(t.peer, t.ike, M)
    /\ HasOld(t) => t.oldIKE # t.ike /\ Slot(t.oldPeer, t.oldIKE, M)
    /\ \A m1, m2 \in M :
          /\ From(m1) = "client" /\ From(m2) = "client" /\ Resp(m1) /\ Resp(m2)
          /\ Sa(m1) = Sa(m2) /\ Id(m1) = Id(m2)
          => m1 = m2
    /\ \A m \in M : From(m) = "client" /\ Resp(m) /\ Kind(m) = "ike" => Sa(m) # t.ike

-----------------------------------------------------------------------------
(* The gateway.                                                            *)

\* The request q of the gateway was answered, or its IKE SA was given up.
Done(q, M) ==
    \/ \E r \in M : From(r) = "client" /\ Answers(r, q)
    \/ \E m \in M : From(m) = "client" /\ ~Resp(m) /\ Kind(m) = "delIKE" /\ Sa(m) = Sa(q)

\* The request of the gateway that is outstanding under sa, if any.
Req(g, sa) == g.win[sa].req
Waiting(g, q) == Sa(q) \in DOMAIN g.win /\ Req(g, Sa(q)) = q

WindowShape(w) == DOMAIN w = {"rx", "tx", "req"} /\ w.tx \in Nat
Sent(q, sa, M, ever) ==
    /\ q \in M /\ From(q) = "gw" /\ ~Resp(q) /\ Sa(q) = sa
    /\ Kind(q) = "ike" => \A x \in ever : First(x) # Ni(q)

WindowOf(g, sa, M) ==
    /\ sa \in g.ever /\ WindowShape(g.win[sa])
    /\ Req(g, sa) # NoMessage => Sent(Req(g, sa), sa, M, g.ever)

Windows(g, M, k) ==
    /\ DOMAIN g = GatewayFields
    /\ \A sa \in g.ever : Old(sa, k)
    /\ \A sa \in DOMAIN g.win : WindowOf(g, sa, M)
    /\ \A q \in M : From(q) = "gw" /\ ~Resp(q) =>
          (Ex(q) = "CCSA" => Keyed(q)) /\ (Waiting(g, q) \/ Done(q, M))
    /\ \A sa \in g.stale :
          \E r \in M : From(r) = "client" /\ Resp(r) /\ Kind(r) = "ike" /\ Sa(r) = sa

\* The gateway's nonces, which are its SPIs too, name its messages.
GatewayNonces(M) ==
    /\ \A m \in M : From(m) = "gw" /\ Keyed(m) =>
          Nonce(m) > 2 /\ (Kind(m) = "child" => Spi(m) = Nonce(m))
    /\ \A m1, m2 \in M :
          /\ From(m1) = "gw" /\ From(m2) = "gw" /\ Keyed(m1) /\ Keyed(m2)
          /\ Nonce(m1) = Nonce(m2)
          => m1 = m2

\* An answer of the gateway with an SA answers a request of the client for one.
Granted(g, M) ==
    \A r \in M : From(r) = "gw" /\ Resp(r) /\ Keyed(r) =>
        \E q \in M :
            /\ From(q) = "client" /\ Answers(r, q) /\ Kind(q) = Kind(r)
            /\ Kind(r) = "ike" =>
                  /\ Ke(r) = Ke(q)
                  /\ Derived(q, r) \in g.ever

-----------------------------------------------------------------------------
(* Keys.                                                                   *)

\* The gateway holds the IKE SA, or will derive it from an answer on the wire.
Agreed(t, M, g) ==
    \/ t.ike \in g.ever
    \/ \E r, q \in M :
          /\ From(r) = "client" /\ Resp(r) /\ Kind(r) = "ike"
          /\ From(q) = "gw" /\ Kind(q) = "ike" /\ Answers(r, q) /\ Waiting(g, q)
          /\ t.ike = Derived(q, r)
          /\ t.oldIKEDelete.kind # "none" => Sa(t.oldIKEDelete.req) # Sa(q)
          /\ \A m \in M : From(m) = "client" /\ ~Resp(m) /\ Kind(m) = "delIKE" => Sa(m) # Sa(q)

\* The DH group a Child SA of the client's making is keyed with.
GroupOf(q, r) ==
    IF Ke(q) = 0 THEN 0 ELSE IF Ke(r) # 0 THEN Ke(r) ELSE r.body.sel

\* A Child SA comes from the handshake, or from a request and its answer.
Pedigree(c, M) ==
    \/ c = FirstChild(InitialGroup)
    \/ \E q, r \in M :
          /\ From(q) = "client" /\ From(r) = "gw" /\ Answers(r, q)
          /\ Kind(q) = "child" /\ Kind(r) = "child"
          /\ c = [in |-> Spi(q), out |-> Spi(r),
                  key |-> DeriveChildKeys(Sa(q), Ni(q), Nr(r), GroupOf(q, r))]
    \/ \E q, r \in M :
          /\ From(q) = "gw" /\ From(r) = "client" /\ Answers(r, q)
          /\ Kind(q) = "child" /\ Kind(r) = "child"
          /\ c = [in |-> Spi(r), out |-> Spi(q),
                  key |-> DeriveChildKeys(Sa(q), Ni(q), Nr(r), Ke(r))]

-----------------------------------------------------------------------------
ClientSide(t, M, k) ==
    /\ Shaped(t) /\ Drawn(t, M, k) /\ Novel(t, M) /\ Numbered(t, M) /\ InFlight(t)
    /\ Goodbyes(t, M) /\ Answered(t, M)

GatewaySide(g, M, k) ==
    /\ Windows(g, M, k) /\ GatewayNonces(M) /\ Granted(g, M)
    /\ \A c \in g.kids : Pedigree(c, M)

Good(t, M, g, k) ==
    /\ ClientSide(t, M, k) /\ GatewaySide(g, M, k)
    /\ Agreed(t, M, g) /\ Pedigree(t.child, M)

SessionInv == Good(s, net, gw, fresh) /\ s.out = {} /\ gw.out = {}

\* A session within a step of the client: out is on its way.
Wire(t) == net \cup t.out
Mid(t, k) ==
    /\ ClientSide(t, Wire(t), k) /\ Agreed(t, Wire(t), gw)
    /\ \A m \in t.out : From(m) = "client"

-----------------------------------------------------------------------------
(* The pieces the handlers are made of.                                    *)

\* Messages that are not answers of the client under sa leave its slot alone.
LEMMA SlotGrows ==
    ASSUME NEW d, NEW sa, NEW M, NEW N, Slot(d, sa, M), M \subseteq N,
           \A m \in N \ M : ~(From(m) = "client" /\ Resp(m) /\ Sa(m) = sa)
    PROVE  Slot(d, sa, N)
BY DEF Slot

\* Nor do they change what was answered while the slots stay as they are.
LEMMA AnsweredGrows ==
    ASSUME NEW t, NEW u, NEW M, NEW N, Answered(t, M), M \subseteq N,
           \A m \in N \ M : ~(From(m) = "client" /\ Resp(m)),
           u.ike = t.ike, u.peer = t.peer,
           HasOld(u) => HasOld(t) /\ u.oldIKE = t.oldIKE /\ u.oldPeer = t.oldPeer
    PROVE  Answered(u, N)
<1>1. \A d, sa : Slot(d, sa, M) => Slot(d, sa, N)
  BY SlotGrows
<1> QED BY <1>1 DEF Answered

\* A request of the gateway that the session may answer.
Answerable(t, viaOld, req) ==
    /\ From(req) = "gw" /\ ~Resp(req) /\ Id(req) \in Nat /\ Ex(req) \in {"INFO", "CCSA"}
    /\ viaOld \in BOOLEAN
    /\ Sa(req) = IF viaOld THEN t.oldIKE ELSE t.ike
    /\ viaOld => HasOld(t)
    /\ ~IsDuplicate(t, viaOld, Id(req))

\* A request the driver answers has a higher Message ID than all it answered under that SA.
LEMMA LaterRequest ==
    ASSUME NEW t, NEW M, NEW k, Drawn(t, M, k), Answered(t, M),
           NEW viaOld, NEW req, Answerable(t, viaOld, req)
    PROVE  \A m \in M : From(m) = "client" /\ Resp(m) /\ Sa(m) = Sa(req) =>
              Id(m) \in Nat /\ Id(m) < Id(req)
<1> DEFINE d == DedupSlot(t, viaOld)
<1>1. Slot(d, Sa(req), M)
  BY DEF Answered, Answerable, DedupSlot
<1>2. ~(d.set /\ Id(req) <= d.id) /\ Id(req) \in Nat
  BY DEF Answerable, IsDuplicate
<1>3. \A m \in M : Id(m) \in Nat
  BY DEF Drawn
<1> HIDE DEF d
<1> QED BY <1>1, <1>2, <1>3 DEF Slot

\* What was drawn stays drawn.
LEMMA LaterNonce ==
    ASSUME NEW t, NEW k, Mid(t, k), NEW n \in Nat, n >= k
    PROVE  Mid(t, n)
<1>1. Drawn(t, Wire(t), n)
  BY DEF Mid, ClientSide, Drawn, Old
<1> QED BY <1>1 DEF Mid, ClientSide

\* The message m is added and nothing that the invariant looks at is changed.
Alike(t, u) ==
    /\ DOMAIN u = SessionFields /\ DOMAIN u.pending = ExchangeFields
    /\ DOMAIN u.oldIKEDelete = ExchangeFields
    /\ u.ike = t.ike /\ u.messageID = t.messageID
    /\ u.peer = t.peer /\ u.oldIKE = t.oldIKE /\ u.oldPeer = t.oldPeer
    /\ u.pending.kind = t.pending.kind /\ u.pending.req = t.pending.req
    /\ u.pending.ni = t.pending.ni /\ u.pending.dh = t.pending.dh
    /\ u.pending.newIn = t.pending.newIn
    /\ t.pending.attempts \in Nat => u.pending.attempts \in Nat
    /\ u.oldIKEDelete.kind = t.oldIKEDelete.kind /\ u.oldIKEDelete.req = t.oldIKEDelete.req

\* A change of flags, with nothing sent but what was sent before, is harmless.
LEMMA AlikeMid ==
    ASSUME NEW t, NEW u, NEW k, Mid(t, k), Alike(t, u),
           NEW X, u.out = t.out \cup X,
           \A m \in X : \/ Pending(t) /\ m = t.pending.req
                        \/ t.oldIKEDelete.kind # "none" /\ m = t.oldIKEDelete.req
                        \/ m \in Wire(t) /\ From(m) = "client",
           t.status = "closed" => u.status = "closed"
    PROVE  Mid(u, k)
<1> DEFINE M == Wire(t)  N == Wire(u)  Y == X \ M
<1>1. /\ Wire(u) = Wire(t) \cup X
      /\ \A m \in Y : \/ t.pending.kind # "none" /\ m = t.pending.req
                      \/ t.oldIKEDelete.kind # "none" /\ m = t.oldIKEDelete.req
  BY DEF Wire, Pending
<1>2. ClientSide(t, M, k) /\ Agreed(t, M, gw) /\ \A m \in t.out : From(m) = "client"
  BY DEF Mid
<1>a. N = M \cup Y
  BY <1>1
<1> HIDE DEF M, N, Y
<1>b. \A m \in Y : /\ From(m) = "client" /\ ~Resp(m) /\ Id(m) \in Nat /\ Ex(m) \in {"INFO", "CCSA"}
                   /\ m \in Asked(t, M)
                   /\ Sa(m) \in {t.ike, Sa(t.oldIKEDelete.req)}
                   /\ Keyed(m) => m = t.pending.req /\ Nonce(m) = t.pending.ni
                   /\ Sa(m) = t.ike \/ t.oldIKEDelete.kind # "none"
                   /\ Kind(m) = "delIKE" =>
                        Sa(m) # t.ike /\ Sa(m) = Sa(t.oldIKEDelete.req) /\ t.oldIKEDelete.kind # "none"
  BY <1>1, <1>2 DEF ClientSide, InFlight, Goodbyes, Numbered, Asked, Kept, Keyed, Nonce
<1>c. \A m \in u.out : From(m) = "client"
  BY <1>2 DEF ClientSide, InFlight, Goodbyes, Pending
<1>3. Shaped(u) /\ InFlight(u)
  BY <1>2 DEF ClientSide, Shaped, InFlight, Alike
<1>4. Drawn(u, N, k)
  BY <1>2, <1>a, <1>b DEF ClientSide, Drawn, Alike, Old
<1>5. Novel(u, N)
  BY <1>2, <1>a, <1>b DEF ClientSide, Novel, HasOld, Alike
<1>6. Asked(u, N) = Asked(t, M)
  BY <1>a, <1>b DEF Asked, Kept, Alike
<1>7. Numbered(u, N)
  BY <1>2, <1>6 DEF ClientSide, Numbered, Alike
<1>8. Goodbyes(u, N)
  BY <1>2, <1>a, <1>b DEF ClientSide, Goodbyes, Alike
<1>9. Answered(u, N)
  <2>1. Answered(t, M) /\ M \subseteq N /\ \A m \in N \ M : ~(From(m) = "client" /\ Resp(m))
    BY <1>2, <1>a, <1>b DEF ClientSide
  <2> QED BY <2>1, AnsweredGrows DEF HasOld, Alike
<1>10. Agreed(u, N, gw)
  BY <1>2, <1>a, <1>b DEF Agreed, Alike
<1> QED BY <1>c, <1>3, <1>4, <1>5, <1>7, <1>8, <1>9, <1>10 DEF Mid, ClientSide, N

\* Exchanges and superseded SAs may be forgotten.
LEMMA ForgetMid ==
    ASSUME NEW t, NEW u, NEW k, Mid(t, k), DOMAIN u = SessionFields,
           u.ike = t.ike, u.messageID = t.messageID, u.peer = t.peer, u.out = t.out,
           u.pending \in {t.pending, NoExchange},
           u.oldIKEDelete \in {t.oldIKEDelete, NoExchange},
           u.oldIKE = NoIKE \/ (u.oldIKE = t.oldIKE /\ u.oldPeer = t.oldPeer),
           t.status = "closed" => u.status = "closed"
    PROVE  Mid(u, k)
<1> DEFINE M == Wire(t)
<1>1. Wire(u) = M
  BY DEF Wire
<1>2. ClientSide(t, M, k) /\ Agreed(t, M, gw) /\ \A m \in t.out : From(m) = "client"
  BY DEF Mid
<1> HIDE DEF M
<1>3. /\ DOMAIN NoExchange = ExchangeFields /\ NoExchange.kind = "none" /\ NoExchange.ni = 0
      /\ NoExchange.attempts = 0
      /\ From(NoExchange.req) = "nobody" /\ Sa(NoExchange.req) = NoIKE
  BY DEF NoExchange, ExchangeFields, NoMessage, Message, From, Resp, Sa, Id, Ex
<1>4. Shaped(u) /\ InFlight(u)
  BY <1>2, <1>3 DEF ClientSide, Shaped, InFlight
<1>5. Drawn(u, M, k)
  <2>1. First(NoIKE) = 0 /\ Second(NoIKE) = 0
    BY DEF NoIKE, First, Second
  <2> QED BY <1>2, <1>3, <2>1 DEF ClientSide, Drawn, Old
<1>6. Novel(u, M)
  BY <1>2, <1>3 DEF ClientSide, Novel, HasOld
<1>7. Asked(u, M) \subseteq Asked(t, M)
  BY <1>3 DEF Asked, Kept
<1>8. Numbered(u, M)
  BY <1>2, <1>7 DEF ClientSide, Numbered
<1>9. Goodbyes(u, M)
  BY <1>2, <1>3 DEF ClientSide, Goodbyes
<1>10. Answered(u, M)
  <2>1. Answered(t, M)
    BY <1>2 DEF ClientSide
  <2> QED BY <2>1, AnsweredGrows DEF HasOld
<1>11. Agreed(u, M, gw)
  BY <1>2, <1>3 DEF Agreed
<1> QED BY <1>1, <1>2, <1>4, <1>5, <1>6, <1>8, <1>9, <1>10, <1>11 DEF Mid, ClientSide

\* An exchange that takes the next Message ID, with a nonce that n covers.
Fits(x, t, k, n) ==
    /\ DOMAIN x = ExchangeFields /\ x.kind \in {"dpd", "delete", "child", "ike"}
    /\ x.attempts \in Nat
    /\ From(x.req) = "client" /\ ~Resp(x.req) /\ Sa(x.req) = t.ike /\ Id(x.req) = t.messageID
    /\ x.kind \in {"dpd", "delete"} =>
          Ex(x.req) = "INFO" /\ Kind(x.req) \in {"empty", "delESP"}
    /\ x.kind \in {"child", "ike"} =>
          Ex(x.req) = "CCSA" /\ Kind(x.req) = x.kind /\ Ni(x.req) = x.ni /\ Ke(x.req) = x.dh
    /\ x.kind = "child" => Spi(x.req) = x.newIn
    /\ x.kind = "ike" => x.ni > k
    /\ x.ni \in 0..n /\ n \in Nat /\ n >= k

\* So is the start of an exchange that fits (Begin).
LEMMA BeginMid ==
    ASSUME NEW t, NEW x, NEW k, NEW n, NEW err, Mid(t, k), Fits(x, t, k, n)
    PROVE  Mid(Begin(t, x, err), n)
<1> DEFINE u == Begin(t, x, err)  M == Wire(t)  N == Wire(u)
<1>1. ClientSide(t, M, k) /\ Agreed(t, M, gw) /\ \A m \in t.out : From(m) = "client"
  BY DEF Mid
<1>2. /\ DOMAIN u = SessionFields
      /\ u.ike = t.ike /\ u.messageID = t.messageID + 1 /\ u.pending = x
      /\ u.peer = t.peer /\ u.oldIKE = t.oldIKE /\ u.oldPeer = t.oldPeer
      /\ u.oldIKEDelete = t.oldIKEDelete /\ u.status = t.status
      /\ u.out = t.out \/ u.out = t.out \cup {x.req}
  BY <1>1 DEF ClientSide, Shaped, SessionFields, Begin, Send
<1>3. N = M \/ N = M \cup {x.req}
  BY <1>2 DEF Wire
<1> HIDE DEF M, N, u
<1>4. Shaped(u) /\ InFlight(u)
  BY <1>1, <1>2 DEF ClientSide, Shaped, InFlight, Fits
<1>5. Drawn(u, N, n)
  BY <1>1, <1>2, <1>3 DEF ClientSide, Shaped, Drawn, Old, Fits, Keyed, Nonce
<1>6. Novel(u, N)
  BY <1>1, <1>2, <1>3 DEF ClientSide, Drawn, Old, Novel, HasOld, Fits
<1>7. Asked(u, N) \subseteq Asked(t, M) \cup {x.req}
  BY <1>2, <1>3 DEF Asked, Kept
<1>8. Numbered(u, N)
  BY <1>1, <1>2, <1>7 DEF ClientSide, Shaped, Numbered, Fits
<1>9. Goodbyes(u, N)
  BY <1>1, <1>2, <1>3 DEF ClientSide, Goodbyes, Fits
<1>10. Answered(u, N)
  <2>1. Answered(t, M) /\ M \subseteq N /\ \A m \in N \ M : ~(From(m) = "client" /\ Resp(m))
    BY <1>1, <1>2, <1>3 DEF ClientSide, Fits
  <2> QED BY <1>2, <2>1, AnsweredGrows DEF HasOld
<1>11. Agreed(u, N, gw)
  BY <1>1, <1>2, <1>3 DEF Agreed, Fits
<1> QED
  BY <1>1, <1>2, <1>4, <1>5, <1>6, <1>8, <1>9, <1>10, <1>11 DEF Mid, ClientSide, Fits, N, u

\* An answer that grants no IKE SA.
LEMMA AnswerMid ==
    ASSUME NEW t, NEW k, NEW n \in Nat, NEW viaOld, NEW req, NEW body, NEW err,
           Mid(t, k), Answerable(t, viaOld, req), n >= k,
           body.t # "ike", body.t = "child" => body.nr \in 0..n
    PROVE  Mid(Answer(t, viaOld, req, body, err), n)
<1> DEFINE u == Answer(t, viaOld, req, body, err)  M == Wire(t)  N == Wire(u)
           r == Response(req, body)
           d == [set |-> TRUE, id |-> Id(r), resp |-> r]
<1>0. Mid(t, n)
  BY LaterNonce
<1>1. ClientSide(t, M, n) /\ Agreed(t, M, gw) /\ \A m \in t.out : From(m) = "client"
  BY <1>0 DEF Mid
<1>2. CASE err = "ack"
  BY <1>0, <1>2 DEF Answer
<1>3. CASE err # "ack"
  <2>1. /\ DOMAIN u = SessionFields
        /\ u.ike = t.ike /\ u.messageID = t.messageID /\ u.pending = t.pending
        /\ u.oldIKE = t.oldIKE /\ u.oldIKEDelete = t.oldIKEDelete /\ u.status = t.status
        /\ viaOld => u.oldPeer = d /\ u.peer = t.peer
        /\ ~viaOld => u.peer = d /\ u.oldPeer = t.oldPeer
        /\ u.out = t.out \cup {r}
    BY <1>1, <1>3 DEF ClientSide, Shaped, SessionFields, Answer, Send, recordPeerResponse,
       Answerable, From, Resp, Sa, Id, Ex
  <2>2. N = M \cup {r}
    BY <2>1 DEF Wire
  <2>3. /\ From(r) = "client" /\ Sa(r) = Sa(req) /\ Resp(r) = TRUE /\ Id(r) = Id(req) /\ Ex(r) = Ex(req)
        /\ Kind(r) = body.t /\ Nr(r) = body.nr
        /\ d.set = TRUE /\ d.id = Id(r) /\ d.resp = r
    BY DEF Response, Message, Kind, Nr, From, Resp, Sa, Id, Ex
  <2> HIDE DEF M, N, u, r, d
  <2>4. Shaped(u) /\ InFlight(u)
    BY <1>1, <2>1 DEF ClientSide, Shaped, InFlight
  <2>5. Drawn(u, N, n)
    BY <1>1, <2>1, <2>2, <2>3 DEF ClientSide, Drawn, Old, Keyed, Nonce, Answerable
  <2>6. Novel(u, N)
    BY <1>1, <2>1, <2>2, <2>3 DEF ClientSide, Novel, HasOld, Answerable
  <2>7. Asked(u, N) = Asked(t, M)
    BY <2>1, <2>2, <2>3 DEF Asked, Kept
  <2>8. Numbered(u, N)
    BY <1>1, <2>1, <2>7 DEF ClientSide, Numbered
  <2>9. Goodbyes(u, N)
    BY <1>1, <2>1, <2>2, <2>3 DEF ClientSide, Goodbyes
  <2>10. \A m \in M : From(m) = "client" /\ Resp(m) /\ Sa(m) = Sa(r) => Id(m) \in Nat /\ Id(m) < Id(r)
    BY <1>1, <2>3, LaterRequest DEF ClientSide
  <2>11. Slot(d, Sa(r), N)
    BY <2>2, <2>3, <2>10 DEF Slot, Answerable
  <2>12. \A e, sa : sa # Sa(r) /\ Slot(e, sa, M) => Slot(e, sa, N)
    BY <2>2, <2>3 DEF Slot
  <2>13. Slot(u.peer, u.ike, N) /\ (HasOld(u) => u.oldIKE # u.ike /\ Slot(u.oldPeer, u.oldIKE, N))
    BY <1>1, <2>1, <2>3, <2>11, <2>12 DEF ClientSide, Answered, HasOld, Answerable
  <2>14. Answered(u, N)
    BY <1>1, <2>1, <2>2, <2>3, <2>10, <2>13 DEF ClientSide, Answered
  <2>15. Agreed(u, N, gw)
    BY <1>1, <2>1, <2>2, <2>3 DEF Agreed
  <2> QED
    BY <1>1, <2>1, <2>3, <2>4, <2>5, <2>6, <2>8, <2>9, <2>14, <2>15 DEF Mid, ClientSide, N, u
<1> QED BY <1>2, <1>3

\* completeIKERekey, to a new SA that the gateway has.
LEMMA CutoverMid ==
    ASSUME NEW t, NEW k, NEW new, NEW err, Mid(t, k), t.pending.kind = "ike",
           First(new) = t.pending.ni, Old(new, k), new \in gw.ever
    PROVE  Mid(swapIKE(sendIKEDeleteUnderCurrent([t EXCEPT !.pending = NoExchange], err), new), k)
<1> DEFINE v == sendIKEDeleteUnderCurrent([t EXCEPT !.pending = NoExchange], err)
           u == swapIKE(v, new)  M == Wire(t)  N == Wire(u)
           req == Request(t, "INFO", DeleteIKE)
           x == Exchange("delete", req)
<1>1. ClientSide(t, M, k) /\ Agreed(t, M, gw) /\ \A m \in t.out : From(m) = "client"
  BY DEF Mid
<1>2. /\ DOMAIN x = ExchangeFields /\ x.kind = "delete" /\ x.req = req
      /\ From(req) = "client" /\ Sa(req) = t.ike /\ Resp(req) = FALSE /\ Id(req) = t.messageID
      /\ Ex(req) = "INFO" /\ Kind(req) = "delIKE"
  BY DEF Exchange, NoExchange, ExchangeFields, Request, Message, DeleteIKE, Kind, From, Resp, Sa, Id, Ex
<1>3. /\ DOMAIN v = SessionFields
      /\ v.ike = t.ike /\ v.peer = t.peer /\ v.status = t.status
      /\ \/ v.oldIKEDelete = t.oldIKEDelete /\ v.out = t.out
         \/ v.oldIKEDelete = x /\ v.out = t.out
         \/ v.oldIKEDelete = x /\ v.out = t.out \cup {req}
  <2> DEFINE w == [t EXCEPT !.pending = NoExchange]
  <2>1. /\ DOMAIN w = SessionFields /\ w.ike = t.ike /\ w.messageID = t.messageID
        /\ w.peer = t.peer /\ w.status = t.status /\ w.oldIKEDelete = t.oldIKEDelete
        /\ w.out = t.out
    BY <1>1 DEF ClientSide, Shaped, SessionFields
  <2>2. Request(w, "INFO", DeleteIKE) = req
    BY <2>1 DEF Request
  <2> HIDE DEF w, x, req
  <2> DEFINE a == [w EXCEPT !.messageID = @ + 1, !.oldIKEDelete = x]
  <2>3. v = w \/ v = a \/ v = Send(a, req)
    BY <2>2, Zenon DEF sendIKEDeleteUnderCurrent, w, x
  <2>4. /\ DOMAIN a = SessionFields /\ a.ike = t.ike /\ a.peer = t.peer /\ a.status = t.status
        /\ a.oldIKEDelete = x /\ a.out = t.out
    BY <2>1 DEF SessionFields
  <2> HIDE DEF a
  <2>5. LET b == Send(a, req)
        IN /\ DOMAIN b = SessionFields /\ b.ike = t.ike /\ b.peer = t.peer /\ b.status = t.status
           /\ b.oldIKEDelete = x /\ b.out = t.out \cup {req}
    BY <2>4 DEF Send, SessionFields
  <2> HIDE DEF v
  <2> QED BY <2>1, <2>3, <2>4, <2>5
<1> HIDE DEF v, x, req
<1>4. /\ DOMAIN u = SessionFields /\ u.ike = new /\ u.messageID = 0 /\ u.pending = NoExchange
      /\ u.peer = NoDedup /\ u.oldIKE = t.ike /\ u.oldPeer = t.peer
      /\ u.oldIKEDelete = v.oldIKEDelete /\ u.out = v.out /\ u.status = t.status
  BY <1>3 DEF swapIKE, SessionFields
<1>5. N = M \/ (N = M \cup {req} /\ v.oldIKEDelete = x)
  BY <1>3, <1>4 DEF Wire
<1>6. DOMAIN NoExchange = ExchangeFields /\ NoExchange.kind = "none" /\ NoExchange.ni = 0
      /\ NoExchange.attempts = 0
  BY DEF NoExchange, ExchangeFields
<1> HIDE DEF M, N, u
<1>7. /\ new # t.ike /\ (t.oldIKEDelete.kind # "none" => new # Sa(t.oldIKEDelete.req))
      /\ \A m \in N : From(m) = "client" => Sa(m) # new
  BY <1>1, <1>2, <1>5 DEF ClientSide, Novel
<1>8. Shaped(u) /\ InFlight(u) /\ Novel(u, N)
  BY <1>1, <1>2, <1>3, <1>4, <1>6 DEF ClientSide, Shaped, InFlight, Novel
<1>9. Drawn(u, N, k)
  BY <1>1, <1>2, <1>3, <1>4, <1>5, <1>6 DEF ClientSide, Shaped, Drawn, Old, Keyed
<1>10. Asked(u, N) \subseteq Asked(t, M) \cup {req}
  BY <1>2, <1>3, <1>4, <1>5, <1>6 DEF Asked, Kept
<1>11. \A m \in Asked(u, N) : Sa(m) # new
  BY <1>2, <1>3, <1>4, <1>6, <1>7 DEF Asked, Kept
<1>12. Numbered(u, N)
  BY <1>1, <1>2, <1>4, <1>10, <1>11 DEF ClientSide, Shaped, Numbered
<1>13. Goodbyes(u, N)
  BY <1>1, <1>2, <1>3, <1>4, <1>7 DEF ClientSide, Goodbyes
<1>14. Slot(u.peer, u.ike, N) /\ Slot(u.oldPeer, u.oldIKE, N)
  <2>1. Slot(NoDedup, new, N)
    BY <1>7 DEF Slot, NoDedup
  <2>2. M \subseteq N /\ \A m \in N \ M : ~Resp(m)
    BY <1>2, <1>5
  <2>3. Slot(t.peer, t.ike, N)
    BY <1>1, <2>2, SlotGrows DEF ClientSide, Answered
  <2> QED BY <1>4, <2>1, <2>3
<1>15. Answered(u, N)
  BY <1>1, <1>2, <1>4, <1>5, <1>7, <1>14 DEF ClientSide, Answered
<1>16. Agreed(u, N, gw)
  BY <1>4 DEF Agreed
<1> QED
  BY <1>1, <1>2, <1>3, <1>4, <1>8, <1>9, <1>12, <1>13, <1>15, <1>16 DEF Mid, ClientSide, N, u, v

\* handleIKERekeyRequest, where it grants the new SA: answer and cut over.
LEMMA TakeoverMid ==
    ASSUME NEW t, NEW k, NEW req, NEW ke, NEW err,
           Mid(t, k), Answerable(t, FALSE, req), req \in net, Waiting(gw, req),
           Kind(req) = "ike", Ni(req) \in 0..k, err # "ack", t.status # "closed"
    PROVE  Mid([swapIKE(Answer(t, FALSE, req, IKEResponse(k + 1, ke), err),
                        DeriveRekeyIKE(Sa(req), Ni(req), k + 1, ke)) EXCEPT !.ikeDHGroup = ke],
               k + 1)
<1> DEFINE body == IKEResponse(k + 1, ke)
           r == Response(req, body)
           d == [set |-> TRUE, id |-> Id(r), resp |-> r]
           new == DeriveRekeyIKE(Sa(req), Ni(req), k + 1, ke)
           v == Answer(t, FALSE, req, body, err)
           u == [swapIKE(v, new) EXCEPT !.ikeDHGroup = ke]
           M == Wire(t)  N == Wire(u)
<1>1. ClientSide(t, M, k) /\ Agreed(t, M, gw) /\ \A m \in t.out : From(m) = "client"
  BY DEF Mid
<1>2. /\ DOMAIN v = SessionFields /\ v.ike = t.ike /\ v.status = t.status
      /\ v.oldIKEDelete = t.oldIKEDelete /\ v.peer = d /\ v.out = t.out \cup {r}
  BY <1>1 DEF ClientSide, Shaped, SessionFields, Answer, Send, recordPeerResponse, From, Resp, Sa, Id, Ex
<1> HIDE DEF v, new, r, d
<1>3. /\ DOMAIN u = SessionFields /\ u.ike = new /\ u.messageID = 0 /\ u.pending = NoExchange
      /\ u.peer = NoDedup /\ u.oldIKE = t.ike /\ u.oldPeer = d
      /\ u.oldIKEDelete = t.oldIKEDelete /\ u.out = t.out \cup {r} /\ u.status = t.status
  BY <1>2 DEF swapIKE, SessionFields
<1>4. N = M \cup {r} /\ req \in N
  BY <1>3 DEF Wire
<1>5. /\ From(r) = "client" /\ Sa(r) = Sa(req) /\ Resp(r) = TRUE /\ Id(r) = Id(req) /\ Ex(r) = Ex(req)
      /\ Kind(r) = "ike" /\ Nr(r) = k + 1 /\ Ke(r) = ke
      /\ d.set = TRUE /\ d.id = Id(r) /\ d.resp = r
      /\ First(new) = Ni(req) /\ Second(new) = k + 1
  BY DEF Response, Message, IKEResponse, DeriveRekeyIKE, r, d, new, Kind, Nr, Ke, First, Second,
     From, Resp, Sa, Id, Ex
<1>6. DOMAIN NoExchange = ExchangeFields /\ NoExchange.kind = "none" /\ NoExchange.ni = 0
      /\ NoExchange.attempts = 0
  BY DEF NoExchange, ExchangeFields
<1> HIDE DEF M, N, u
<1>7. k \in Nat /\ Sa(req) = t.ike
  BY <1>1 DEF ClientSide, Drawn, Answerable
<1>8. \A sa : Old(sa, k) => sa # new /\ Old(sa, k + 1)
  BY <1>5, <1>7 DEF Old
<1>9. /\ new # t.ike /\ Old(new, k + 1)
      /\ \A m \in N : Sa(m) # new
  BY <1>1, <1>4, <1>5, <1>7, <1>8 DEF ClientSide, Drawn, Old
<1>10. Shaped(u) /\ InFlight(u) /\ Novel(u, N)
  BY <1>1, <1>3, <1>6 DEF ClientSide, Shaped, InFlight, Novel
<1>11. Drawn(u, N, k + 1)
  <2>1. \A m \in N : /\ Id(m) \in Nat /\ Ex(m) \in {"INFO", "CCSA"}
                   /\ Old(Sa(m), k + 1) /\ (Keyed(m) => Nonce(m) \in 0 .. k + 1)
    BY <1>1, <1>4, <1>5, <1>7, <1>8 DEF ClientSide, Drawn, Keyed, Nonce, Answerable
  <2> QED
    BY <1>1, <1>3, <1>6, <1>7, <1>8, <1>9, <2>1 DEF ClientSide, Drawn
<1>12. Asked(u, N) \subseteq Asked(t, M) /\ \A m \in Asked(t, M) : Sa(m) # new
  BY <1>1, <1>3, <1>4, <1>5, <1>6, <1>8, <1>9 DEF Asked, Kept, ClientSide, Drawn, InFlight
<1>13. Numbered(u, N)
  BY <1>1, <1>3, <1>12 DEF ClientSide, Numbered
<1>14. Goodbyes(u, N)
  BY <1>1, <1>3, <1>8, <1>9 DEF ClientSide, Goodbyes, Drawn
<1>15. \A m \in M : From(m) = "client" /\ Resp(m) /\ Sa(m) = Sa(r) => Id(m) \in Nat /\ Id(m) < Id(r)
  <2> DEFINE viaOld == FALSE
  <2>1. Answerable(t, viaOld, req)
    OBVIOUS
  <2> HIDE DEF viaOld
  <2> QED BY <1>1, <1>5, <2>1, LaterRequest DEF ClientSide
<1>16. Slot(u.peer, u.ike, N) /\ Slot(u.oldPeer, u.oldIKE, N)
  BY <1>3, <1>4, <1>5, <1>7, <1>9, <1>15 DEF Slot, NoDedup, Answerable
<1>17. Answered(u, N)
  BY <1>1, <1>3, <1>4, <1>5, <1>9, <1>15, <1>16 DEF ClientSide, Answered
<1>18. Agreed(u, N, gw)
  <2>1. Answers(r, req)
    BY <1>5 DEF Answers, Answerable, From, Resp, Sa, Id, Ex
  <2>2. \A m \in N : From(m) = "client" /\ ~Resp(m) /\ Kind(m) = "delIKE" => Sa(m) # Sa(req)
    BY <1>1, <1>4, <1>5, <1>7 DEF ClientSide, Goodbyes
  <2>3. u.oldIKEDelete.kind # "none" => Sa(u.oldIKEDelete.req) # Sa(req)
    BY <1>1, <1>3, <1>7 DEF ClientSide, Goodbyes
  <2>4. u.ike = Derived(req, r)
    BY <1>3, <1>5 DEF new, Derived
  <2> QED BY <1>4, <1>5, <2>1, <2>2, <2>3, <2>4 DEF Agreed, Answerable
<1>19. ClientSide(u, N, k + 1)
  BY <1>10, <1>11, <1>13, <1>14, <1>17 DEF ClientSide
<1>20. \A m \in u.out : From(m) = "client"
  BY <1>1, <1>3, <1>5
<1> QED BY <1>18, <1>19, <1>20, Zenon DEF Mid, N, u, v, new

\* The goodbye of a shutdown.
LEMMA CloseMid ==
    ASSUME NEW t, NEW k, Mid(t, k)
    PROVE  Mid(sendGracefulDelete(t), k)
<1> DEFINE req == Request(t, "INFO", DeleteIKE)
           u == sendGracefulDelete(t)  M == Wire(t)  N == Wire(u)
<1>1. ClientSide(t, M, k) /\ Agreed(t, M, gw) /\ \A m \in t.out : From(m) = "client"
  BY DEF Mid
<1>2. /\ DOMAIN u = SessionFields
      /\ u.ike = t.ike /\ u.messageID = t.messageID + 1 /\ u.pending = t.pending
      /\ u.peer = t.peer /\ u.oldIKE = t.oldIKE /\ u.oldPeer = t.oldPeer
      /\ u.oldIKEDelete = t.oldIKEDelete /\ u.status = "closed" /\ u.out = t.out \cup {req}
  BY <1>1 DEF ClientSide, Shaped, SessionFields, sendGracefulDelete, Send
<1>3. N = M \cup {req}
  BY <1>2 DEF Wire
<1>4. /\ From(req) = "client" /\ Sa(req) = t.ike /\ Resp(req) = FALSE /\ Id(req) = t.messageID
      /\ Ex(req) = "INFO" /\ Kind(req) = "delIKE"
  BY DEF Request, Message, DeleteIKE, Kind, From, Resp, Sa, Id, Ex
<1> HIDE DEF M, N, u, req
<1>5. Shaped(u) /\ InFlight(u) /\ Novel(u, N)
  BY <1>1, <1>2, <1>3, <1>4 DEF ClientSide, Shaped, InFlight, Novel, HasOld
<1>6. Drawn(u, N, k)
  BY <1>1, <1>2, <1>3, <1>4 DEF ClientSide, Shaped, Drawn, Keyed
<1>7. Asked(u, N) = Asked(t, M) \cup {req}
  BY <1>2, <1>3, <1>4 DEF Asked, Kept
<1>8. Numbered(u, N)
  BY <1>1, <1>2, <1>4, <1>7 DEF ClientSide, Shaped, Numbered
<1>9. Goodbyes(u, N)
  BY <1>1, <1>2 DEF ClientSide, Goodbyes
<1>10. Answered(u, N)
  <2>1. Answered(t, M) /\ M \subseteq N /\ \A m \in N \ M : ~(From(m) = "client" /\ Resp(m))
    BY <1>1, <1>3, <1>4 DEF ClientSide
  <2> QED BY <1>2, <2>1, AnsweredGrows DEF HasOld
<1>11. Agreed(u, N, gw)
  BY <1>1, <1>2, <1>3, <1>4 DEF ClientSide, Answered, Agreed, Answers, From, Resp, Sa, Id, Ex
<1> QED
  BY <1>1, <1>2, <1>4, <1>5, <1>6, <1>8, <1>9, <1>10, <1>11 DEF Mid, ClientSide, N, u

-----------------------------------------------------------------------------
(* What a step of the client keeps until it is over.                       *)

Holds(t, k) == Mid(t, k) /\ Pedigree(t.child, Wire(t)) /\ t.status # "closed"

\* Draw counts the nonce n as spent.
Spends(t, n) ==
    n \in {t.pending.ni, t.child.key.n[1], t.child.key.n[2], t.ike.n[1], t.ike.n[2]}
Reaches(t, k) == Holds(t, k) \/ (Holds(t, k + 1) /\ Spends(t, k + 1))

\* A Child SA keeps its pedigree as messages are added.
LEMMA PedigreeGrows ==
    ASSUME NEW c, NEW M, NEW N, M \subseteq N, Pedigree(c, M)
    PROVE  Pedigree(c, N)
BY Zenon DEF Pedigree

\* A Child SA of the client's making, and one of the gateway's.
LEMMA PedigreeOfRequest ==
    ASSUME NEW M, NEW q \in M, NEW r \in M, From(q) = "client", From(r) = "gw", Answers(r, q),
           Kind(q) = "child", Kind(r) = "child"
    PROVE  Pedigree([in |-> Spi(q), out |-> Spi(r),
                     key |-> DeriveChildKeys(Sa(q), Ni(q), Nr(r), GroupOf(q, r))], M)
BY Zenon DEF Pedigree

\* An answer of the client gives a Child SA its pedigree.
LEMMA PedigreeOfAnswer ==
    ASSUME NEW M, NEW q \in M, NEW r \in M, From(q) = "gw", From(r) = "client", Answers(r, q),
           Kind(q) = "child", Kind(r) = "child"
    PROVE  Pedigree([in |-> Spi(r), out |-> Spi(q),
                     key |-> DeriveChildKeys(Sa(q), Ni(q), Nr(r), Ke(r))], M)
BY Zenon DEF Pedigree

\* As AlikeMid, with the Child SA.
LEMMA HoldsAlike ==
    ASSUME NEW t, NEW u, NEW k, Holds(t, k), Alike(t, u), u.child = t.child, u.status # "closed",
           NEW X, u.out = t.out \cup X,
           \A m \in X : \/ Pending(t) /\ m = t.pending.req
                        \/ t.oldIKEDelete.kind # "none" /\ m = t.oldIKEDelete.req
                        \/ m \in Wire(t) /\ From(m) = "client"
    PROVE  Holds(u, k)
<1>1. Mid(u, k)
  BY AlikeMid DEF Holds
<1>2. Wire(t) \subseteq Wire(u)
  BY DEF Wire
<1> QED BY <1>1, <1>2, PedigreeGrows DEF Holds

\* Flags of the session are not looked at.
LEMMA HoldsFlags ==
    ASSUME NEW t, NEW u, NEW k, Holds(t, k), Alike(t, u), u.child = t.child, u.out = t.out,
           u.status # "closed"
    PROVE  Holds(u, k)
<1> DEFINE X == {}
<1>1. u.out = t.out \cup X /\ \A m \in X : FALSE
  OBVIOUS
<1> HIDE DEF X
<1> QED BY <1>1, HoldsAlike

\* A step that has used its nonce may go on to change flags.
LEMMA ReachesFlags ==
    ASSUME NEW t, NEW u, NEW k, Reaches(t, k), Alike(t, u), u.child = t.child, u.out = t.out,
           u.status # "closed"
    PROVE  Reaches(u, k)
<1>1. Spends(t, k + 1) => Spends(u, k + 1)
  BY DEF Spends, Alike
<1> QED BY <1>1, HoldsFlags DEF Reaches

\* Exchanges and a superseded SA may be forgotten.
LEMMA HoldsForget ==
    ASSUME NEW t, NEW u, NEW k, Holds(t, k), DOMAIN u = SessionFields,
           u.ike = t.ike, u.messageID = t.messageID, u.peer = t.peer, u.out = t.out,
           u.child = t.child, u.status # "closed",
           u.pending \in {t.pending, NoExchange},
           u.oldIKEDelete \in {t.oldIKEDelete, NoExchange},
           u.oldIKE = NoIKE \/ (u.oldIKE = t.oldIKE /\ u.oldPeer = t.oldPeer)
    PROVE  Holds(u, k)
<1>1. Mid(u, k)
  BY ForgetMid DEF Holds
<1> QED BY <1>1 DEF Holds, Wire

\* What Begin leaves alone.
LEMMA BeginFields ==
    ASSUME NEW t, NEW x, NEW err, DOMAIN t = SessionFields
    PROVE  LET u == Begin(t, x, err)
           IN /\ DOMAIN u = SessionFields
              /\ u.ike = t.ike /\ u.pending = x /\ u.peer = t.peer
              /\ u.oldIKE = t.oldIKE /\ u.oldPeer = t.oldPeer /\ u.oldIKEDelete = t.oldIKEDelete
              /\ u.child = t.child /\ u.status = t.status /\ t.out \subseteq u.out
BY DEF SessionFields, Begin, Send

\* As BeginMid, with the Child SA.
LEMMA HoldsBegin ==
    ASSUME NEW t, NEW x, NEW k, NEW n, NEW err, Holds(t, k), Fits(x, t, k, n)
    PROVE  Holds(Begin(t, x, err), n)
<1> DEFINE u == Begin(t, x, err)
<1>1. DOMAIN t = SessionFields
  BY DEF Holds, Mid, ClientSide, Shaped
<1>2. u.child = t.child /\ u.status = t.status /\ t.out \subseteq u.out
  BY <1>1, BeginFields
<1>3. Mid(u, n)
  BY BeginMid DEF Holds
<1>4. Wire(t) \subseteq Wire(u)
  BY <1>2 DEF Wire
<1> QED BY <1>2, <1>3, <1>4, PedigreeGrows DEF Holds

\* The shape of a session in which the invariant holds.
LEMMA HoldsShape ==
    ASSUME NEW t, NEW k, Holds(t, k)
    PROVE  /\ DOMAIN t = SessionFields /\ t.messageID \in Nat /\ k \in Nat
           /\ DOMAIN t.pending = ExchangeFields /\ DOMAIN t.oldIKEDelete = ExchangeFields
BY DEF Holds, Mid, ClientSide, Shaped, Drawn

\* The same within a step that may have used its nonce.
LEMMA ReachesShape ==
    ASSUME NEW t, NEW k, Reaches(t, k)
    PROVE  /\ DOMAIN t = SessionFields
           /\ DOMAIN t.pending = ExchangeFields /\ DOMAIN t.oldIKEDelete = ExchangeFields
           /\ t.status # "closed"
BY DEF Reaches, Holds, Mid, ClientSide, Shaped

-----------------------------------------------------------------------------
(* The handlers that begin an exchange.                                    *)

\* initiateDPD.
LEMMA HoldsDPD ==
    ASSUME NEW t, NEW k, NEW fast, NEW err, Holds(t, k)
    PROVE  Holds(initiateDPD(t, fast, err), k)
<1> DEFINE req == Request(t, "INFO", Empty)
           x == [Exchange("dpd", req) EXCEPT !.fast = fast]
<1>1. /\ DOMAIN x = ExchangeFields /\ x.kind = "dpd" /\ x.req = req /\ x.ni = 0
      /\ x.attempts = 1
      /\ From(req) = "client" /\ Resp(req) = FALSE /\ Sa(req) = t.ike /\ Id(req) = t.messageID
      /\ Ex(req) = "INFO" /\ Kind(req) = "empty"
  BY DEF Exchange, NoExchange, ExchangeFields, Request, Message, Empty, Kind, From, Resp, Sa, Id, Ex
<1> HIDE DEF x, req
<1>2. Fits(x, t, k, k)
  BY <1>1, HoldsShape DEF Fits
<1>3. Holds(Begin(t, x, err), k)
  BY <1>2, HoldsBegin
<1> QED BY <1>3 DEF initiateDPD, x, req

\* sendChildDelete.
LEMMA HoldsChildDelete ==
    ASSUME NEW t, NEW k, NEW spi, NEW err, Holds(t, k)
    PROVE  Holds(sendChildDelete(t, spi, err), k)
<1> DEFINE req == Request(t, "INFO", DeleteESP(spi))
           x == Exchange("delete", req)
<1>1. /\ DOMAIN x = ExchangeFields /\ x.kind = "delete" /\ x.req = req /\ x.ni = 0
      /\ x.attempts = 1
      /\ From(req) = "client" /\ Resp(req) = FALSE /\ Sa(req) = t.ike /\ Id(req) = t.messageID
      /\ Ex(req) = "INFO" /\ Kind(req) = "delESP"
  BY DEF Exchange, NoExchange, ExchangeFields, Request, Message, DeleteESP, Kind, From, Resp, Sa, Id, Ex
<1> HIDE DEF x, req
<1>2. Fits(x, t, k, k)
  BY <1>1, HoldsShape DEF Fits
<1>3. Holds(Begin(t, x, err), k)
  BY <1>2, HoldsBegin
<1> QED BY <1>3 DEF sendChildDelete, x, req

\* What the driver is offered in a step: the next nonce.
LEMMA ReachesChildRekey ==
    ASSUME NEW t, NEW k, NEW reest, NEW in, Holds(t, k), in.n = k + 1
    PROVE  Reaches(initiateChildRekey(t, reest, in), k)
<1> DEFINE dh  == IF t.childPFS THEN childRekeyGroup(t) ELSE 0
           old == IF reest THEN 0 ELSE t.child.in
           body == ChildRequest(in.n, in.spi, old, dh, "good")
           req == Request(t, "CCSA", body)
           x   == [Exchange("child", req) EXCEPT
                     !.reest = reest, !.newIn = in.spi, !.oldIn = t.child.in,
                     !.ni = in.n, !.dh = dh]
<1>1. /\ body.t = "child" /\ body.ni = in.n /\ body.spi = in.spi /\ body.ke = dh
  BY DEF ChildRequest
<1> HIDE DEF body, dh, old
<1>2. /\ DOMAIN x = ExchangeFields /\ x.kind = "child" /\ x.req = req /\ x.ni = k + 1
      /\ x.attempts = 1
      /\ x.newIn = in.spi /\ x.dh = dh
      /\ From(req) = "client" /\ Resp(req) = FALSE /\ Sa(req) = t.ike /\ Id(req) = t.messageID
      /\ Ex(req) = "CCSA" /\ req.body = body
  BY Zenon DEF Exchange, NoExchange, ExchangeFields, Request, Message, From, Resp, Sa, Id, Ex
<1> HIDE DEF x, req
<1>3. Fits(x, t, k, k + 1)
  BY <1>1, <1>2, HoldsShape DEF Fits, Kind, Ni, Ke, Spi
<1>4. Holds(Begin(t, x, in.err), k + 1) /\ Spends(Begin(t, x, in.err), k + 1)
  BY <1>2, <1>3, HoldsBegin, HoldsShape, BeginFields DEF Spends
<1>5. initiateChildRekey(t, reest, in) \in {t, Begin(t, x, in.err)}
  BY DEF initiateChildRekey, x, req, body, dh, old
<1> QED BY <1>4, <1>5 DEF Reaches

\* initiateIKERekey.
LEMMA ReachesIKERekey ==
    ASSUME NEW t, NEW k, NEW in, Holds(t, k), in.n = k + 1
    PROVE  Reaches(initiateIKERekey(t, in), k)
<1> DEFINE body == IKERequest(in.n, t.ikeDHGroup, "good")
           req == Request(t, "CCSA", body)
           x   == [Exchange("ike", req) EXCEPT !.ni = in.n, !.dh = t.ikeDHGroup]
<1>1. /\ body.t = "ike" /\ body.ni = in.n /\ body.ke = t.ikeDHGroup
  BY DEF IKERequest
<1> HIDE DEF body
<1>2. /\ DOMAIN x = ExchangeFields /\ x.kind = "ike" /\ x.req = req /\ x.ni = k + 1
      /\ x.attempts = 1
      /\ x.dh = t.ikeDHGroup
      /\ From(req) = "client" /\ Resp(req) = FALSE /\ Sa(req) = t.ike /\ Id(req) = t.messageID
      /\ Ex(req) = "CCSA" /\ req.body = body
  BY DEF Exchange, NoExchange, ExchangeFields, Request, Message, From, Resp, Sa, Id, Ex
<1> HIDE DEF x, req
<1>3. Fits(x, t, k, k + 1)
  BY <1>1, <1>2, HoldsShape DEF Fits, Kind, Ni, Ke
<1>4. Holds(Begin(t, x, in.err), k + 1) /\ Spends(Begin(t, x, in.err), k + 1)
  BY <1>2, <1>3, HoldsBegin, HoldsShape, BeginFields DEF Spends
<1>5. initiateIKERekey(t, in) \in {t, Begin(t, x, in.err)}
  BY DEF initiateIKERekey, x, req, body
<1> QED BY <1>4, <1>5 DEF Reaches

-----------------------------------------------------------------------------
(* A tick.                                                                 *)

\* detectSuspend.
LEMMA HoldsSuspend ==
    ASSUME NEW t, NEW k, NEW due, NEW err, Holds(t, k)
    PROVE  Holds(detectSuspend(t, due, err), k)
<1> DEFINE u == [t EXCEPT !.pending.fast = TRUE, !.fastDPDDue = @ \/ t.pending.kind # "dpd"]
<1>1. Alike(t, u) /\ u.child = t.child /\ u.out = t.out /\ u.status = t.status
  BY HoldsShape DEF Alike, SessionFields, ExchangeFields
<1>2. Holds(u, k)
  BY <1>1, HoldsFlags, Zenon DEF Holds
<1> QED BY <1>2, HoldsDPD, Zenon DEF detectSuspend

\* The grace of the superseded IKE SA.
LEMMA HoldsGrace ==
    ASSUME NEW t, NEW k, NEW due, Holds(t, k)
    PROVE  Holds(expireGrace(t, due), k)
<1> DEFINE u == [t EXCEPT !.oldIKE = NoIKE, !.oldPeer = NoDedup, !.oldIKEDelete = NoExchange]
<1>1. /\ DOMAIN u = SessionFields
      /\ u.ike = t.ike /\ u.messageID = t.messageID /\ u.peer = t.peer /\ u.out = t.out
      /\ u.child = t.child /\ u.status = t.status /\ u.pending = t.pending
      /\ u.oldIKEDelete = NoExchange /\ u.oldIKE = NoIKE
  BY HoldsShape DEF SessionFields
<1> HIDE DEF u
<1>2. Holds(u, k)
  BY <1>1, HoldsForget DEF Holds
<1> QED BY <1>2 DEF expireGrace, u

\* The retransmission of the superseded SA's DELETE.
LEMMA HoldsOldDelete ==
    ASSUME NEW t, NEW k, NEW due, Holds(t, k)
    PROVE  Holds(retransmitOldDelete(t, due), k)
<1> DEFINE u == [t EXCEPT !.oldIKEDelete = NoExchange]
           v == Send([t EXCEPT !.oldIKEDelete.attempts = @ + 1], t.oldIKEDelete.req)
           X == {t.oldIKEDelete.req}
<1>1. /\ DOMAIN u = SessionFields
      /\ u.ike = t.ike /\ u.messageID = t.messageID /\ u.peer = t.peer /\ u.out = t.out
      /\ u.child = t.child /\ u.status = t.status /\ u.pending = t.pending
      /\ u.oldIKEDelete = NoExchange /\ u.oldIKE = t.oldIKE /\ u.oldPeer = t.oldPeer
  BY HoldsShape DEF SessionFields
<1>2. Alike(t, v) /\ v.child = t.child /\ v.status = t.status /\ v.out = t.out \cup X
  BY HoldsShape DEF Alike, Send, SessionFields, ExchangeFields
<1>3. \A m \in X : m = t.oldIKEDelete.req
  OBVIOUS
<1>4. retransmitOldDelete(t, due) \in {t, u} \/ (retransmitOldDelete(t, due) = v /\ t.oldIKEDelete.kind # "none")
  BY DEF retransmitOldDelete
<1> HIDE DEF u, v, X
<1>5. Holds(u, k)
  BY <1>1, HoldsForget DEF Holds
<1>6. t.oldIKEDelete.kind # "none" => Holds(v, k)
  BY <1>2, <1>3, HoldsAlike DEF Holds
<1> QED BY <1>4, <1>5, <1>6

\* retransmitPending.
LEMMA HoldsRetransmit ==
    ASSUME NEW t, NEW k, NEW due, Holds(t, k), Pending(t)
    PROVE  Holds(retransmitPending(t, due), k)
<1> DEFINE u == abandonPending(t)
           v == Send([t EXCEPT !.pending.attempts = @ + 1], t.pending.req)
           X == {t.pending.req}
<1>1. /\ DOMAIN u = SessionFields
      /\ u.ike = t.ike /\ u.messageID = t.messageID /\ u.peer = t.peer /\ u.out = t.out
      /\ u.child = t.child /\ u.status \in {t.status, "dead"} /\ u.pending = NoExchange
      /\ u.oldIKEDelete = t.oldIKEDelete /\ u.oldIKE = t.oldIKE /\ u.oldPeer = t.oldPeer
  BY HoldsShape DEF SessionFields, abandonPending
<1>2. Alike(t, v) /\ v.child = t.child /\ v.status = t.status /\ v.out = t.out \cup X
  BY HoldsShape DEF Alike, Send, SessionFields, ExchangeFields
<1>3. \A m \in X : m = t.pending.req
  OBVIOUS
<1>4. retransmitPending(t, due) \in {t, u, v}
  BY DEF retransmitPending
<1> HIDE DEF u, v, X
<1>5. Holds(u, k)
  BY <1>1, HoldsForget DEF Holds
<1>6. Holds(v, k)
  BY <1>2, <1>3, HoldsAlike DEF Holds
<1> QED BY <1>4, <1>5, <1>6

\* The exchanges housekeeping starts.
LEMMA ReachesStart ==
    ASSUME NEW t, NEW k, NEW due, NEW in, Holds(t, k), in.n = k + 1
    PROVE  Reaches(startExchange(t, due, in), k)
<1> DEFINE u == [t EXCEPT !.fastDPDDue = FALSE]
           c == initiateChildRekey(t, TRUE, in)
           v == [c EXCEPT !.throttled = TRUE]
           w == [c EXCEPT !.childReestablish = FALSE, !.throttled = FALSE]
<1>1. Alike(t, u) /\ u.child = t.child /\ u.out = t.out /\ u.status = t.status
  BY HoldsShape DEF Alike, SessionFields
<1>2. Holds(initiateDPD(u, TRUE, in.err), k) /\ Holds(initiateDPD(t, FALSE, in.err), k)
  BY <1>1, HoldsFlags, HoldsDPD, Zenon DEF Holds
<1>3. Reaches(c, k) /\ Reaches(initiateChildRekey(t, FALSE, in), k) /\ Reaches(initiateIKERekey(t, in), k)
  BY ReachesChildRekey, ReachesIKERekey, Zenon
<1>4. startExchange(t, due, in) \in
        {initiateDPD(u, TRUE, in.err), v, w, initiateChildRekey(t, FALSE, in),
         initiateIKERekey(t, in), initiateDPD(t, FALSE, in.err), t}
  BY DEF startExchange, reestablishChild
<1> HIDE DEF c, u
<1>5. /\ Alike(c, v) /\ v.child = c.child /\ v.out = c.out /\ v.status = c.status
      /\ Alike(c, w) /\ w.child = c.child /\ w.out = c.out /\ w.status = c.status
  BY <1>3, ReachesShape DEF Alike, SessionFields
<1>6. Reaches(v, k) /\ Reaches(w, k)
  BY <1>3, <1>5, ReachesShape, ReachesFlags, Zenon
<1> QED BY <1>2, <1>3, <1>4, <1>6, Zenon DEF Reaches

\* housekeeping keeps the invariant.
LEMMA ReachesTick ==
    ASSUME NEW t, NEW k, NEW due, NEW in, Holds(t, k), in.n = k + 1
    PROVE  Reaches(housekeeping(t, due, in), k)
<1> DEFINE u == retransmitOldDelete(expireGrace(detectSuspend(t, due, in.err), due), due)
<1>1. Holds(u, k)
  BY HoldsSuspend, HoldsGrace, HoldsOldDelete
<1> HIDE DEF u
<1>2. \A d : Pending(u) => Holds(retransmitPending(u, d), k)
  BY <1>1, HoldsRetransmit
<1>3. Reaches(startExchange(u, due, in), k)
  BY <1>1, ReachesStart
<1> QED BY <1>2, <1>3 DEF housekeeping, Reaches, u

-----------------------------------------------------------------------------
(* A request of the gateway.                                               *)

\* What an answer leaves alone.
LEMMA AnswerFields ==
    ASSUME NEW t, NEW viaOld, NEW req, NEW body, NEW err, DOMAIN t = SessionFields
    PROVE  LET u == Answer(t, viaOld, req, body, err)
           IN /\ DOMAIN u = SessionFields
              /\ u.ike = t.ike /\ u.messageID = t.messageID /\ u.pending = t.pending
              /\ u.oldIKE = t.oldIKE /\ u.oldIKEDelete = t.oldIKEDelete
              /\ u.child = t.child /\ u.status = t.status
              /\ err = "ack" => u = t
              /\ err # "ack" => u.out = t.out \cup {Response(req, body)}
BY DEF SessionFields, Answer, Send, recordPeerResponse

\* An answer without an SA is harmless.
LEMMA HoldsAnswer ==
    ASSUME NEW t, NEW k, NEW viaOld, NEW req, NEW body, NEW err,
           Holds(t, k), Answerable(t, viaOld, req), body.t \notin {"ike", "child"}
    PROVE  Holds(Answer(t, viaOld, req, body, err), k)
<1> DEFINE u == Answer(t, viaOld, req, body, err)
<1>1. Mid(u, k)
  BY HoldsShape, AnswerMid DEF Holds
<1>2. u.child = t.child /\ u.status = t.status /\ t.out \subseteq u.out
  BY HoldsShape, AnswerFields
<1>3. Wire(t) \subseteq Wire(u)
  BY <1>2 DEF Wire
<1> QED BY <1>1, <1>2, <1>3, PedigreeGrows DEF Holds

\* Also after the nonce of the step was used.
LEMMA ReachesAnswer ==
    ASSUME NEW t, NEW k, NEW viaOld, NEW req, NEW body, NEW err,
           Reaches(t, k), Answerable(t, viaOld, req), body.t \notin {"ike", "child"}
    PROVE  Reaches(Answer(t, viaOld, req, body, err), k)
<1>1. Spends(t, k + 1) => Spends(Answer(t, viaOld, req, body, err), k + 1)
  BY ReachesShape, AnswerFields DEF Spends
<1> QED BY <1>1, HoldsAnswer DEF Reaches

\* initiateChildRekey leaves the answers alone.
LEMMA ChildRekeyFields ==
    ASSUME NEW t, NEW reest, NEW in, DOMAIN t = SessionFields
    PROVE  LET u == initiateChildRekey(t, reest, in)
           IN /\ DOMAIN u = SessionFields
              /\ u.ike = t.ike /\ u.peer = t.peer /\ u.oldIKE = t.oldIKE /\ u.oldPeer = t.oldPeer
              /\ u.status = t.status
BY BeginFields DEF initiateChildRekey

\* handleInboundChildDelete.
LEMMA ReachesInboundDelete ==
    ASSUME NEW t, NEW k, NEW spi, NEW in, Holds(t, k), in.n = k + 1
    PROVE  LET u == handleInboundChildDelete(t, spi, in)
           IN /\ Reaches(u, k)
              /\ u.ike = t.ike /\ u.peer = t.peer /\ u.oldIKE = t.oldIKE /\ u.oldPeer = t.oldPeer
              /\ u.status = t.status
<1> DEFINE c == initiateChildRekey(t, TRUE, in)
           u == [t EXCEPT !.childReestablish = TRUE]
           v == [c EXCEPT !.childReestablish = TRUE]
           w == [c EXCEPT !.childReestablish = FALSE, !.throttled = FALSE]
<1>1. Alike(t, u) /\ u.child = t.child /\ u.out = t.out /\ u.status = t.status
  BY HoldsShape DEF Alike, SessionFields
<1>2. Reaches(t, k) /\ Reaches(u, k)
  BY <1>1, HoldsFlags, Zenon DEF Holds, Reaches
<1>3. Reaches(c, k)
  BY ReachesChildRekey, Zenon
<1>4. /\ c.ike = t.ike /\ c.peer = t.peer /\ c.oldIKE = t.oldIKE /\ c.oldPeer = t.oldPeer
      /\ c.status = t.status
  <2>1. DOMAIN t = SessionFields
    BY HoldsShape
  <2> DEFINE yes == TRUE  d == initiateChildRekey(t, yes, in)
  <2> HIDE DEF yes
  <2>2. /\ d.ike = t.ike /\ d.peer = t.peer /\ d.oldIKE = t.oldIKE /\ d.oldPeer = t.oldPeer
        /\ d.status = t.status
    BY <2>1, ChildRekeyFields
  <2> QED BY <2>2 DEF yes
<1>5. handleInboundChildDelete(t, spi, in) \in {t, u, v, w}
  BY DEF handleInboundChildDelete
<1> HIDE DEF c, u
<1>6. /\ Alike(c, v) /\ v.child = c.child /\ v.out = c.out /\ v.status = c.status
      /\ Alike(c, w) /\ w.child = c.child /\ w.out = c.out /\ w.status = c.status
  BY <1>3, ReachesShape DEF Alike, SessionFields
<1>7. Reaches(v, k) /\ Reaches(w, k)
  BY <1>3, <1>6, ReachesShape, ReachesFlags, Zenon
<1>8. /\ u.ike = t.ike /\ u.peer = t.peer /\ u.oldIKE = t.oldIKE /\ u.oldPeer = t.oldPeer
      /\ v.ike = t.ike /\ v.peer = t.peer /\ v.oldIKE = t.oldIKE /\ v.oldPeer = t.oldPeer
      /\ w.ike = t.ike /\ w.peer = t.peer /\ w.oldIKE = t.oldIKE /\ w.oldPeer = t.oldPeer
      /\ u.status = t.status /\ v.status = t.status /\ w.status = t.status
  BY <1>1, <1>4, <1>6 DEF Alike
<1> HIDE DEF v, w
<1> QED BY <1>2, <1>5, <1>7, <1>8

\* handleInformationalRequest.
LEMMA ReachesInformational ==
    ASSUME NEW t, NEW k, NEW viaOld, NEW req, NEW in,
           Holds(t, k), Answerable(t, viaOld, req), in.n = k + 1
    PROVE  Reaches(handleInformationalRequest(t, viaOld, req, in), k)
<1> DEFINE v == IF req.body.t = "delESP"
                THEN handleInboundChildDelete(t, req.body.spi, in) ELSE t
           u == Answer(v, viaOld, req, Empty, in.err)
           w == [u EXCEPT !.status = "dead"]
<1>1. /\ Reaches(v, k)
      /\ v.ike = t.ike /\ v.peer = t.peer /\ v.oldIKE = t.oldIKE /\ v.oldPeer = t.oldPeer
  BY ReachesInboundDelete DEF Reaches
<1> HIDE DEF v
<1>2. Answerable(v, viaOld, req)
  BY <1>1 DEF Answerable, IsDuplicate, DedupSlot, HasOld
<1>3. Reaches(u, k)
  BY <1>1, <1>2, ReachesAnswer DEF Empty
<1>4. handleInformationalRequest(t, viaOld, req, in) \in {u, w}
  BY DEF handleInformationalRequest, v
<1> HIDE DEF u
<1>5. Alike(u, w) /\ w.child = u.child /\ w.out = u.out /\ w.status = "dead"
  BY <1>3, ReachesShape DEF Alike, SessionFields
<1>6. Reaches(w, k)
  BY <1>3, <1>5, ReachesFlags, Zenon
<1> QED BY <1>3, <1>4, <1>6

\* handleChildRekeyRequest: what the driver installs has a pedigree.
LEMMA ReachesChildRequest ==
    ASSUME NEW t, NEW k, NEW viaOld, NEW req, NEW in,
           Holds(t, k), Answerable(t, viaOld, req), in.n = k + 1,
           req \in net, Kind(req) = "child"
    PROVE  Reaches(handleChildRekeyRequest(t, viaOld, req, in), k)
<1> DEFINE b == req.body
           new == [in |-> in.spi, out |-> b.spi,
                   key |-> DeriveChildKeys(Sa(req), b.ni, in.n, b.ke)]
           v == [t EXCEPT !.child = new,
                          !.childPFS = @ \/ b.ke # 0,
                          !.childPFSGroup = IF b.ke # 0 THEN b.ke ELSE @]
           body == ChildResponse(in.n, in.spi, b.ke, b.ke)
           u == Answer(v, viaOld, req, body, in.err)
           r == Response(req, body)
<1>1. Reaches(sendNotifyResponse(t, viaOld, req, Refusal(b, in.err), in.err), k)
  <2>1. Notify(Refusal(b, in.err)).t \notin {"ike", "child"}
    BY DEF Notify
  <2> QED BY <2>1, HoldsAnswer DEF sendNotifyResponse, Reaches
<1>2. ASSUME in.err # "ack" PROVE Reaches(u, k)
  <2>1. Alike(t, v) /\ v.child = new /\ v.out = t.out \cup {} /\ v.status = t.status
    BY HoldsShape DEF Alike, SessionFields
  <2>2. /\ Second(new.key) = k + 1 /\ body.t = "child" /\ body.nr = k + 1
        /\ body.spi = in.spi /\ body.ke = b.ke
    BY DEF DeriveChildKeys, ChildResponse, Second
  <2>3. Mid(v, k)
    <3> DEFINE X == {}
    <3>1. v.out = t.out \cup X /\ \A m \in X : FALSE
      BY <2>1
    <3> HIDE DEF X, v
    <3> QED BY <2>1, <3>1, AlikeMid DEF Holds
  <2> HIDE DEF v, body
  <2>4. Answerable(v, viaOld, req)
    BY <2>1 DEF Alike, Answerable, IsDuplicate, DedupSlot, HasOld
  <2>5. k \in Nat
    BY HoldsShape
  <2>6. Mid(u, k + 1)
    <3>1. k + 1 \in Nat /\ k + 1 >= k /\ k + 1 \in 0 .. k + 1
      BY <2>5
    <3> QED BY <2>2, <2>3, <2>4, <3>1, AnswerMid
  <2>7. u.child = new /\ u.status = t.status /\ u.out = v.out \cup {r}
    BY <1>2, <2>1, AnswerFields DEF Alike
  <2>8. /\ r \in Wire(u) /\ req \in Wire(u) /\ From(r) = "client" /\ r.body = body
        /\ Answers(r, req)
    BY <2>7 DEF Wire, Response, Message, Answers, Answerable, From, Resp, Sa, Id, Ex
  <2>a. /\ Kind(r) = "child" /\ Nr(r) = in.n /\ Spi(r) = in.spi /\ Ke(r) = b.ke
        /\ Ni(req) = b.ni /\ Spi(req) = b.spi
    BY <2>2, <2>8 DEF Kind, Ni, Nr, Ke, Spi
  <2>9. Pedigree(u.child, Wire(u))
    BY <2>7, <2>8, <2>a, PedigreeOfAnswer DEF Answerable
  <2>10. Spends(u, k + 1)
    BY <2>2, <2>7 DEF Spends, First, Second
  <2> QED BY <2>6, <2>7, <2>9, <2>10 DEF Reaches, Holds
<1>3. \/ handleChildRekeyRequest(t, viaOld, req, in) \in
            {sendNotifyResponse(t, viaOld, req, Refusal(b, in.err), in.err), t}
      \/ handleChildRekeyRequest(t, viaOld, req, in) = u /\ in.err # "ack"
  BY DEF handleChildRekeyRequest, From, Resp, Sa, Id, Ex
<1> QED BY <1>1, <1>2, <1>3 DEF Reaches

\* A request under the current SA that was not answered yet is one the gateway
\* still waits on.
LEMMA StillWaiting ==
    ASSUME SessionInv, Up, NEW req \in net, Answerable(s, FALSE, req)
    PROVE  Waiting(gw, req)
<1>1. ClientSide(s, net, fresh) /\ Windows(gw, net, fresh)
  BY DEF SessionInv, Good, GatewaySide
<1>2. ~\E r \in net : From(r) = "client" /\ Answers(r, req)
  <2> DEFINE viaOld == FALSE
  <2>1. Answerable(s, viaOld, req)
    OBVIOUS
  <2> HIDE DEF viaOld
  <2>2. \A m \in net : From(m) = "client" /\ Resp(m) /\ Sa(m) = Sa(req) => Id(m) \in Nat /\ Id(m) < Id(req)
    BY <1>1, <2>1, LaterRequest DEF ClientSide
  <2>3. \A r \in net : Answers(r, req) => Resp(r) /\ Sa(r) = Sa(req) /\ Id(r) = Id(req)
    BY DEF Answers, Resp, Sa, Id
  <2> QED BY <2>2, <2>3 DEF Answerable
<1>3. ~\E m \in net : From(m) = "client" /\ ~Resp(m) /\ Kind(m) = "delIKE" /\ Sa(m) = Sa(req)
  BY <1>1 DEF ClientSide, Goodbyes, Answerable, Up
<1> QED BY <1>1, <1>2, <1>3 DEF Windows, WindowOf, Done, Answerable

\* The invariant at the start of a step of the client.
LEMMA StepHolds ==
    ASSUME SessionInv, Up
    PROVE  Holds(s, fresh) /\ Wire(s) = net
<1>1. Wire(s) = net
  BY DEF SessionInv, Wire
<1> QED BY <1>1 DEF SessionInv, Good, Holds, Mid, Up

\* handleIKERekeyRequest: the new IKE SA is one the gateway will derive.
LEMMA ReachesIKERequest ==
    ASSUME SessionInv, Up, NEW req \in net, NEW in,
           Answerable(s, FALSE, req), in.n = fresh + 1, Kind(req) = "ike"
    PROVE  Reaches(handleIKERekeyRequest(s, req, in), fresh)
<1> DEFINE b == req.body
           new == DeriveRekeyIKE(Sa(req), b.ni, in.n, b.ke)
           v == Answer(s, FALSE, req, IKEResponse(in.n, b.ke), in.err)
           u == [swapIKE(v, new) EXCEPT !.ikeDHGroup = b.ke]
<1>0. Holds(s, fresh)
  BY StepHolds
<1>1. \A why, err : Reaches(sendNotifyResponse(s, FALSE, req, why, err), fresh)
  <2>1. \A why : Notify(why).t \notin {"ike", "child"}
    BY DEF Notify
  <2> QED BY <1>0, <2>1, HoldsAnswer, Zenon DEF sendNotifyResponse, Reaches
<1>2. ASSUME in.err # "ack" PROVE Reaches(u, fresh)
  <2>1. Waiting(gw, req)
    BY StillWaiting, Zenon
  <2>2. b.ni \in 0..fresh
    BY DEF SessionInv, Good, ClientSide, Drawn, Keyed, Nonce, Answerable, Kind, Ni
  <2>3. Mid(u, fresh + 1)
    BY <1>0, <1>2, <2>1, <2>2, TakeoverMid, Zenon DEF Holds, Up, Ni
  <2>4. /\ DOMAIN v = SessionFields /\ v.child = s.child /\ v.status = s.status
        /\ v.out = s.out \cup {Response(req, IKEResponse(in.n, b.ke))}
    <3>1. DOMAIN s = SessionFields
      BY <1>0, HoldsShape
    <3> DEFINE viaOld == FALSE
               w == Answer(s, viaOld, req, IKEResponse(in.n, b.ke), in.err)
    <3> HIDE DEF viaOld
    <3>2. /\ DOMAIN w = SessionFields /\ w.child = s.child /\ w.status = s.status
          /\ w.out = s.out \cup {Response(req, IKEResponse(in.n, b.ke))}
      BY <1>2, <3>1, AnswerFields
    <3> QED BY <3>2, Zenon DEF viaOld
  <2>5. Second(new) = fresh + 1
    BY DEF DeriveRekeyIKE, Second
  <2> HIDE DEF v, new
  <2>6. u.child = s.child /\ u.status = s.status /\ s.out \subseteq u.out /\ u.ike = new
    BY <2>4 DEF swapIKE, SessionFields
  <2> HIDE DEF u
  <2>7. Wire(s) \subseteq Wire(u)
    BY <2>6 DEF Wire
  <2>8. Pedigree(u.child, Wire(u))
    BY <1>0, <2>6, <2>7, PedigreeGrows DEF Holds
  <2> QED BY <2>3, <2>5, <2>6, <2>8 DEF Reaches, Holds, Spends, Up, Second
<1>3. \/ \E why, err : handleIKERekeyRequest(s, req, in) = sendNotifyResponse(s, FALSE, req, why, err)
      \/ handleIKERekeyRequest(s, req, in) = u /\ in.err # "ack"
  BY Zenon DEF handleIKERekeyRequest, From, Resp, Sa, Id, Ex
<1> QED BY <1>1, <1>2, <1>3, Zenon

\* handleRequest: a request that was answered before is answered from its slot.
LEMMA ReachesRequest ==
    ASSUME SessionInv, Up, NEW req \in net, NEW in,
           From(req) = "gw", ~Resp(req), CanDecode(s, req), in.n = fresh + 1
    PROVE  Reaches(handleRequest(s, ViaOld(s, req), req, in), fresh)
<1> DEFINE viaOld == ViaOld(s, req)
<1>0. Holds(s, fresh) /\ Wire(s) = net
  BY StepHolds
<1>1. /\ Id(req) \in Nat /\ Ex(req) \in {"INFO", "CCSA"} /\ viaOld \in BOOLEAN
      /\ Sa(req) = (IF viaOld THEN s.oldIKE ELSE s.ike) /\ (viaOld => HasOld(s))
      /\ Ex(req) = "CCSA" => Kind(req) \in {"child", "ike"}
  BY DEF SessionInv, Good, ClientSide, Drawn, CanDecode, ViaOld, OpenSK, GatewaySide, Windows,
     WindowOf, Keyed, From, Resp, Sa, Id, Ex
<1> HIDE DEF viaOld
<1>2. CASE IsDuplicate(s, viaOld, Id(req))
  <2> DEFINE d == DedupSlot(s, viaOld)  X == {d.resp}  u == Send(s, d.resp)
  <2>1. d.resp \in Wire(s) /\ From(d.resp) = "client"
    BY <1>0, <1>1, <1>2 DEF SessionInv, Good, ClientSide, Answered, Slot, IsDuplicate, DedupSlot
  <2>2. Alike(s, u) /\ u.child = s.child /\ u.status = s.status /\ u.out = s.out \cup X
    BY <1>0, HoldsShape DEF Alike, Send, SessionFields
  <2>3. \A m \in X : m \in Wire(s) /\ From(m) = "client"
    BY <2>1
  <2> HIDE DEF X, u
  <2>4. Holds(u, fresh)
    BY <1>0, <2>2, <2>3, HoldsAlike DEF Holds
  <2> QED BY <1>0, <1>2, <2>4 DEF handleRequest, ResendCached, Reaches, viaOld, u, From, Resp, Sa, Id, Ex
<1>3. CASE ~IsDuplicate(s, viaOld, Id(req))
  <2>1. Answerable(s, viaOld, req)
    BY <1>1, <1>3 DEF Answerable
  <2>2. Reaches(handleInformationalRequest(s, viaOld, req, in), fresh)
    BY <1>0, <2>1, ReachesInformational
  <2>3. Reaches(sendNotifyResponse(s, viaOld, req, "TEMPORARY_FAILURE", in.err), fresh)
    <3>1. Notify("TEMPORARY_FAILURE").t \notin {"ike", "child"}
      BY DEF Notify
    <3> QED BY <1>0, <2>1, <3>1, HoldsAnswer DEF sendNotifyResponse, Reaches
  <2>4. ~viaOld /\ Kind(req) = "ike" => Reaches(handleIKERekeyRequest(s, req, in), fresh)
    <3>1. ~viaOld => viaOld = FALSE
      BY <1>1
    <3> QED BY <2>1, <3>1, ReachesIKERequest, Zenon
  <2>5. Kind(req) = "child" => Reaches(handleChildRekeyRequest(s, viaOld, req, in), fresh)
    BY <1>0, <2>1, ReachesChildRequest
  <2> QED BY <1>1, <1>3, <2>2, <2>3, <2>4, <2>5 DEF handleRequest, viaOld, Kind, From, Resp, Sa, Id, Ex
<1> QED BY <1>2, <1>3 DEF viaOld

-----------------------------------------------------------------------------
(* An answer of the gateway.                                               *)

\* An SA in an answer under the current SA with the Message ID of the pending
\* exchange was granted to that very request.
LEMMA OwnRequest ==
    ASSUME SessionInv, NEW r \in net, From(r) = "gw", Resp(r), Keyed(r),
           Sa(r) = s.ike, Pending(s), Id(s.pending.req) = Id(r)
    PROVE  LET q == s.pending.req
           IN /\ q \in net /\ Answers(r, q) /\ Kind(q) = Kind(r)
              /\ Kind(r) = "ike" =>
                   /\ Ke(r) = Ke(q)
                   /\ Derived(q, r) \in gw.ever
<1>1. ClientSide(s, net, fresh) /\ Granted(gw, net)
  BY DEF SessionInv, Good, GatewaySide
<1>2. PICK q \in net :
        /\ From(q) = "client" /\ Answers(r, q) /\ Kind(q) = Kind(r)
        /\ Kind(r) = "ike" =>
             /\ Ke(r) = Ke(q)
             /\ Derived(q, r) \in gw.ever
  BY <1>1 DEF Granted
<1>3. q \in Asked(s, net) /\ s.pending.req \in Asked(s, net)
  BY <1>1, <1>2 DEF ClientSide, InFlight, Asked, Kept, Pending, Answers, From, Resp, Sa, Id, Ex
<1>4. q = s.pending.req
  BY <1>1, <1>2, <1>3 DEF ClientSide, Numbered, InFlight, Pending, Answers, From, Resp, Sa, Id, Ex
<1> QED BY <1>2, <1>4

\* completeChildRekey.
LEMMA HoldsChildCompletion ==
    ASSUME SessionInv, Up, NEW r \in net, NEW err, From(r) = "gw", Resp(r), Sa(r) = s.ike,
           s.pending.kind = "child", Id(s.pending.req) = Id(r)
    PROVE  Holds(completeChildRekey([s EXCEPT !.pending = NoExchange], r.body, s.pending, err), fresh)
<1> DEFINE p == s.pending
           q == s.pending.req
           b == r.body
           t == [s EXCEPT !.pending = NoExchange]
           new == [in |-> p.newIn, out |-> b.spi,
                   key |-> DeriveChildKeys(t.ike, p.ni, b.nr, b.ke)]
           u == [t EXCEPT !.child = new, !.childReestablish = FALSE, !.throttled = FALSE]
<1>0. Holds(s, fresh) /\ Wire(s) = net
  BY StepHolds
<1>1. /\ DOMAIN t = SessionFields
      /\ t.ike = s.ike /\ t.messageID = s.messageID /\ t.peer = s.peer /\ t.out = s.out
      /\ t.child = s.child /\ t.status = s.status /\ t.pending = NoExchange
      /\ t.oldIKEDelete = s.oldIKEDelete /\ t.oldIKE = s.oldIKE /\ t.oldPeer = s.oldPeer
  BY <1>0, HoldsShape DEF SessionFields
<1> HIDE DEF t
<1>2. Holds(t, fresh)
  BY <1>0, <1>1, HoldsForget DEF Holds
<1>3. ASSUME ChildResponseOK(p, b) PROVE Holds(u, fresh)
  <2>1. /\ Alike(t, u) /\ u.child = new /\ u.status = t.status /\ u.out = t.out
    BY <1>2, HoldsShape DEF Alike, SessionFields
  <2>2. Mid(u, fresh)
    <3> DEFINE X == {}
    <3>1. u.out = t.out \cup X /\ \A m \in X : FALSE
      BY <2>1
    <3> HIDE DEF X, u
    <3> QED BY <1>2, <2>1, <3>1, AlikeMid DEF Holds
  <2>3. q \in net /\ Answers(r, q) /\ Kind(q) = "child" /\ b.t = "child"
    BY <1>3, OwnRequest DEF Keyed, Pending, ChildResponseOK, Kind
  <2>4. /\ From(q) = "client" /\ Sa(q) = s.ike /\ Ni(q) = p.ni /\ Spi(q) = p.newIn
        /\ Ke(q) = p.dh
    BY DEF SessionInv, Good, ClientSide, InFlight
  <2>5. GroupOf(q, r) = b.ke
    BY <1>3, <2>4 DEF GroupOf, ChildResponseOK, Ke
  <2>a. Kind(r) = b.t /\ Nr(r) = b.nr /\ Spi(r) = b.spi
    BY DEF Kind, Nr, Spi
  <2>6. Pedigree(new, net)
    BY <1>1, <2>3, <2>4, <2>5, <2>a, PedigreeOfRequest
  <2>7. Wire(u) = net
    BY <1>0, <1>1, <2>1 DEF Wire
  <2> QED BY <1>1, <2>1, <2>2, <2>6, <2>7 DEF Holds, Up
<1>4. \/ /\ completeChildRekey(t, b, p, err) \in {u, sendChildDelete(u, p.oldIn, err)}
         /\ ChildResponseOK(p, b)
      \/ completeChildRekey(t, b, p, err) = t
  BY DEF completeChildRekey
<1> QED BY <1>2, <1>3, <1>4, HoldsChildDelete DEF t

\* completeIKERekey: the new IKE SA is one the gateway holds.
LEMMA HoldsIKECompletion ==
    ASSUME SessionInv, Up, NEW r \in net, NEW err, From(r) = "gw", Resp(r), Sa(r) = s.ike,
           s.pending.kind = "ike", Id(s.pending.req) = Id(r)
    PROVE  Holds(completeIKERekey([s EXCEPT !.pending = NoExchange], r.body, s.pending, err), fresh)
<1> DEFINE p == s.pending
           q == s.pending.req
           b == r.body
           t == [s EXCEPT !.pending = NoExchange]
           new == DeriveRekeyIKE(s.ike, p.ni, b.nr, b.ke)
           v == sendIKEDeleteUnderCurrent(t, err)
           u == swapIKE(v, new)
<1>0. Holds(s, fresh) /\ Wire(s) = net
  BY StepHolds
<1>1. /\ DOMAIN t = SessionFields
      /\ t.ike = s.ike /\ t.messageID = s.messageID /\ t.peer = s.peer /\ t.out = s.out
      /\ t.child = s.child /\ t.status = s.status /\ t.pending = NoExchange
      /\ t.oldIKEDelete = s.oldIKEDelete /\ t.oldIKE = s.oldIKE /\ t.oldPeer = s.oldPeer
  BY <1>0, HoldsShape DEF SessionFields
<1>2. Holds(t, fresh)
  <2> HIDE DEF t
  <2> QED BY <1>0, <1>1, HoldsForget DEF Holds
<1>3. ASSUME b.t = "ike", b.ke = p.dh PROVE Holds(u, fresh)
  <2>1. /\ Sa(q) = s.ike /\ Ni(q) = p.ni /\ Ke(q) = p.dh
    BY DEF SessionInv, Good, ClientSide, InFlight
  <2>2. new \in gw.ever
    BY <1>3, <2>1, OwnRequest DEF Keyed, Pending, Kind, Derived, Nr, Ke
  <2>3. Old(new, fresh) /\ First(new) = p.ni
    BY <2>2 DEF SessionInv, Good, GatewaySide, Windows, WindowOf, DeriveRekeyIKE, First, Second
  <2>4. Mid(u, fresh)
    BY <1>0, <2>2, <2>3, CutoverMid DEF Holds
  <2>5. DOMAIN v = SessionFields /\ v.child = s.child /\ v.status = s.status /\ s.out \subseteq v.out
    <3> HIDE DEF t
    <3> QED BY <1>1 DEF sendIKEDeleteUnderCurrent, Send, SessionFields
  <2> HIDE DEF v, new
  <2>6. u.child = s.child /\ u.status = s.status /\ s.out \subseteq u.out
    BY <2>5 DEF swapIKE, SessionFields
  <2> HIDE DEF u
  <2>7. Wire(s) \subseteq Wire(u)
    BY <2>6 DEF Wire
  <2> QED BY <1>0, <2>4, <2>6, <2>7, PedigreeGrows DEF Holds
<1>4. \/ completeIKERekey(t, b, p, err) = u /\ b.t = "ike" /\ b.ke = p.dh
      \/ completeIKERekey(t, b, p, err) = t
  <2> HIDE DEF t
  <2> QED BY <1>1 DEF completeIKERekey
<1> QED BY <1>2, <1>3, <1>4

\* handleResponse.
LEMMA HoldsResponse ==
    ASSUME SessionInv, Up, NEW r \in net, NEW err, From(r) = "gw", Resp(r), CanDecode(s, r)
    PROVE  Holds(handleResponse(s, ViaOld(s, r), r, err), fresh)
<1> DEFINE t == [s EXCEPT !.pending = NoExchange]
           u == [s EXCEPT !.oldIKEDelete = NoExchange]
<1>0. Holds(s, fresh)
  BY StepHolds
<1>1. Holds(t, fresh)
  <2>1. /\ DOMAIN t = SessionFields
        /\ t.ike = s.ike /\ t.messageID = s.messageID /\ t.peer = s.peer /\ t.out = s.out
        /\ t.child = s.child /\ t.status = s.status /\ t.pending = NoExchange
        /\ t.oldIKEDelete = s.oldIKEDelete /\ t.oldIKE = s.oldIKE /\ t.oldPeer = s.oldPeer
    BY <1>0, HoldsShape DEF SessionFields
  <2> HIDE DEF t
  <2> QED BY <1>0, <2>1, HoldsForget DEF Holds
<1>2. Holds(u, fresh)
  <2>1. /\ DOMAIN u = SessionFields
        /\ u.ike = s.ike /\ u.messageID = s.messageID /\ u.peer = s.peer /\ u.out = s.out
        /\ u.child = s.child /\ u.status = s.status /\ u.pending = s.pending
        /\ u.oldIKEDelete = NoExchange /\ u.oldIKE = s.oldIKE /\ u.oldPeer = s.oldPeer
    BY <1>0, HoldsShape DEF SessionFields
  <2> HIDE DEF u
  <2> QED BY <1>0, <2>1, HoldsForget DEF Holds
<1>3. Holds(completeMatchingRekey(s, ViaOld(s, r), r, err), fresh)
  <2>1. CASE ViaOld(s, r) \/ s.pending.kind \notin {"child", "ike"} \/ Id(s.pending.req) # Id(r)
    BY <1>0, <2>1 DEF completeMatchingRekey, From, Resp, Sa, Id, Ex
  <2>2. CASE ~ViaOld(s, r) /\ s.pending.kind = "child" /\ Id(s.pending.req) = Id(r)
    <3>1. Sa(r) = s.ike
      BY <2>2 DEF ViaOld, OpenSK, From, Resp, Sa, Id, Ex
    <3> QED BY <2>2, <3>1, HoldsChildCompletion DEF completeMatchingRekey, From, Resp, Sa, Id, Ex
  <2>3. CASE ~ViaOld(s, r) /\ s.pending.kind = "ike" /\ Id(s.pending.req) = Id(r)
    <3>1. Sa(r) = s.ike
      BY <2>3 DEF ViaOld, OpenSK, From, Resp, Sa, Id, Ex
    <3> QED BY <2>3, <3>1, HoldsIKECompletion DEF completeMatchingRekey, From, Resp, Sa, Id, Ex
  <2> QED BY <2>1, <2>2, <2>3
<1>4. Ex(r) \in {"INFO", "CCSA"}
  BY DEF SessionInv, Good, ClientSide, Drawn
<1> HIDE DEF t, u
<1>5. CASE Ex(r) = "CCSA"
  BY <1>3, <1>5 DEF handleResponse, From, Resp, Sa, Id, Ex
<1>6. CASE Ex(r) = "INFO"
  BY <1>0, <1>1, <1>2, <1>6 DEF handleResponse, clearOldIKEDelete, clearPending, t, u, From, Resp,
     Sa, Id, Ex
<1> QED BY <1>4, <1>5, <1>6

\* handleInbound keeps the invariant.
LEMMA ReachesInbound ==
    ASSUME SessionInv, Up, NEW m \in net, NEW in, From(m) = "gw", CanDecode(s, m), in.n = fresh + 1
    PROVE  Reaches(handleInbound(s, m, in), fresh)
<1>1. CASE Resp(m)
  BY <1>1, HoldsResponse DEF handleInbound, Reaches, From, Resp, Sa, Id, Ex
<1>2. CASE ~Resp(m)
  BY <1>2, ReachesRequest DEF handleInbound, From, Resp, Sa, Id, Ex
<1> QED BY <1>1, <1>2

-----------------------------------------------------------------------------
(* A step of the client.                                                   *)

\* Messages of the client change nothing for the gateway.
LEMMA GatewaySideGrows ==
    ASSUME NEW g, NEW M, NEW N, NEW k \in Nat, NEW n \in Nat, k <= n,
           GatewaySide(g, M, k), M \subseteq N, \A m \in N \ M : From(m) = "client"
    PROVE  GatewaySide(g, N, n)
<1>1. Windows(g, N, n)
  <2>1. \A sa : Old(sa, k) => Old(sa, n)
    BY DEF Old
  <2>2. \A q : Done(q, M) => Done(q, N)
    BY DEF Done
  <2>3. \A q \in N : From(q) = "gw" => q \in M
    OBVIOUS
  <2>4. \A sa \in DOMAIN g.win : WindowOf(g, sa, N)
    BY DEF GatewaySide, Windows, WindowOf, Sent
  <2> QED BY <2>1, <2>2, <2>3, <2>4 DEF GatewaySide, Windows
<1>2. GatewayNonces(N)
  BY DEF GatewaySide, GatewayNonces
<1>3. Granted(g, N)
  BY DEF GatewaySide, Granted
<1>4. \A c \in g.kids : Pedigree(c, N)
  BY PedigreeGrows DEF GatewaySide
<1> QED BY <1>1, <1>2, <1>3, <1>4 DEF GatewaySide

\* What a step of the client sends joins the network.
LEMMA Settled ==
    ASSUME SessionInv, NEW t, NEW n \in {fresh, fresh + 1},
           Mid(t, n), Pedigree(t.child, Wire(t)),
           s' = [t EXCEPT !.out = {}], net' = net \cup t.out, gw' = gw, fresh' = n
    PROVE  SessionInv'
<1>1. /\ DOMAIN s' = SessionFields /\ s'.out = {}
      /\ s'.ike = t.ike /\ s'.messageID = t.messageID /\ s'.pending = t.pending
      /\ s'.peer = t.peer /\ s'.oldIKE = t.oldIKE /\ s'.oldPeer = t.oldPeer
      /\ s'.oldIKEDelete = t.oldIKEDelete /\ s'.child = t.child /\ s'.status = t.status
  BY DEF Mid, ClientSide, Shaped, SessionFields
<1>2. net' = Wire(t)
  BY DEF Wire
<1>3. ClientSide(t, net', n) /\ Agreed(t, net', gw) /\ Pedigree(t.child, net')
  BY <1>2 DEF Mid
<1>4. ClientSide(s', net', n)
  <2>1. Shaped(s') /\ Drawn(s', net', n) /\ Novel(s', net') /\ InFlight(s')
    BY <1>1, <1>3 DEF ClientSide, Shaped, Drawn, Novel, InFlight, HasOld
  <2>2. Numbered(s', net') /\ Goodbyes(s', net')
    BY <1>1, <1>3 DEF ClientSide, Numbered, Asked, Kept, Goodbyes
  <2>3. Answered(s', net')
    BY <1>1, <1>3 DEF ClientSide, Answered, HasOld
  <2> QED BY <2>1, <2>2, <2>3 DEF ClientSide
<1>5. Agreed(s', net', gw)
  BY <1>1, <1>3 DEF Agreed
<1>6. GatewaySide(gw, net', n)
  <2>1. fresh \in Nat /\ n \in Nat /\ fresh <= n
    BY DEF SessionInv, Good, ClientSide, Drawn
  <2>2. net \subseteq net' /\ \A m \in net' \ net : From(m) = "client"
    BY DEF Mid
  <2> QED BY <2>1, <2>2, GatewaySideGrows DEF SessionInv, Good
<1>7. Good(s', net', gw', fresh')
  BY <1>1, <1>3, <1>4, <1>5, <1>6 DEF Good
<1> QED BY <1>1, <1>7 DEF SessionInv

\* A step of the client keeps the invariant.
LEMMA ClientStepKeeps ==
    ASSUME SessionInv, NEW t, Reaches(t, fresh), ClientStep(t)
    PROVE  SessionInv'
<1>1. fresh \in Nat
  BY DEF SessionInv, Good, ClientSide, Drawn
<1>2. \/ fresh' = fresh /\ Holds(t, fresh)
      \/ fresh' = fresh + 1 /\ Holds(t, fresh + 1)
  <2>1. Holds(t, fresh) => Holds(t, fresh + 1)
    BY <1>1, LaterNonce DEF Holds
  <2> QED BY <2>1 DEF Reaches, Spends, ClientStep, Draw
<1> QED BY <1>2, Settled DEF ClientStep, Holds

\* So does the goodbye (sendDelete).
LEMMA ShutdownKeeps ==
    ASSUME SessionInv, Shutdown
    PROVE  SessionInv'
<1> DEFINE t == sendGracefulDelete(s)
<1>1. Holds(s, fresh) /\ fresh \in Nat
  BY StepHolds, HoldsShape DEF Shutdown
<1>2. t.child = s.child /\ s.out \subseteq t.out
  BY <1>1, HoldsShape DEF sendGracefulDelete, Send, SessionFields
<1>3. Mid(t, fresh) /\ ClientStep(t)
  BY <1>1, CloseMid DEF Holds, Shutdown
<1> HIDE DEF t
<1>4. Pedigree(t.child, Wire(t))
  BY <1>1, <1>2, PedigreeGrows DEF Holds, Wire
<1>5. Mid(t, fresh + 1)
  BY <1>1, <1>3, LaterNonce
<1> QED BY <1>3, <1>4, <1>5, Settled DEF ClientStep, Draw

-----------------------------------------------------------------------------
(* The pieces the gateway is made of.                                      *)

\* What a step of the gateway keeps until it is over.
Keeps(g, M, k) == Windows(g, M, k) /\ Granted(g, M) /\ Agreed(s, M, g)

\* The requests that are outstanding stay so.
LEMMA KeepsRequests ==
    ASSUME NEW g, NEW h, NEW M, NEW k, Keeps(g, M, k), DOMAIN h = GatewayFields,
           h.ever = g.ever, h.stale = g.stale, DOMAIN h.win = DOMAIN g.win,
           \A sa \in DOMAIN g.win : WindowShape(h.win[sa]) /\ Req(h, sa) = Req(g, sa)
    PROVE  Keeps(h, M, k)
<1>1. \A q : Waiting(h, q) <=> Waiting(g, q)
  BY DEF Waiting
<1>2. Windows(h, M, k)
  BY <1>1 DEF Keeps, Windows, WindowOf
<1>3. Granted(h, M)
  BY DEF Keeps, Granted
<1>4. Agreed(s, M, h)
  BY <1>1 DEF Keeps, Agreed
<1> QED BY <1>2, <1>3, <1>4 DEF Keeps

\* The gateway sends the answer r.
Replies(g, h, req, body, r) ==
    h = Reply(g, req, body) /\ r = Message("gw", Sa(req), Ex(req), TRUE, Id(req), body)

\* An answer leaves windows and keys as they are.
LEMMA KeepsReply ==
    ASSUME NEW g, NEW h, NEW M, NEW k, NEW req \in M, NEW body, NEW r,
           Replies(g, h, req, body, r), Keeps(g, M, k), From(req) = "client", ~Resp(req),
           body.t \in {"child", "ike"} => body.t = Kind(req),
           body.t = "ike" =>
              /\ body.ke = Ke(req)
              /\ DeriveRekeyIKE(Sa(req), Ni(req), body.nr, Ke(req)) \in g.ever
    PROVE  Keeps(h, M \cup {r}, k) /\ h.out = g.out \cup {r} /\ h.kids = g.kids
<1> DEFINE N == M \cup {r}
<1>1. /\ From(r) = "gw" /\ Resp(r) = TRUE /\ Sa(r) = Sa(req) /\ Ex(r) = Ex(req) /\ Id(r) = Id(req)
      /\ r.body = body
  BY DEF Replies, Message, From, Resp, Sa, Id, Ex, Kind
<1>2. /\ DOMAIN h = GatewayFields /\ h.win = g.win /\ h.ever = g.ever /\ h.stale = g.stale
      /\ h.kids = g.kids /\ h.out = g.out \cup {r}
  BY DEF Replies, Keeps, Windows, GatewayFields, Reply, Emit, Sa, Id, Ex
<1>3. Windows(h, N, k)
  <2>1. \A q : (Waiting(h, q) <=> Waiting(g, q)) /\ (Done(q, M) => Done(q, N))
    BY <1>2 DEF Waiting, Done, Req
  <2>2. \A q \in N : ~Resp(q) => q \in M
    BY <1>1
  <2>3. \A sa \in DOMAIN h.win : WindowOf(h, sa, N)
    BY <1>2 DEF Keeps, Windows, WindowOf, Sent, Req
  <2> QED BY <1>2, <2>1, <2>2, <2>3 DEF Keeps, Windows
<1>4. Granted(h, N)
  <2>1. Answers(r, req)
    BY <1>1 DEF Answers, From, Resp, Sa, Id, Ex, Kind
  <2> QED BY <1>1, <1>2, <2>1 DEF Keeps, Granted, Keyed, Kind, Nr, Ke, Derived
<1>5. Agreed(s, N, h)
  BY <1>1, <1>2 DEF Keeps, Agreed, Waiting, Req
<1> QED BY <1>2, <1>3, <1>4, <1>5 DEF Keeps

\* A request of the gateway is over, or its SA is given up.
LEMMA KeepsOver ==
    ASSUME NEW g, NEW h, NEW M, NEW k, NEW sa, Keeps(g, M, k), DOMAIN h = GatewayFields,
           h.ever = g.ever, h.stale = g.stale,
           DOMAIN h.win \subseteq DOMAIN g.win, DOMAIN g.win \ {sa} \subseteq DOMAIN h.win,
           \A x \in DOMAIN h.win \ {sa} : h.win[x] = g.win[x],
           sa \in DOMAIN h.win => WindowShape(h.win[sa]) /\ Req(h, sa) = NoMessage,
           \A q \in M : From(q) = "gw" /\ ~Resp(q) /\ Sa(q) = sa /\ Waiting(g, q) => Done(q, M),
           \/ s.ike \in g.ever
           \/ \A q, r \in M : From(q) = "gw" /\ Sa(q) = sa /\ Kind(q) = "ike" /\ Waiting(g, q) =>
                 \/ \E m \in M : From(m) = "client" /\ ~Resp(m) /\ Kind(m) = "delIKE" /\ Sa(m) = sa
                 \/ ~(From(r) = "client" /\ Kind(r) = "ike" /\ Answers(r, q))
    PROVE  Keeps(h, M, k)
<1>1. /\ \A x \in DOMAIN h.win \ {sa} : Req(h, x) = Req(g, x)
      /\ \A q : Sa(q) # sa => (Waiting(h, q) <=> Waiting(g, q))
  BY DEF Waiting, Req
<1>2. Windows(h, M, k)
  <2>1. \A x \in DOMAIN h.win : WindowOf(h, x, M)
    BY <1>1 DEF Keeps, Windows, WindowOf
  <2> QED BY <1>1, <2>1 DEF Keeps, Windows
<1>3. Granted(h, M)
  BY DEF Keeps, Granted
<1>4. Agreed(s, M, h)
  BY <1>1 DEF Keeps, Agreed
<1> QED BY <1>2, <1>3, <1>4 DEF Keeps

\* A new IKE SA has an empty window.
LEMMA NewWindow ==
    ASSUME NEW g, NEW sa \in g.ever, NEW M, g.win[sa] = Window(0)
    PROVE  WindowOf(g, sa, M)
BY DEF WindowOf, WindowShape, Window, Req

\* A new SA is adopted.
LEMMA KeepsAdopt ==
    ASSUME NEW g, NEW M, NEW k \in Nat, NEW n \in Nat, k <= n, NEW sa, Keeps(g, M, k),
           Old(sa, n), sa \notin g.ever,
           \A x \in DOMAIN g.win : Kind(Req(g, x)) = "ike" => First(sa) # Ni(Req(g, x))
    PROVE  /\ Keeps(Adopt(g, sa), M, n) /\ sa \in Adopt(g, sa).ever
           /\ Adopt(g, sa).kids = g.kids /\ Adopt(g, sa).out = g.out
<1> DEFINE h == Adopt(g, sa)
<1>1. /\ DOMAIN h = GatewayFields /\ h.ever = g.ever \cup {sa} /\ h.stale = g.stale
      /\ h.win = With(g.win, sa, Window(0)) /\ h.kids = g.kids /\ h.out = g.out
  BY DEF Keeps, Windows, WindowOf, GatewayFields, Adopt
<1> HIDE DEF h
<1>2. sa \notin DOMAIN g.win
  BY DEF Keeps, Windows, WindowOf
<1>3. /\ DOMAIN h.win = DOMAIN g.win \cup {sa} /\ h.win[sa] = Window(0)
      /\ \A x \in DOMAIN g.win : h.win[x] = g.win[x]
  BY <1>1, <1>2 DEF With
<1>5. /\ \A x \in DOMAIN g.win : Req(h, x) = Req(g, x)
      /\ \A q : Waiting(g, q) => Waiting(h, q)
  BY <1>2, <1>3 DEF Waiting, Req
<1>6. \A x : Old(x, k) => Old(x, n)
  BY DEF Old
<1>7. Windows(h, M, n)
  <2>1. \A x \in DOMAIN g.win : WindowOf(h, x, M)
    BY <1>1, <1>3, <1>5 DEF Keeps, Windows, WindowOf, Sent
  <2>2. WindowOf(h, sa, M)
    BY <1>1, <1>3, NewWindow
  <2> QED BY <1>1, <1>3, <1>5, <1>6, <2>1, <2>2 DEF Keeps, Windows
<1>8. Granted(h, M)
  BY <1>1 DEF Keeps, Granted
<1>9. Agreed(s, M, h)
  BY <1>1, <1>5 DEF Keeps, Agreed
<1> QED BY <1>1, <1>7, <1>8, <1>9 DEF Keeps, h

\* At most one message, with the nonce that the step was offered.
Emitted(X) ==
    /\ \A m \in X : /\ From(m) = "gw" /\ Id(m) \in Nat /\ Ex(m) \in {"INFO", "CCSA"}
                    /\ Old(Sa(m), fresh)
                    /\ Keyed(m) => Nonce(m) = fresh + 1
                    /\ Kind(m) = "child" => Spi(m) = fresh + 1
    /\ \A m1, m2 \in X : m1 = m2

\* What a step of the gateway sends joins the network.
LEMMA GatewaySettled ==
    ASSUME SessionInv, NEW h, GatewayStep(h), Emitted(h.out),
           Keeps(h, net \cup h.out, fresh'), \A c \in h.kids : Pedigree(c, net \cup h.out)
    PROVE  SessionInv'
<1> DEFINE N == net \cup h.out
<1>1. /\ s' = s /\ net' = N /\ gw' = [h EXCEPT !.out = {}]
      /\ fresh' = IF \E m \in h.out : Keyed(m) THEN fresh + 1 ELSE fresh
  BY DEF GatewayStep, Draw, Keyed, Kind
<1>2. ClientSide(s, net, fresh) /\ GatewayNonces(net) /\ Pedigree(s.child, net) /\ s.out = {}
  BY DEF SessionInv, Good, GatewaySide
<1>3. fresh \in Nat /\ fresh >= 2 /\ fresh' \in {fresh, fresh + 1}
  BY <1>1, <1>2 DEF ClientSide, Drawn
<1>4. \A sa : Old(sa, fresh) => Old(sa, fresh')
  BY <1>3 DEF Old
<1>5. \A m \in h.out : Keyed(m) => Nonce(m) \in 0..fresh'
  BY <1>1, <1>3 DEF Emitted
<1> HIDE DEF N
<1>6. ClientSide(s, N, fresh')
  <2>1. \A m \in N : m \in net \/ (m \in h.out /\ From(m) = "gw")
    BY DEF N, Emitted
  <2>2. Drawn(s, N, fresh')
    <3>1. s.pending.ni \in 0..fresh' /\ \A m \in net : Keyed(m) => Nonce(m) \in 0..fresh'
      BY <1>2, <1>3 DEF ClientSide, Drawn
    <3> QED BY <1>2, <1>3, <1>4, <1>5, <2>1, <3>1 DEF ClientSide, Drawn, Emitted
  <2>3. Novel(s, N) /\ Goodbyes(s, N)
    BY <1>2, <2>1 DEF ClientSide, Novel, Goodbyes
  <2>4. Asked(s, N) = Asked(s, net)
    BY <2>1 DEF Asked, Kept, N
  <2>5. Numbered(s, N)
    BY <1>2, <2>4 DEF ClientSide, Numbered
  <2>6. Answered(s, N)
    BY <1>2, <2>1, AnsweredGrows DEF ClientSide, N
  <2> QED BY <1>2, <2>2, <2>3, <2>5, <2>6 DEF ClientSide
<1>7. GatewayNonces(N)
  <2>1. \A m \in net : Keyed(m) => Nonce(m) \in 0..fresh
    BY <1>2 DEF ClientSide, Drawn
  <2> QED BY <1>2, <1>3, <2>1 DEF GatewayNonces, Emitted, Keyed, N
<1>8. /\ DOMAIN gw' = GatewayFields /\ gw'.win = h.win /\ gw'.ever = h.ever
      /\ gw'.stale = h.stale /\ gw'.kids = h.kids /\ gw'.out = {}
  BY <1>1 DEF Keeps, Windows, GatewayFields
<1>9. Keeps(gw', N, fresh')
  <2>1. Keeps(h, N, fresh')
    BY DEF N
  <2>2. \A sa \in DOMAIN h.win : WindowShape(gw'.win[sa]) /\ Req(gw', sa) = Req(h, sa)
    BY <1>8, <2>1 DEF Keeps, Windows, WindowOf, Req
  <2> QED BY <1>8, <2>1, <2>2, KeepsRequests
<1>10. Pedigree(s.child, N)
  BY <1>2, PedigreeGrows DEF N
<1>11. \A c \in gw'.kids : Pedigree(c, N)
  BY <1>8 DEF N
<1>12. Good(s', net', gw', fresh')
  BY <1>1, <1>6, <1>7, <1>9, <1>10, <1>11 DEF Good, GatewaySide, Keeps
<1> QED BY <1>1, <1>2, <1>8, <1>12 DEF SessionInv

\* The gateway stops.
LEMMA VanishKeeps ==
    ASSUME SessionInv, GatewayVanishes
    PROVE  SessionInv'
<1> DEFINE h == [gw EXCEPT !.alive = FALSE]
<1>0. GatewaySide(gw, net, fresh) /\ Agreed(s, net, gw) /\ gw.out = {}
  BY DEF SessionInv, Good
<1>1. /\ DOMAIN h = GatewayFields /\ h.win = gw.win /\ h.ever = gw.ever
      /\ h.stale = gw.stale /\ h.kids = gw.kids /\ h.out = {}
  BY <1>0 DEF GatewaySide, Windows, GatewayFields
<1>2. GatewayStep(h)
  BY DEF GatewayVanishes
<1> HIDE DEF h
<1>3. fresh' = fresh
  BY <1>1, <1>2 DEF GatewayStep, Draw
<1>4. Keeps(gw, net, fresh)
  BY <1>0 DEF Keeps, GatewaySide
<1>5. \A sa \in DOMAIN gw.win : WindowShape(h.win[sa]) /\ Req(h, sa) = Req(gw, sa)
  BY <1>0, <1>1 DEF GatewaySide, Windows, WindowOf, Req
<1>6. Keeps(h, net, fresh)
  BY <1>1, <1>4, <1>5, KeepsRequests
<1>7. net \cup h.out = net
  BY <1>1
<1>8. Emitted(h.out)
  BY <1>1 DEF Emitted
<1> QED BY <1>0, <1>1, <1>2, <1>3, <1>6, <1>7, <1>8, GatewaySettled DEF GatewaySide

-----------------------------------------------------------------------------
(* An answer of the client.                                                *)

\* The answer that concludes a request of the gateway is the only one it has.
LEMMA ConcludedRequest ==
    ASSUME SessionInv, NEW r \in net, From(r) = "client", CanConclude(gw, r)
    PROVE  LET q == Req(gw, Sa(r))
           IN /\ Sa(r) \in DOMAIN gw.win /\ Resp(r) /\ Answers(r, q)
              /\ q \in net /\ From(q) = "gw" /\ ~Resp(q) /\ Sa(q) = Sa(r) /\ q # NoMessage
              /\ WindowOf(gw, Sa(r), net)
              /\ \A p : Sa(p) = Sa(r) /\ Waiting(gw, p) => p = q /\ Done(p, net)
              /\ \A m \in net : From(m) = "client" /\ Answers(m, q) => m = r
<1>1. ClientSide(s, net, fresh) /\ Windows(gw, net, fresh)
  BY DEF SessionInv, Good, GatewaySide
<1> DEFINE q == Req(gw, Sa(r))
<1>2. Sa(r) \in DOMAIN gw.win /\ Resp(r) /\ Answers(r, q) /\ WindowOf(gw, Sa(r), net)
  BY <1>1 DEF CanConclude, Held, Windows, Req, From, Resp, Sa, Id, Ex, Kind
<1>3. q # NoMessage
  BY <1>1, <1>2 DEF ClientSide, Drawn, Answers, NoMessage, Message, From, Resp, Sa, Id, Ex, Kind
<1>4. q \in net /\ From(q) = "gw" /\ ~Resp(q) /\ Sa(q) = Sa(r)
  BY <1>2, <1>3 DEF WindowOf, Sent
<1>5. \A p : Sa(p) = Sa(r) /\ Waiting(gw, p) => p = q /\ Done(p, net)
  BY <1>2 DEF Waiting, Done
<1>6. \A m \in net : From(m) = "client" /\ Answers(m, q) => m = r
  BY <1>1, <1>2 DEF ClientSide, Answered, Answers, From, Resp, Sa, Id, Ex, Kind
<1> QED BY <1>2, <1>3, <1>4, <1>5, <1>6

\* All but the answer that completes a rekey of the IKE SA.
LEMMA ConcludeKeeps ==
    ASSUME SessionInv, NEW r \in net, NEW h, From(r) = "client", CanConclude(gw, r),
           DOMAIN h = GatewayFields, h.ever = gw.ever, h.stale = gw.stale,
           LET q == Req(gw, Sa(r))
           IN /\ ~(Kind(q) = "ike" /\ Kind(r) = "ike")
              /\ h.win \in {[gw.win EXCEPT ![Sa(r)].req = NoMessage],
                            Drop([gw.win EXCEPT ![Sa(r)].req = NoMessage], Sa(r))}
    PROVE  Keeps(h, net, fresh)
<1> DEFINE q == Req(gw, Sa(r))
           w == [gw.win EXCEPT ![Sa(r)].req = NoMessage]
<1>1. /\ Sa(r) \in DOMAIN gw.win /\ WindowShape(gw.win[Sa(r)])
      /\ \A p : Sa(p) = Sa(r) /\ Waiting(gw, p) => p = q /\ Done(p, net)
      /\ \A m \in net : From(m) = "client" /\ Answers(m, q) => m = r
  BY ConcludedRequest DEF WindowOf
<1>2. /\ DOMAIN w = DOMAIN gw.win /\ \A x \in DOMAIN gw.win \ {Sa(r)} : w[x] = gw.win[x]
      /\ WindowShape(w[Sa(r)]) /\ w[Sa(r)].req = NoMessage
  BY <1>1 DEF WindowShape
<1> HIDE DEF w
<1>3. h.win = w \/ h.win = Drop(w, Sa(r))
  BY DEF w
<1>4. /\ DOMAIN h.win \subseteq DOMAIN gw.win /\ DOMAIN gw.win \ {Sa(r)} \subseteq DOMAIN h.win
      /\ \A x \in DOMAIN h.win \ {Sa(r)} : h.win[x] = gw.win[x]
      /\ Sa(r) \in DOMAIN h.win => WindowShape(h.win[Sa(r)]) /\ Req(h, Sa(r)) = NoMessage
  BY <1>2, <1>3 DEF Drop, Req
<1>5. Keeps(gw, net, fresh)
  BY DEF SessionInv, Good, GatewaySide, Keeps
<1>6. \A p \in net : From(p) = "gw" /\ ~Resp(p) /\ Sa(p) = Sa(r) /\ Waiting(gw, p) => Done(p, net)
  BY <1>1
<1>7. \A p, m \in net : From(p) = "gw" /\ Sa(p) = Sa(r) /\ Kind(p) = "ike" /\ Waiting(gw, p) =>
        ~(From(m) = "client" /\ Kind(m) = "ike" /\ Answers(m, p))
  BY <1>1
<1> QED BY <1>4, <1>5, <1>6, <1>7, KeepsOver, Zenon

\* The answer that completes it: the new SA is the one the client has moved to.
Makes(q, r, new) == new = Derived(q, r)
MovesOn(g, h, sa, new) ==
    /\ DOMAIN h = GatewayFields /\ h.ever = g.ever \cup {new} /\ h.stale = g.stale \cup {sa}
    /\ DOMAIN h.win = DOMAIN g.win \cup {new} /\ h.win[new] = Window(0)
    /\ \A x \in DOMAIN g.win \ {sa} : h.win[x] = g.win[x]
    /\ WindowShape(h.win[sa]) /\ Req(h, sa) = NoMessage

\* The IKE SA of a rekey the gateway started is new.
LEMMA NewSA ==
    ASSUME SessionInv, NEW r \in net, NEW q, NEW new, From(r) = "client", CanConclude(gw, r),
           Waiting(gw, q), Sa(q) = Sa(r), Kind(q) = "ike", Kind(r) = "ike", Makes(q, r, new)
    PROVE  /\ q = Req(gw, Sa(r))
           /\ First(new) = Ni(q) /\ Old(new, fresh)
           /\ new \notin gw.ever /\ new \notin DOMAIN gw.win
<1>1. Windows(gw, net, fresh) /\ ClientSide(s, net, fresh)
  BY DEF SessionInv, Good, GatewaySide
<1>2. q = Req(gw, Sa(r))
  BY DEF Waiting
<1>3. Sa(r) \in DOMAIN gw.win /\ Resp(r) /\ q \in net /\ ~Resp(q) /\ q # NoMessage
  BY <1>2, ConcludedRequest
<1>4. First(new) = Ni(q) /\ Second(new) = Nr(r)
  BY DEF DeriveRekeyIKE, Makes, Derived, First, Second
<1>5. Old(new, fresh)
  BY <1>1, <1>3, <1>4 DEF ClientSide, Drawn, Keyed, Nonce, Old
<1>6. \A x \in gw.ever : First(x) # Ni(q)
  BY <1>1, <1>2, <1>3 DEF Windows, WindowOf, Sent
<1>7. \A x \in DOMAIN gw.win : x \in gw.ever
  BY <1>1 DEF Windows, WindowOf
<1> QED BY <1>2, <1>4, <1>5, <1>6, <1>7

\* The gateway moves on to it, as the client did.
LEMMA ConcludeRekeyKeeps ==
    ASSUME SessionInv, NEW r \in net, NEW h, NEW q, NEW new, From(r) = "client", CanConclude(gw, r),
           Waiting(gw, q), Sa(q) = Sa(r), Kind(q) = "ike", Kind(r) = "ike", Makes(q, r, new),
           MovesOn(gw, h, Sa(r), new)
    PROVE  Keeps(h, net, fresh)
<1>0. /\ ClientSide(s, net, fresh) /\ Windows(gw, net, fresh) /\ GatewayNonces(net)
      /\ Granted(gw, net) /\ Agreed(s, net, gw)
  BY DEF SessionInv, Good, GatewaySide
<1>1. /\ Sa(r) \in DOMAIN gw.win /\ Resp(r) /\ q \in net /\ From(q) = "gw" /\ ~Resp(q)
      /\ q # NoMessage /\ WindowOf(gw, Sa(r), net)
      /\ \A p : Sa(p) = Sa(r) /\ Waiting(gw, p) => p = q /\ Done(p, net)
      /\ \A m \in net : From(m) = "client" /\ Answers(m, q) => m = r
  BY NewSA, ConcludedRequest
<1>2. /\ First(new) = Ni(q) /\ Old(new, fresh)
      /\ new \notin gw.ever /\ new \notin DOMAIN gw.win
  BY NewSA
<1>9. \A p : Sa(p) # Sa(r) /\ Waiting(gw, p) => Waiting(h, p)
  BY <1>2 DEF Waiting, MovesOn, Req
<1>10. Windows(h, net, fresh)
  <2>1. WindowOf(h, new, net)
    BY NewWindow DEF MovesOn
  <2>2. WindowOf(h, Sa(r), net)
    BY <1>1 DEF WindowOf, MovesOn
  <2>3. \A x \in DOMAIN gw.win \ {Sa(r)} : WindowOf(h, x, net)
    <3> SUFFICES ASSUME NEW x \in DOMAIN gw.win \ {Sa(r)} PROVE WindowOf(h, x, net)
      OBVIOUS
    <3>1. WindowOf(gw, x, net) /\ h.win[x] = gw.win[x] /\ Req(h, x) = Req(gw, x)
      BY <1>0 DEF Windows, MovesOn, Req
    <3> DEFINE p == Req(gw, x)
    <3>2. p # NoMessage /\ Kind(p) = "ike" => Ni(p) # Ni(q)
      <4> SUFFICES ASSUME p # NoMessage, Kind(p) = "ike", Ni(p) = Ni(q) PROVE FALSE
        OBVIOUS
      <4>1. p \in net /\ From(p) = "gw" /\ ~Resp(p) /\ Sa(p) = x
        BY <3>1 DEF WindowOf, Sent
      <4>2. Keyed(p) /\ Keyed(q) /\ Nonce(p) = Nonce(q)
        BY <1>1, <4>1 DEF Keyed, Nonce
      <4>3. p = q
        BY <1>0, <1>1, <4>1, <4>2 DEF GatewayNonces
      <4> QED BY <1>1, <4>1, <4>3
    <3> QED BY <1>2, <3>1, <3>2 DEF WindowOf, Sent, MovesOn
  <2>4. \A p \in net : From(p) = "gw" /\ ~Resp(p) => Waiting(h, p) \/ Done(p, net)
    BY <1>0, <1>1, <1>9 DEF Windows
  <2>5. \A sa \in h.stale :
          \E m \in net : From(m) = "client" /\ Resp(m) /\ Kind(m) = "ike" /\ Sa(m) = sa
    BY <1>0, <1>1 DEF Windows, MovesOn
  <2> QED BY <1>0, <1>2, <2>1, <2>2, <2>3, <2>4, <2>5 DEF Windows, MovesOn
<1>11. Granted(h, net)
  BY <1>0 DEF Granted, MovesOn
<1>12. Agreed(s, net, h)
  <2>1. CASE s.ike \in gw.ever
    BY <2>1 DEF Agreed, MovesOn
  <2>2. CASE s.ike \notin gw.ever
    <3>1. PICK m, p \in net :
            /\ From(m) = "client" /\ Resp(m) /\ Kind(m) = "ike"
            /\ From(p) = "gw" /\ Kind(p) = "ike" /\ Answers(m, p) /\ Waiting(gw, p)
            /\ s.ike = Derived(p, m)
            /\ s.oldIKEDelete.kind # "none" => Sa(s.oldIKEDelete.req) # Sa(p)
            /\ \A x \in net : From(x) = "client" /\ ~Resp(x) /\ Kind(x) = "delIKE" => Sa(x) # Sa(p)
      BY <1>0, <2>2 DEF Agreed
    <3>2. CASE Sa(p) = Sa(r)
      <4>1. p = q /\ m = r
        BY <1>1, <3>1, <3>2
      <4> QED BY <3>1, <4>1 DEF Agreed, Makes, MovesOn
    <3>3. CASE Sa(p) # Sa(r)
      BY <1>9, <3>1, <3>3 DEF Agreed
    <3> QED BY <3>2, <3>3
  <2> QED BY <2>1, <2>2
<1> QED BY <1>10, <1>11, <1>12 DEF Keeps

\* A step of the gateway that sends nothing.
LEMMA Quiet ==
    ASSUME SessionInv, NEW h, GatewayStep(h), h.out = {}, Keeps(h, net, fresh),
           \A c \in h.kids : Pedigree(c, net)
    PROVE  SessionInv'
<1>1. fresh' = fresh /\ net \cup h.out = net
  BY DEF GatewayStep, Draw
<1>2. Emitted(h.out)
  BY DEF Emitted
<1> QED BY <1>1, <1>2, GatewaySettled

\* The gateway reads an answer.
LEMMA ConcludesKeeps ==
    ASSUME SessionInv, NEW r \in net, GatewayConcludes(r)
    PROVE  SessionInv'
<1> DEFINE q == Req(gw, Sa(r))  h == Conclude(gw, r)
           w == [gw.win EXCEPT ![Sa(r)].req = NoMessage]
           g == [gw EXCEPT !.win[r.sa].req = NoMessage]
           kid == [in |-> Spi(r), out |-> Spi(q), key |-> DeriveChildKeys(Sa(q), Ni(q), Nr(r), Ke(r))]
           new == Derived(q, r)
<1>1. From(r) = "client" /\ CanConclude(gw, r) /\ GatewayStep(h)
  BY DEF GatewayConcludes, From
<1>2. /\ Sa(r) \in DOMAIN gw.win /\ Answers(r, q) /\ q \in net /\ From(q) = "gw" /\ Sa(q) = Sa(r)
      /\ WindowShape(gw.win[Sa(r)])
  BY <1>1, ConcludedRequest DEF WindowOf
<1>3. /\ DOMAIN gw = GatewayFields /\ gw.out = {} /\ \A c \in gw.kids : Pedigree(c, net)
  BY DEF SessionInv, Good, GatewaySide, Windows
<1>4. /\ DOMAIN g = GatewayFields /\ g.win = w /\ g.ever = gw.ever /\ g.stale = gw.stale
      /\ g.kids = gw.kids /\ g.out = {}
  BY <1>3 DEF GatewayFields, Sa
<1>5. h = CASE Kind(q) = "child" /\ Kind(r) = "child" -> [g EXCEPT !.kids = @ \cup {kid}]
            [] Kind(q) = "ike" /\ Kind(r) = "ike" -> Adopt([g EXCEPT !.stale = @ \cup {r.sa}], new)
            [] Kind(q) = "delIKE" -> [g EXCEPT !.win = Drop(@, r.sa)]
            [] OTHER -> g
  BY <1>2 DEF Conclude, Req, Sa, Kind, Spi, Ni, Nr, Ke, Derived
<1> HIDE DEF g, h, kid, new
<1>6. CASE Kind(q) = "child" /\ Kind(r) = "child"
  <2>1. /\ DOMAIN h = GatewayFields /\ h.win = w /\ h.ever = gw.ever /\ h.stale = gw.stale
        /\ h.kids = gw.kids \cup {kid} /\ h.out = {}
    BY <1>4, <1>5, <1>6 DEF GatewayFields
  <2>2. Pedigree(kid, net)
    BY <1>1, <1>2, <1>6, PedigreeOfAnswer DEF kid
  <2>3. Keeps(h, net, fresh)
    BY <1>1, <1>6, <2>1, ConcludeKeeps
  <2> QED BY <1>1, <1>3, <2>1, <2>2, <2>3, Quiet
<1>7. CASE Kind(q) = "ike" /\ Kind(r) = "ike"
  <2>1. Waiting(gw, q) /\ Makes(q, r, new)
    BY <1>2 DEF Waiting, Makes, new
  <2>2. new \notin DOMAIN gw.win
    BY <1>1, <1>2, <1>7, <2>1, NewSA
  <2>3. /\ DOMAIN h = GatewayFields /\ h.win = With(w, new, Window(0)) /\ h.ever = gw.ever \cup {new}
        /\ h.stale = gw.stale \cup {Sa(r)} /\ h.kids = gw.kids /\ h.out = {}
    BY <1>4, <1>5, <1>7 DEF GatewayFields, Adopt, Sa
  <2>4. /\ DOMAIN w = DOMAIN gw.win /\ \A x \in DOMAIN gw.win \ {Sa(r)} : w[x] = gw.win[x]
        /\ WindowShape(w[Sa(r)]) /\ w[Sa(r)].req = NoMessage
    BY <1>2 DEF WindowShape
  <2> HIDE DEF w
  <2>5. /\ DOMAIN h.win = DOMAIN gw.win \cup {new} /\ h.win[new] = Window(0)
        /\ \A x \in DOMAIN gw.win : h.win[x] = w[x]
    BY <2>2, <2>3, <2>4 DEF With
  <2>6. MovesOn(gw, h, Sa(r), new)
    BY <1>2, <2>3, <2>4, <2>5 DEF MovesOn, Req
  <2>7. Keeps(h, net, fresh)
    BY <1>1, <1>2, <1>7, <2>1, <2>6, ConcludeRekeyKeeps
  <2> QED BY <1>1, <1>3, <2>3, <2>7, Quiet
<1>8. CASE ~(Kind(q) = "child" /\ Kind(r) = "child") /\ ~(Kind(q) = "ike" /\ Kind(r) = "ike")
  <2>1. /\ DOMAIN h = GatewayFields /\ h.win \in {w, Drop(w, Sa(r))} /\ h.ever = gw.ever
        /\ h.stale = gw.stale /\ h.kids = gw.kids /\ h.out = {}
    <3>1. CASE Kind(q) = "delIKE"
      BY <1>4, <1>5, <1>8, <3>1 DEF GatewayFields, Sa
    <3>2. CASE Kind(q) # "delIKE"
      BY <1>4, <1>5, <1>8, <3>2
    <3> QED BY <3>1, <3>2
  <2>2. Keeps(h, net, fresh)
    BY <1>1, <1>8, <2>1, ConcludeKeeps
  <2> QED BY <1>1, <1>3, <2>1, <2>2, Quiet
<1> QED BY <1>6, <1>7, <1>8

-----------------------------------------------------------------------------
(* A request of the client.                                                *)

\* The draw of a nonce is harmless.
LEMMA KeepsLater ==
    ASSUME NEW g, NEW M, NEW k \in Nat, Keeps(g, M, k)
    PROVE  Keeps(g, M, k + 1)
<1>1. \A x : Old(x, k) => Old(x, k + 1)
  BY DEF Old
<1> QED BY <1>1 DEF Keeps, Windows

\* The step is over when the gateway, which is g by then, sends its answer.
LEMMA AnswerSettled ==
    ASSUME SessionInv, NEW req \in net, NEW g, NEW body, From(req) = "client", ~Resp(req),
           g.out = {}, GatewayStep(Reply(g, req, body)),
           Keeps(g, net, IF body.t \in {"child", "ike"} THEN fresh + 1 ELSE fresh),
           body.t \in {"child", "ike"} => body.t = Kind(req) /\ body.nr = fresh + 1,
           body.t = "child" => body.spi = fresh + 1,
           body.t = "ike" =>
              /\ body.ke = Ke(req)
              /\ DeriveRekeyIKE(Sa(req), Ni(req), body.nr, Ke(req)) \in g.ever,
           \A c \in g.kids :
              Pedigree(c, net \cup {Message("gw", Sa(req), Ex(req), TRUE, Id(req), body)})
    PROVE  SessionInv'
<1> DEFINE r == Message("gw", Sa(req), Ex(req), TRUE, Id(req), body)
           h == Reply(g, req, body)
           k == IF body.t \in {"child", "ike"} THEN fresh + 1 ELSE fresh
<1>1. Keeps(h, net \cup {r}, k) /\ h.out = {r} /\ h.kids = g.kids
  <2>1. Keeps(g, net, k)
    OBVIOUS
  <2>2. body.t \in {"child", "ike"} => body.t = Kind(req)
    OBVIOUS
  <2>3. Replies(g, h, req, body, r)
    BY DEF Replies
  <2> HIDE DEF k, h, r
  <2>4. Keeps(h, net \cup {r}, k) /\ h.out = g.out \cup {r} /\ h.kids = g.kids
    BY <2>1, <2>2, <2>3, KeepsReply
  <2> QED BY <2>4
<1>2. /\ From(r) = "gw" /\ Resp(r) = TRUE /\ Sa(r) = Sa(req) /\ Ex(r) = Ex(req) /\ Id(r) = Id(req)
      /\ r.body = body
  BY DEF Message, From, Resp, Sa, Id, Ex, Kind
<1> HIDE DEF r, h
<1>3. fresh' = k
  BY <1>1, <1>2 DEF GatewayStep, Draw, h
<1>4. Id(req) \in Nat /\ Ex(req) \in {"INFO", "CCSA"} /\ Old(Sa(req), fresh)
  BY DEF SessionInv, Good, ClientSide, Drawn
<1>5. Emitted(h.out)
  <2>1. Keyed(r) => Nonce(r) = fresh + 1
    BY <1>2 DEF Keyed, Nonce, Kind, Nr
  <2>2. Kind(r) = "child" => Spi(r) = fresh + 1
    BY <1>2 DEF Kind, Spi
  <2> QED BY <1>1, <1>2, <1>4, <2>1, <2>2 DEF Emitted
<1>6. \A c \in h.kids : Pedigree(c, net \cup h.out)
  BY <1>1 DEF r
<1>7. GatewayStep(h)
  BY DEF h
<1> HIDE DEF k
<1> QED BY <1>1, <1>3, <1>5, <1>6, <1>7, GatewaySettled

\* The gateway g has taken the request req in.
Takes(g, req) ==
    /\ req \in net /\ From(req) = "client" /\ ~Resp(req)
    /\ Keeps(g, net, fresh) /\ g.out = {} /\ g.kids \subseteq gw.kids

\* The gateway answers without an SA.
LEMMA PlainAnswer ==
    ASSUME SessionInv, NEW g, NEW req, NEW body, Takes(g, req),
           body.t \in {"empty", "notify"}, GatewayStep(Reply(g, req, body))
    PROVE  SessionInv'
<1> DEFINE r == Message("gw", Sa(req), Ex(req), TRUE, Id(req), body)
           k == IF body.t \in {"child", "ike"} THEN fresh + 1 ELSE fresh
<1>1. /\ req \in net /\ From(req) = "client" /\ ~Resp(req) /\ g.out = {}
      /\ Keeps(g, net, k) /\ body.t \notin {"child", "ike"} /\ body.t # "child" /\ body.t # "ike"
  BY DEF Takes
<1>2. \A c \in g.kids : Pedigree(c, net)
  BY DEF Takes, SessionInv, Good, GatewaySide
<1> HIDE DEF r
<1>3. \A c \in g.kids : Pedigree(c, net \cup {r})
  BY <1>2, PedigreeGrows
<1> QED BY <1>1, <1>3, AnswerSettled DEF r

\* It grants a Child SA.
LEMMA AcceptChildKeeps ==
    ASSUME SessionInv, NEW g, NEW req, NEW a, Takes(g, req), Kind(req) = "child",
           GatewayStep(AcceptChild(g, req, fresh + 1, a))
    PROVE  SessionInv'
<1> DEFINE body == ChildResponse(fresh + 1, fresh + 1, a.ke, a.sel)
           r == Message("gw", Sa(req), Ex(req), TRUE, Id(req), body)
           dh == IF req.body.ke = 0 THEN 0 ELSE IF a.ke # 0 THEN a.ke ELSE a.sel
           kid == [in |-> req.body.spi, out |-> fresh + 1,
                   key |-> DeriveChildKeys(req.sa, req.body.ni, fresh + 1, dh)]
           h == [g EXCEPT !.kids = @ \cup {kid}, !.newborn = {kid}]
<1>1. /\ req \in net /\ From(req) = "client" /\ ~Resp(req) /\ Keeps(g, net, fresh)
      /\ DOMAIN g = GatewayFields /\ g.out = {} /\ fresh \in Nat
      /\ \A c \in g.kids : Pedigree(c, net)
  BY DEF Takes, Keeps, Windows, SessionInv, Good, GatewaySide, ClientSide, Drawn
<1>2. GatewayStep(Reply(h, req, body))
  BY DEF AcceptChild
<1>3. /\ DOMAIN h = GatewayFields /\ h.win = g.win /\ h.ever = g.ever /\ h.stale = g.stale
      /\ h.kids = g.kids \cup {kid} /\ h.out = {}
  BY <1>1 DEF GatewayFields
<1>4. /\ From(r) = "gw" /\ Answers(r, req) /\ Kind(r) = "child" /\ Spi(r) = fresh + 1
      /\ Nr(r) = fresh + 1 /\ GroupOf(req, r) = dh
  BY <1>1 DEF Message, ChildResponse, Answers, From, Resp, Sa, Id, Ex, Kind, Spi, Nr, Ke, GroupOf
<1>5. body.t = "child" /\ body.nr = fresh + 1 /\ body.spi = fresh + 1
  BY DEF ChildResponse
<1>6. kid = [in |-> Spi(req), out |-> Spi(r),
             key |-> DeriveChildKeys(Sa(req), Ni(req), Nr(r), GroupOf(req, r))]
  BY <1>4 DEF Spi, Sa, Ni
<1> HIDE DEF h, r, kid, body, dh
<1>7. Pedigree(kid, net \cup {r})
  BY <1>1, <1>4, <1>6, PedigreeOfRequest
<1>8. \A c \in h.kids : Pedigree(c, net \cup {r})
  BY <1>1, <1>3, <1>7, PedigreeGrows
<1>9. Keeps(h, net, fresh)
  <2>1. \A sa \in DOMAIN g.win : WindowShape(h.win[sa]) /\ Req(h, sa) = Req(g, sa)
    BY <1>1, <1>3 DEF Keeps, Windows, WindowOf, Req
  <2> QED BY <1>1, <1>3, <2>1, KeepsRequests
<1>10. Keeps(h, net, fresh + 1)
  BY <1>1, <1>9, KeepsLater
<1> QED BY <1>1, <1>2, <1>3, <1>5, <1>8, <1>10, AnswerSettled DEF r

\* It grants an IKE SA.
LEMMA AcceptIKEKeeps ==
    ASSUME SessionInv, NEW g, NEW req, Takes(g, req), Kind(req) = "ike",
           \A x \in DOMAIN g.win : Kind(Req(g, x)) # "ike",
           GatewayStep(AcceptIKE(g, req, fresh + 1))
    PROVE  SessionInv'
<1> DEFINE new == DeriveRekeyIKE(Sa(req), Ni(req), fresh + 1, Ke(req))
           body == IKEResponse(fresh + 1, Ke(req))
           r == Message("gw", Sa(req), Ex(req), TRUE, Id(req), body)
           h == Adopt(g, new)
<1>1. /\ req \in net /\ From(req) = "client" /\ ~Resp(req) /\ Keeps(g, net, fresh) /\ g.out = {}
      /\ \A c \in g.kids : Pedigree(c, net)
  BY DEF Takes, SessionInv, Good, GatewaySide
<1>2. fresh \in Nat /\ Ni(req) \in 0..fresh
  BY <1>1 DEF SessionInv, Good, ClientSide, Drawn, Keyed, Nonce
<1>3. \A x \in g.ever : Old(x, fresh)
  BY <1>1 DEF Keeps, Windows
<1>4. GatewayStep(Reply(h, req, body))
  BY DEF AcceptIKE, Sa, Ni, Ke
<1>5. First(new) = Ni(req) /\ Second(new) = fresh + 1
  BY DEF DeriveRekeyIKE, First, Second
<1>6. body.t = "ike" /\ body.nr = fresh + 1 /\ body.ke = Ke(req)
  BY DEF IKEResponse
<1>7. new = DeriveRekeyIKE(Sa(req), Ni(req), body.nr, Ke(req))
  BY <1>6
<1> HIDE DEF new, body, r
<1>8. Old(new, fresh + 1) /\ new \notin g.ever
  BY <1>2, <1>3, <1>5 DEF Old
<1>9. Keeps(h, net, fresh + 1) /\ new \in h.ever /\ h.kids = g.kids /\ h.out = {}
  <2>1. fresh + 1 \in Nat /\ fresh <= fresh + 1
    BY <1>2
  <2> DEFINE n == fresh + 1
  <2> HIDE DEF n
  <2>2. n \in Nat /\ fresh <= n /\ Old(new, n)
    BY <1>8, <2>1 DEF n
  <2>3. Keeps(h, net, n) /\ new \in h.ever /\ h.kids = g.kids /\ h.out = g.out
    BY <1>1, <1>2, <1>8, <2>2, KeepsAdopt
  <2> QED BY <1>1, <2>3 DEF n
<1> HIDE DEF h
<1>10. \A c \in h.kids : Pedigree(c, net \cup {r})
  BY <1>1, <1>9, PedigreeGrows
<1> QED BY <1>1, <1>4, <1>6, <1>7, <1>9, <1>10, AnswerSettled DEF r

\* The gateway with a request taken in.
LEMMA Received ==
    ASSUME SessionInv, NEW req \in net, From(req) = "client", CanReceive(gw, req), NEW b
    PROVE  LET g == [gw EXCEPT !.win[req.sa].rx = @ + 1, !.newborn = b]
           IN Takes(g, req)
<1> DEFINE g == [gw EXCEPT !.win[req.sa].rx = @ + 1, !.newborn = b]
           w == [gw.win EXCEPT ![Sa(req)].rx = @ + 1]
<1>1. Keeps(gw, net, fresh) /\ DOMAIN gw = GatewayFields /\ gw.out = {}
  BY DEF SessionInv, Good, GatewaySide, Keeps, Windows
<1>2. ~Resp(req) /\ Sa(req) \in DOMAIN gw.win
  BY DEF CanReceive, Held, Resp, Sa
<1>3. \A sa \in DOMAIN gw.win : WindowShape(gw.win[sa])
  BY <1>1 DEF Keeps, Windows, WindowOf
<1>4. /\ DOMAIN g = GatewayFields /\ g.win = w /\ g.ever = gw.ever /\ g.stale = gw.stale
      /\ g.kids = gw.kids /\ g.out = {}
  BY <1>1 DEF GatewayFields, Sa
<1>5. /\ DOMAIN w = DOMAIN gw.win
      /\ \A sa \in DOMAIN gw.win : WindowShape(w[sa]) /\ w[sa].req = gw.win[sa].req
  BY <1>2, <1>3 DEF WindowShape
<1> HIDE DEF g, w
<1>6. \A sa \in DOMAIN gw.win : WindowShape(g.win[sa]) /\ Req(g, sa) = Req(gw, sa)
  BY <1>4, <1>5 DEF Req
<1>7. Keeps(g, net, fresh)
  BY <1>1, <1>4, <1>5, <1>6, KeepsRequests
<1>8. Takes(g, req)
  BY <1>2, <1>4, <1>7 DEF Takes
<1> QED BY <1>8 DEF g

\* What is written in Child SAs and in the count of refusals is no SA's business.
LEMMA TakesKids ==
    ASSUME NEW g, NEW req, Takes(g, req), NEW h, DOMAIN h = GatewayFields,
           h.win = g.win, h.ever = g.ever, h.stale = g.stale, h.out = g.out,
           h.kids \subseteq g.kids
    PROVE  Takes(h, req)
<1>1. \A sa \in DOMAIN g.win : WindowShape(h.win[sa]) /\ Req(h, sa) = Req(g, sa)
  BY DEF Takes, Keeps, Windows, WindowOf, Req
<1>2. Keeps(h, net, fresh)
  BY <1>1, KeepsRequests DEF Takes
<1> QED BY <1>2 DEF Takes

\* It declines.
LEMMA DeclineKeeps ==
    ASSUME SessionInv, NEW g, NEW req, NEW h, Takes(g, req), GatewayStep(h),
           \/ \E why : h = Decline(g, req, why)
           \/ h \in Declined(g, req, E)
    PROVE  SessionInv'
<1>1. CASE \E why : h = Decline(g, req, why)
  <2>1. PICK why : h = Decline(g, req, why)
    BY <1>1
  <2> DEFINE body == Notify(why)
  <2>2. GatewayStep(Reply(g, req, body)) /\ body.t = "notify"
    BY <2>1 DEF Decline, Notify
  <2> HIDE DEF body
  <2> QED BY <2>2, PlainAnswer
<1>2. CASE h \in Declined(g, req, E)
  <2> DEFINE i == [g EXCEPT !.declined = @ + 1]
             body == Notify("TEMPORARY_FAILURE")
  <2>1. GatewayStep(Reply(i, req, body)) /\ body.t = "notify"
    BY <1>2 DEF Declined, Decline, Notify
  <2>2. DOMAIN g = GatewayFields
    BY DEF Takes, Keeps, Windows
  <2>3. /\ DOMAIN i = GatewayFields /\ i.win = g.win /\ i.ever = g.ever /\ i.stale = g.stale
        /\ i.kids = g.kids /\ i.out = g.out
    BY <2>2 DEF GatewayFields
  <2> HIDE DEF i, body
  <2>4. Takes(i, req)
    BY <2>3, TakesKids
  <2> QED BY <2>1, <2>4, PlainAnswer
<1> QED BY <1>1, <1>2

\* The client's DELETE of an IKE SA: whatever the gateway had asked under it is over.
LEMMA TakesDeleteIKE ==
    ASSUME NEW g, NEW req, Takes(g, req), Kind(req) = "delIKE", NEW h, DOMAIN h = GatewayFields,
           h.win = Drop(g.win, Sa(req)), h.ever = g.ever, h.stale = g.stale, h.out = g.out,
           h.kids \subseteq g.kids
    PROVE  Takes(h, req)
<1>1. /\ req \in net /\ From(req) = "client" /\ ~Resp(req) /\ Keeps(g, net, fresh)
  BY DEF Takes
<1>2. /\ DOMAIN h.win \subseteq DOMAIN g.win /\ DOMAIN g.win \ {Sa(req)} \subseteq DOMAIN h.win
      /\ \A x \in DOMAIN h.win \ {Sa(req)} : h.win[x] = g.win[x]
      /\ Sa(req) \notin DOMAIN h.win
  BY DEF Drop
<1>3. \A q \in net : From(q) = "gw" /\ ~Resp(q) /\ Sa(q) = Sa(req) /\ Waiting(g, q) => Done(q, net)
  BY <1>1 DEF Done
<1>4. \A q, r \in net : From(q) = "gw" /\ Sa(q) = Sa(req) /\ Kind(q) = "ike" /\ Waiting(g, q) =>
         \E m \in net : From(m) = "client" /\ ~Resp(m) /\ Kind(m) = "delIKE" /\ Sa(m) = Sa(req)
  BY <1>1
<1>5. Keeps(h, net, fresh)
  BY <1>1, <1>2, <1>3, <1>4, KeepsOver, Zenon
<1> QED BY <1>5 DEF Takes

\* The gateway answers a request.
LEMMA ReceivesKeeps ==
    ASSUME SessionInv, NEW req \in net, GatewayReceives(req)
    PROVE  SessionInv'
<1> DEFINE b == IF req.sa = gw.cur THEN {} ELSE gw.newborn
           g == [gw EXCEPT !.win[req.sa].rx = @ + 1, !.newborn = b]
<1>1. From(req) = "client" /\ CanReceive(gw, req)
  BY DEF GatewayReceives, From
<1>2. PICK h \in Process(g, req, fresh + 1, E) : GatewayStep(h)
  BY DEF GatewayReceives, Receive
<1>3. Takes(g, req)
  <2> HIDE DEF b
  <2> QED BY <1>1, Received
<1> HIDE DEF g
<1>4. DOMAIN g = GatewayFields
  BY <1>3 DEF Takes, Keeps, Windows
<1>5. Empty.t = "empty"
  BY DEF Empty
<1>6. CASE Kind(req) = "empty"
  <2>1. h = Reply(g, req, Empty)
    BY <1>2, <1>6 DEF Process, Kind
  <2> QED BY <1>2, <1>3, <1>5, <2>1, PlainAnswer
<1>7. CASE Kind(req) = "delESP"
  <2> DEFINE i == [g EXCEPT !.kids = {k \in @ : k.in # req.body.spi}]
  <2>1. h = Reply(i, req, Empty)
    BY <1>2, <1>7 DEF Process, Kind
  <2>2. /\ DOMAIN i = GatewayFields /\ i.win = g.win /\ i.ever = g.ever /\ i.stale = g.stale
        /\ i.kids \subseteq g.kids /\ i.out = g.out
    BY <1>4 DEF GatewayFields
  <2> HIDE DEF i
  <2>3. Takes(i, req)
    BY <1>3, <2>2, TakesKids
  <2> QED BY <1>2, <1>5, <2>1, <2>3, PlainAnswer
<1>8. CASE Kind(req) = "delIKE"
  <2> DEFINE i == [g EXCEPT !.win = Drop(@, req.sa), !.kids = IF g.cur = req.sa THEN {} ELSE @]
  <2>1. h = Reply(i, req, Empty)
    BY <1>2, <1>8 DEF Process, Kind
  <2>2. /\ DOMAIN i = GatewayFields /\ i.win = Drop(g.win, Sa(req)) /\ i.ever = g.ever
        /\ i.stale = g.stale /\ i.kids \subseteq g.kids /\ i.out = g.out
    BY <1>4 DEF GatewayFields, Sa
  <2> HIDE DEF i
  <2>3. Takes(i, req)
    BY <1>3, <1>8, <2>2, TakesDeleteIKE
  <2> QED BY <1>2, <1>5, <2>1, <2>3, PlainAnswer
<1>9. CASE Kind(req) = "child"
  <2>1. \/ \E why : h = Decline(g, req, why)
        \/ h \in Declined(g, req, E)
        \/ \E a : h = AcceptChild(g, req, fresh + 1, a)
    BY <1>2, <1>9 DEF Process, Kind
  <2>2. CASE \E a : h = AcceptChild(g, req, fresh + 1, a)
    BY <1>2, <1>3, <1>9, <2>2, AcceptChildKeeps
  <2> QED BY <1>2, <1>3, <2>1, <2>2, DeclineKeeps
<1>10. CASE Kind(req) = "ike"
  <2>1. \/ \E why : h = Decline(g, req, why)
        \/ h \in Declined(g, req, E)
        \/ h = AcceptIKE(g, req, fresh + 1) /\ ~Busy(g, {"child", "delESP", "ike", "delIKE"})
    BY <1>2, <1>10 DEF Process, Kind
  <2>2. CASE h = AcceptIKE(g, req, fresh + 1) /\ ~Busy(g, {"child", "delESP", "ike", "delIKE"})
    <3>1. \A x \in DOMAIN g.win : Kind(Req(g, x)) # "ike"
      BY <2>2 DEF Busy, Outstanding, Held, Kind, Req, NoMessage, Message, Empty
    <3> QED BY <1>2, <1>3, <1>10, <2>2, <3>1, AcceptIKEKeeps
  <2> QED BY <1>2, <1>3, <2>1, <2>2, DeclineKeeps
<1>11. CASE Kind(req) \notin {"empty", "delESP", "delIKE", "child", "ike"}
  <2>1. Process(g, req, fresh + 1, E) = {}
    BY <1>11 DEF Process, Kind
  <2> QED BY <1>2, <2>1
<1> QED BY <1>6, <1>7, <1>8, <1>9, <1>10, <1>11

-----------------------------------------------------------------------------
(* A request of the gateway.                                               *)

Starts(g, h, sa, ex, body, q) ==
    /\ h = Start(g, sa, ex, body)
    /\ q = Message("gw", sa, ex, FALSE, g.win[sa].tx, body)

\* A request leaves the other windows and the keys as they are.
LEMMA KeepsStart ==
    ASSUME NEW g, NEW h, NEW M, NEW k, NEW sa \in DOMAIN g.win, NEW ex, NEW body, NEW q,
           Starts(g, h, sa, ex, body, q), Keeps(g, M, k), Req(g, sa) = NoMessage,
           ex = "CCSA" => body.t \in {"child", "ike"},
           body.t = "ike" => \A x \in g.ever : First(x) # body.ni
    PROVE  Keeps(h, M \cup {q}, k) /\ h.out = g.out \cup {q} /\ h.kids = g.kids
<1> DEFINE w == [g.win EXCEPT ![sa].tx = @ + 1, ![sa].req = q]
           N == M \cup {q}
<1>1. /\ From(q) = "gw" /\ Resp(q) = FALSE /\ Sa(q) = sa /\ Ex(q) = ex /\ q.body = body
  BY DEF Starts, Message, From, Resp, Sa, Ex
<1>2. DOMAIN g = GatewayFields /\ WindowShape(g.win[sa]) /\ sa \in g.ever
  BY DEF Keeps, Windows, WindowOf
<1>3. /\ DOMAIN h = GatewayFields /\ h.win = w /\ h.ever = g.ever /\ h.stale = g.stale
      /\ h.kids = g.kids /\ h.out = g.out \cup {q}
  BY <1>2 DEF Starts, Start, Emit, GatewayFields
<1>4. /\ DOMAIN w = DOMAIN g.win /\ \A x \in DOMAIN g.win \ {sa} : w[x] = g.win[x]
      /\ WindowShape(w[sa]) /\ w[sa].req = q
  BY <1>2 DEF WindowShape
<1> HIDE DEF w
<1>5. Req(h, sa) = q /\ \A x \in DOMAIN g.win \ {sa} : Req(h, x) = Req(g, x)
  BY <1>3, <1>4 DEF Req
<1>6. \A p : Waiting(g, p) /\ From(p) = "gw" => Waiting(h, p)
  <2>1. From(NoMessage) # "gw"
    BY DEF NoMessage, Message, From
  <2> QED BY <1>3, <1>4, <1>5, <2>1 DEF Waiting
<1>7. Waiting(h, q)
  BY <1>1, <1>3, <1>4, <1>5 DEF Waiting
<1>8. \A p : Done(p, M) => Done(p, N)
  BY DEF Done
<1>9. Windows(h, N, k)
  <2>1. \A x \in DOMAIN g.win \ {sa} : WindowOf(h, x, N)
    BY <1>3, <1>4, <1>5 DEF Keeps, Windows, WindowOf, Sent
  <2>2. Sent(q, sa, N, h.ever)
    BY <1>1, <1>3 DEF Sent, Kind, Ni
  <2>3. WindowOf(h, sa, N)
    BY <1>2, <1>3, <1>4, <1>5, <2>2 DEF WindowOf
  <2>4. Ex(q) = "CCSA" => Keyed(q)
    BY <1>1 DEF Keyed, Kind
  <2>5. \A p \in N : From(p) = "gw" /\ ~Resp(p) =>
          (Ex(p) = "CCSA" => Keyed(p)) /\ (Waiting(h, p) \/ Done(p, N))
    BY <1>6, <1>7, <1>8, <2>4 DEF Keeps, Windows
  <2> QED BY <1>3, <1>4, <2>1, <2>3, <2>5 DEF Keeps, Windows
<1>10. Granted(h, N)
  BY <1>1, <1>3 DEF Keeps, Granted
<1>11. Agreed(s, N, h)
  BY <1>1, <1>3, <1>6 DEF Keeps, Agreed
<1> QED BY <1>3, <1>9, <1>10, <1>11 DEF Keeps

\* The gateway g is about to start a request.
Ready(g, sa) ==
    /\ sa \in DOMAIN g.win /\ Req(g, sa) = NoMessage
    /\ Keeps(g, net, fresh) /\ g.out = {} /\ g.kids \subseteq gw.kids

\* A request of the gateway with a fresh nonce keeps the invariant.
LEMMA StartSettled ==
    ASSUME SessionInv, NEW g, NEW sa, NEW ex, NEW body, Ready(g, sa),
           GatewayStep(Start(g, sa, ex, body)),
           \/ ex = "INFO" /\ body.t \notin {"child", "ike"}
           \/ ex = "CCSA" /\ body.t \in {"child", "ike"} /\ body.ni = fresh + 1,
           body.t = "child" => body.spi = fresh + 1
    PROVE  SessionInv'
<1> DEFINE q == Message("gw", sa, ex, FALSE, g.win[sa].tx, body)
           h == Start(g, sa, ex, body)
<1>1. /\ sa \in DOMAIN g.win /\ Req(g, sa) = NoMessage /\ Keeps(g, net, fresh) /\ g.out = {}
      /\ WindowOf(g, sa, net) /\ \A x \in g.ever : Old(x, fresh)
  BY DEF Ready, Keeps, Windows
<1>2. fresh \in Nat
  BY DEF SessionInv, Good, ClientSide, Drawn
<1>3. /\ From(q) = "gw" /\ Resp(q) = FALSE /\ Sa(q) = sa /\ Ex(q) = ex /\ q.body = body
      /\ Id(q) = g.win[sa].tx
  BY DEF Message, From, Resp, Sa, Ex, Id
<1>4. Starts(g, h, sa, ex, body, q) /\ GatewayStep(h)
  BY DEF Starts
<1> HIDE DEF q, h
<1>5. body.t = "ike" => \A x \in g.ever : First(x) # body.ni
  BY <1>1, <1>2 DEF Old
<1>6. Keeps(h, net \cup {q}, fresh) /\ h.out = {q} /\ h.kids = g.kids
  BY <1>1, <1>4, <1>5, KeepsStart
<1>7. fresh' \in {fresh, fresh + 1}
  BY <1>4 DEF GatewayStep, Draw
<1>8. Keeps(h, net \cup h.out, fresh')
  BY <1>2, <1>6, <1>7, KeepsLater
<1>9. Emitted(h.out)
  <2>1. Id(q) \in Nat /\ Old(Sa(q), fresh)
    BY <1>1, <1>3 DEF WindowOf, WindowShape
  <2>2. Keyed(q) => Nonce(q) = fresh + 1
    BY <1>3 DEF Keyed, Nonce, Kind, Ni
  <2>3. Kind(q) = "child" => Spi(q) = fresh + 1
    BY <1>3 DEF Kind, Spi
  <2> QED BY <1>3, <1>6, <2>1, <2>2, <2>3 DEF Emitted
<1>10. \A c \in h.kids : Pedigree(c, net \cup h.out)
  <2>1. \A c \in h.kids : Pedigree(c, net)
    BY <1>6 DEF Ready, SessionInv, Good, GatewaySide
  <2> QED BY <2>1, PedigreeGrows
<1> QED BY <1>4, <1>8, <1>9, <1>10, GatewaySettled

\* The gateway may give up Child SAs as it starts a request.
LEMMA ReadyFewer ==
    ASSUME SessionInv, NEW sa, NEW kind, CanStart(gw, kind, sa, E), NEW kids, kids \subseteq gw.kids
    PROVE  Ready(gw, sa) /\ Ready([gw EXCEPT !.kids = kids], sa)
<1> DEFINE h == [gw EXCEPT !.kids = kids]
<1>1. Keeps(gw, net, fresh) /\ DOMAIN gw = GatewayFields /\ gw.out = {}
  BY DEF SessionInv, Good, GatewaySide, Keeps, Windows
<1>2. sa \in DOMAIN gw.win /\ Req(gw, sa) = NoMessage
  BY DEF CanStart, Held, Req
<1>3. /\ DOMAIN h = GatewayFields /\ h.win = gw.win /\ h.ever = gw.ever /\ h.stale = gw.stale
      /\ h.kids = kids /\ h.out = {}
  BY <1>1 DEF GatewayFields
<1> HIDE DEF h
<1>4. \A x \in DOMAIN gw.win : WindowShape(h.win[x]) /\ Req(h, x) = Req(gw, x)
  BY <1>1, <1>3 DEF Keeps, Windows, WindowOf, Req
<1>5. Keeps(h, net, fresh)
  BY <1>1, <1>3, <1>4, KeepsRequests
<1>6. Ready(gw, sa) /\ Ready(h, sa)
  BY <1>1, <1>2, <1>3, <1>4, <1>5 DEF Ready
<1> QED BY <1>6 DEF h

\* The gateway starts a request.
LEMMA StartsKeeps ==
    ASSUME SessionInv, GatewayStarts
    PROVE  SessionInv'
<1> DEFINE n == fresh + 1
<1>1. PICK h \in Startable(gw, n, E) : GatewayStep(h)
  BY DEF GatewayStarts
<1>2. \/ CanStart(gw, "dpd", gw.cur, E) /\ h = Start(gw, gw.cur, "INFO", Empty)
      \/ /\ CanStart(gw, "child", gw.cur, E)
         /\ \E old, ke, offer : h = Start(gw, gw.cur, "CCSA", ChildRequest(n, n, old, ke, offer))
      \/ /\ CanStart(gw, "delESP", gw.cur, E)
         /\ \E k : h = Start([gw EXCEPT !.kids = @ \ {k}], gw.cur, "INFO", DeleteESP(k.out))
      \/ /\ CanStart(gw, "ike", gw.cur, E)
         /\ \E ke, offer : h = Start(gw, gw.cur, "CCSA", IKERequest(n, ke, offer))
      \/ \E sa : CanStart(gw, "ike", sa, E) /\ h = Start(gw, sa, "INFO", DeleteIKE)
      \/ /\ CanStart(gw, "delIKE", gw.cur, E)
         /\ h = Start([gw EXCEPT !.kids = {}], gw.cur, "INFO", DeleteIKE)
  BY DEF Startable
<1>3. \A sa, kind : CanStart(gw, kind, sa, E) =>
        Ready(gw, sa) /\ \A kids : kids \subseteq gw.kids => Ready([gw EXCEPT !.kids = kids], sa)
  BY ReadyFewer
<1>4. CASE CanStart(gw, "dpd", gw.cur, E) /\ h = Start(gw, gw.cur, "INFO", Empty)
  <2> DEFINE body == Empty
  <2>1. body.t = "empty" /\ GatewayStep(Start(gw, gw.cur, "INFO", body))
    BY <1>1, <1>4 DEF Empty
  <2> HIDE DEF body
  <2> QED BY <1>3, <1>4, <2>1, StartSettled
<1>5. CASE /\ CanStart(gw, "child", gw.cur, E)
           /\ \E old, ke, offer : h = Start(gw, gw.cur, "CCSA", ChildRequest(n, n, old, ke, offer))
  <2>1. PICK old, ke, offer : h = Start(gw, gw.cur, "CCSA", ChildRequest(n, n, old, ke, offer))
    BY <1>5
  <2> DEFINE body == ChildRequest(n, n, old, ke, offer)
  <2>2. /\ body.t = "child" /\ body.ni = fresh + 1 /\ body.spi = fresh + 1
        /\ GatewayStep(Start(gw, gw.cur, "CCSA", body))
    BY <1>1, <2>1 DEF ChildRequest
  <2> HIDE DEF body
  <2> QED BY <1>3, <1>5, <2>2, StartSettled
<1>6. CASE /\ CanStart(gw, "delESP", gw.cur, E)
           /\ \E k : h = Start([gw EXCEPT !.kids = @ \ {k}], gw.cur, "INFO", DeleteESP(k.out))
  <2>1. PICK k : h = Start([gw EXCEPT !.kids = @ \ {k}], gw.cur, "INFO", DeleteESP(k.out))
    BY <1>6
  <2> DEFINE body == DeleteESP(k.out)  g == [gw EXCEPT !.kids = @ \ {k}]
  <2>2. body.t = "delESP" /\ GatewayStep(Start(g, gw.cur, "INFO", body))
    BY <1>1, <2>1 DEF DeleteESP
  <2>3. Ready(g, gw.cur)
    BY <1>3, <1>6
  <2> HIDE DEF body, g
  <2> QED BY <2>2, <2>3, StartSettled
<1>7. CASE /\ CanStart(gw, "ike", gw.cur, E)
           /\ \E ke, offer : h = Start(gw, gw.cur, "CCSA", IKERequest(n, ke, offer))
  <2>1. PICK ke, offer : h = Start(gw, gw.cur, "CCSA", IKERequest(n, ke, offer))
    BY <1>7
  <2> DEFINE body == IKERequest(n, ke, offer)
  <2>2. /\ body.t = "ike" /\ body.ni = fresh + 1 /\ GatewayStep(Start(gw, gw.cur, "CCSA", body))
    BY <1>1, <2>1 DEF IKERequest
  <2> HIDE DEF body
  <2> QED BY <1>3, <1>7, <2>2, StartSettled
<1>8. CASE \E sa : CanStart(gw, "ike", sa, E) /\ h = Start(gw, sa, "INFO", DeleteIKE)
  <2>1. PICK sa : CanStart(gw, "ike", sa, E) /\ h = Start(gw, sa, "INFO", DeleteIKE)
    BY <1>8
  <2> DEFINE body == DeleteIKE
  <2>2. body.t = "delIKE" /\ GatewayStep(Start(gw, sa, "INFO", body))
    BY <1>1, <2>1 DEF DeleteIKE
  <2> HIDE DEF body
  <2> QED BY <1>3, <2>1, <2>2, StartSettled
<1>9. CASE /\ CanStart(gw, "delIKE", gw.cur, E)
           /\ h = Start([gw EXCEPT !.kids = {}], gw.cur, "INFO", DeleteIKE)
  <2> DEFINE body == DeleteIKE  g == [gw EXCEPT !.kids = {}]
  <2>1. body.t = "delIKE" /\ GatewayStep(Start(g, gw.cur, "INFO", body))
    BY <1>1, <1>9 DEF DeleteIKE
  <2>2. Ready(g, gw.cur)
    BY <1>3, <1>9
  <2> HIDE DEF body, g
  <2> QED BY <2>1, <2>2, StartSettled
<1> QED BY <1>2, <1>4, <1>5, <1>6, <1>7, <1>8, <1>9

-----------------------------------------------------------------------------
(* The invariant.                                                          *)

\* The invariant holds at the start.
LEMMA InitKeeps ==
    ASSUME Init
    PROVE  SessionInv
<1> DEFINE sa == FirstIKE(InitialGroup)
<1>1. /\ DOMAIN s = SessionFields /\ s.ike = sa /\ s.messageID = 2 /\ s.pending = NoExchange
      /\ s.peer = NoDedup /\ s.oldIKE = NoIKE /\ s.oldIKEDelete = NoExchange
      /\ s.child = FirstChild(InitialGroup) /\ s.status = "up" /\ s.out = {}
  BY DEF Init, InitialSession, SessionFields
<1>2. /\ DOMAIN gw = GatewayFields /\ gw.win = [x \in {sa} |-> Window(2)] /\ gw.ever = {sa}
      /\ gw.stale = {} /\ gw.kids = {FirstChild(InitialGroup)} /\ gw.out = {}
  BY DEF Init, InitialGateway, GatewayFields
<1>3. net = {} /\ fresh = 2
  BY DEF Init
<1>4. First(sa) = 1 /\ Second(sa) = 2
  BY DEF FirstIKE, First, Second
<1>5. First(NoIKE) = 0 /\ Second(NoIKE) = 0
  BY DEF NoIKE, First, Second
<1>6. /\ DOMAIN NoExchange = ExchangeFields /\ NoExchange.kind = "none" /\ NoExchange.ni = 0
      /\ NoExchange.attempts = 0
      /\ Sa(NoExchange.req) = NoIKE
  BY DEF NoExchange, ExchangeFields, NoMessage, Message, Sa
<1> HIDE DEF sa
<1>7. Old(sa, 2) /\ Old(NoIKE, 2)
  BY <1>4, <1>5 DEF Old
<1>8. ClientSide(s, net, fresh)
  <2>1. Shaped(s) /\ Drawn(s, net, fresh) /\ Novel(s, net) /\ InFlight(s)
    BY <1>1, <1>3, <1>6, <1>7 DEF Shaped, Drawn, Novel, InFlight
  <2>2. Numbered(s, net) /\ Goodbyes(s, net)
    BY <1>1, <1>3, <1>6 DEF Numbered, Asked, Kept, Goodbyes
  <2>3. Answered(s, net)
    BY <1>1, <1>3 DEF Answered, Slot, NoDedup, HasOld
  <2> QED BY <2>1, <2>2, <2>3 DEF ClientSide
<1>9. Windows(gw, net, fresh)
  <2>1. WindowShape(Window(2)) /\ Window(2).req = NoMessage
    BY DEF WindowShape, Window
  <2> QED BY <1>2, <1>3, <1>7, <2>1 DEF Windows, WindowOf, Req
<1>10. GatewayNonces(net) /\ Granted(gw, net)
  BY <1>3 DEF GatewayNonces, Granted
<1>11. Pedigree(FirstChild(InitialGroup), net)
  BY DEF Pedigree
<1>12. Agreed(s, net, gw)
  BY <1>1, <1>2 DEF Agreed
<1> QED BY <1>1, <1>2, <1>8, <1>9, <1>10, <1>11, <1>12 DEF SessionInv, Good, GatewaySide

\* Every step keeps it.
LEMMA NextKeeps ==
    ASSUME SessionInv, [Next]_vars
    PROVE  SessionInv'
<1>1. CASE \E m \in net, in \in Inputs : Inbound(m, in)
  <2>1. PICK m \in net, in \in Inputs : Inbound(m, in)
    BY <1>1
  <2>2. in.n = fresh + 1
    BY DEF Inputs
  <2>3. Reaches(handleInbound(s, m, in), fresh)
    BY <2>1, <2>2, ReachesInbound DEF Inbound, From
  <2> QED BY <2>1, <2>3, ClientStepKeeps DEF Inbound
<1>2. CASE \E due \in SUBSET Relevant, in \in Inputs : Tick(due, in)
  <2>1. PICK due \in SUBSET Relevant, in \in Inputs : Tick(due, in)
    BY <1>2
  <2>2. in.n = fresh + 1
    BY DEF Inputs
  <2>3. Reaches(housekeeping(s, due, in), fresh)
    BY <2>1, <2>2, StepHolds, ReachesTick DEF Tick
  <2> QED BY <2>1, <2>3, ClientStepKeeps DEF Tick
<1>3. CASE UNCHANGED vars
  <2>1. s' = s /\ net' = net /\ gw' = gw /\ fresh' = fresh
    BY <1>3 DEF vars
  <2> QED BY <2>1 DEF SessionInv
<1> QED BY <1>1, <1>2, <1>3, ShutdownKeeps, ReceivesKeeps, ConcludesKeeps, StartsKeeps, VanishKeeps
        DEF Next

\* The invariant holds in every state of every behaviour, whatever the
\* environments are: any sets of gateway requests, groups and offers, and any
\* number of nonces, Message IDs, refusals and local failures.
THEOREM SessionCorrect == Spec => []SessionInv
<1>1. Init => SessionInv
  BY InitKeeps
<1>2. SessionInv /\ [Next]_vars => SessionInv'
  BY NextKeeps
<1> QED BY <1>1, <1>2, PTL DEF Spec

\* Whatever is sent twice under one Message ID of one IKE SA is one datagram:
\* initiate* and the senders of DELETEs draw from s.messageID, and what is
\* retransmitted is kept as it was.
THEOREM OneRequestPerIDHolds == Spec => []OneRequestPerID
<1>1. SessionInv => OneRequestPerID
  BY DEF SessionInv, Good, ClientSide, Numbered, Asked, OneRequestPerID, From, Resp, Sa, Id
<1> QED BY <1>1, SessionCorrect, PTL

\* One request of the gateway has one answer for ever, across the cutovers of
\* the IKE SA (dedupPeerRequest, recordPeerResponse, swapIKE).
THEOREM OneAnswerPerRequestHolds == Spec => []OneAnswerPerRequest
<1>1. SessionInv => OneAnswerPerRequest
  BY DEF SessionInv, Good, ClientSide, Answered, OneAnswerPerRequest, From, Resp, Sa, Id
<1> QED BY <1>1, SessionCorrect, PTL

\* The IKE SA the driver talks under is one the gateway has held or is about to
\* derive from an answer that was sent (completeIKERekey, handleIKERekeyRequest).
THEOREM IKEKeysAgreeHolds == Spec => []IKEKeysAgree
<1>1. ASSUME SessionInv PROVE IKEKeysAgree
  <2>1. CASE s.ike \in gw.ever
    BY <2>1 DEF IKEKeysAgree
  <2>2. CASE s.ike \notin gw.ever
    <3>1. PICK r, q \in net :
            /\ From(r) = "client" /\ Kind(r) = "ike"
            /\ From(q) = "gw" /\ Kind(q) = "ike" /\ Answers(r, q) /\ Waiting(gw, q)
            /\ s.ike = Derived(q, r)
      BY <1>1, <2>2 DEF SessionInv, Good, Agreed
    <3>2. q # NoMessage
      BY <3>1 DEF NoMessage, Message, From
    <3>3. q \in Outstanding(gw)
      BY <3>1, <3>2 DEF Outstanding, Held, Waiting, Req
    <3>4. Sa(r) = Sa(q)
      BY <3>1 DEF Answers, Sa
    <3> QED BY <3>1, <3>3 DEF IKEKeysAgree, From, Kind, Derived, Sa, Ni, Nr, Ke
  <2> QED BY <2>1, <2>2
<1> QED BY <1>1, SessionCorrect, PTL

\* Its out names the gateway's half of the exchange that made a Child SA, and
\* the two halves of an exchange name each other.
LEMMA SameChild ==
    ASSUME SessionInv, NEW c, NEW d, Pedigree(c, net), Pedigree(d, net), c.out = d.out
    PROVE  c = d
<1> DEFINE FromClient(x, q, r) ==
             /\ From(q) = "client" /\ From(r) = "gw" /\ Answers(r, q)
             /\ Kind(q) = "child" /\ Kind(r) = "child"
             /\ x = [in |-> Spi(q), out |-> Spi(r),
                     key |-> DeriveChildKeys(Sa(q), Ni(q), Nr(r), GroupOf(q, r))]
           FromGateway(x, q, r) ==
             /\ From(q) = "gw" /\ From(r) = "client" /\ Answers(r, q)
             /\ Kind(q) = "child" /\ Kind(r) = "child"
             /\ x = [in |-> Spi(r), out |-> Spi(q),
                     key |-> DeriveChildKeys(Sa(q), Ni(q), Nr(r), Ke(r))]
           Ours(x) == \E q, r \in net : FromClient(x, q, r)
           Theirs(x) == \E q, r \in net : FromGateway(x, q, r)
           first == FirstChild(InitialGroup)
<1>1. ClientSide(s, net, fresh) /\ GatewayNonces(net)
  BY DEF SessionInv, Good, GatewaySide
<1>2. \A x : Pedigree(x, net) => x = first \/ Ours(x) \/ Theirs(x)
  BY DEF Pedigree
<1>3. \A x, q, r : FromClient(x, q, r) =>
        x.out = Spi(r) /\ Resp(r) /\ Sa(r) = Sa(q) /\ Id(r) = Id(q) /\ ~Resp(q) /\ Keyed(r)
  BY DEF Answers, Keyed, Resp, Sa, Id
<1>4. \A x, q, r : FromGateway(x, q, r) =>
        x.out = Spi(q) /\ Resp(r) /\ Sa(r) = Sa(q) /\ Id(r) = Id(q) /\ ~Resp(q) /\ Keyed(q)
  BY DEF Answers, Keyed, Resp, Sa, Id
<1>5. first.out = 2
  BY DEF FirstChild
<1>6. \A m \in net : From(m) = "gw" /\ Kind(m) = "child" => Spi(m) # 2
  <2>1. \A m \in net : Keyed(m) => Nonce(m) \in Nat
    BY <1>1 DEF ClientSide, Drawn
  <2> QED BY <1>1, <2>1 DEF GatewayNonces, Keyed
<1>7. \A m1, m2 \in net :
        /\ From(m1) = "gw" /\ From(m2) = "gw" /\ Kind(m1) = "child" /\ Kind(m2) = "child"
        /\ Spi(m1) = Spi(m2)
        => m1 = m2
  <2>1. \A m \in net : From(m) = "gw" /\ Kind(m) = "child" => Keyed(m) /\ Spi(m) = Nonce(m)
    BY <1>1 DEF GatewayNonces, Keyed
  <2> QED BY <1>1, <2>1 DEF GatewayNonces
<1>8. \A m1, m2 \in net :
        /\ From(m1) = "client" /\ From(m2) = "client" /\ Sa(m1) = Sa(m2) /\ Id(m1) = Id(m2)
        /\ (Resp(m1) /\ Resp(m2)) \/ (~Resp(m1) /\ ~Resp(m2))
        => m1 = m2
  <2>1. \A m \in net : From(m) = "client" /\ ~Resp(m) => m \in Asked(s, net)
    BY DEF Asked
  <2> QED BY <1>1, <2>1 DEF ClientSide, Answered, Numbered
<1> HIDE DEF first
<1>a. \A x : Ours(x) \/ Theirs(x) => x.out # first.out
  BY <1>3, <1>4, <1>5, <1>6
<1>9. CASE c = first
  BY <1>2, <1>a, <1>9
<1>10. CASE d = first
  BY <1>2, <1>a, <1>10
<1>11. CASE Ours(c) /\ Ours(d)
  <2>1. PICK q1, r1 \in net : FromClient(c, q1, r1)
    BY <1>11
  <2>2. PICK q2, r2 \in net : FromClient(d, q2, r2)
    BY <1>11
  <2>3. r1 = r2
    BY <1>3, <1>7, <2>1, <2>2
  <2>4. q1 = q2
    BY <1>3, <1>8, <2>1, <2>2, <2>3
  <2> QED BY <2>1, <2>2, <2>3, <2>4
<1>12. CASE Theirs(c) /\ Theirs(d)
  <2>1. PICK q1, r1 \in net : FromGateway(c, q1, r1)
    BY <1>12
  <2>2. PICK q2, r2 \in net : FromGateway(d, q2, r2)
    BY <1>12
  <2>3. q1 = q2
    BY <1>4, <1>7, <2>1, <2>2
  <2>4. r1 = r2
    BY <1>4, <1>8, <2>1, <2>2, <2>3
  <2> QED BY <2>1, <2>2, <2>3, <2>4
<1>13. ASSUME NEW x, NEW y, Ours(x), Theirs(y), x.out = y.out PROVE FALSE
  <2>1. PICK q1, r1 \in net : FromClient(x, q1, r1)
    BY <1>13
  <2>2. PICK q2, r2 \in net : FromGateway(y, q2, r2)
    BY <1>13
  <2>3. r1 = q2
    BY <1>3, <1>4, <1>7, <1>13, <2>1, <2>2
  <2> QED BY <1>3, <1>4, <2>1, <2>2, <2>3
<1> HIDE DEF Ours, Theirs
<1> QED BY <1>2, <1>9, <1>10, <1>11, <1>12, <1>13

\* Two ends that know a Child SA by the same SPIs hold the same keys for it,
\* whoever started the exchange and whatever was agreed about PFS
\* (completeChildRekey, handleChildRekeyRequest).
THEOREM ChildKeysAgreeHolds == Spec => []ChildKeysAgree
<1>1. ASSUME SessionInv PROVE ChildKeysAgree
  <2>1. Pedigree(s.child, net) /\ \A c \in gw.kids : Pedigree(c, net)
    BY <1>1 DEF SessionInv, Good, GatewaySide
  <2> QED BY <1>1, <2>1, SameChild DEF ChildKeysAgree
<1> QED BY <1>1, SessionCorrect, PTL

-----------------------------------------------------------------------------
(* How an exchange ends, and the tunnel.                                   *)

\* Beginning an exchange ends nothing.
LEMMA BeginsAlive ==
    ASSUME NEW t, DOMAIN t = SessionFields, NEW fast, NEW reest, NEW spi, NEW err, NEW in
    PROVE  \A u \in {initiateDPD(t, fast, err), initiateChildRekey(t, reest, in),
                     initiateIKERekey(t, in), sendChildDelete(t, spi, err)} :
              DOMAIN u = SessionFields /\ u.status = t.status
<1>1. \A x, e : DOMAIN Begin(t, x, e) = SessionFields /\ Begin(t, x, e).status = t.status
  BY BeginFields
<1>2. \A u \in {initiateDPD(t, fast, err), initiateChildRekey(t, reest, in),
                initiateIKERekey(t, in), sendChildDelete(t, spi, err)} :
        u = t \/ \E x, e : u = Begin(t, x, e)
  BY DEF initiateDPD, initiateChildRekey, initiateIKERekey, sendChildDelete
<1> QED BY <1>1, <1>2

\* The start of an exchange does not end the session.
LEMMA StartsAlive ==
    ASSUME NEW t, DOMAIN t = SessionFields, NEW due, NEW in
    PROVE  startExchange(t, due, in).status = t.status
<1> DEFINE u == [t EXCEPT !.fastDPDDue = FALSE]
           c == initiateChildRekey(t, TRUE, in)
           v == [c EXCEPT !.throttled = TRUE]
           w == [c EXCEPT !.childReestablish = FALSE, !.throttled = FALSE]
<1>1. DOMAIN u = SessionFields /\ u.status = t.status
  BY DEF SessionFields
<1>2. startExchange(t, due, in) \in
        {initiateDPD(u, TRUE, in.err), v, w, initiateChildRekey(t, FALSE, in),
         initiateIKERekey(t, in), initiateDPD(t, FALSE, in.err), t}
  BY DEF startExchange, reestablishChild
<1> HIDE DEF u
<1> DEFINE yes == TRUE  no == FALSE
<1> HIDE DEF yes, no
<1>3. /\ initiateDPD(u, yes, in.err).status = t.status /\ initiateDPD(t, no, in.err).status = t.status
      /\ initiateChildRekey(t, no, in).status = t.status
      /\ DOMAIN initiateChildRekey(t, yes, in) = SessionFields
      /\ initiateChildRekey(t, yes, in).status = t.status
      /\ initiateIKERekey(t, in).status = t.status
  BY <1>1, BeginsAlive
<1>4. DOMAIN c = SessionFields /\ c.status = t.status
  BY <1>3 DEF yes
<1> HIDE DEF c
<1>5. v.status = t.status /\ w.status = t.status
  BY <1>4 DEF SessionFields
<1> HIDE DEF v, w
<1> QED BY <1>2, <1>3, <1>5 DEF yes, no

\* The retransmissions of the pending exchange are spent.
Spent(t) == Pending(t) /\ t.pending.attempts >= pendingTries(t.pending)

\* A tick ends an exchange, or the session, only when the tries are spent.
LEMMA TickEnds ==
    ASSUME NEW t, Shaped(t), NEW due, NEW in
    PROVE  LET u == housekeeping(t, due, in)
           IN \/ u.status = t.status /\ (Pending(t) => u.pending.req = t.pending.req)
              \/ Spent(t) /\ (u.status = t.status \/ t.pending.kind = "dpd")
<1> DEFINE a == detectSuspend(t, due, in.err)
           b == expireGrace(a, due)
           c == retransmitOldDelete(b, due)
           u == housekeeping(t, due, in)
           ran == [c EXCEPT !.pending.attempts = @ + 1]
<1>1. DOMAIN t = SessionFields /\ DOMAIN t.pending = ExchangeFields /\ t.pending.attempts \in Nat
  BY DEF Shaped
<1>2. /\ DOMAIN a = SessionFields /\ a.status = t.status
      /\ "wake" \notin due => a = t
      /\ Pending(t) => /\ Pending(a) /\ a.pending.req = t.pending.req
                       /\ DOMAIN a.pending = ExchangeFields
  <2> DEFINE f == [t EXCEPT !.pending.fast = TRUE, !.fastDPDDue = @ \/ t.pending.kind # "dpd"]
             yes == TRUE
  <2>1. /\ DOMAIN f = SessionFields /\ f.status = t.status /\ f.pending.kind = t.pending.kind
        /\ f.pending.req = t.pending.req /\ DOMAIN f.pending = ExchangeFields
    BY <1>1 DEF SessionFields, ExchangeFields
  <2> HIDE DEF yes
  <2>2. DOMAIN initiateDPD(t, yes, in.err) = SessionFields /\ initiateDPD(t, yes, in.err).status = t.status
    BY <1>1, BeginsAlive
  <2>3. a = IF "wake" \notin due THEN t ELSE IF ~Pending(t) THEN initiateDPD(t, yes, in.err) ELSE f
    BY DEF detectSuspend, yes
  <2> HIDE DEF a, f
  <2> QED BY <1>1, <2>1, <2>2, <2>3 DEF Pending
<1> HIDE DEF a
<1>3. DOMAIN b = SessionFields /\ b.status = a.status /\ b.pending = a.pending
  BY <1>2 DEF expireGrace, SessionFields
<1> HIDE DEF b
<1>4. DOMAIN c = SessionFields /\ c.status = t.status /\ c.pending = a.pending
  BY <1>2, <1>3 DEF retransmitOldDelete, Send, SessionFields
<1>5. u = IF Pending(c) THEN retransmitPending(c, IF "wake" \in due THEN {} ELSE due)
          ELSE startExchange(c, due, in)
  BY DEF housekeeping, a, b
<1> HIDE DEF c, u
<1>6. \/ u.status = t.status /\ (Pending(t) => u.pending.req = t.pending.req)
      \/ Spent(t) /\ (u.status = t.status \/ t.pending.kind = "dpd")
  <2>1. CASE ~Pending(c)
    BY <1>2, <1>4, <1>5, <2>1, StartsAlive DEF Pending
  <2>2. CASE Pending(c) /\ "wake" \in due
    <3>1. u = c
      BY <1>5, <2>2 DEF retransmitPending
    <3> QED BY <1>2, <1>4, <3>1
  <2>3. CASE Pending(c) /\ "wake" \notin due
    <3>1. c.pending = t.pending /\ Pending(t)
      BY <1>2, <1>4, <2>3 DEF Pending
    <3>2. \/ u = c
          \/ t.pending.attempts + 1 > pendingTries(t.pending) /\ u = abandonPending(c)
          \/ u = Send(ran, t.pending.req)
      BY <1>5, <2>3, <3>1 DEF retransmitPending
    <3>3. Send(ran, t.pending.req).status = t.status /\ Send(ran, t.pending.req).pending.req = t.pending.req
      BY <1>1, <1>4, <3>1 DEF Send, SessionFields, ExchangeFields
    <3>4. abandonPending(c).status = t.status \/ t.pending.kind = "dpd"
      BY <1>4, <3>1 DEF abandonPending, SessionFields
    <3>5. pendingTries(t.pending) \in Nat
      BY TriesAssumption DEF pendingTries
    <3>6. t.pending.attempts + 1 > pendingTries(t.pending) => Spent(t)
      BY <1>1, <3>1, <3>5 DEF Spent
    <3> HIDE DEF ran
    <3> QED BY <1>4, <3>1, <3>2, <3>3, <3>4, <3>6
  <2> QED BY <2>1, <2>2, <2>3
<1> QED BY <1>6 DEF u

\* An answer ends an exchange of its own kind under its own IKE SA, or none.
LEMMA ResponseEnds ==
    ASSUME NEW t, Shaped(t), NEW viaOld, NEW r, NEW err, Ex(r) \in {"INFO", "CCSA"}
    PROVE  LET u == handleResponse(t, viaOld, r, err)
               p == t.pending
           IN /\ u.status = t.status
              /\ \/ u.pending = p
                 \/ /\ ~viaOld /\ Id(r) = Id(p.req)
                    /\ \/ Ex(r) = "CCSA" /\ p.kind \in {"child", "ike"}
                       \/ Ex(r) = "INFO" /\ p.kind \in {"dpd", "delete"}
<1> DEFINE u == handleResponse(t, viaOld, r, err)
           p == t.pending
           v == [t EXCEPT !.pending = NoExchange]
<1>1. DOMAIN t = SessionFields
  BY DEF Shaped
<1>2. DOMAIN v = SessionFields /\ v.status = t.status
  BY <1>1 DEF SessionFields
<1>3. CASE Ex(r) = "CCSA"
  <2> DEFINE c == completeChildRekey(v, r.body, p, err)  i == completeIKERekey(v, r.body, p, err)
  <2>1. u \in {t, c, i} /\ (u # t => ~viaOld /\ Id(r) = Id(p.req) /\ p.kind \in {"child", "ike"})
    BY <1>3 DEF handleResponse, completeMatchingRekey, Ex, Id
  <2> HIDE DEF v
  <2>2. c.status = t.status
    <3> DEFINE new == [in |-> p.newIn, out |-> r.body.spi,
                       key |-> DeriveChildKeys(v.ike, p.ni, r.body.nr, r.body.ke)]
               w == [v EXCEPT !.child = new, !.childReestablish = FALSE, !.throttled = FALSE]
               spi == p.oldIn
    <3>1. DOMAIN w = SessionFields /\ w.status = t.status
      BY <1>2 DEF SessionFields
    <3>2. c \in {v, w, sendChildDelete(w, spi, err)}
      BY DEF completeChildRekey
    <3> HIDE DEF w, c, spi
    <3>3. sendChildDelete(w, spi, err).status = t.status
      BY <3>1, BeginsAlive
    <3> QED BY <1>2, <3>1, <3>2, <3>3
  <2>3. i.status = t.status
    <3> DEFINE w == sendIKEDeleteUnderCurrent(v, err)
               new == DeriveRekeyIKE(v.ike, p.ni, r.body.nr, r.body.ke)
    <3>1. i \in {v, swapIKE(w, new)}
      BY DEF completeIKERekey
    <3>2. DOMAIN w = SessionFields /\ w.status = t.status
      BY <1>2 DEF sendIKEDeleteUnderCurrent, Send, SessionFields
    <3> HIDE DEF w, new, i
    <3>3. swapIKE(w, new).status = t.status
      BY <3>2 DEF swapIKE, SessionFields
    <3> QED BY <1>2, <3>1, <3>3
  <2> HIDE DEF c, i, u
  <2>4. u.status = t.status
    BY <2>1, <2>2, <2>3
  <2> QED BY <1>3, <2>1, <2>4 DEF u
<1>4. CASE Ex(r) = "INFO"
  <2> DEFINE w == [t EXCEPT !.oldIKEDelete = NoExchange]
  <2>1. w.status = t.status /\ w.pending = t.pending
    BY <1>1 DEF SessionFields
  <2>2. \/ u = t \/ u = w
        \/ u = v /\ ~viaOld /\ Id(r) = Id(p.req) /\ p.kind \in {"dpd", "delete"}
    BY <1>4 DEF handleResponse, clearOldIKEDelete, clearPending, Ex, Id
  <2> HIDE DEF u, v, w
  <2>3. /\ u.status = t.status
        /\ u.pending = p \/ (~viaOld /\ Id(r) = Id(p.req) /\ p.kind \in {"dpd", "delete"})
    BY <1>2, <2>1, <2>2
  <2> QED BY <1>4, <2>3 DEF u
<1> QED BY <1>3, <1>4

\* A request never ends a rekey of ours; the tunnel ends with a DELETE of the IKE
\* SA in use.
LEMMA RequestEnds ==
    ASSUME NEW t, Shaped(t), NEW viaOld, NEW req, NEW in
    PROVE  LET u == handleRequest(t, viaOld, req, in)
           IN /\ u.status = t.status \/ (Kind(req) = "delIKE" /\ ~viaOld)
              /\ Pending(t) => \/ u.pending = t.pending
                               \/ /\ t.pending.kind \notin {"child", "ike"}
                                  /\ u.ike = DeriveRekeyIKE(Sa(req), Ni(req), in.n, Ke(req))
<1> DEFINE u == handleRequest(t, viaOld, req, in)
           Same(x) == x.status = t.status /\ (Pending(t) => x.pending = t.pending)
<1>1. DOMAIN t = SessionFields
  BY DEF Shaped
<1>2. \A x, body, err : DOMAIN x = SessionFields /\ Same(x) =>
         DOMAIN Answer(x, viaOld, req, body, err) = SessionFields /\ Same(Answer(x, viaOld, req, body, err))
  BY DEF Answer, Send, recordPeerResponse, SessionFields
<1>3. Same(t)
  OBVIOUS
<1>4. Same(ResendCached(t, viaOld, req.id))
  BY <1>1 DEF ResendCached, Send, SessionFields
<1>5. \A why, err : Same(sendNotifyResponse(t, viaOld, req, why, err))
  BY <1>1, <1>2 DEF sendNotifyResponse
<1>6. Same(handleChildRekeyRequest(t, viaOld, req, in))
  <2> DEFINE b == req.body
             new == [in |-> in.spi, out |-> b.spi,
                     key |-> DeriveChildKeys(req.sa, b.ni, in.n, b.ke)]
             w == [t EXCEPT !.child = new, !.childPFS = @ \/ b.ke # 0,
                            !.childPFSGroup = IF b.ke # 0 THEN b.ke ELSE @]
  <2>1. DOMAIN w = SessionFields /\ Same(w)
    BY <1>1 DEF SessionFields
  <2>2. LET c == handleChildRekeyRequest(t, viaOld, req, in)
        IN \/ c = t
           \/ \E why, err : c = sendNotifyResponse(t, viaOld, req, why, err)
           \/ \E body, err : c = Answer(w, viaOld, req, body, err)
    BY DEF handleChildRekeyRequest
  <2> HIDE DEF w, Same
  <2> QED BY <1>1, <1>2, <1>3, <1>5, <2>1, <2>2
<1>7. LET h == handleInformationalRequest(t, viaOld, req, in)
      IN /\ h.status = t.status \/ (Kind(req) = "delIKE" /\ ~viaOld)
         /\ Pending(t) => h.pending = t.pending
  <2> DEFINE d == handleInboundChildDelete(t, req.body.spi, in)
             v == IF req.body.t = "delESP" THEN d ELSE t
             w == Answer(v, viaOld, req, Empty, in.err)
  <2>1. DOMAIN d = SessionFields /\ Same(d)
    <3> DEFINE yes == TRUE
               c == initiateChildRekey(t, yes, in)
               e == [t EXCEPT !.childReestablish = TRUE]
               f == [c EXCEPT !.childReestablish = TRUE]
               g == [c EXCEPT !.childReestablish = FALSE, !.throttled = FALSE]
    <3>1. \/ d = t \/ d = e
          \/ ~Pending(t) /\ d \in {f, g}
      BY DEF handleInboundChildDelete
    <3>2. DOMAIN e = SessionFields /\ Same(e)
      BY <1>1 DEF SessionFields
    <3> HIDE DEF yes, e, d
    <3>3. DOMAIN c = SessionFields /\ c.status = t.status
      BY <1>1, BeginsAlive
    <3> HIDE DEF c
    <3>4. /\ DOMAIN f = SessionFields /\ f.status = t.status
          /\ DOMAIN g = SessionFields /\ g.status = t.status
      BY <3>3 DEF SessionFields
    <3> HIDE DEF f, g
    <3> QED BY <1>1, <3>1, <3>2, <3>4
  <2>2. handleInformationalRequest(t, viaOld, req, in) =
          IF Kind(req) = "delIKE" /\ ~viaOld THEN [w EXCEPT !.status = "dead"] ELSE w
    BY DEF handleInformationalRequest, Kind
  <2> HIDE DEF d
  <2>3. DOMAIN v = SessionFields /\ Same(v)
    BY <1>1, <2>1
  <2> HIDE DEF v, Same
  <2>4. DOMAIN w = SessionFields /\ Same(w)
    BY <1>2, <2>3
  <2> HIDE DEF w
  <2> QED BY <2>2, <2>4 DEF Same, SessionFields
<1>8. ~viaOld =>
        \/ Same(handleIKERekeyRequest(t, req, in))
        \/ /\ handleIKERekeyRequest(t, req, in).status = t.status
           /\ handleIKERekeyRequest(t, req, in).ike = DeriveRekeyIKE(Sa(req), Ni(req), in.n, Ke(req))
  <2> SUFFICES ASSUME ~viaOld
               PROVE  \/ Same(handleIKERekeyRequest(t, req, in))
                      \/ /\ handleIKERekeyRequest(t, req, in).status = t.status
                         /\ handleIKERekeyRequest(t, req, in).ike =
                               DeriveRekeyIKE(Sa(req), Ni(req), in.n, Ke(req))
    OBVIOUS
  <2> DEFINE no == FALSE
             b == req.body
             new == DeriveRekeyIKE(req.sa, b.ni, in.n, b.ke)
             v == Answer(t, no, req, IKEResponse(in.n, b.ke), in.err)
             w == [swapIKE(v, new) EXCEPT !.ikeDHGroup = b.ke]
             h == handleIKERekeyRequest(t, req, in)
  <2>1. \/ \E why, err : h = sendNotifyResponse(t, no, req, why, err)
        \/ h = w
    BY DEF handleIKERekeyRequest
  <2>2. new = DeriveRekeyIKE(Sa(req), Ni(req), in.n, Ke(req))
    BY DEF Sa, Ni, Ke
  <2> HIDE DEF no
  <2>3. DOMAIN v = SessionFields /\ v.status = t.status
    BY <1>1, AnswerFields
  <2> HIDE DEF v, new, h
  <2>4. w.status = t.status /\ w.ike = new
    BY <2>3 DEF swapIKE, SessionFields
  <2>5. \A why, err : Same(sendNotifyResponse(t, no, req, why, err))
    BY <1>1, AnswerFields DEF sendNotifyResponse
  <2> HIDE DEF w, Same
  <2>6. Same(h) \/ (h.status = t.status /\ h.ike = DeriveRekeyIKE(Sa(req), Ni(req), in.n, Ke(req)))
    BY <2>1, <2>2, <2>4, <2>5
  <2> QED BY <2>6 DEF h
<1>9. \/ Same(u)
      \/ u = handleInformationalRequest(t, viaOld, req, in)
      \/ u = handleChildRekeyRequest(t, viaOld, req, in)
      \/ u = handleIKERekeyRequest(t, req, in) /\ ~viaOld /\ t.pending.kind \notin {"child", "ike"}
  <2> HIDE DEF Same
  <2> QED BY <1>4, <1>5 DEF handleRequest
<1> HIDE DEF u
<1>10. /\ u.status = t.status \/ (Kind(req) = "delIKE" /\ ~viaOld)
       /\ Pending(t) => \/ u.pending = t.pending
                        \/ /\ t.pending.kind \notin {"child", "ike"}
                           /\ u.ike = DeriveRekeyIKE(Sa(req), Ni(req), in.n, Ke(req))
  BY <1>6, <1>7, <1>8, <1>9
<1> QED BY <1>10 DEF u

\* The exchange, the IKE SA and the status are those the handler returns.
LEMMA StepFields ==
    ASSUME NEW t, DOMAIN t = SessionFields, ClientStep(t)
    PROVE  s'.pending = t.pending /\ s'.ike = t.ike /\ s'.status = t.status
BY DEF ClientStep, SessionFields

\* The goodbye closes the session.
LEMMA ShutdownFields ==
    ASSUME SessionInv, Shutdown
    PROVE  s'.pending = s.pending /\ s'.status = "closed"
<1> DEFINE t == sendGracefulDelete(s)
<1>1. DOMAIN s = SessionFields
  BY DEF SessionInv, Good, ClientSide, Shaped
<1>2. DOMAIN t = SessionFields /\ t.pending = s.pending /\ t.status = "closed"
  BY <1>1 DEF sendGracefulDelete, Send, SessionFields
<1>3. ClientStep(t)
  BY DEF Shutdown
<1> HIDE DEF t
<1> QED BY <1>2, <1>3, StepFields

\* One step of the driver or of the gateway.
LEMMA StepEnds ==
    ASSUME SessionInv, [Next]_vars, Up
    PROVE  \/ \E m \in net, in \in Inputs : Inbound(m, in)
           \/ s'.status = s.status /\ (Pending(s) => s'.pending.req = s.pending.req)
           \/ s'.status = "closed" /\ s'.pending.req = s.pending.req
           \/ Spent(s) /\ (s'.status = s.status \/ s.pending.kind = "dpd")
<1>1. CASE \E due \in SUBSET Relevant, in \in Inputs : Tick(due, in)
  <2>1. PICK due \in SUBSET Relevant, in \in Inputs : Tick(due, in)
    BY <1>1
  <2> DEFINE t == housekeeping(s, due, in)
  <2>2. in.n = fresh + 1
    BY DEF Inputs
  <2>3. Reaches(t, fresh)
    BY <2>2, StepHolds, ReachesTick
  <2>4. Shaped(s)
    BY DEF SessionInv, Good, ClientSide
  <2>5. \/ t.status = s.status /\ (Pending(s) => t.pending.req = s.pending.req)
        \/ Spent(s) /\ (t.status = s.status \/ s.pending.kind = "dpd")
    BY <2>4, TickEnds
  <2>6. ClientStep(t)
    BY <2>1 DEF Tick
  <2> HIDE DEF t
  <2>7. s'.pending = t.pending /\ s'.status = t.status
    BY <2>3, <2>6, ReachesShape, StepFields
  <2> QED BY <2>5, <2>7
<1>2. CASE Shutdown
  BY <1>2, ShutdownFields
<1>3. CASE s' = s
  BY <1>3
<1>4. \A m : GatewayReceives(m) \/ GatewayConcludes(m) => s' = s
  BY DEF GatewayReceives, GatewayConcludes, GatewayStep
<1>5. GatewayStarts \/ GatewayVanishes \/ UNCHANGED vars => s' = s
  BY DEF GatewayStarts, GatewayVanishes, GatewayStep, vars
<1> QED BY <1>1, <1>2, <1>3, <1>4, <1>5 DEF Next

\* A datagram is handled as an answer or as a request.
LEMMA InboundFields ==
    ASSUME SessionInv, NEW m \in net, NEW in \in Inputs, Inbound(m, in)
    PROVE  LET t == handleInbound(s, m, in)
           IN /\ s'.pending = t.pending /\ s'.ike = t.ike /\ s'.status = t.status
              /\ From(m) = "gw" /\ in.n = fresh + 1 /\ Ex(m) \in {"INFO", "CCSA"}
              /\ t = IF Resp(m) THEN handleResponse(s, ViaOld(s, m), m, in.err)
                     ELSE handleRequest(s, ViaOld(s, m), m, in)
              /\ ~ViaOld(s, m) => Sa(m) = s.ike
<1> DEFINE t == handleInbound(s, m, in)
<1>1. From(m) = "gw" /\ in.n = fresh + 1 /\ CanDecode(s, m) /\ ClientStep(t) /\ Up
  BY DEF Inbound, From, Inputs
<1>2. Reaches(t, fresh)
  BY <1>1, ReachesInbound
<1>3. Ex(m) \in {"INFO", "CCSA"}
  BY DEF SessionInv, Good, ClientSide, Drawn
<1>4. t = IF Resp(m) THEN handleResponse(s, ViaOld(s, m), m, in.err)
          ELSE handleRequest(s, ViaOld(s, m), m, in)
  BY <1>1 DEF handleInbound, Resp
<1>5. ~ViaOld(s, m) => Sa(m) = s.ike
  BY DEF ViaOld, OpenSK, Sa
<1> HIDE DEF t
<1>6. s'.pending = t.pending /\ s'.ike = t.ike /\ s'.status = t.status
  BY <1>1, <1>2, ReachesShape, StepFields
<1> QED BY <1>1, <1>3, <1>4, <1>5, <1>6 DEF t

\* A datagram ends an exchange only as its answer or with its IKE SA.
LEMMA InboundEnds ==
    ASSUME SessionInv, NEW m \in net, NEW in \in Inputs, Inbound(m, in), Pending(s),
           s'.pending.req # s.pending.req
    PROVE  \/ Answers(m, s.pending.req)
           \/ s'.ike # s.ike /\ s.pending.kind \in {"dpd", "delete"}
<1> DEFINE p == s.pending
           viaOld == ViaOld(s, m)
           v == handleResponse(s, viaOld, m, in.err)
           w == handleRequest(s, viaOld, m, in)
<1>1. /\ s'.pending = (IF Resp(m) THEN v ELSE w).pending /\ s'.ike = (IF Resp(m) THEN v ELSE w).ike
      /\ From(m) = "gw" /\ in.n = fresh + 1 /\ Ex(m) \in {"INFO", "CCSA"}
      /\ ~viaOld => Sa(m) = s.ike
  BY InboundFields
<1>2. Shaped(s) /\ InFlight(s) /\ Drawn(s, net, fresh)
  BY DEF SessionInv, Good, ClientSide
<1>3. /\ From(p.req) = "client" /\ ~Resp(p.req) /\ Sa(p.req) = s.ike
      /\ p.kind \in {"dpd", "delete", "child", "ike"}
      /\ p.kind \in {"dpd", "delete"} => Ex(p.req) = "INFO"
      /\ p.kind \in {"child", "ike"} => Ex(p.req) = "CCSA"
  BY <1>2 DEF InFlight, Pending
<1>4. CASE Resp(m)
  <2>1. \/ v.pending = p
        \/ /\ ~viaOld /\ Id(m) = Id(p.req)
           /\ \/ Ex(m) = "CCSA" /\ p.kind \in {"child", "ike"}
              \/ Ex(m) = "INFO" /\ p.kind \in {"dpd", "delete"}
    BY <1>1, <1>2, ResponseEnds
  <2> HIDE DEF v, viaOld
  <2>2. ~viaOld /\ Id(m) = Id(p.req) /\ Ex(m) = Ex(p.req)
    BY <1>1, <1>3, <1>4, <2>1
  <2> QED BY <1>1, <1>3, <1>4, <2>2 DEF Answers, From, Resp, Sa, Id, Ex
<1>5. CASE ~Resp(m)
  <2>1. \/ w.pending = p
        \/ /\ p.kind \notin {"child", "ike"}
           /\ w.ike = DeriveRekeyIKE(Sa(m), Ni(m), in.n, Ke(m))
    BY <1>2, RequestEnds
  <2> DEFINE new == DeriveRekeyIKE(Sa(m), Ni(m), in.n, Ke(m))
  <2>2. Second(new) = fresh + 1
    BY <1>1 DEF DeriveRekeyIKE, Second
  <2>3. Second(s.ike) # fresh + 1
    BY <1>2 DEF Drawn, Old
  <2> HIDE DEF w, new
  <2>4. p.kind \notin {"child", "ike"} /\ w.ike = new
    BY <1>1, <1>5, <2>1 DEF new
  <2> QED BY <1>1, <1>3, <1>5, <2>2, <2>3, <2>4
<1> QED BY <1>4, <1>5

\* An exchange is over only when the gateway has answered that very request, or
\* the retransmissions are spent, or a rekey of the gateway's has replaced the
\* IKE SA under a probe or a DELETE (clearPending, completeMatchingRekey).
THEOREM ExchangeEndsAnsweredHolds == Spec => ExchangeEndsAnswered
<1> DEFINE A == Up /\ Pending(s) /\ s'.pending.req # s.pending.req =>
                  \/ \E r \in net : Answers(r, s.pending.req)
                  \/ s.pending.attempts >= pendingTries(s.pending)
                  \/ s'.ike # s.ike /\ s.pending.kind \in {"dpd", "delete"}
<1>1. SessionInv /\ [Next]_vars => [A]_vars
  BY StepEnds, InboundEnds DEF Spent
<1> QED BY <1>1, SessionCorrect, PTL DEF Spec, ExchangeEndsAnswered

\* The tunnel is torn down only when a probe went unanswered, or the gateway has
\* deleted the IKE SA in use, never for the clean-up of a superseded one
\* (handleInformationalRequest, abandonPending).
THEOREM NoFalseTeardownHolds == Spec => NoFalseTeardown
<1> DEFINE A == s'.status = "dead" /\ Up =>
                  \/ s.pending.kind = "dpd" /\ s.pending.attempts >= pendingTries(s.pending)
                  \/ \E m \in net : /\ m.from = "gw" /\ ~m.resp /\ m.body.t = "delIKE"
                                    /\ m.sa = s.ike /\ m.sa \notin gw.stale
<1>1. ASSUME SessionInv, [Next]_vars, s'.status = "dead", Up
      PROVE  \/ s.pending.kind = "dpd" /\ s.pending.attempts >= pendingTries(s.pending)
             \/ \E m \in net : /\ m.from = "gw" /\ ~m.resp /\ m.body.t = "delIKE"
                               /\ m.sa = s.ike /\ m.sa \notin gw.stale
  <2>1. CASE \E m \in net, in \in Inputs : Inbound(m, in)
    <3>1. PICK m \in net, in \in Inputs : Inbound(m, in)
      BY <2>1
    <3> DEFINE viaOld == ViaOld(s, m)
               v == handleResponse(s, viaOld, m, in.err)
               w == handleRequest(s, viaOld, m, in)
    <3>2. /\ s'.status = (IF Resp(m) THEN v ELSE w).status
          /\ From(m) = "gw" /\ Ex(m) \in {"INFO", "CCSA"} /\ (~viaOld => Sa(m) = s.ike)
      BY <1>1, <3>1, InboundFields
    <3>3. Shaped(s) /\ Answered(s, net) /\ Windows(gw, net, fresh)
      BY <1>1 DEF SessionInv, Good, ClientSide, GatewaySide
    <3>4. v.status = s.status
      BY <3>2, <3>3, ResponseEnds
    <3>5. w.status = s.status \/ (Kind(m) = "delIKE" /\ ~viaOld)
      BY <3>3, RequestEnds
    <3> HIDE DEF v, w, viaOld
    <3>6. ~Resp(m) /\ Kind(m) = "delIKE" /\ Sa(m) = s.ike
      BY <1>1, <3>2, <3>4, <3>5 DEF Up
    <3>7. s.ike \notin gw.stale
      BY <3>3 DEF Answered, Windows
    <3> QED BY <3>2, <3>6, <3>7 DEF From, Resp, Kind, Sa
  <2>2. CASE Spent(s) /\ (s'.status = s.status \/ s.pending.kind = "dpd")
    BY <1>1, <2>2 DEF Spent, Up
  <2> QED BY <1>1, <2>1, <2>2, StepEnds DEF Up
<1>2. SessionInv /\ [Next]_vars => [A]_vars
  BY <1>1
<1> QED BY <1>2, SessionCorrect, PTL DEF Spec, NoFalseTeardown
=============================================================================
