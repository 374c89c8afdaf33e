------------------------- MODULE SessionChildProofs -------------------------
(***************************************************************************)
(* The Child SA in use, for every environment: the gateway holds it, or    *)
(* its loss is being made up for, as long as a gateway that deletes Child  *)
(* SAs honours the recovery of the client.                                 *)
(*                                                                         *)
(* The proof goes through the handlers and the steps of the gateway again, *)
(* with an invariant that rests on that of SessionProofs.                  *)
(***************************************************************************)
EXTENDS SessionProofs

USE ZenonT(2), SMTT(30), ZenonT(20)

\* The Child SA a request q of the client and its answer r make.
Kid(q, r) ==
    [in |-> Spi(q), out |-> Spi(r),
     key |-> DeriveChildKeys(Sa(q), Ni(q), Nr(r), GroupOf(q, r))]

\* The gateway may delete Child SAs on its own.
MayDelete == "delESP" \in E.kinds

\* The gateway has closed the IKE SA it uses, and with it all Child SAs.
Doomed(g) == g.cur \in DOMAIN g.win /\ Kind(Req(g, g.cur)) = "delIKE"

\* The client deletes neither the Child SA it uses nor the one it asks for.
Spared(t, M, k) ==
    /\ t.child.in \in 0..k
    /\ \A m \in Asked(t, M) : Kind(m) = "delESP" => Spi(m) \in 0..k /\ Spi(m) # t.child.in
    /\ t.pending.reest => t.pending.kind = "child"
    /\ t.pending.kind = "child" =>
          /\ t.pending.newIn \in 0..k /\ t.pending.oldIn \in 0..k
          /\ \A m \in Asked(t, M) : Kind(m) = "delESP" => Spi(m) # t.pending.newIn

\* What the gateway granted to the request in flight it holds, and will not delete
\* before the client has read the answer.
Grants(r, q) == From(r) = "gw" /\ Kind(r) = "child" /\ Answers(r, q)
Promised(t, M, g) ==
    t.pending.kind = "child" =>
        \A r \in M : Grants(r, t.pending.req) =>
            /\ Doomed(g) \/ Kid(t.pending.req, r) \in g.kids
            /\ MayDelete => Kid(t.pending.req, r) \in g.newborn

\* The gateway has granted the client an IKE SA that supersedes sa.
Superseded(sa, M) == \E r \in M : From(r) = "gw" /\ Resp(r) /\ Kind(r) = "ike" /\ Sa(r) = sa

\* The client deletes an IKE SA only when its own rekey has superseded it.
Parted(t, M) == \A m \in Asked(t, M) : Kind(m) = "delIKE" => Superseded(Sa(m), M)

\* Requests of the gateway that make and unmake Child SAs.
Demand(q) == From(q) = "gw" /\ ~Resp(q)
Asks(q) == Demand(q) /\ Kind(q) \in {"child", "delESP"}
Read(q, M) == \E a \in M : From(a) = "client" /\ Answers(a, q)

\* The gateway then uses another, and has an answer to all it said of Child SAs under it.
Moved(M, g) ==
    \A sa : Superseded(sa, M) =>
        /\ sa \in g.ever /\ sa # g.cur
        /\ \A q \in M : Asks(q) /\ Sa(q) = sa => ~Waiting(g, q) /\ Read(q, M)

\* The client has left sa for an IKE SA of either end's making.
Yields(a, q) == From(a) = "client" /\ Answers(a, q) /\ Kind(a) = "ike"
Left(sa, M) ==
    \/ Superseded(sa, M)
    \/ \E q, a \in M : Demand(q) /\ Kind(q) = "ike" /\ Sa(q) = sa /\ Yields(a, q)

\* A client that is up has agreed to the end of no other IKE SA.
Quit(t, M) ==
    /\ HasOld(t) => Left(t.oldIKE, M)
    /\ \A q \in M : Demand(q) /\ Kind(q) = "delIKE" /\ Read(q, M) => Left(Sa(q), M)

\* The gateway rekeys the IKE SA it uses, and uses the new one when it has the answer.
Turned(M, g) ==
    \A q \in M : Demand(q) /\ Kind(q) = "ike" =>
        /\ "ike" \in E.kinds
        /\ Waiting(g, q) => Sa(q) = g.cur
        /\ Sa(q) = g.cur /\ (\E a \in M : Yields(a, q)) => Waiting(g, q)

\* The windows.
Ordered(M, g) ==
    /\ \A sa \in DOMAIN g.win : g.win[sa].rx \in Nat /\ g.win[sa].tx \in Nat
    /\ \A m \in M : From(m) = "gw" =>
          /\ Sa(m) \in g.ever
          /\ Sa(m) \in DOMAIN g.win =>
                Id(m) < IF Resp(m) THEN g.win[Sa(m)].rx ELSE g.win[Sa(m)].tx
          /\ Resp(m) => \E q \in M : From(q) = "client" /\ Answers(m, q)
    /\ \A q1, q2 \in M : Demand(q1) /\ Demand(q2) /\ Sa(q1) = Sa(q2) /\ Id(q1) = Id(q2) => q1 = q2
    /\ \A a \in M : From(a) = "client" /\ Resp(a) => \E q \in M : Demand(q) /\ Answers(a, q)

\* A re-establishment is queued or in flight.
Heals(t) == t.childReestablish \/ t.pending.reest

\* The gateway has deleted the Child SA, and the client has not heard of it yet.
Unheard(q, t, M, g) ==
    Demand(q) /\ Kind(q) = "delESP" /\ Spi(q) = t.child.out /\ Waiting(g, q) /\ ~Read(q, M)

\* The gateway holds the Child SA we use, or will when it has our answer, or the
\* client makes up for it, or will when it hears.
Backed(t, M, g) ==
    \/ t.child \in g.kids
    \/ Doomed(g)
    \/ \E q \in M : Demand(q) /\ Kind(q) = "child" /\ Spi(q) = t.child.out /\ Waiting(g, q)
    \/ MayDelete /\ (Heals(t) \/ \E q \in M : Unheard(q, t, M, g))

\* The client's requests come in the order of its exchanges; ...
InTurn(t, M, g) ==
    /\ t.pending.kind # "none" => Id(t.pending.req) + 1 = t.messageID
    /\ \A m \in Asked(t, M) :
          \/ Sa(m) = t.ike
          \/ /\ Superseded(Sa(m), M)
             /\ Kind(m) # "delIKE" /\ Sa(m) \in DOMAIN g.win => Id(m) < g.win[Sa(m)].rx
\* ... and a re-establishment is granted.
Welcome(t, M, g) ==
    t.pending.reest =>
        /\ t.pending.req.body.rekey = 0
        /\ \A r \in M : From(r) = "gw" /\ Answers(r, t.pending.req) =>
              ChildResponseOK(t.pending, r.body) \/ Doomed(g)
Apt(t, M, g) == MayDelete => InTurn(t, M, g) /\ Welcome(t, M, g)

\* The gateway closes no IKE SA but the one it uses, unless it rekeys IKE SAs.
Closing(g) ==
    /\ g.declined \in Nat
    /\ \A sa \in DOMAIN g.win : Kind(Req(g, sa)) = "delIKE" => sa = g.cur \/ "ike" \in E.kinds

Mended(t, M, g, k) ==
    /\ Spared(t, M, k) /\ Promised(t, M, g) /\ Parted(t, M) /\ Backed(t, M, g)
    /\ Quit(t, M) /\ Turned(M, g) /\ Ordered(M, g) /\ Apt(t, M, g)

\* Between two steps, and within a step of the client.
HoleInv == Up => Mended(s, net, gw, fresh) /\ Moved(net, gw) /\ Closing(gw)
Sound(t, k) == t.status = "up" => Mended(t, Wire(t), gw, k)
Solid(t, k) == Sound(t, k) \/ (Sound(t, k + 1) /\ Spends(t, k + 1))

\* A gateway that deletes Child SAs on its own never turns down the client that makes
\* up for one: not because it rekeys the IKE SA just then, not for reasons of its own,
\* and not for the sake of another DH group than the client asked for.
HonoursRecovery ==
    "delESP" \in E.kinds => "ike" \notin E.kinds /\ E.declines = 0 /\ ~E.sloppyKE

-----------------------------------------------------------------------------
(* The pieces the client's handlers are made of.                           *)

\* The answer m of the client agrees to the end of no IKE SA in use, and to the
\* rekey of one only while the gateway waits for it.
Fair(m, M) ==
    \E q \in net : /\ Demand(q) /\ Answers(m, q)
                   /\ Kind(q) = "delIKE" => Left(Sa(q), M)
                   /\ Kind(m) = "ike" => Waiting(gw, q)

\* The exchange p goes on as x, or is over.
Carries(p, x) ==
    \/ x.kind = "none" /\ ~x.reest
    \/ /\ x.kind = p.kind /\ x.req = p.req /\ x.reest = p.reest
       /\ x.newIn = p.newIn /\ x.oldIn = p.oldIn /\ x.dh = p.dh

\* All that is sent is requests and fair answers.
Civil(t, u) ==
    /\ u.oldIKE \in {t.oldIKE, NoIKE} /\ (u.status = "up" => t.status = "up")
    /\ Wire(t) \subseteq Wire(u)
    /\ \A m \in Wire(u) \ Wire(t) : From(m) = "client" /\ (Resp(m) => Fair(m, Wire(t)))

\* Nothing new is asked for, and the exchange in flight is the same or over.
Calm(t, u) ==
    /\ Civil(t, u) /\ u.ike = t.ike /\ u.messageID = t.messageID
    /\ Asked(u, Wire(u)) \subseteq Asked(t, Wire(t))
    /\ Carries(t.pending, u.pending)

\* What was to make up for a lost Child SA still does.
Mends(t, u) ==
    /\ Heals(t) => Heals(u)
    /\ \A q \in Wire(t) : Unheard(q, t, Wire(t), gw) => Heals(u) \/ ~Read(q, Wire(u))

\* A request that is answered is known by its answer.
LEMMA KnownByAnswer ==
    ASSUME NEW M, NEW g, Ordered(M, g), NEW a, NEW p \in M, NEW q \in M, Demand(p), Demand(q),
           Answers(a, p), Answers(a, q)
    PROVE  p = q
BY DEF Ordered, Answers, Sa, Id

\* Answers of the client leave the windows alone.
LEMMA CivilOrdered ==
    ASSUME NEW t, NEW u, Civil(t, u), Ordered(Wire(t), gw)
    PROVE  Ordered(Wire(u), gw)
<1> DEFINE M == Wire(t)  N == Wire(u)
<1>1. /\ net \subseteq M /\ M \subseteq N
      /\ \A m \in N \ M : From(m) = "client" /\ (Resp(m) => Fair(m, M))
  BY DEF Civil, Wire
<1> HIDE DEF M, N
<1>2. \A m \in N : From(m) = "gw" => m \in M
  BY <1>1
<1>3. \A a \in N : From(a) = "client" /\ Resp(a) => \E q \in N : Demand(q) /\ Answers(a, q)
  <2> SUFFICES ASSUME NEW a \in N, From(a) = "client", Resp(a)
               PROVE  \E q \in N : Demand(q) /\ Answers(a, q)
    OBVIOUS
  <2>1. CASE a \in M
    BY <1>1, <2>1 DEF Ordered, M
  <2>2. CASE a \notin M
    BY <1>1, <2>2 DEF Fair
  <2> QED BY <2>1, <2>2
<1>4. Ordered(M, gw)
  BY DEF M
<1>5. \A m \in N : From(m) = "gw" =>
          /\ Sa(m) \in gw.ever
          /\ Sa(m) \in DOMAIN gw.win =>
                Id(m) < IF Resp(m) THEN gw.win[Sa(m)].rx ELSE gw.win[Sa(m)].tx
          /\ Resp(m) => \E q \in N : From(q) = "client" /\ Answers(m, q)
  <2> SUFFICES ASSUME NEW m \in N, From(m) = "gw"
               PROVE  /\ Sa(m) \in gw.ever
                      /\ Sa(m) \in DOMAIN gw.win =>
                            Id(m) < IF Resp(m) THEN gw.win[Sa(m)].rx ELSE gw.win[Sa(m)].tx
                      /\ Resp(m) => \E q \in N : From(q) = "client" /\ Answers(m, q)
    OBVIOUS
  <2>1. m \in M
    BY <1>2
  <2>2. Resp(m) => \E q \in M : From(q) = "client" /\ Answers(m, q)
    BY <1>4, <2>1 DEF Ordered
  <2> QED BY <1>1, <1>4, <2>1, <2>2 DEF Ordered
<1>6. \A q1, q2 \in N : Demand(q1) /\ Demand(q2) /\ Sa(q1) = Sa(q2) /\ Id(q1) = Id(q2) => q1 = q2
  BY <1>2, <1>4 DEF Ordered, Demand
<1> QED BY <1>3, <1>4, <1>5, <1>6 DEF Ordered, N

\* Nor do they part the client from an IKE SA it uses.
LEMMA CivilQuit ==
    ASSUME NEW t, NEW u, Civil(t, u), Ordered(Wire(t), gw), Quit(t, Wire(t)), Turned(Wire(t), gw)
    PROVE  Quit(u, Wire(u)) /\ Turned(Wire(u), gw)
<1> DEFINE M == Wire(t)  N == Wire(u)
<1>1. /\ net \subseteq M /\ M \subseteq N
      /\ \A m \in N \ M : From(m) = "client" /\ (Resp(m) => Fair(m, M))
      /\ u.oldIKE \in {t.oldIKE, NoIKE}
  BY DEF Civil, Wire
<1>2. Ordered(M, gw) /\ Quit(t, M) /\ Turned(M, gw)
  OBVIOUS
<1> HIDE DEF M, N
<1>3. \A sa : Left(sa, M) => Left(sa, N)
  BY <1>1 DEF Left, Superseded
<1>4. \A q \in N : Demand(q) => q \in M
  BY <1>1 DEF Demand
<1>5. \A a \in N, q \in M : From(a) = "client" /\ Demand(q) /\ Answers(a, q) =>
         \/ a \in M
         \/ /\ Kind(q) = "delIKE" => Left(Sa(q), M)
            /\ Kind(a) = "ike" => Waiting(gw, q)
  <2> SUFFICES ASSUME NEW a \in N, NEW q \in M, Demand(q), Answers(a, q), a \notin M
               PROVE  /\ Kind(q) = "delIKE" => Left(Sa(q), M)
                      /\ Kind(a) = "ike" => Waiting(gw, q)
    OBVIOUS
  <2>1. Resp(a)
    BY DEF Answers, Resp
  <2>2. PICK p \in net : /\ Demand(p) /\ Answers(a, p)
                         /\ Kind(p) = "delIKE" => Left(Sa(p), M)
                         /\ Kind(a) = "ike" => Waiting(gw, p)
    BY <1>1, <2>1 DEF Fair
  <2>3. p = q
    BY <1>1, <1>2, <2>2, KnownByAnswer
  <2> QED BY <2>2, <2>3
<1>6. Quit(u, N)
  <2>1. HasOld(u) => Left(u.oldIKE, N)
    BY <1>1, <1>2, <1>3 DEF Quit, HasOld
  <2>2. \A q \in N : Demand(q) /\ Kind(q) = "delIKE" /\ Read(q, N) => Left(Sa(q), N)
    <3> SUFFICES ASSUME NEW q \in N, Demand(q), Kind(q) = "delIKE", Read(q, N)
                 PROVE  Left(Sa(q), N)
      OBVIOUS
    <3>1. PICK a \in N : From(a) = "client" /\ Answers(a, q)
      BY DEF Read
    <3>2. q \in M
      BY <1>4
    <3>3. CASE a \in M
      BY <1>2, <1>3, <3>1, <3>2, <3>3 DEF Quit, Read
    <3>4. CASE a \notin M
      BY <1>3, <1>5, <3>1, <3>2, <3>4
    <3> QED BY <3>3, <3>4
  <2> QED BY <2>1, <2>2 DEF Quit
<1>7. Turned(N, gw)
  <2> SUFFICES ASSUME NEW q \in N, Demand(q), Kind(q) = "ike"
               PROVE  /\ "ike" \in E.kinds
                      /\ Waiting(gw, q) => Sa(q) = gw.cur
                      /\ Sa(q) = gw.cur /\ (\E a \in N : Yields(a, q)) => Waiting(gw, q)
    BY DEF Turned
  <2>1. q \in M
    BY <1>4
  <2>2. ASSUME NEW a \in N, Yields(a, q), Sa(q) = gw.cur PROVE Waiting(gw, q)
    <3>1. CASE a \in M
      BY <1>2, <2>1, <2>2, <3>1 DEF Turned
    <3>2. CASE a \notin M
      BY <1>5, <2>1, <2>2, <3>2 DEF Yields
    <3> QED BY <3>1, <3>2
  <2> QED BY <1>2, <2>1, <2>2 DEF Turned
<1> QED BY <1>6, <1>7 DEF M, N

\* Such a change keeps all that does not name the Child SA.
LEMMA CalmMended ==
    ASSUME NEW t, NEW u, NEW k, Calm(t, u), Mended(t, Wire(t), gw, k)
    PROVE  /\ Promised(u, Wire(u), gw) /\ Parted(u, Wire(u)) /\ Apt(u, Wire(u), gw)
           /\ Quit(u, Wire(u)) /\ Turned(Wire(u), gw) /\ Ordered(Wire(u), gw)
           /\ u.child = t.child => Spared(u, Wire(u), k)
           /\ u.child = t.child /\ Mends(t, u) => Backed(u, Wire(u), gw)
<1> DEFINE M == Wire(t)  N == Wire(u)
<1>1. Civil(t, u) /\ M \subseteq N /\ \A m \in N \ M : From(m) = "client"
  BY DEF Calm, Civil
<1>2. Asked(u, N) \subseteq Asked(t, M) /\ u.ike = t.ike /\ u.messageID = t.messageID
  BY DEF Calm
<1>3. Carries(t.pending, u.pending)
  BY DEF Calm
<1>4. /\ Promised(t, M, gw) /\ Parted(t, M) /\ Apt(t, M, gw) /\ Spared(t, M, k)
      /\ Backed(t, M, gw) /\ Quit(t, M) /\ Turned(M, gw) /\ Ordered(M, gw)
  BY DEF Mended
<1>5. Quit(u, N) /\ Turned(N, gw) /\ Ordered(N, gw)
  BY <1>1, <1>4, CivilOrdered, CivilQuit
<1>6. Mends(t, u) => /\ Heals(t) => Heals(u)
                     /\ \A q \in M : Unheard(q, t, M, gw) => Heals(u) \/ ~Read(q, N)
  BY DEF Mends
<1> HIDE DEF M, N
<1>7. Promised(u, N, gw)
  BY <1>1, <1>3, <1>4 DEF Promised, Carries, Grants
<1>8. Parted(u, N)
  BY <1>1, <1>2, <1>4 DEF Parted, Superseded
<1>9. u.child = t.child => Spared(u, N, k)
  BY <1>2, <1>3, <1>4 DEF Spared, Carries
<1>10. u.child = t.child /\ Mends(t, u) => Backed(u, N, gw)
  BY <1>1, <1>4, <1>6 DEF Backed, Unheard
<1>11. Apt(u, N, gw)
  <2> SUFFICES ASSUME MayDelete PROVE InTurn(u, N, gw) /\ Welcome(u, N, gw)
    BY DEF Apt
  <2>1. InTurn(t, M, gw) /\ Welcome(t, M, gw)
    BY <1>4 DEF Apt
  <2>2. \A sa : Superseded(sa, M) => Superseded(sa, N)
    BY <1>1 DEF Superseded
  <2>3. InTurn(u, N, gw)
    BY <1>2, <1>3, <2>1, <2>2 DEF InTurn, Carries
  <2>4. Welcome(u, N, gw)
    BY <1>1, <1>3, <2>1 DEF Welcome, Carries, ChildResponseOK
  <2> QED BY <2>3, <2>4
<1> QED BY <1>5, <1>7, <1>8, <1>9, <1>10, <1>11 DEF M, N

\* If the Child SA stays, it keeps everything.
LEMMA SoundCalm ==
    ASSUME NEW t, NEW u, NEW k, Sound(t, k), Calm(t, u), Mends(t, u), u.child = t.child
    PROVE  Sound(u, k)
<1> SUFFICES ASSUME u.status = "up" PROVE Mended(u, Wire(u), gw, k)
  BY DEF Sound
<1>1. Mended(t, Wire(t), gw, k)
  BY DEF Sound, Calm, Civil
<1> QED BY <1>1, CalmMended DEF Mended

\* The draw of a nonce is harmless.
LEMMA SoundLater ==
    ASSUME NEW t, NEW k \in Nat, Sound(t, k)
    PROVE  Sound(t, k + 1)
<1> SUFFICES ASSUME t.status = "up" PROVE Mended(t, Wire(t), gw, k + 1)
  BY DEF Sound
<1>1. Spared(t, Wire(t), k + 1)
  BY DEF Sound, Mended, Spared
<1> QED BY <1>1 DEF Sound, Mended

\* What of the session stays when its flags change.
Steady(t, u) ==
    /\ Alike(t, u) /\ u.pending.oldIn = t.pending.oldIn /\ u.pending.reest = t.pending.reest
    /\ u.child = t.child /\ (u.status = "up" => t.status = "up")
    /\ Heals(t) => Heals(u)

\* Flags, attempts and what is sent again.
LEMMA SteadyCalm ==
    ASSUME NEW t, NEW u, Steady(t, u),
           NEW X, u.out = t.out \cup X,
           \A m \in X : \/ Pending(t) /\ m = t.pending.req
                        \/ t.oldIKEDelete.kind # "none" /\ m = t.oldIKEDelete.req
                        \/ m \in Wire(t),
           \A m \in X : From(m) = "client" /\ (~Resp(m) \/ m \in Wire(t))
    PROVE  Calm(t, u) /\ Mends(t, u)
<1>1. Wire(u) = Wire(t) \cup X
  BY DEF Wire
<1>2. Asked(u, Wire(u)) \subseteq Asked(t, Wire(t))
  BY <1>1 DEF Asked, Kept, Steady, Alike, Pending
<1>3. Calm(t, u)
  BY <1>1, <1>2 DEF Calm, Civil, Steady, Alike, Carries
<1>4. \A q : Read(q, Wire(u)) => Read(q, Wire(t))
  <2> SUFFICES ASSUME NEW q, NEW a \in Wire(u), From(a) = "client", Answers(a, q)
               PROVE  a \in Wire(t)
    BY DEF Read
  <2>1. Resp(a)
    BY DEF Answers, Resp
  <2> QED BY <1>1, <2>1
<1>5. Mends(t, u)
  BY <1>4 DEF Mends, Steady, Unheard
<1> QED BY <1>3, <1>5

\* A change of flags is harmless.
LEMMA SoundFlags ==
    ASSUME NEW t, NEW u, NEW k, Sound(t, k), Steady(t, u), u.out = t.out
    PROVE  Sound(u, k)
<1> DEFINE X == {}
<1>1. u.out = t.out \cup X /\ \A m \in X : FALSE
  OBVIOUS
<1> HIDE DEF X
<1>2. Calm(t, u) /\ Mends(t, u)
  BY <1>1, SteadyCalm
<1> QED BY <1>2, SoundCalm DEF Steady

\* Also after the nonce of the step was used.
LEMMA SolidFlags ==
    ASSUME NEW t, NEW u, NEW k, Solid(t, k), Steady(t, u), u.out = t.out
    PROVE  Solid(u, k)
<1>1. Spends(t, k + 1) => Spends(u, k + 1)
  BY DEF Spends, Steady, Alike
<1> QED BY <1>1, SoundFlags DEF Solid

\* Exchanges may be forgotten.
LEMMA SoundForget ==
    ASSUME NEW t, NEW u, NEW k, Sound(t, k), u.out = t.out, u.child = t.child,
           u.ike = t.ike, u.messageID = t.messageID, u.oldIKE \in {t.oldIKE, NoIKE},
           u.status = "up" => t.status = "up",
           u.pending \in {t.pending, NoExchange},
           u.oldIKEDelete \in {t.oldIKEDelete, NoExchange},
           Heals(t) => Heals(u)
    PROVE  Sound(u, k)
<1>1. Wire(u) = Wire(t)
  BY DEF Wire
<1>2. NoExchange.kind = "none" /\ ~NoExchange.reest
  BY DEF NoExchange
<1>3. Asked(u, Wire(u)) \subseteq Asked(t, Wire(t))
  BY <1>1, <1>2 DEF Asked, Kept
<1>4. Calm(t, u) /\ Mends(t, u)
  BY <1>1, <1>2, <1>3 DEF Calm, Civil, Carries, Mends, Unheard
<1> QED BY <1>4, SoundCalm

\* An exchange that begins.
Tame(x, t, n) ==
    /\ From(x.req) = "client" /\ ~Resp(x.req) /\ Kind(x.req) # "delIKE"
    /\ Sa(x.req) = t.ike /\ Id(x.req) = t.messageID
    /\ Kind(x.req) = "delESP" =>
          Spi(x.req) \in 0..n /\ Spi(x.req) # t.child.in /\ x.kind # "child"
    /\ x.reest => x.kind = "child" /\ x.req.body.rekey = 0
    /\ x.kind = "child" =>
          /\ x.newIn \in 0..n /\ x.oldIn \in 0..n
          /\ \A m \in Asked(t, Wire(t)) : Kind(m) = "delESP" => Spi(m) # x.newIn

\* A request with the next Message ID has no answer yet.
LEMMA Unanswered ==
    ASSUME NEW t, NEW k, Mid(t, k), Ordered(Wire(t), gw), NEW q, Sa(q) = t.ike, Id(q) = t.messageID
    PROVE  \A r \in Wire(t) : From(r) = "gw" => ~Answers(r, q)
<1> SUFFICES ASSUME NEW r \in Wire(t), From(r) = "gw", Answers(r, q)
             PROVE  FALSE
  OBVIOUS
<1>1. Resp(r) /\ Sa(r) = Sa(q) /\ Id(r) = Id(q)
  BY DEF Answers, Resp, Sa, Id
<1>2. PICK p \in Wire(t) : From(p) = "client" /\ Answers(r, p)
  BY <1>1 DEF Ordered
<1>3. ~Resp(p) /\ Sa(p) = Sa(r) /\ Id(p) = Id(r)
  BY <1>2 DEF Answers, Resp, Sa, Id
<1>4. p \in Asked(t, Wire(t))
  BY <1>2, <1>3 DEF Asked
<1>5. Id(p) < t.messageID /\ t.messageID \in Nat /\ Id(p) \in Nat
  BY <1>1, <1>3, <1>4 DEF Mid, ClientSide, Shaped, Numbered
<1> QED BY <1>1, <1>3, <1>5

\* The start of a tame exchange is harmless.
LEMMA SoundBegin ==
    ASSUME NEW t, NEW x, NEW k \in Nat, NEW n \in Nat, k <= n, NEW err,
           Sound(t, k), Mid(t, k), Tame(x, t, n), ~t.pending.reest
    PROVE  Sound(Begin(t, x, err), n)
<1> DEFINE u == Begin(t, x, err)  M == Wire(t)  N == Wire(u)
<1>1. /\ DOMAIN t = SessionFields /\ t.messageID \in Nat
      /\ \A m \in t.out : From(m) = "client"
  BY DEF Mid, ClientSide, Shaped
<1>2. /\ u.pending = x /\ u.child = t.child /\ u.oldIKEDelete = t.oldIKEDelete
      /\ u.out = t.out \/ u.out = t.out \cup {x.req}
      /\ u.ike = t.ike /\ u.oldIKE = t.oldIKE /\ u.status = t.status
      /\ u.messageID = t.messageID + 1 /\ u.childReestablish = t.childReestablish
  BY <1>1 DEF SessionFields, Begin, Send
<1>3. N = M \/ N = M \cup {x.req}
  BY <1>2 DEF Wire
<1> SUFFICES ASSUME t.status = "up" PROVE Mended(u, N, gw, n)
  BY <1>2 DEF Sound
<1>5. Mended(t, M, gw, k)
  BY DEF Sound
<1>6. \A r \in M : From(r) = "gw" => ~Answers(r, x.req)
  BY <1>5, Unanswered DEF Tame, Mended
<1>7. Civil(t, u)
  BY <1>2, <1>3 DEF Civil, Tame
<1>8. Quit(u, N) /\ Turned(N, gw) /\ Ordered(N, gw)
  BY <1>5, <1>7, CivilOrdered, CivilQuit DEF Mended
<1> HIDE DEF M, N, u
<1>9. Asked(u, N) \subseteq Asked(t, M) \cup {x.req}
  BY <1>2, <1>3 DEF Asked, Kept
<1>10. Spared(u, N, n)
  <2>1. /\ t.child.in \in 0..k
        /\ \A m \in Asked(t, M) : Kind(m) = "delESP" => Spi(m) \in 0..k /\ Spi(m) # t.child.in
    BY <1>5 DEF Mended, Spared
  <2>2. /\ Kind(x.req) = "delESP" => Spi(x.req) \in 0..n /\ Spi(x.req) # t.child.in /\ x.kind # "child"
        /\ x.reest => x.kind = "child"
        /\ x.kind = "child" => x.newIn \in 0..n /\ x.oldIn \in 0..n
    BY DEF Tame
  <2>3. x.kind = "child" => \A m \in Asked(t, M) : Kind(m) = "delESP" => Spi(m) # x.newIn
    BY DEF Tame, M
  <2>4. \A i \in 0..k : i \in 0..n
    OBVIOUS
  <2>5. /\ u.child.in \in 0..n
        /\ \A m \in Asked(u, N) : Kind(m) = "delESP" => Spi(m) \in 0..n /\ Spi(m) # u.child.in
    BY <1>2, <1>9, <2>1, <2>2, <2>4
  <2>6. x.kind = "child" => \A m \in Asked(u, N) : Kind(m) = "delESP" => Spi(m) # x.newIn
    BY <1>9, <2>2, <2>3
  <2> QED BY <1>2, <2>2, <2>5, <2>6 DEF Spared
<1>11. \A r \in N : From(r) = "gw" => r \in M
  BY <1>3 DEF Tame
<1>12. Promised(u, N, gw)
  BY <1>2, <1>6, <1>11 DEF Promised, Grants
<1>13. \A sa : Superseded(sa, M) => Superseded(sa, N)
  BY <1>3 DEF Superseded
<1>14. Parted(u, N)
  BY <1>5, <1>9, <1>13 DEF Mended, Parted, Tame
<1>15. Backed(u, N, gw)
  <2>1. \A q : Read(q, N) => Read(q, M)
    BY <1>3 DEF Read, Tame, Answers, Resp
  <2>2. Heals(t) => Heals(u)
    BY <1>2 DEF Heals
  <2> QED BY <1>2, <1>3, <1>5, <2>1, <2>2 DEF Mended, Backed, Unheard
<1>16. Apt(u, N, gw)
  <2> SUFFICES ASSUME MayDelete PROVE InTurn(u, N, gw) /\ Welcome(u, N, gw)
    BY DEF Apt
  <2>1. InTurn(t, M, gw)
    BY <1>5 DEF Mended, Apt
  <2>2. InTurn(u, N, gw)
    BY <1>2, <1>9, <1>13, <2>1 DEF InTurn, Tame
  <2>3. Welcome(u, N, gw)
    BY <1>2, <1>6, <1>11 DEF Welcome, Tame
  <2> QED BY <2>2, <2>3
<1> QED BY <1>8, <1>10, <1>12, <1>14, <1>15, <1>16 DEF Mended

-----------------------------------------------------------------------------
(* The handlers that begin an exchange.                                    *)

\* initiateDPD.
LEMMA SoundDPD ==
    ASSUME NEW t, NEW k, NEW fast, NEW err, Holds(t, k), Sound(t, k), ~t.pending.reest
    PROVE  Sound(initiateDPD(t, fast, err), k)
<1> DEFINE req == Request(t, "INFO", Empty)
           x == [Exchange("dpd", req) EXCEPT !.fast = fast]
<1>1. /\ x.kind = "dpd" /\ x.req = req /\ x.reest = FALSE
      /\ From(req) = "client" /\ Resp(req) = FALSE /\ Kind(req) = "empty"
      /\ Sa(req) = t.ike /\ Id(req) = t.messageID
  BY DEF Exchange, NoExchange, Request, Message, Empty, Kind, From, Resp, Sa, Id
<1> HIDE DEF x, req
<1>2. Tame(x, t, k)
  BY <1>1 DEF Tame
<1>3. Sound(Begin(t, x, err), k)
  BY <1>2, SoundBegin, HoldsShape DEF Holds
<1> QED BY <1>3 DEF initiateDPD, x, req

\* sendChildDelete, of another Child SA than the one in use.
LEMMA SoundChildDelete ==
    ASSUME NEW t, NEW k, NEW spi \in 0..k, NEW err, Holds(t, k), Sound(t, k), spi # t.child.in,
           ~t.pending.reest
    PROVE  Sound(sendChildDelete(t, spi, err), k)
<1> DEFINE req == Request(t, "INFO", DeleteESP(spi))
           x == Exchange("delete", req)
<1>1. /\ x.kind = "delete" /\ x.req = req /\ x.reest = FALSE
      /\ From(req) = "client" /\ Resp(req) = FALSE /\ Kind(req) = "delESP" /\ Spi(req) = spi
      /\ Sa(req) = t.ike /\ Id(req) = t.messageID
  BY DEF Exchange, NoExchange, Request, Message, DeleteESP, Kind, From, Resp, Spi, Sa, Id
<1> HIDE DEF x, req
<1>2. Tame(x, t, k)
  BY <1>1 DEF Tame
<1>3. Sound(Begin(t, x, err), k)
  BY <1>2, SoundBegin, HoldsShape DEF Holds
<1> QED BY <1>3 DEF sendChildDelete, x, req

\* initiateChildRekey: no DELETE names the SPI asked for.
LEMMA SolidChildRekey ==
    ASSUME NEW t, NEW k, NEW reest \in BOOLEAN, NEW in, Holds(t, k), Sound(t, k), t.status = "up",
           in.n = k + 1, in.spi \in {k + 1, t.child.in}, ~t.pending.reest
    PROVE  /\ Solid(initiateChildRekey(t, reest, in), k)
           /\ initiateChildRekey(t, reest, in).childReestablish = t.childReestablish
           /\ in.err # "early" => initiateChildRekey(t, reest, in).pending.reest = reest
<1> DEFINE dh  == IF t.childPFS THEN childRekeyGroup(t) ELSE 0
           old == IF reest THEN 0 ELSE t.child.in
           body == ChildRequest(in.n, in.spi, old, dh, "good")
           req == Request(t, "CCSA", body)
           x   == [Exchange("child", req) EXCEPT
                     !.reest = reest, !.newIn = in.spi, !.oldIn = t.child.in,
                     !.ni = in.n, !.dh = dh]
<1>1. body.t = "child" /\ (reest => body.rekey = 0)
  BY DEF ChildRequest
<1> HIDE DEF body, dh, old
<1>2. /\ x.kind = "child" /\ x.req = req /\ x.ni = k + 1 /\ x.reest = reest
      /\ x.newIn = in.spi /\ x.oldIn = t.child.in
      /\ From(req) = "client" /\ Resp(req) = FALSE /\ Sa(req) = t.ike /\ Id(req) = t.messageID
      /\ req.body = body
  BY Zenon DEF Exchange, NoExchange, Request, Message, From, Resp, Sa, Id
<1> HIDE DEF x, req
<1>3. k \in Nat /\ k + 1 \in Nat /\ k <= k + 1
  BY HoldsShape
<1>4. Tame(x, t, k + 1)
  <2>0. Spared(t, Wire(t), k)
    BY DEF Sound, Mended
  <2>1. x.newIn \in 0 .. k + 1 /\ x.oldIn \in 0 .. k + 1
    BY <1>2, <1>3, <2>0 DEF Spared
  <2>2. \A m \in Asked(t, Wire(t)) : Kind(m) = "delESP" => Spi(m) # x.newIn
    BY <1>2, <1>3, <2>0 DEF Spared
  <2> QED BY <1>1, <1>2, <2>1, <2>2 DEF Tame, Kind
<1>5. Sound(Begin(t, x, in.err), k + 1)
  <2> DEFINE n == k + 1
  <2> HIDE DEF n
  <2>1. n \in Nat /\ k <= n /\ Tame(x, t, n)
    BY <1>3, <1>4 DEF n
  <2>2. Sound(Begin(t, x, in.err), n)
    BY <1>3, <2>1, SoundBegin DEF Holds
  <2> QED BY <2>2 DEF n
<1>6. /\ Begin(t, x, in.err).pending = x /\ Begin(t, x, in.err).childReestablish = t.childReestablish
  BY HoldsShape DEF Begin, Send, SessionFields
<1>7. Spends(Begin(t, x, in.err), k + 1)
  BY <1>2, <1>6 DEF Spends
<1>8. initiateChildRekey(t, reest, in) = IF in.err = "early" THEN t ELSE Begin(t, x, in.err)
  BY DEF initiateChildRekey, x, req, body, dh, old
<1> QED BY <1>2, <1>5, <1>6, <1>7, <1>8 DEF Solid

\* initiateIKERekey.
LEMMA SolidIKERekey ==
    ASSUME NEW t, NEW k, NEW in, Holds(t, k), Sound(t, k), in.n = k + 1, ~t.pending.reest
    PROVE  Solid(initiateIKERekey(t, in), k)
<1> DEFINE body == IKERequest(in.n, t.ikeDHGroup, "good")
           req == Request(t, "CCSA", body)
           x   == [Exchange("ike", req) EXCEPT !.ni = in.n, !.dh = t.ikeDHGroup]
<1>1. body.t = "ike"
  BY DEF IKERequest
<1> HIDE DEF body
<1>2. /\ x.kind = "ike" /\ x.req = req /\ x.reest = FALSE
      /\ From(req) = "client" /\ Resp(req) = FALSE /\ req.body = body
      /\ Sa(req) = t.ike /\ Id(req) = t.messageID
  BY DEF Exchange, NoExchange, Request, Message, From, Resp, Sa, Id
<1> HIDE DEF x, req
<1>3. Tame(x, t, k)
  BY <1>1, <1>2 DEF Tame, Kind
<1>4. Sound(Begin(t, x, in.err), k)
  BY <1>3, SoundBegin, HoldsShape DEF Holds
<1>5. initiateIKERekey(t, in) \in {t, Begin(t, x, in.err)}
  BY DEF initiateIKERekey, x, req, body
<1> QED BY <1>4, <1>5 DEF Solid

-----------------------------------------------------------------------------
(* A tick.                                                                 *)

\* While nothing is in flight, nothing is re-established.
LEMMA IdleHeals ==
    ASSUME NEW t, NEW k, Sound(t, k), t.status = "up", ~Pending(t)
    PROVE  ~t.pending.reest
BY DEF Sound, Mended, Spared, Pending

\* detectSuspend.
LEMMA SoundSuspend ==
    ASSUME NEW t, NEW k, NEW due, NEW err, Holds(t, k), Sound(t, k), t.status = "up"
    PROVE  LET u == detectSuspend(t, due, err)
           IN Sound(u, k) /\ u.child = t.child /\ u.status = "up"
<1> DEFINE u == [t EXCEPT !.pending.fast = TRUE, !.fastDPDDue = @ \/ t.pending.kind # "dpd"]
           v == initiateDPD(t, TRUE, err)
<1>1. Steady(t, u) /\ u.out = t.out /\ u.status = t.status
  BY HoldsShape DEF Steady, Alike, Heals, SessionFields, ExchangeFields
<1>2. \/ detectSuspend(t, due, err) \in {t, u}
      \/ detectSuspend(t, due, err) = v /\ ~Pending(t)
  BY Zenon DEF detectSuspend
<1>3. ~Pending(t) => Sound(v, k)
  BY IdleHeals, SoundDPD, Zenon
<1>4. v.child = t.child /\ v.status = t.status
  <2> DEFINE x == [Exchange("dpd", Request(t, "INFO", Empty)) EXCEPT !.fast = TRUE]
  <2>1. v \in {t, Begin(t, x, err)}
    BY Zenon DEF initiateDPD
  <2> HIDE DEF x, v
  <2>2. DOMAIN t = SessionFields
    BY HoldsShape
  <2>3. Begin(t, x, err).child = t.child /\ Begin(t, x, err).status = t.status
    BY <2>2 DEF Begin, Send, SessionFields
  <2> QED BY <2>1, <2>3
<1> HIDE DEF u, v
<1>5. Sound(u, k) /\ u.child = t.child
  BY <1>1, SoundFlags DEF Steady
<1> QED BY <1>1, <1>2, <1>3, <1>4, <1>5

\* The grace of the superseded IKE SA.
LEMMA SoundGrace ==
    ASSUME NEW t, NEW k, NEW due, Holds(t, k), Sound(t, k), t.status = "up"
    PROVE  LET u == expireGrace(t, due)
           IN Sound(u, k) /\ u.child = t.child /\ u.status = "up"
<1> DEFINE u == [t EXCEPT !.oldIKE = NoIKE, !.oldPeer = NoDedup, !.oldIKEDelete = NoExchange]
<1>1. /\ u.out = t.out /\ u.child = t.child /\ u.pending = t.pending
      /\ u.oldIKEDelete = NoExchange /\ u.ike = t.ike /\ u.messageID = t.messageID
      /\ u.oldIKE = NoIKE /\ u.status = t.status /\ u.childReestablish = t.childReestablish
  BY HoldsShape DEF SessionFields
<1> HIDE DEF u
<1>2. Sound(u, k)
  BY <1>1, SoundForget DEF Heals
<1> QED BY <1>1, <1>2 DEF expireGrace, u

\* The retransmission of the superseded SA's DELETE.
LEMMA SoundOldDelete ==
    ASSUME NEW t, NEW k, NEW due, Holds(t, k), Sound(t, k), t.status = "up"
    PROVE  LET u == retransmitOldDelete(t, due)
           IN Sound(u, k) /\ u.child = t.child /\ u.status = "up"
<1> DEFINE u == [t EXCEPT !.oldIKEDelete = NoExchange]
           v == Send([t EXCEPT !.oldIKEDelete.attempts = @ + 1], t.oldIKEDelete.req)
           X == {t.oldIKEDelete.req}
<1>1. /\ u.out = t.out /\ u.child = t.child /\ u.pending = t.pending
      /\ u.oldIKEDelete = NoExchange /\ u.ike = t.ike /\ u.messageID = t.messageID
      /\ u.oldIKE = t.oldIKE /\ u.status = t.status /\ u.childReestablish = t.childReestablish
  BY HoldsShape DEF SessionFields
<1>2. Steady(t, v) /\ v.out = t.out \cup X /\ v.status = t.status
  BY HoldsShape DEF Steady, Alike, Heals, Send, SessionFields, ExchangeFields
<1>3. \A m \in X : m = t.oldIKEDelete.req
  OBVIOUS
<1>4. t.oldIKEDelete.kind # "none" =>
        From(t.oldIKEDelete.req) = "client" /\ ~Resp(t.oldIKEDelete.req)
  BY DEF Holds, Mid, ClientSide, Goodbyes
<1>5. retransmitOldDelete(t, due) \in {t, u} \/ (retransmitOldDelete(t, due) = v /\ t.oldIKEDelete.kind # "none")
  BY DEF retransmitOldDelete
<1> HIDE DEF u, v, X
<1>6. Sound(u, k)
  BY <1>1, SoundForget DEF Heals
<1>7. v.child = t.child
  BY <1>2 DEF Steady
<1>8. t.oldIKEDelete.kind # "none" => Sound(v, k)
  BY <1>2, <1>3, <1>4, <1>7, SteadyCalm, SoundCalm
<1> QED BY <1>1, <1>2, <1>5, <1>6, <1>7, <1>8

\* retransmitPending: a re-establishment that is given up is queued again.
LEMMA SoundRetransmit ==
    ASSUME NEW t, NEW k, NEW due, Holds(t, k), Sound(t, k), t.status = "up", Pending(t)
    PROVE  Sound(retransmitPending(t, due), k)
<1> DEFINE u == abandonPending(t)
           v == Send([t EXCEPT !.pending.attempts = @ + 1], t.pending.req)
           X == {t.pending.req}
<1>1. /\ u.out = t.out /\ u.child = t.child /\ u.pending = NoExchange
      /\ u.oldIKEDelete = t.oldIKEDelete /\ u.ike = t.ike /\ u.messageID = t.messageID
      /\ u.oldIKE = t.oldIKE /\ u.childReestablish = (t.childReestablish \/ t.pending.reest)
  BY HoldsShape DEF SessionFields, abandonPending
<1>2. Steady(t, v) /\ v.out = t.out \cup X
  BY HoldsShape DEF Steady, Alike, Heals, Send, SessionFields, ExchangeFields
<1>3. \A m \in X : m = t.pending.req /\ From(m) = "client" /\ ~Resp(m)
  BY DEF Holds, Mid, ClientSide, InFlight, Pending
<1>4. retransmitPending(t, due) \in {t, u, v}
  BY DEF retransmitPending
<1> HIDE DEF u, v, X
<1>5. Sound(u, k)
  BY <1>1, SoundForget DEF Heals
<1>6. Sound(v, k)
  BY <1>2, <1>3, SteadyCalm, SoundCalm DEF Steady
<1> QED BY <1>4, <1>5, <1>6

\* The exchanges housekeeping starts.
LEMMA SolidStart ==
    ASSUME SessionInv, NEW t, NEW k, NEW due, NEW in, Holds(t, k), Sound(t, k), t.status = "up",
           ~Pending(t), in.n = k + 1, in.spi \in {k + 1, t.child.in}
    PROVE  Solid(startExchange(t, due, in), k)
<1> DEFINE u == [t EXCEPT !.fastDPDDue = FALSE]
           c == initiateChildRekey(t, TRUE, in)
           v == [c EXCEPT !.throttled = TRUE]
           w == [c EXCEPT !.childReestablish = FALSE, !.throttled = FALSE]
<1>0. ~t.pending.reest
  BY IdleHeals
<1>1. Steady(t, u) /\ u.out = t.out /\ u.status = t.status /\ ~u.pending.reest /\ Alike(t, u)
      /\ u.child = t.child
  BY <1>0, HoldsShape DEF Steady, Alike, Heals, SessionFields
<1>2. Holds(u, k) /\ Sound(u, k)
  BY <1>1, HoldsFlags, SoundFlags, Zenon DEF Holds
<1>3. Sound(initiateDPD(u, TRUE, in.err), k) /\ Sound(initiateDPD(t, FALSE, in.err), k)
  BY <1>0, <1>1, <1>2, SoundDPD, Zenon
<1>4. /\ Solid(c, k) /\ c.childReestablish = t.childReestablish
      /\ in.err # "early" => c.pending.reest = TRUE
      /\ Solid(initiateChildRekey(t, FALSE, in), k) /\ Solid(initiateIKERekey(t, in), k)
  BY <1>0, SolidChildRekey, SolidIKERekey, Zenon
<1>5. Reaches(c, k)
  BY ReachesChildRekey, Zenon
<1>6. \/ startExchange(t, due, in) \in
           {initiateDPD(u, TRUE, in.err), v, initiateChildRekey(t, FALSE, in),
            initiateIKERekey(t, in), initiateDPD(t, FALSE, in.err), t}
      \/ startExchange(t, due, in) = w /\ in.err # "early"
  BY DEF startExchange, reestablishChild
<1> HIDE DEF c, u
<1>7. /\ Steady(c, v) /\ v.out = c.out
      /\ in.err # "early" => Steady(c, w)
      /\ w.out = c.out
  BY <1>4, <1>5, ReachesShape DEF Steady, Alike, Heals, SessionFields
<1>8. Solid(v, k) /\ (in.err # "early" => Solid(w, k))
  BY <1>4, <1>7, SolidFlags, Zenon
<1> QED BY <1>3, <1>4, <1>6, <1>8, Zenon DEF Solid

\* housekeeping keeps the Child SA backed.
LEMMA SolidTick ==
    ASSUME SessionInv, NEW t, NEW k, NEW due, NEW in, Holds(t, k), Sound(t, k), t.status = "up",
           in.n = k + 1, in.spi \in {k + 1, t.child.in}
    PROVE  Solid(housekeeping(t, due, in), k)
<1> DEFINE a == detectSuspend(t, due, in.err)  b == expireGrace(a, due)
           u == retransmitOldDelete(b, due)
<1>1. Holds(a, k) /\ Sound(a, k) /\ a.child = t.child /\ a.status = "up"
  BY HoldsSuspend, SoundSuspend
<1> HIDE DEF a
<1>2. Holds(b, k) /\ Sound(b, k) /\ b.child = t.child /\ b.status = "up"
  BY <1>1, HoldsGrace, SoundGrace
<1> HIDE DEF b
<1>3. Holds(u, k) /\ Sound(u, k) /\ u.child = t.child /\ u.status = "up"
  BY <1>2, HoldsOldDelete, SoundOldDelete
<1> HIDE DEF u
<1>4. \A d : Pending(u) => Sound(retransmitPending(u, d), k)
  BY <1>3, SoundRetransmit
<1>5. ~Pending(u) => Solid(startExchange(u, due, in), k)
  BY <1>3, SolidStart
<1> QED BY <1>4, <1>5 DEF housekeeping, Solid, u, a, b

-----------------------------------------------------------------------------
(* A request of the gateway.                                               *)

\* The answer may be given: it ends no IKE SA in use, and grants a new one only to
\* a gateway that waits for it.
Fit(t, req, body) ==
    /\ req \in net /\ Demand(req)
    /\ Kind(req) = "delIKE" => Left(Sa(req), Wire(t))
    /\ body.t = "ike" => Waiting(gw, req)

\* An answer asks for nothing.
LEMMA CalmAnswer ==
    ASSUME NEW t, NEW viaOld, NEW req, NEW body, NEW err, DOMAIN t = SessionFields,
           Fit(t, req, body)
    PROVE  Calm(t, Answer(t, viaOld, req, body, err))
<1> DEFINE u == Answer(t, viaOld, req, body, err)  r == Response(req, body)
<1>1. /\ u.pending = t.pending /\ u.oldIKEDelete = t.oldIKEDelete
      /\ u.out = t.out \/ u.out = t.out \cup {r}
      /\ u.ike = t.ike /\ u.messageID = t.messageID /\ u.oldIKE = t.oldIKE /\ u.status = t.status
  BY DEF Answer, Send, recordPeerResponse, SessionFields
<1>2. From(r) = "client" /\ Resp(r) /\ Answers(r, req) /\ Kind(r) = body.t
  BY DEF Response, Message, From, Resp, Answers, Kind, Fit, Demand
<1> HIDE DEF u, r
<1>3. Wire(u) = Wire(t) \/ Wire(u) = Wire(t) \cup {r}
  BY <1>1 DEF Wire
<1>4. Asked(u, Wire(u)) \subseteq Asked(t, Wire(t))
  BY <1>1, <1>2, <1>3 DEF Asked
<1>5. Fair(r, Wire(t))
  BY <1>2 DEF Fair, Fit
<1>6. Civil(t, u)
  BY <1>1, <1>2, <1>3, <1>5 DEF Civil
<1>7. Calm(t, u)
  BY <1>1, <1>4, <1>6 DEF Calm, Carries
<1> QED BY <1>7 DEF u

\* The client has seen to the Child SA before it agrees to the end of it.
LEMMA MendsAnswer ==
    ASSUME NEW t, NEW viaOld, NEW req, NEW body, NEW err, DOMAIN t = SessionFields,
           Fit(t, req, body), Ordered(Wire(t), gw),
           Kind(req) = "delESP" /\ Spi(req) = t.child.out => Heals(t)
    PROVE  Mends(t, Answer(t, viaOld, req, body, err))
<1> DEFINE u == Answer(t, viaOld, req, body, err)  r == Response(req, body)
<1>1. /\ u.out = t.out \/ u.out = t.out \cup {r}
      /\ u.pending = t.pending /\ u.childReestablish = t.childReestablish
  BY DEF Answer, Send, recordPeerResponse, SessionFields
<1>2. Answers(r, req)
  BY DEF Response, Message, From, Resp, Answers, Fit, Demand
<1> HIDE DEF u, r
<1>3. net \subseteq Wire(t) /\ (Wire(u) = Wire(t) \/ Wire(u) = Wire(t) \cup {r})
  BY <1>1 DEF Wire
<1>4. Heals(t) => Heals(u)
  BY <1>1 DEF Heals
<1>5. ASSUME NEW q \in Wire(t), Unheard(q, t, Wire(t), gw), Read(q, Wire(u)) PROVE Heals(u)
  <2>1. Answers(r, q)
    BY <1>3, <1>5 DEF Unheard, Read
  <2>2. q = req
    BY <1>2, <1>3, <1>5, <2>1, KnownByAnswer DEF Fit, Unheard
  <2> QED BY <1>4, <1>5, <2>2 DEF Unheard
<1>6. Mends(t, u)
  BY <1>4, <1>5 DEF Mends
<1> QED BY <1>6 DEF u

\* An answer is harmless.
LEMMA SolidAnswer ==
    ASSUME NEW t, NEW k, NEW viaOld, NEW req, NEW body, NEW err, Solid(t, k),
           DOMAIN t = SessionFields, Fit(t, req, body),
           Kind(req) = "delESP" /\ Spi(req) = t.child.out => Heals(t)
    PROVE  Solid(Answer(t, viaOld, req, body, err), k)
<1> DEFINE u == Answer(t, viaOld, req, body, err)
<1>1. /\ Calm(t, u) /\ u.child = t.child /\ u.pending = t.pending /\ u.ike = t.ike
  BY CalmAnswer, AnswerFields
<1>2. Ordered(Wire(t), gw) => Mends(t, u)
  BY MendsAnswer
<1>3. u.status = t.status
  BY DEF Answer, Send, recordPeerResponse, SessionFields
<1> HIDE DEF u
<1>4. Spends(t, k + 1) => Spends(u, k + 1)
  BY <1>1 DEF Spends
<1>5. \A n : Sound(t, n) => Sound(u, n)
  <2> SUFFICES ASSUME NEW n, Sound(t, n), u.status = "up" PROVE Sound(u, n)
    BY DEF Sound
  <2>1. Ordered(Wire(t), gw)
    BY <1>3 DEF Sound, Mended
  <2> QED BY <1>1, <1>2, <2>1, SoundCalm
<1>6. Solid(u, k)
  BY <1>4, <1>5 DEF Solid
<1> QED BY <1>6 DEF u

\* handleInboundChildDelete: the Child SA that is gone is re-established.
LEMMA SolidInboundDelete ==
    ASSUME SessionInv, NEW t, NEW k, NEW spi, NEW in, Holds(t, k), Sound(t, k), t.status = "up",
           in.n = k + 1, in.spi \in {k + 1, t.child.in}
    PROVE  LET u == handleInboundChildDelete(t, spi, in)
           IN Solid(u, k) /\ u.child = t.child /\ (spi = t.child.out => Heals(u))
<1> DEFINE c == initiateChildRekey(t, TRUE, in)
           u == [t EXCEPT !.childReestablish = TRUE]
           v == [c EXCEPT !.childReestablish = TRUE]
           w == [c EXCEPT !.childReestablish = FALSE, !.throttled = FALSE]
           z == handleInboundChildDelete(t, spi, in)
<1>1. Steady(t, u) /\ u.out = t.out /\ u.child = t.child /\ Heals(u)
  BY HoldsShape DEF Steady, Alike, Heals, SessionFields
<1>2. Solid(t, k) /\ Solid(u, k)
  BY <1>1, SoundFlags, Zenon DEF Solid
<1>3. \/ z = t /\ spi # t.child.out
      \/ z = u
      \/ z = v /\ ~Pending(t)
      \/ z = w /\ ~Pending(t) /\ in.err # "early"
  BY DEF handleInboundChildDelete, deleteRefsChild
<1>4. ASSUME ~Pending(t)
      PROVE  /\ Solid(v, k) /\ v.child = t.child /\ Heals(v)
             /\ in.err # "early" => Solid(w, k) /\ w.child = t.child /\ Heals(w)
  <2>1. /\ Reaches(c, k) /\ Solid(c, k) /\ c.childReestablish = t.childReestablish
        /\ in.err # "early" => c.pending.reest = TRUE
    BY <1>4, IdleHeals, ReachesChildRekey, SolidChildRekey, Zenon
  <2>2. c.child = t.child
    BY HoldsShape DEF initiateChildRekey, Begin, Send, SessionFields
  <2> HIDE DEF c
  <2>3. /\ Steady(c, v) /\ v.out = c.out /\ v.child = c.child /\ Heals(v)
        /\ in.err # "early" => Steady(c, w) /\ Heals(w)
        /\ w.out = c.out /\ w.child = c.child
    BY <2>1, ReachesShape DEF Steady, Alike, Heals, SessionFields
  <2> HIDE DEF v, w
  <2> QED BY <2>1, <2>2, <2>3, SolidFlags
<1> HIDE DEF c, u, v, w, z
<1>5. Solid(z, k) /\ z.child = t.child /\ (spi = t.child.out => Heals(z))
  BY <1>1, <1>2, <1>3, <1>4
<1> QED BY <1>5 DEF z

\* handleInformationalRequest.
LEMMA SolidInformational ==
    ASSUME SessionInv, NEW t, NEW k, NEW viaOld, NEW req \in net, NEW in, Holds(t, k), Sound(t, k),
           t.status = "up", Answerable(t, viaOld, req),
           in.n = k + 1, in.spi \in {k + 1, t.child.in}
    PROVE  Solid(handleInformationalRequest(t, viaOld, req, in), k)
<1> DEFINE v == IF req.body.t = "delESP"
                THEN handleInboundChildDelete(t, req.body.spi, in) ELSE t
           u == Answer(v, viaOld, req, Empty, in.err)
           w == [u EXCEPT !.status = "dead"]
           z == handleInformationalRequest(t, viaOld, req, in)
<1>1. /\ Solid(v, k) /\ DOMAIN v = SessionFields /\ v.child = t.child
      /\ Kind(req) = "delESP" /\ Spi(req) = t.child.out => Heals(v)
  <2>1. Reaches(t, k) /\ Solid(t, k)
    BY DEF Reaches, Solid
  <2>2. CASE Kind(req) = "delESP"
    <3>1. v = handleInboundChildDelete(t, Spi(req), in)
      BY <2>2 DEF Kind, Spi
    <3> HIDE DEF v
    <3> QED BY <2>1, <3>1, ReachesInboundDelete, ReachesShape, SolidInboundDelete
  <2>3. CASE Kind(req) # "delESP"
    <3>1. v = t
      BY <2>3 DEF Kind
    <3> QED BY <2>1, <2>3, <3>1, ReachesShape
  <2> QED BY <2>2, <2>3
<1>2. z = IF Kind(req) = "delIKE" /\ ~viaOld THEN w ELSE u
  BY DEF handleInformationalRequest, Kind
<1>3. net \subseteq Wire(v)
  BY DEF Wire
<1>4. Quit(t, Wire(t)) /\ Demand(req) /\ (viaOld => Sa(req) = t.oldIKE /\ HasOld(t)) /\ viaOld \in BOOLEAN
  BY DEF Sound, Mended, Answerable, Demand
<1>5. CASE Kind(req) = "delIKE" /\ ~viaOld
  <2>1. DOMAIN u = SessionFields
    BY <1>1, AnswerFields
  <2> HIDE DEF u
  <2>2. w.status = "dead"
    BY <2>1 DEF SessionFields
  <2> QED BY <1>2, <1>5, <2>2 DEF Solid, Sound, z
<1>6. CASE ~(Kind(req) = "delIKE" /\ ~viaOld)
  <2>1. Kind(req) = "delIKE" => Left(Sa(req), Wire(v))
    <3> SUFFICES ASSUME Kind(req) = "delIKE" PROVE Left(Sa(req), Wire(v))
      OBVIOUS
    <3>1. v = t
      BY DEF Kind
    <3> QED BY <1>4, <1>6, <3>1 DEF Quit
  <2>2. Fit(v, req, Empty)
    BY <1>4, <2>1 DEF Fit, Empty
  <2> HIDE DEF v
  <2>3. Solid(u, k)
    BY <1>1, <2>2, SolidAnswer
  <2> QED BY <1>2, <1>6, <2>3 DEF z
<1> QED BY <1>5, <1>6

\* A request about a Child SA that was not answered yet is one the gateway still
\* waits on, also under an IKE SA that was superseded; ...
LEMMA AnswerAwaited ==
    ASSUME SessionInv, HoleInv, Up, NEW viaOld, NEW req \in net, Answerable(s, viaOld, req),
           Kind(req) = "child" \/ ~viaOld
    PROVE  Waiting(gw, req)
<1>1. ClientSide(s, net, fresh) /\ Windows(gw, net, fresh)
  BY DEF SessionInv, Good, GatewaySide
<1>2. Parted(s, net) /\ Moved(net, gw)
  BY DEF HoleInv, Mended
<1>3. ~\E r \in net : From(r) = "client" /\ Answers(r, req)
  <2>1. \A m \in net : From(m) = "client" /\ Resp(m) /\ Sa(m) = Sa(req) => Id(m) \in Nat /\ Id(m) < Id(req)
    BY <1>1, LaterRequest DEF ClientSide
  <2>2. \A r \in net : Answers(r, req) => Resp(r) /\ Sa(r) = Sa(req) /\ Id(r) = Id(req)
    BY DEF Answers, Resp, Sa, Id
  <2> QED BY <2>1, <2>2 DEF Answerable
<1>4. From(req) = "gw" /\ ~Resp(req) /\ (~viaOld => Sa(req) = s.ike)
  BY DEF Answerable
<1>5. ~\E m \in net : From(m) = "client" /\ ~Resp(m) /\ Kind(m) = "delIKE" /\ Sa(m) = Sa(req)
  <2> SUFFICES ASSUME NEW m \in net, From(m) = "client", ~Resp(m), Kind(m) = "delIKE", Sa(m) = Sa(req)
               PROVE  FALSE
    OBVIOUS
  <2>1. m \in Asked(s, net)
    BY DEF Asked
  <2>2. Superseded(Sa(req), net)
    BY <1>2, <2>1 DEF Parted
  <2>3. CASE Kind(req) = "child"
    BY <1>2, <1>3, <1>4, <2>2, <2>3 DEF Moved, Asks, Demand, Read
  <2>4. CASE ~viaOld
    BY <1>1, <1>4, <2>4 DEF ClientSide, Goodbyes, Up
  <2> QED BY <2>3, <2>4
<1> QED BY <1>1, <1>3, <1>4, <1>5 DEF Windows, Done

\* handleChildRekeyRequest: the gateway still waits for the answer it will hold the
\* Child SA by.
LEMMA SolidChildRequest ==
    ASSUME NEW t, NEW k, NEW viaOld, NEW req, NEW in,
           Holds(t, k), Sound(t, k), t.status = "up", Answerable(t, viaOld, req), in.n = k + 1,
           in.spi \in {k + 1, t.child.in}, t.pending.kind # "child",
           req \in net, Kind(req) = "child", Waiting(gw, req)
    PROVE  Solid(handleChildRekeyRequest(t, viaOld, req, in), k)
<1> DEFINE b == req.body
           new == [in |-> in.spi, out |-> b.spi,
                   key |-> DeriveChildKeys(Sa(req), b.ni, in.n, b.ke)]
           v == [t EXCEPT !.child = new,
                          !.childPFS = @ \/ b.ke # 0,
                          !.childPFSGroup = IF b.ke # 0 THEN b.ke ELSE @]
           body == ChildResponse(in.n, in.spi, b.ke, b.ke)
           u == Answer(v, viaOld, req, body, in.err)
<1>0. Demand(req) /\ \A x, y : Fit(x, req, y)
  BY DEF Answerable, Demand, Fit
<1>1. Solid(sendNotifyResponse(t, viaOld, req, Refusal(b, in.err), in.err), k) /\ Solid(t, k)
  <2>1. \A why : Fit(t, req, Notify(why))
    BY <1>0
  <2> QED BY <2>1, HoldsShape, SolidAnswer DEF sendNotifyResponse, Solid
<1>2. ASSUME in.err # "ack" PROVE Solid(u, k)
  <2>1. /\ DOMAIN v = SessionFields /\ v.child = new /\ v.out = t.out /\ v.pending = t.pending
        /\ v.oldIKEDelete = t.oldIKEDelete /\ v.ike = t.ike /\ v.messageID = t.messageID
        /\ v.oldIKE = t.oldIKE /\ v.status = t.status
    BY HoldsShape DEF SessionFields
  <2>2. Second(new.key) = k + 1 /\ new.in = in.spi /\ new.out = Spi(req)
    BY DEF DeriveChildKeys, Second, Spi
  <2> HIDE DEF v, new, body
  <2>3. Calm(t, v)
    <3>1. Wire(v) = Wire(t) /\ Asked(v, Wire(v)) = Asked(t, Wire(t))
      BY <2>1 DEF Wire, Asked
    <3> QED BY <2>1, <3>1 DEF Calm, Civil, Carries
  <2>4. Mended(t, Wire(t), gw, k)
    BY DEF Sound
  <2>5. Fit(v, req, body)
    BY <1>0
  <2>6. Calm(v, u) /\ u.child = new /\ u.pending = t.pending
    BY <2>1, <2>5, CalmAnswer, AnswerFields
  <2> HIDE DEF u
  <2>7. Calm(t, u)
    <3>1. net \subseteq Wire(t) /\ Wire(v) = Wire(t)
      BY <2>1 DEF Wire
    <3>2. Civil(t, u)
      BY <2>1, <2>6, <3>1 DEF Calm, Civil
    <3> QED BY <2>1, <2>3, <2>6, <3>2 DEF Calm, Carries
  <2>8. /\ Promised(u, Wire(u), gw) /\ Parted(u, Wire(u)) /\ Apt(u, Wire(u), gw)
        /\ Quit(u, Wire(u)) /\ Turned(Wire(u), gw) /\ Ordered(Wire(u), gw)
    BY <2>4, <2>7, CalmMended
  <2>9. Spared(u, Wire(u), k + 1)
    <3>1. Asked(u, Wire(u)) \subseteq Asked(t, Wire(t))
      BY <2>7 DEF Calm
    <3>2. k \in Nat
      BY HoldsShape
    <3>3. \A x \in 0..k : x \in 0..(k + 1) /\ x # k + 1
      BY <3>2
    <3>4. Spared(t, Wire(t), k)
      BY <2>4 DEF Mended
    <3>5. new.in \in 0..(k + 1) /\ (new.in = k + 1 \/ new.in = t.child.in)
      BY <2>2, <3>2, <3>3, <3>4 DEF Spared
    <3>6. \A m \in Asked(u, Wire(u)) : Kind(m) = "delESP" => Spi(m) \in 0..(k + 1) /\ Spi(m) # new.in
      BY <3>1, <3>3, <3>4, <3>5 DEF Spared
    <3>7. u.pending.kind # "child" /\ ~u.pending.reest
      BY <2>6, <3>4 DEF Spared
    <3> QED BY <2>6, <3>5, <3>6, <3>7 DEF Spared
  <2>10. Backed(u, Wire(u), gw)
    BY <1>0, <2>2, <2>6 DEF Backed, Wire
  <2>11. Spends(u, k + 1)
    BY <2>2, <2>6 DEF Spends, Second
  <2> QED BY <2>8, <2>9, <2>10, <2>11 DEF Solid, Sound, Mended
<1>3. \/ handleChildRekeyRequest(t, viaOld, req, in) \in
            {sendNotifyResponse(t, viaOld, req, Refusal(b, in.err), in.err), t}
      \/ handleChildRekeyRequest(t, viaOld, req, in) = u /\ in.err # "ack"
  BY DEF handleChildRekeyRequest, From, Resp, Sa, Id, Ex
<1> QED BY <1>1, <1>2, <1>3

\* handleIKERekeyRequest: the client leaves the IKE SA at the gateway's wish.
LEMMA SolidIKERequest ==
    ASSUME HonoursRecovery, NEW t, NEW k, NEW req \in net, NEW in, Holds(t, k), Sound(t, k),
           t.status = "up", Demand(req), Kind(req) = "ike", Sa(req) = t.ike, Waiting(gw, req),
           t.pending.kind \notin {"child", "ike"}
    PROVE  Solid(handleIKERekeyRequest(t, req, in), k)
<1> DEFINE b == req.body
           new == DeriveRekeyIKE(Sa(req), b.ni, in.n, b.ke)
           no == FALSE
           body == IKEResponse(in.n, b.ke)
           r == Response(req, body)
           v == Answer(t, no, req, body, in.err)
           u == [swapIKE(v, new) EXCEPT !.ikeDHGroup = b.ke]
<1>0. DOMAIN t = SessionFields /\ \A x, y : Fit(x, req, y)
  BY HoldsShape DEF Fit
<1>1. \A why, err : Solid(sendNotifyResponse(t, FALSE, req, why, err), k)
  BY <1>0, SolidAnswer, Zenon DEF sendNotifyResponse, Solid
<1>2. \/ \E why, err : handleIKERekeyRequest(t, req, in) = sendNotifyResponse(t, FALSE, req, why, err)
      \/ handleIKERekeyRequest(t, req, in) = u /\ in.err # "ack"
  BY Zenon DEF handleIKERekeyRequest, From, Resp, Sa, Id, Ex
<1>3. Yields(r, req)
  BY DEF Response, Message, IKEResponse, Yields, Answers, From, Resp, Sa, Id, Ex, Kind, Demand
<1>4. /\ v.pending = t.pending /\ v.childReestablish = t.childReestablish /\ v.ike = t.ike
      /\ v.status = t.status /\ (in.err # "ack" => r \in v.out)
  BY <1>0 DEF Answer, Send, recordPeerResponse, SessionFields
<1> HIDE DEF no, body, r
<1>5. Calm(t, v) /\ v.child = t.child /\ DOMAIN v = SessionFields
  BY <1>0, CalmAnswer, AnswerFields
<1>6. Mends(t, v)
  <2>1. Ordered(Wire(t), gw)
    BY DEF Sound, Mended
  <2> QED BY <1>0, <2>1, MendsAnswer
<1> HIDE DEF v, new
<1>7. Mended(v, Wire(v), gw, k)
  BY <1>4, <1>5, <1>6, SoundCalm DEF Sound
<1>8. /\ u.child = v.child /\ u.pending = NoExchange /\ u.oldIKEDelete = v.oldIKEDelete
      /\ u.out = v.out /\ u.childReestablish = v.childReestablish /\ u.oldIKE = v.ike
  BY <1>5 DEF swapIKE, SessionFields
<1>9. NoExchange.kind = "none" /\ ~NoExchange.reest
  BY DEF NoExchange
<1> HIDE DEF u
<1>10. ASSUME in.err # "ack" PROVE Sound(u, k)
  <2> DEFINE N == Wire(v)
  <2>1. Wire(u) = N /\ r \in N /\ req \in N
    BY <1>4, <1>8, <1>10 DEF Wire
  <2>2. /\ Spared(v, N, k) /\ Parted(v, N) /\ Backed(v, N, gw)
        /\ Quit(v, N) /\ Turned(N, gw) /\ Ordered(N, gw)
    BY <1>7 DEF Mended
  <2> HIDE DEF N
  <2>3. Asked(u, N) \subseteq Asked(v, N)
    BY <1>8, <1>9 DEF Asked, Kept
  <2>4. Spared(u, N, k)
    BY <1>8, <1>9, <2>2, <2>3 DEF Spared
  <2>5. Promised(u, N, gw)
    BY <1>8, <1>9 DEF Promised
  <2>6. Parted(u, N)
    BY <2>2, <2>3 DEF Parted
  <2>7. Backed(u, N, gw)
    <3>1. Heals(v) => Heals(u)
      BY <1>4, <1>8, <2>2 DEF Heals, Spared
    <3> QED BY <1>8, <2>2, <3>1 DEF Backed, Unheard
  <2>8. Quit(u, N)
    <3>1. Left(u.oldIKE, N)
      BY <1>3, <1>4, <1>8, <2>1 DEF Left
    <3> QED BY <2>2, <3>1 DEF Quit
  <2>9. Apt(u, N, gw)
    BY <2>1, <2>2 DEF Apt, Turned, MayDelete, HonoursRecovery
  <2> QED BY <2>1, <2>2, <2>4, <2>5, <2>6, <2>7, <2>8, <2>9 DEF Sound, Mended
<1> QED BY <1>1, <1>2, <1>10 DEF Solid

\* handleRequest.
LEMMA SolidRequest ==
    ASSUME SessionInv, HoleInv, Up, HonoursRecovery, NEW req \in net, NEW in,
           From(req) = "gw", ~Resp(req), CanDecode(s, req),
           in.n = fresh + 1, in.spi \in {fresh + 1, s.child.in}
    PROVE  Solid(handleRequest(s, ViaOld(s, req), req, in), fresh)
<1> DEFINE viaOld == ViaOld(s, req)
<1>0. Holds(s, fresh) /\ Wire(s) = net /\ s.status = "up" /\ Demand(req)
  BY StepHolds DEF Up, Demand
<1>a. Sound(s, fresh) /\ Solid(s, fresh)
  BY <1>0 DEF HoleInv, Sound, Solid, Up
<1>1. /\ Id(req) \in Nat /\ Ex(req) \in {"INFO", "CCSA"} /\ viaOld \in BOOLEAN
      /\ Sa(req) = (IF viaOld THEN s.oldIKE ELSE s.ike) /\ (viaOld => HasOld(s))
      /\ Ex(req) = "CCSA" => Kind(req) \in {"child", "ike"}
  BY DEF SessionInv, Good, ClientSide, Drawn, CanDecode, ViaOld, OpenSK, GatewaySide, Windows,
     WindowOf, Keyed, From, Resp, Sa, Id, Ex
<1> HIDE DEF viaOld
<1>2. CASE IsDuplicate(s, viaOld, Id(req))
  <2> DEFINE d == DedupSlot(s, viaOld)  X == {d.resp}  u == Send(s, d.resp)
  <2>1. d.resp \in Wire(s) /\ From(d.resp) = "client"
    BY <1>0, <1>1, <1>2 DEF SessionInv, Good, ClientSide, Answered, Slot, IsDuplicate, DedupSlot
  <2>2. Steady(s, u) /\ u.out = s.out \cup X /\ u.child = s.child
    BY <1>0, HoldsShape DEF Steady, Alike, Heals, Send, SessionFields
  <2>3. \A m \in X : m \in Wire(s) /\ From(m) = "client"
    BY <2>1
  <2> HIDE DEF X, u
  <2>4. Sound(u, fresh)
    BY <1>a, <2>2, <2>3, SteadyCalm, SoundCalm
  <2> QED BY <1>a, <1>2, <2>4 DEF handleRequest, ResendCached, Solid, viaOld, u, From, Resp, Sa, Id, Ex
<1>3. CASE ~IsDuplicate(s, viaOld, Id(req))
  <2>1. Answerable(s, viaOld, req)
    BY <1>0, <1>1, <1>3 DEF Answerable, Demand
  <2>2. Solid(handleInformationalRequest(s, viaOld, req, in), fresh)
    BY <1>0, <1>a, <2>1, SolidInformational
  <2>3. Keyed(req) => Solid(sendNotifyResponse(s, viaOld, req, "TEMPORARY_FAILURE", in.err), fresh)
    <3>1. Keyed(req) => Fit(s, req, Notify("TEMPORARY_FAILURE"))
      BY <1>0 DEF Fit, Keyed, Notify
    <3>2. Keyed(req) => Kind(req) # "delESP"
      BY DEF Keyed
    <3> QED BY <1>0, <1>a, <3>1, <3>2, HoldsShape, SolidAnswer DEF sendNotifyResponse
  <2>4. Kind(req) = "ike" /\ ~viaOld /\ s.pending.kind \notin {"child", "ike"} =>
          Solid(handleIKERekeyRequest(s, req, in), fresh)
    BY <1>0, <1>1, <1>a, <2>1, AnswerAwaited, SolidIKERequest
  <2>5. Kind(req) = "child" /\ s.pending.kind # "child" =>
          Solid(handleChildRekeyRequest(s, viaOld, req, in), fresh)
    BY <1>0, <1>a, <2>1, AnswerAwaited, SolidChildRequest
  <2> QED BY <1>1, <1>3, <2>2, <2>3, <2>4, <2>5
          DEF handleRequest, viaOld, Keyed, Kind, From, Resp, Sa, Id, Ex
<1> QED BY <1>2, <1>3 DEF viaOld

-----------------------------------------------------------------------------
(* An answer of the gateway.                                               *)

\* What ends the exchange in flight answers its request.
LEMMA OwnAnswer ==
    ASSUME SessionInv, HoleInv, Up, NEW r \in net, From(r) = "gw", Resp(r), Sa(r) = s.ike,
           Pending(s), Id(s.pending.req) = Id(r)
    PROVE  Answers(r, s.pending.req)
<1> DEFINE p == s.pending.req
<1>1. PICK q \in net : From(q) = "client" /\ Answers(r, q)
  BY DEF HoleInv, Mended, Ordered
<1>2. ~Resp(q) /\ Sa(q) = Sa(r) /\ Id(q) = Id(r)
  BY <1>1 DEF Answers, Resp, Sa, Id
<1>3. p \in Asked(s, net) /\ Sa(p) = s.ike
  BY DEF SessionInv, Good, ClientSide, InFlight, Asked, Kept, Pending
<1>4. q \in Asked(s, net)
  BY <1>1, <1>2 DEF Asked
<1> HIDE DEF p
<1>5. q = p
  BY <1>2, <1>3, <1>4 DEF SessionInv, Good, ClientSide, Numbered, p
<1> QED BY <1>1, <1>5 DEF p

\* completeChildRekey: the driver installs what was promised and deletes what it replaced.
LEMMA SoundChildCompletion ==
    ASSUME SessionInv, HoleInv, Up, NEW r \in net, NEW err, From(r) = "gw", Resp(r), Sa(r) = s.ike,
           s.pending.kind = "child", Id(s.pending.req) = Id(r)
    PROVE  Sound(completeChildRekey([s EXCEPT !.pending = NoExchange], r.body, s.pending, err), fresh)
<1> DEFINE p == s.pending
           q == s.pending.req
           b == r.body
           t == [s EXCEPT !.pending = NoExchange]
           new == [in |-> p.newIn, out |-> b.spi,
                   key |-> DeriveChildKeys(t.ike, p.ni, b.nr, b.ke)]
           u == [t EXCEPT !.child = new, !.childReestablish = FALSE, !.throttled = FALSE]
<1>0. Holds(s, fresh) /\ Wire(s) = net /\ Mended(s, net, gw, fresh) /\ Answers(r, q)
  BY StepHolds, OwnAnswer DEF HoleInv, Pending
<1>1. /\ DOMAIN t = SessionFields
      /\ t.ike = s.ike /\ t.messageID = s.messageID /\ t.peer = s.peer /\ t.out = s.out
      /\ t.child = s.child /\ t.status = s.status /\ t.pending = NoExchange
      /\ t.oldIKEDelete = s.oldIKEDelete /\ t.oldIKE = s.oldIKE /\ t.oldPeer = s.oldPeer
      /\ t.childReestablish = s.childReestablish
  BY <1>0, HoldsShape DEF SessionFields
<1>2. NoExchange.kind = "none" /\ ~NoExchange.reest
  BY DEF NoExchange
<1> HIDE DEF t
<1>3. Holds(t, fresh) /\ Wire(t) = net /\ Calm(s, t)
  <2>1. Wire(t) = net /\ Asked(t, net) \subseteq Asked(s, net)
    BY <1>0, <1>1, <1>2 DEF Wire, Asked, Kept
  <2>2. Calm(s, t)
    BY <1>0, <1>1, <1>2, <2>1 DEF Calm, Civil, Carries
  <2> QED BY <1>0, <1>1, <2>1, <2>2, HoldsForget DEF Holds
<1>4. ASSUME ChildResponseOK(p, b)
      PROVE  Sound(u, fresh) /\ u.child.in = p.newIn /\ Holds(u, fresh) /\ ~u.pending.reest
  <2>1. /\ Alike(t, u) /\ u.child = new /\ u.out = t.out /\ u.pending = t.pending
        /\ u.status = t.status /\ u.ike = t.ike /\ u.messageID = t.messageID /\ u.oldIKE = t.oldIKE
        /\ u.oldIKEDelete = t.oldIKEDelete
    BY <1>3, HoldsShape DEF Alike, SessionFields
  <2>2. q \in net /\ Kind(q) = "child" /\ b.t = "child"
    BY <1>4, OwnRequest DEF Keyed, Pending, ChildResponseOK, Kind
  <2>3. /\ From(q) = "client" /\ Sa(q) = s.ike /\ Ni(q) = p.ni /\ Spi(q) = p.newIn
        /\ Ke(q) = p.dh
    BY DEF SessionInv, Good, ClientSide, InFlight
  <2>4. GroupOf(q, r) = b.ke
    BY <1>4, <2>3 DEF GroupOf, ChildResponseOK, Ke
  <2>5. Kind(r) = b.t /\ Nr(r) = b.nr /\ Spi(r) = b.spi
    BY DEF Kind, Nr, Spi
  <2>6. new = Kid(q, r)
    BY <1>1, <2>3, <2>4, <2>5 DEF Kid
  <2>7. Doomed(gw) \/ new \in gw.kids
    BY <1>0, <2>2, <2>5, <2>6 DEF Mended, Promised, Grants
  <2>8. new.in = p.newIn
    OBVIOUS
  <2>9. Pedigree(new, net)
    BY <1>0, <2>2, <2>3, <2>5, <2>6, PedigreeOfRequest DEF Kid
  <2> HIDE DEF new
  <2>10. Wire(u) = net
    BY <1>3, <2>1 DEF Wire
  <2>11. Mid(u, fresh)
    <3> DEFINE X == {}
    <3>1. u.out = t.out \cup X /\ \A m \in X : FALSE
      BY <2>1
    <3> HIDE DEF X, u
    <3> QED BY <1>3, <2>1, <3>1, AlikeMid DEF Holds
  <2> HIDE DEF u
  <2>12. Holds(u, fresh)
    BY <1>1, <2>1, <2>9, <2>10, <2>11 DEF Holds, Up
  <2>13. Asked(u, net) \subseteq Asked(s, net)
    BY <1>1, <1>2, <2>1 DEF Asked, Kept
  <2>14. Calm(s, u)
    BY <1>0, <1>1, <1>2, <2>1, <2>10, <2>13 DEF Calm, Civil, Carries
  <2>15. /\ Promised(u, net, gw) /\ Parted(u, net) /\ Apt(u, net, gw)
         /\ Quit(u, net) /\ Turned(net, gw) /\ Ordered(net, gw)
    BY <1>0, <2>10, <2>14, CalmMended
  <2>16. Backed(u, net, gw)
    BY <2>1, <2>7 DEF Backed
  <2>17. Spared(u, net, fresh)
    BY <1>0, <1>1, <1>2, <2>1, <2>8, <2>13 DEF Spared, Mended
  <2> QED BY <1>1, <1>2, <2>1, <2>8, <2>10, <2>12, <2>15, <2>16, <2>17 DEF Sound, Mended
<1>5. ASSUME ~ChildResponseOK(p, b) PROVE Sound(t, fresh)
  <2>1. Heals(s) /\ MayDelete => Heals(t) \/ Doomed(gw)
    BY <1>0, <1>1, <1>5 DEF Heals, Mended, Apt, Welcome
  <2>2. Backed(t, net, gw)
    BY <1>0, <1>1, <2>1 DEF Mended, Backed, Unheard
  <2>3. /\ Promised(t, net, gw) /\ Parted(t, net) /\ Apt(t, net, gw) /\ Spared(t, net, fresh)
        /\ Quit(t, net) /\ Turned(net, gw) /\ Ordered(net, gw)
    BY <1>0, <1>1, <1>3, CalmMended
  <2> QED BY <1>3, <2>2, <2>3 DEF Sound, Mended
<1>6. \/ completeChildRekey(t, b, p, err) = u /\ ChildResponseOK(p, b)
      \/ /\ completeChildRekey(t, b, p, err) = sendChildDelete(u, p.oldIn, err)
         /\ ChildResponseOK(p, b) /\ p.oldIn # p.newIn
      \/ completeChildRekey(t, b, p, err) = t /\ ~ChildResponseOK(p, b)
  BY DEF completeChildRekey
<1>7. p.oldIn \in 0..fresh
  BY <1>0 DEF Mended, Spared
<1> HIDE DEF u
<1>8. ChildResponseOK(p, b) /\ p.oldIn # p.newIn => Sound(sendChildDelete(u, p.oldIn, err), fresh)
  BY <1>4, <1>7, SoundChildDelete
<1> QED BY <1>4, <1>5, <1>6, <1>8 DEF t

\* completeIKERekey: the DELETE of the old IKE SA follows its rekey.
LEMMA SoundIKECompletion ==
    ASSUME SessionInv, HoleInv, Up, NEW r \in net, NEW err, From(r) = "gw", Resp(r), Sa(r) = s.ike,
           s.pending.kind = "ike", Id(s.pending.req) = Id(r)
    PROVE  Sound(completeIKERekey([s EXCEPT !.pending = NoExchange], r.body, s.pending, err), fresh)
<1> DEFINE p == s.pending
           b == r.body
           t == [s EXCEPT !.pending = NoExchange]
           new == DeriveRekeyIKE(s.ike, p.ni, b.nr, b.ke)
           v == sendIKEDeleteUnderCurrent(t, err)
           u == swapIKE(v, new)
           req == Request(t, "INFO", DeleteIKE)
<1>0. Holds(s, fresh) /\ Wire(s) = net /\ Mended(s, net, gw, fresh)
  BY StepHolds DEF HoleInv
<1>1. /\ DOMAIN t = SessionFields /\ t.ike = s.ike /\ t.out = s.out /\ t.oldIKE = s.oldIKE
      /\ t.child = s.child /\ t.pending = NoExchange /\ t.oldIKEDelete = s.oldIKEDelete
      /\ t.childReestablish = s.childReestablish /\ t.messageID = s.messageID
      /\ t.status = s.status
  BY <1>0, HoldsShape DEF SessionFields
<1>2. \/ completeIKERekey(t, b, p, err) = u /\ b.t = "ike"
      \/ completeIKERekey(t, b, p, err) = t
  <2> HIDE DEF t
  <2> QED BY <1>1 DEF completeIKERekey
<1>3. /\ From(req) = "client" /\ Resp(req) = FALSE /\ Sa(req) = s.ike /\ Kind(req) = "delIKE"
  <2> HIDE DEF t
  <2> QED BY <1>1 DEF Request, Message, DeleteIKE, Kind, From, Resp, Sa
<1> HIDE DEF t
<1>4. NoExchange.kind = "none" /\ ~NoExchange.reest
  BY DEF NoExchange
<1>5. Heals(s) => Heals(t)
  BY <1>0, <1>1 DEF Heals, Mended, Spared
<1>6. Sound(t, fresh)
  <2>1. Sound(s, fresh)
    BY <1>0 DEF Sound
  <2> QED BY <1>1, <1>5, <2>1, SoundForget
<1>7. ASSUME b.t = "ike" PROVE Sound(u, fresh)
  <2> DEFINE x == Exchange("delete", req)  N == Wire(u)
  <2>1. x.kind = "delete" /\ x.req = req
    BY DEF Exchange, NoExchange
  <2>2. /\ DOMAIN v = SessionFields /\ v.child = t.child /\ v.oldIKEDelete \in {t.oldIKEDelete, x}
        /\ v.out \in {t.out, t.out \cup {req}} /\ v.childReestablish = t.childReestablish
        /\ v.ike = t.ike /\ v.oldIKE = t.oldIKE /\ v.status = t.status
    <3> HIDE DEF req, x
    <3> QED BY <1>1 DEF sendIKEDeleteUnderCurrent, Send, SessionFields, req, x
  <2> HIDE DEF v, req, x, new
  <2>3. /\ u.child = v.child /\ u.pending = NoExchange /\ u.oldIKEDelete = v.oldIKEDelete
        /\ u.out = v.out /\ u.childReestablish = v.childReestablish /\ u.oldIKE = v.ike
    BY <2>2 DEF swapIKE, SessionFields
  <2> HIDE DEF u
  <2>4. Wire(t) = net /\ Wire(v) = N /\ N \in {net, net \cup {req}}
    BY <1>0, <1>1, <2>2, <2>3 DEF Wire
  <2>5. Asked(u, N) \subseteq Asked(t, net) \cup {req} /\ Asked(t, net) \subseteq Asked(s, net)
    BY <1>1, <1>4, <2>1, <2>2, <2>3, <2>4 DEF Asked, Kept
  <2>6. Mended(t, net, gw, fresh)
    BY <1>1, <1>6, <2>4 DEF Sound, Up
  <2>7. Quit(v, N) /\ Turned(N, gw) /\ Ordered(N, gw)
    <3>1. Civil(t, v)
      BY <1>3, <2>2, <2>4 DEF Civil
    <3>2. Ordered(Wire(t), gw) /\ Quit(t, Wire(t)) /\ Turned(Wire(t), gw)
      BY <2>4, <2>6 DEF Mended
    <3> QED BY <2>4, <3>1, <3>2, CivilOrdered, CivilQuit
  <2> HIDE DEF N
  <2>8. Superseded(s.ike, N) /\ \A sa : Superseded(sa, net) => Superseded(sa, N)
    BY <1>7, <2>4 DEF Superseded, Kind
  <2>9. Parted(u, N)
    BY <1>3, <2>5, <2>6, <2>8 DEF Mended, Parted
  <2>10. Spared(u, N, fresh)
    BY <1>3, <1>4, <2>2, <2>3, <2>5, <2>6 DEF Mended, Spared
  <2>11. Backed(u, N, gw)
    <3>1. Heals(t) => Heals(u)
      BY <1>1, <1>4, <2>2, <2>3 DEF Heals
    <3>2. \A q : Read(q, N) => Read(q, net)
      BY <1>3, <2>4 DEF Read, Answers, Resp
    <3> QED BY <2>2, <2>3, <2>4, <2>6, <3>1, <3>2 DEF Mended, Backed, Unheard
  <2>12. Quit(u, N)
    BY <1>1, <2>2, <2>3, <2>7, <2>8 DEF Quit, Left
  <2>13. Promised(u, N, gw)
    BY <1>4, <2>3 DEF Promised
  <2>14. Apt(u, N, gw)
    <3> SUFFICES ASSUME MayDelete PROVE InTurn(u, N, gw)
      BY <1>4, <2>3 DEF Apt, Welcome
    <3>1. InTurn(s, net, gw) /\ Ordered(net, gw)
      BY <1>0 DEF Mended, Apt
    <3>2. s.ike \in DOMAIN gw.win => Id(r) < gw.win[s.ike].rx /\ gw.win[s.ike].rx \in Nat
      BY <3>1 DEF Ordered
    <3>3. s.messageID = Id(r) + 1 /\ Id(r) \in Nat
      BY <3>1 DEF InTurn, SessionInv, Good, ClientSide, Drawn
    <3>4. \A m \in Asked(s, net) : Id(m) \in Nat /\ (Sa(m) = s.ike => Id(m) < s.messageID)
      BY DEF SessionInv, Good, ClientSide, Numbered
    <3>5. ASSUME NEW m \in Asked(u, N)
          PROVE  /\ Superseded(Sa(m), N)
                 /\ Kind(m) # "delIKE" /\ Sa(m) \in DOMAIN gw.win => Id(m) < gw.win[Sa(m)].rx
      <4>1. CASE m = req
        BY <1>3, <2>8, <4>1
      <4>2. CASE m \in Asked(s, net) /\ Sa(m) = s.ike
        BY <2>8, <3>2, <3>3, <3>4, <4>2
      <4>3. CASE m \in Asked(s, net) /\ Sa(m) # s.ike
        BY <2>8, <3>1, <4>3 DEF InTurn
      <4> QED BY <2>5, <4>1, <4>2, <4>3
    <3> QED BY <1>4, <2>3, <3>5 DEF InTurn
  <2> QED BY <2>7, <2>9, <2>10, <2>11, <2>12, <2>13, <2>14 DEF Sound, Mended, N
<1> QED BY <1>2, <1>6, <1>7 DEF t

\* handleResponse.
LEMMA SoundResponse ==
    ASSUME SessionInv, HoleInv, Up, NEW r \in net, NEW err, From(r) = "gw", Resp(r), CanDecode(s, r)
    PROVE  Sound(handleResponse(s, ViaOld(s, r), r, err), fresh)
<1> DEFINE t == [s EXCEPT !.pending = NoExchange]
           u == [s EXCEPT !.oldIKEDelete = NoExchange]
<1>0. Holds(s, fresh) /\ Sound(s, fresh) /\ (s.pending.reest => s.pending.kind = "child")
  BY StepHolds DEF HoleInv, Mended, Spared, Sound, Up
<1>1. s.pending.kind \in {"dpd", "delete"} => Sound(t, fresh)
  <2>1. /\ t.out = s.out /\ t.child = s.child /\ t.pending = NoExchange
        /\ t.oldIKEDelete = s.oldIKEDelete /\ t.ike = s.ike /\ t.messageID = s.messageID
        /\ t.oldIKE = s.oldIKE /\ t.status = s.status /\ t.childReestablish = s.childReestablish
    BY <1>0, HoldsShape DEF SessionFields
  <2> HIDE DEF t
  <2>2. s.pending.kind \in {"dpd", "delete"} /\ Heals(s) => Heals(t)
    BY <1>0, <2>1 DEF Heals
  <2> QED BY <1>0, <2>1, <2>2, SoundForget
<1>2. Sound(u, fresh)
  <2>1. /\ u.out = s.out /\ u.child = s.child /\ u.pending = s.pending
        /\ u.oldIKEDelete = NoExchange /\ u.ike = s.ike /\ u.messageID = s.messageID
        /\ u.oldIKE = s.oldIKE /\ u.status = s.status /\ u.childReestablish = s.childReestablish
    BY <1>0, HoldsShape DEF SessionFields
  <2> HIDE DEF u
  <2>2. Heals(s) => Heals(u)
    BY <2>1 DEF Heals
  <2> QED BY <1>0, <2>1, <2>2, SoundForget
<1>3. Sound(completeMatchingRekey(s, ViaOld(s, r), r, err), fresh)
  <2>1. CASE ViaOld(s, r) \/ s.pending.kind \notin {"child", "ike"} \/ Id(s.pending.req) # Id(r)
    BY <1>0, <2>1 DEF completeMatchingRekey, From, Resp, Sa, Id, Ex
  <2>2. CASE ~ViaOld(s, r) /\ s.pending.kind = "child" /\ Id(s.pending.req) = Id(r)
    <3>1. Sa(r) = s.ike
      BY <2>2 DEF ViaOld, OpenSK, From, Resp, Sa, Id, Ex
    <3> QED BY <2>2, <3>1, SoundChildCompletion DEF completeMatchingRekey, From, Resp, Sa, Id, Ex
  <2>3. CASE ~ViaOld(s, r) /\ s.pending.kind = "ike" /\ Id(s.pending.req) = Id(r)
    <3>1. Sa(r) = s.ike
      BY <2>3 DEF ViaOld, OpenSK, From, Resp, Sa, Id, Ex
    <3> QED BY <2>3, <3>1, SoundIKECompletion DEF completeMatchingRekey, From, Resp, Sa, Id, Ex
  <2> QED BY <2>1, <2>2, <2>3
<1>4. Ex(r) \in {"INFO", "CCSA"}
  BY DEF SessionInv, Good, ClientSide, Drawn
<1> HIDE DEF t, u
<1>5. CASE Ex(r) = "CCSA"
  BY <1>3, <1>5 DEF handleResponse, From, Resp, Sa, Id, Ex
<1>6. CASE Ex(r) = "INFO"
  BY <1>0, <1>1, <1>2, <1>6 DEF handleResponse, clearOldIKEDelete, clearPending, t, u, From, Resp,
     Sa, Id, Ex
<1> QED BY <1>4, <1>5, <1>6

\* handleInbound keeps the Child SA backed.
LEMMA SolidInbound ==
    ASSUME SessionInv, HoleInv, Up, HonoursRecovery, NEW m \in net, NEW in, From(m) = "gw",
           CanDecode(s, m), in.n = fresh + 1, in.spi \in {fresh + 1, s.child.in}
    PROVE  Solid(handleInbound(s, m, in), fresh)
<1>1. CASE Resp(m)
  BY <1>1, SoundResponse DEF handleInbound, Solid, From, Resp, Sa, Id, Ex
<1>2. CASE ~Resp(m)
  BY <1>2, SolidRequest DEF handleInbound, From, Resp, Sa, Id, Ex
<1> QED BY <1>1, <1>2

-----------------------------------------------------------------------------
(* A step of the client.                                                   *)

\* The environment stays.
LEMMA SameEnvironment ==
    ASSUME env' = env,
           s'.status = "up" => Mended(s', net', gw', fresh') /\ Moved(net', gw') /\ Closing(gw')
    PROVE  HoleInv'
<1> SUFFICES ASSUME s'.status = "up"
             PROVE  (Mended(s, net, gw, fresh) /\ Moved(net, gw) /\ Closing(gw))'
  BY DEF HoleInv, Up
<1>1. E' = E
  BY DEF E
<1>2. Promised(s, net, gw)'
  BY <1>1 DEF Mended, Promised, MayDelete
<1>3. Backed(s, net, gw)'
  BY <1>1 DEF Mended, Backed, MayDelete
<1>4. Turned(net, gw)'
  BY <1>1 DEF Mended, Turned
<1>5. Apt(s, net, gw)'
  BY <1>1 DEF Mended, Apt, MayDelete
<1>6. Closing(gw)'
  BY <1>1 DEF Closing
<1> QED BY <1>2, <1>3, <1>4, <1>5, <1>6 DEF Mended

\* A step of the client keeps the invariant.
LEMMA ClientStepHole ==
    ASSUME SessionInv, HoleInv, Up, NEW t, Reaches(t, fresh), Solid(t, fresh), ClientStep(t)
    PROVE  HoleInv'
<1>0. fresh \in Nat /\ env' = env
  BY DEF SessionInv, Good, ClientSide, Drawn, ClientStep
<1>1. Sound(t, fresh')
  <2>1. fresh' \in {fresh, fresh + 1} /\ (Spends(t, fresh + 1) => fresh' = fresh + 1)
    BY DEF ClientStep, Draw, Spends
  <2>2. Sound(t, fresh) => Sound(t, fresh + 1)
    BY <1>0, SoundLater
  <2> QED BY <2>1, <2>2 DEF Solid
<1>2. DOMAIN t = SessionFields /\ \A m \in t.out : From(m) = "client"
  BY DEF Reaches, Holds, Mid, ClientSide, Shaped
<1>3. /\ s'.pending = t.pending /\ s'.child = t.child /\ s'.oldIKEDelete = t.oldIKEDelete
      /\ s'.ike = t.ike /\ s'.messageID = t.messageID /\ s'.oldIKE = t.oldIKE
      /\ s'.childReestablish = t.childReestablish /\ s'.status = t.status
      /\ net' = Wire(t) /\ gw' = gw
  BY <1>2 DEF ClientStep, SessionFields, Wire
<1> SUFFICES ASSUME s'.status = "up" PROVE Mended(s', net', gw', fresh') /\ Moved(net', gw')
  BY <1>0, <1>3, SameEnvironment DEF HoleInv
<1> DEFINE N == Wire(t)
<1>4. Mended(t, N, gw, fresh') /\ Asked(s', N) = Asked(t, N) /\ (Heals(s') <=> Heals(t))
  BY <1>1, <1>3 DEF Asked, Sound, Heals
<1>a. net' = N /\ gw' = gw
  BY <1>3
<1> HIDE DEF N
<1>5. Mended(s', N, gw, fresh')
  <2>1. Spared(s', N, fresh')
    BY <1>3, <1>4 DEF Mended, Spared
  <2>2. Promised(s', N, gw) /\ Backed(s', N, gw)
    BY <1>3, <1>4 DEF Mended, Promised, Backed, Unheard
  <2>3. Parted(s', N) /\ Quit(s', N) /\ Turned(N, gw) /\ Ordered(N, gw)
    BY <1>3, <1>4 DEF Mended, Parted, Quit, HasOld
  <2>4. Apt(s', N, gw)
    BY <1>3, <1>4 DEF Mended, Apt, InTurn, Welcome
  <2> QED BY <2>1, <2>2, <2>3, <2>4 DEF Mended
<1>6. Moved(N, gw)
  <2>1. Moved(net, gw)
    BY DEF HoleInv
  <2>2. net \subseteq N /\ \A m \in N : From(m) = "gw" => m \in net
    BY <1>2 DEF Wire, N
  <2>3. \A sa : Superseded(sa, N) => Superseded(sa, net)
    BY <2>2 DEF Superseded
  <2> QED BY <2>1, <2>2, <2>3 DEF Moved, Asks, Demand, Read
<1> QED BY <1>5, <1>6, <1>a

-----------------------------------------------------------------------------
(* A step of the gateway.                                                  *)

\* What a step of the gateway could disturb.
Whole(g, M) ==
    /\ Promised(s, M, g) /\ Backed(s, M, g) /\ Quit(s, M) /\ Turned(M, g) /\ Ordered(M, g)
    /\ Apt(s, M, g) /\ Moved(M, g) /\ Closing(g)

\* A step of the gateway that leaves its side whole keeps the invariant.
LEMMA GatewayHole ==
    ASSUME SessionInv, HoleInv, NEW h, GatewayStep(h), DOMAIN h = GatewayFields,
           \A m \in h.out : From(m) = "gw",
           Up => Whole(h, net \cup h.out)
    PROVE  HoleInv'
<1>0. env' = env /\ s' = s
  BY DEF GatewayStep
<1> SUFFICES ASSUME Up
             PROVE  Mended(s, net', gw', fresh') /\ Moved(net', gw') /\ Closing(gw')
  BY <1>0, SameEnvironment DEF Up
<1> DEFINE N == net \cup h.out
<1>1. net' = N /\ Whole(h, N) /\ fresh' \in {fresh, fresh + 1} /\ fresh \in Nat
  BY DEF GatewayStep, Draw, SessionInv, Good, ClientSide, Drawn
<1>2. /\ gw'.win = h.win /\ gw'.kids = h.kids /\ gw'.cur = h.cur /\ gw'.ever = h.ever
      /\ gw'.newborn = h.newborn /\ gw'.declined = h.declined
  BY DEF GatewayStep, GatewayFields
<1>3. (\A q : Waiting(gw', q) <=> Waiting(h, q)) /\ (Doomed(gw') <=> Doomed(h))
  BY <1>2 DEF Waiting, Req, Doomed
<1>4. net \subseteq N /\ Asked(s, N) \subseteq Asked(s, net)
  BY DEF Asked
<1>5. Spared(s, net, fresh) /\ Parted(s, net)
  BY DEF HoleInv, Mended
<1> HIDE DEF N
<1>6. Spared(s, N, fresh')
  BY <1>1, <1>4, <1>5 DEF Spared
<1>7. Parted(s, N)
  BY <1>4, <1>5 DEF Parted, Superseded
<1>8. Promised(s, N, gw')
  BY <1>1, <1>2, <1>3 DEF Whole, Promised
<1>9. Backed(s, N, gw')
  BY <1>1, <1>2, <1>3 DEF Whole, Backed, Unheard
<1>10. Turned(N, gw')
  BY <1>1, <1>2, <1>3 DEF Whole, Turned
<1>11. Ordered(N, gw')
  BY <1>1, <1>2 DEF Whole, Ordered
<1>12. Apt(s, N, gw')
  BY <1>1, <1>2, <1>3 DEF Whole, Apt, InTurn, Welcome
<1>13. Moved(N, gw')
  BY <1>1, <1>2, <1>3 DEF Whole, Moved
<1>14. Closing(gw')
  BY <1>1, <1>2 DEF Whole, Closing, Req
<1>15. Quit(s, N)
  BY <1>1 DEF Whole
<1> QED BY <1>1, <1>6, <1>7, <1>8, <1>9, <1>10, <1>11, <1>12, <1>13, <1>14, <1>15 DEF Mended

\* The windows of h are those of g or later ones; a new IKE SA was never held.
Onward(g, h) ==
    /\ g.ever \subseteq h.ever
    /\ \A sa \in DOMAIN h.win :
          /\ h.win[sa].rx \in Nat /\ h.win[sa].tx \in Nat
          /\ \/ sa \notin g.ever
             \/ sa \in DOMAIN g.win /\ g.win[sa].rx <= h.win[sa].rx /\ g.win[sa].tx <= h.win[sa].tx

\* X is one message of the gateway at most: the answer to a request of the client,
\* or a request with the next Message ID.
News(g, h, M, X) ==
    /\ \A m \in X :
          /\ From(m) = "gw" /\ Sa(m) \in g.ever
          /\ Sa(m) \in DOMAIN h.win => Id(m) < IF Resp(m) THEN h.win[Sa(m)].rx ELSE h.win[Sa(m)].tx
          /\ Resp(m) => \E q \in M : From(q) = "client" /\ Answers(m, q)
          /\ Demand(m) => Sa(m) \in DOMAIN g.win /\ Id(m) = g.win[Sa(m)].tx
    /\ \A m1, m2 \in X : m1 = m2

\* What the gateway says is in order, and its request is not answered yet.
LEMMA OrderedOn ==
    ASSUME NEW g, NEW h, NEW M, NEW X, Ordered(M, g), Onward(g, h), News(g, h, M, X),
           \A m \in M : Id(m) \in Nat
    PROVE  /\ Ordered(M \cup X, h)
           /\ \A m \in X : Demand(m) => m \notin M /\ ~Read(m, M \cup X)
<1> DEFINE N == M \cup X
<1>1. \A m \in X, q \in M : Demand(m) /\ Demand(q) /\ Sa(m) = Sa(q) => Id(m) # Id(q)
  <2> SUFFICES ASSUME NEW m \in X, NEW q \in M, Demand(m), Demand(q), Sa(m) = Sa(q), Id(m) = Id(q)
               PROVE  FALSE
    OBVIOUS
  <2>1. Sa(m) \in DOMAIN g.win /\ Id(m) = g.win[Sa(m)].tx /\ g.win[Sa(m)].tx \in Nat
    BY DEF News, Ordered
  <2>2. Id(q) < g.win[Sa(q)].tx
    BY <2>1 DEF Ordered, Demand
  <2> QED BY <2>1, <2>2
<1>2. \A m \in X : Demand(m) => m \notin M
  BY <1>1
<1>3. \A m \in X : Demand(m) => ~Read(m, N)
  <2> SUFFICES ASSUME NEW m \in X, Demand(m), NEW a \in N, From(a) = "client", Answers(a, m)
               PROVE  FALSE
    BY DEF Read
  <2>1. a \in M /\ Resp(a) /\ Sa(a) = Sa(m) /\ Id(a) = Id(m)
    BY DEF News, Answers, Resp, Sa, Id
  <2>2. PICK q \in M : Demand(q) /\ Answers(a, q)
    BY <2>1 DEF Ordered
  <2>3. Sa(q) = Sa(m) /\ Id(q) = Id(m)
    BY <2>1, <2>2 DEF Answers, Sa, Id
  <2> QED BY <1>1, <2>2, <2>3
<1>4. \A sa \in DOMAIN h.win : h.win[sa].rx \in Nat /\ h.win[sa].tx \in Nat
  BY DEF Onward
<1>5. ASSUME NEW m \in N, From(m) = "gw"
      PROVE  /\ Sa(m) \in h.ever
             /\ Sa(m) \in DOMAIN h.win =>
                   Id(m) < IF Resp(m) THEN h.win[Sa(m)].rx ELSE h.win[Sa(m)].tx
             /\ Resp(m) => \E q \in N : From(q) = "client" /\ Answers(m, q)
  <2>1. CASE m \in X
    <3>1. Resp(m) => \E q \in M : From(q) = "client" /\ Answers(m, q)
      BY <2>1 DEF News
    <3>2. /\ Sa(m) \in g.ever
          /\ Sa(m) \in DOMAIN h.win => Id(m) < IF Resp(m) THEN h.win[Sa(m)].rx ELSE h.win[Sa(m)].tx
      BY <2>1 DEF News
    <3> QED BY <3>1, <3>2 DEF Onward
  <2>2. CASE m \in M
    <3>1. /\ Sa(m) \in g.ever
          /\ Sa(m) \in DOMAIN g.win => Id(m) < IF Resp(m) THEN g.win[Sa(m)].rx ELSE g.win[Sa(m)].tx
      BY <1>5, <2>2 DEF Ordered
    <3>2. Resp(m) => \E q \in M : From(q) = "client" /\ Answers(m, q)
      BY <1>5, <2>2 DEF Ordered
    <3>3. Sa(m) \in DOMAIN h.win =>
            /\ Sa(m) \in DOMAIN g.win
            /\ g.win[Sa(m)].rx <= h.win[Sa(m)].rx /\ g.win[Sa(m)].tx <= h.win[Sa(m)].tx
            /\ h.win[Sa(m)].rx \in Nat /\ h.win[Sa(m)].tx \in Nat
            /\ g.win[Sa(m)].rx \in Nat /\ g.win[Sa(m)].tx \in Nat
      BY <3>1 DEF Onward, Ordered
    <3>4. Id(m) \in Nat
      BY <2>2
    <3>5. Sa(m) \in DOMAIN h.win => Id(m) < IF Resp(m) THEN h.win[Sa(m)].rx ELSE h.win[Sa(m)].tx
      BY <3>1, <3>3, <3>4
    <3> QED BY <3>1, <3>2, <3>5 DEF Onward
  <2> QED BY <2>1, <2>2
<1>6. \A q1, q2 \in N : Demand(q1) /\ Demand(q2) /\ Sa(q1) = Sa(q2) /\ Id(q1) = Id(q2) => q1 = q2
  <2>1. \A q1, q2 \in M : Demand(q1) /\ Demand(q2) /\ Sa(q1) = Sa(q2) /\ Id(q1) = Id(q2) => q1 = q2
    BY DEF Ordered
  <2>2. \A q1, q2 \in X : q1 = q2
    BY DEF News
  <2> QED BY <1>1, <2>1, <2>2
<1>7. \A a \in N : From(a) = "client" /\ Resp(a) => \E q \in N : Demand(q) /\ Answers(a, q)
  <2>1. \A a \in M : From(a) = "client" /\ Resp(a) => \E q \in M : Demand(q) /\ Answers(a, q)
    BY DEF Ordered
  <2>2. \A a \in X : From(a) # "client"
    BY DEF News
  <2> QED BY <2>1, <2>2
<1> HIDE DEF N
<1>8. Ordered(N, h)
  BY <1>4, <1>5, <1>6, <1>7 DEF Ordered
<1> QED BY <1>2, <1>3, <1>8 DEF N

\* The client has agreed to nothing new.
LEMMA QuitOn ==
    ASSUME NEW M, NEW X, Quit(s, M), \A m \in X : From(m) = "gw",
           \A m \in X : Demand(m) => ~Read(m, M \cup X)
    PROVE  Quit(s, M \cup X)
<1> DEFINE N == M \cup X
<1>1. \A q : Read(q, N) => Read(q, M)
  BY DEF Read
<1>2. \A sa : Left(sa, M) => Left(sa, N)
  BY DEF Left, Superseded
<1> QED BY <1>1, <1>2 DEF Quit

\* The client's requests stay in turn, and an exchange is as welcome as it was.
LEMMA AptOn ==
    ASSUME NEW g, NEW h, NEW M, NEW X, Apt(s, M, g), Moved(M, g), Onward(g, h),
           \A sa \in DOMAIN g.win : g.win[sa].rx \in Nat,
           \A m \in Asked(s, M) : Id(m) \in Nat,
           \A m \in X : From(m) = "gw",
           Doomed(g) => Doomed(h),
           \A m \in X : MayDelete /\ s.pending.reest /\ Answers(m, s.pending.req) =>
              ChildResponseOK(s.pending, m.body) \/ Doomed(h)
    PROVE  Apt(s, M \cup X, h)
<1> DEFINE N == M \cup X
<1> SUFFICES ASSUME MayDelete PROVE InTurn(s, N, h) /\ Welcome(s, N, h)
  BY DEF Apt
<1>1. InTurn(s, M, g) /\ Welcome(s, M, g)
  BY DEF Apt
<1>2. Asked(s, N) \subseteq Asked(s, M)
  BY DEF Asked
<1>3. \A sa : Superseded(sa, M) => Superseded(sa, N) /\ sa \in g.ever
  BY DEF Superseded, Moved
<1>4. Welcome(s, N, h)
  <2> SUFFICES ASSUME s.pending.reest
               PROVE  /\ s.pending.req.body.rekey = 0
                      /\ \A r \in N : From(r) = "gw" /\ Answers(r, s.pending.req) =>
                            ChildResponseOK(s.pending, r.body) \/ Doomed(h)
    BY DEF Welcome
  <2>1. /\ s.pending.req.body.rekey = 0
        /\ \A r \in M : From(r) = "gw" /\ Answers(r, s.pending.req) =>
                            ChildResponseOK(s.pending, r.body) \/ Doomed(g)
    BY <1>1 DEF Welcome
  <2> QED BY <2>1
<1> HIDE DEF N
<1>5. ASSUME NEW m \in Asked(s, N), Sa(m) # s.ike
      PROVE  /\ Superseded(Sa(m), N)
             /\ Kind(m) # "delIKE" /\ Sa(m) \in DOMAIN h.win => Id(m) < h.win[Sa(m)].rx
  <2>1. /\ Superseded(Sa(m), M) /\ Id(m) \in Nat
        /\ Kind(m) # "delIKE" /\ Sa(m) \in DOMAIN g.win => Id(m) < g.win[Sa(m)].rx
    BY <1>1, <1>2, <1>5 DEF InTurn
  <2>2. Sa(m) \in DOMAIN h.win =>
          /\ Sa(m) \in DOMAIN g.win /\ g.win[Sa(m)].rx <= h.win[Sa(m)].rx
          /\ h.win[Sa(m)].rx \in Nat /\ g.win[Sa(m)].rx \in Nat
    BY <1>3, <2>1 DEF Onward
  <2> QED BY <1>3, <2>1, <2>2
<1>6. InTurn(s, N, h)
  BY <1>1, <1>5 DEF InTurn
<1> QED BY <1>4, <1>6

\* The answer of the client to q, which the gateway waits on no more, left nothing
\* open: no new IKE SA, no word of the Child SA's end that the client has not
\* heard, no Child SA that the gateway does not hold.
Absolved(q, M, g, h) ==
    /\ Kind(q) = "ike" /\ Sa(q) = g.cur => ~\E a \in M : Yields(a, q)
    /\ ~Unheard(q, s, M, g)
    /\ Kind(q) = "child" /\ Spi(q) = s.child.out => s.child \in h.kids

\* The gateway goes on under the same IKE SA.
Stays(g, h, M, X) ==
    /\ h.cur = g.cur /\ (Doomed(g) => Doomed(h))
    /\ \A q \in M : Demand(q) /\ Waiting(h, q) => Waiting(g, q)
    /\ \A q \in M : Demand(q) /\ Waiting(g, q) => Waiting(h, q) \/ Absolved(q, M, g, h)
    /\ \A m \in X :
          /\ Resp(m) => Kind(m) # "ike"
          /\ Demand(m) /\ Kind(m) \in {"child", "delESP", "ike"} => Sa(m) = g.cur
          /\ Demand(m) /\ Kind(m) = "ike" => "ike" \in E.kinds /\ Waiting(h, m)

\* It deletes no Child SA behind the client's back, and grants what it holds.
Spares(g, h, M, X) ==
    /\ \A c \in g.kids \ h.kids :
          \/ Doomed(h)
          \/ /\ c = s.child => MayDelete /\ \E q \in X : Unheard(q, s, M \cup X, h)
             /\ s.pending.kind = "child" =>
                   c.in # Spi(s.pending.req) \/ (MayDelete /\ c \notin g.newborn)
    /\ MayDelete /\ s.pending.kind = "child" /\ (\E r \in M : Grants(r, s.pending.req)) =>
          g.newborn \subseteq h.newborn
    /\ \A m \in X : s.pending.kind = "child" /\ Grants(m, s.pending.req) =>
          /\ Kid(s.pending.req, m) \in h.kids
          /\ MayDelete => Kid(s.pending.req, m) \in h.newborn

\* A re-establishment is granted.
Grateful(h, X) ==
    \A m \in X : MayDelete /\ s.pending.reest /\ Answers(m, s.pending.req) =>
        ChildResponseOK(s.pending, m.body) \/ Doomed(h)

\* What was promised still is.
LEMMA PromisedOn ==
    ASSUME NEW g, NEW h, NEW M, NEW X, Promised(s, M, g), Spares(g, h, M, X), Doomed(g) => Doomed(h)
    PROVE  Promised(s, M \cup X, h)
<1> DEFINE N == M \cup X
<1> SUFFICES ASSUME s.pending.kind = "child", NEW r \in N, Grants(r, s.pending.req)
             PROVE  /\ Doomed(h) \/ Kid(s.pending.req, r) \in h.kids
                    /\ MayDelete => Kid(s.pending.req, r) \in h.newborn
  BY DEF Promised
<1> DEFINE c == Kid(s.pending.req, r)
<1>1. c.in = Spi(s.pending.req)
  BY DEF Kid
<1>2. CASE r \in X
  BY <1>2 DEF Spares
<1>3. CASE r \in M
  <2>1. (Doomed(g) \/ c \in g.kids) /\ (MayDelete => c \in g.newborn)
    BY <1>3 DEF Promised
  <2> HIDE DEF c
  <2>2. MayDelete => c \in h.newborn
    BY <1>3, <2>1 DEF Spares
  <2>3. Doomed(h) \/ c \in h.kids
    BY <1>1, <2>1 DEF Spares
  <2> QED BY <2>2, <2>3 DEF c
<1> QED BY <1>2, <1>3

\* What backed the Child SA still does.
LEMMA BackedOn ==
    ASSUME NEW g, NEW h, NEW M, NEW X, Backed(s, M, g), Spares(g, h, M, X), Stays(g, h, M, X),
           \A m \in X : From(m) = "gw"
    PROVE  Backed(s, M \cup X, h)
<1> DEFINE N == M \cup X
<1>1. CASE s.child \in g.kids
  <2> SUFFICES ASSUME s.child \notin h.kids, ~Doomed(h) PROVE Backed(s, N, h)
    BY DEF Backed
  <2>1. MayDelete /\ \E q \in X : Unheard(q, s, N, h)
    BY <1>1 DEF Spares
  <2> HIDE DEF N
  <2>2. X \subseteq N
    BY DEF N
  <2>3. \E q \in N : Unheard(q, s, N, h)
    BY <2>1, <2>2
  <2> QED BY <2>1, <2>3 DEF Backed
<1>2. CASE Doomed(g)
  BY <1>2 DEF Backed, Stays
<1>3. CASE \E q \in M : Demand(q) /\ Kind(q) = "child" /\ Spi(q) = s.child.out /\ Waiting(g, q)
  <2>1. PICK q \in M : Demand(q) /\ Kind(q) = "child" /\ Spi(q) = s.child.out /\ Waiting(g, q)
    BY <1>3
  <2>2. Waiting(h, q) \/ s.child \in h.kids
    BY <2>1 DEF Stays, Absolved
  <2>3. q \in N
    OBVIOUS
  <2> HIDE DEF N
  <2> QED BY <2>1, <2>2, <2>3 DEF Backed
<1>4. CASE MayDelete /\ Heals(s)
  BY <1>4 DEF Backed
<1>5. CASE MayDelete /\ \E q \in M : Unheard(q, s, M, g)
  <2>1. PICK q \in M : Unheard(q, s, M, g)
    BY <1>5
  <2>2. Waiting(h, q)
    BY <2>1 DEF Stays, Absolved, Unheard
  <2>3. ~Read(q, N) /\ q \in N
    BY <2>1 DEF Unheard, Read
  <2> HIDE DEF N
  <2>4. Unheard(q, s, N, h)
    BY <2>1, <2>2, <2>3 DEF Unheard
  <2>5. Backed(s, N, h)
    BY <1>5, <2>3, <2>4 DEF Backed
  <2> QED BY <2>5 DEF N
<1> QED BY <1>1, <1>2, <1>3, <1>4, <1>5 DEF Backed

\* The gateway is still where it moved to.
LEMMA StaysOn ==
    ASSUME NEW g, NEW h, NEW M, NEW X, Moved(M, g), Turned(M, g), Stays(g, h, M, X), Onward(g, h),
           \A m \in X : From(m) = "gw"
    PROVE  Moved(M \cup X, h) /\ Turned(M \cup X, h)
<1> DEFINE N == M \cup X
<1>1. h.cur = g.cur /\ g.ever \subseteq h.ever
  BY DEF Stays, Onward
<1>2. Moved(N, h)
  <2> SUFFICES ASSUME NEW sa, Superseded(sa, N)
               PROVE  /\ sa \in h.ever /\ sa # h.cur
                      /\ \A q \in N : Asks(q) /\ Sa(q) = sa => ~Waiting(h, q) /\ Read(q, N)
    BY DEF Moved
  <2>1. Superseded(sa, M)
    BY DEF Superseded, Stays
  <2>2. /\ sa \in g.ever /\ sa # g.cur
        /\ \A q \in M : Asks(q) /\ Sa(q) = sa => ~Waiting(g, q) /\ Read(q, M)
    BY <2>1 DEF Moved
  <2>3. \A q \in N : Asks(q) /\ Sa(q) = sa => q \in M
    BY <2>2 DEF Stays, Asks
  <2>4. \A q : Read(q, M) => Read(q, N)
    BY DEF Read
  <2>5. \A q \in M : Asks(q) /\ Waiting(h, q) => Waiting(g, q)
    BY DEF Stays, Asks
  <2> QED BY <1>1, <2>2, <2>3, <2>4, <2>5
<1>3. Turned(N, h)
  <2> SUFFICES ASSUME NEW q \in N, Demand(q), Kind(q) = "ike"
               PROVE  /\ "ike" \in E.kinds
                      /\ Waiting(h, q) => Sa(q) = h.cur
                      /\ Sa(q) = h.cur /\ (\E a \in N : Yields(a, q)) => Waiting(h, q)
    BY DEF Turned
  <2>1. CASE q \in X
    BY <1>1, <2>1 DEF Stays
  <2>2. CASE q \in M
    <3>1. (\E a \in N : Yields(a, q)) => \E a \in M : Yields(a, q)
      BY DEF Yields
    <3>2. /\ "ike" \in E.kinds
          /\ Waiting(g, q) => Sa(q) = g.cur
          /\ Sa(q) = g.cur /\ (\E a \in M : Yields(a, q)) => Waiting(g, q)
      BY <2>2 DEF Turned
    <3>3. /\ Waiting(h, q) => Waiting(g, q)
          /\ Sa(q) = g.cur /\ (\E a \in M : Yields(a, q)) /\ Waiting(g, q) => Waiting(h, q)
      BY <2>2 DEF Stays, Absolved
    <3> QED BY <1>1, <3>1, <3>2, <3>3
  <2> QED BY <2>1, <2>2
<1> QED BY <1>2, <1>3

\* Message IDs are numbers.
Numbers(M) == (\A m \in M : Id(m) \in Nat) /\ \A m \in Asked(s, M) : Id(m) \in Nat

\* A step under the same IKE SA: h sends X.
LEMMA WholeStep ==
    ASSUME NEW g, NEW h, NEW M, NEW X, Whole(g, M), Numbers(M), Onward(g, h), News(g, h, M, X),
           Stays(g, h, M, X), Spares(g, h, M, X), Grateful(h, X), Closing(h)
    PROVE  Whole(h, M \cup X)
<1> DEFINE N == M \cup X
<1>0. /\ Promised(s, M, g) /\ Backed(s, M, g) /\ Quit(s, M) /\ Turned(M, g) /\ Ordered(M, g)
      /\ Apt(s, M, g) /\ Moved(M, g) /\ (Doomed(g) => Doomed(h))
      /\ \A m \in X : From(m) = "gw"
  BY DEF Whole, Stays, News
<1>1. Promised(s, N, h) /\ Backed(s, N, h) /\ Turned(N, h) /\ Moved(N, h)
  BY <1>0, PromisedOn, BackedOn, StaysOn
<1>2. Ordered(N, h) /\ \A m \in X : Demand(m) => ~Read(m, N)
  BY <1>0, OrderedOn DEF Numbers
<1>3. Quit(s, N)
  BY <1>0, <1>2, QuitOn
<1>4. Apt(s, N, h)
  <2>1. /\ \A sa \in DOMAIN g.win : g.win[sa].rx \in Nat
        /\ \A m \in X : MayDelete /\ s.pending.reest /\ Answers(m, s.pending.req) =>
              ChildResponseOK(s.pending, m.body) \/ Doomed(h)
    BY <1>0 DEF Ordered, Grateful
  <2> QED BY <1>0, <2>1, AptOn DEF Numbers
<1> QED BY <1>1, <1>2, <1>3, <1>4 DEF Whole

\* The gateway moves to a new IKE SA, and may grant it to the client by sending X.
LEMMA WholeAdopt ==
    ASSUME NEW g, NEW h, NEW M, NEW X, NEW new, Whole(g, M), Numbers(M), Onward(g, h),
           News(g, h, M, X), Grateful(h, X), Closing(h), ~Doomed(g),
           h.cur = new, new \notin g.ever, new \in h.ever, h.kids = g.kids,
           MayDelete /\ s.pending.kind = "child" =>
              h.newborn = g.newborn \/ ~\E r \in M : Grants(r, s.pending.req),
           \A q \in M : Asks(q) => (Waiting(h, q) <=> Waiting(g, q)),
           \A q \in M : Demand(q) /\ Kind(q) = "ike" => ~Waiting(h, q),
           \A m \in X :
              /\ Resp(m) /\ Kind(m) = "ike"
              /\ \A q \in M : Asks(q) /\ Sa(q) = Sa(m) => ~Waiting(g, q) /\ Read(q, M)
    PROVE  Whole(h, M \cup X)
<1> DEFINE N == M \cup X
<1>0. /\ Promised(s, M, g) /\ Backed(s, M, g) /\ Quit(s, M) /\ Turned(M, g) /\ Ordered(M, g)
      /\ Apt(s, M, g) /\ Moved(M, g)
      /\ \A m \in X : From(m) = "gw" /\ Sa(m) \in g.ever /\ ~Demand(m)
  BY DEF Whole, News, Demand
<1>1. Ordered(N, h)
  BY <1>0, OrderedOn DEF Numbers
<1>2. Quit(s, N)
  BY <1>0, QuitOn
<1>3. Apt(s, N, h)
  <2>1. /\ \A sa \in DOMAIN g.win : g.win[sa].rx \in Nat
        /\ \A m \in X : MayDelete /\ s.pending.reest /\ Answers(m, s.pending.req) =>
              ChildResponseOK(s.pending, m.body) \/ Doomed(h)
    BY <1>0 DEF Ordered, Grateful
  <2> QED BY <1>0, <2>1, AptOn DEF Numbers
<1>4. Promised(s, N, h)
  <2>1. \A r \in N : \A q : Grants(r, q) => r \in M
    BY DEF Grants
  <2> HIDE DEF N
  <2> QED BY <1>0, <2>1 DEF Promised
<1>5. \A q : Read(q, N) <=> Read(q, M)
  BY <1>0 DEF Read
<1>6. Backed(s, N, h)
  <2>1. M \subseteq N
    OBVIOUS
  <2> HIDE DEF N
  <2>2. \A q \in M : Unheard(q, s, M, g) => Unheard(q, s, N, h)
    BY <1>5 DEF Unheard, Asks
  <2>3. \A q \in M : Demand(q) /\ Kind(q) = "child" /\ Waiting(g, q) => Waiting(h, q)
    BY DEF Asks
  <2> QED BY <1>0, <2>1, <2>2, <2>3 DEF Backed
<1>7. Moved(N, h)
  <2> SUFFICES ASSUME NEW sa, Superseded(sa, N)
               PROVE  /\ sa \in g.ever
                      /\ \A q \in M : Asks(q) /\ Sa(q) = sa => ~Waiting(g, q) /\ Read(q, M)
    <3>1. \A q \in N : Asks(q) => q \in M
      BY <1>0 DEF Asks
    <3>2. g.ever \subseteq h.ever
      BY DEF Onward
    <3> QED BY <1>5, <3>1, <3>2 DEF Moved
  <2>1. CASE Superseded(sa, M)
    BY <1>0, <2>1 DEF Moved
  <2>2. CASE \E m \in X : Sa(m) = sa
    BY <1>0, <2>2
  <2> QED BY <2>1, <2>2 DEF Superseded
<1>8. Turned(N, h)
  <2> SUFFICES ASSUME NEW q \in N, Demand(q), Kind(q) = "ike"
               PROVE  "ike" \in E.kinds /\ ~Waiting(h, q) /\ Sa(q) # h.cur
    BY DEF Turned
  <2>1. q \in M /\ Sa(q) \in g.ever
    BY <1>0 DEF Ordered, Demand
  <2> QED BY <1>0, <2>1 DEF Turned
<1> QED BY <1>1, <1>2, <1>3, <1>4, <1>6, <1>7, <1>8 DEF Whole

\* The gateway's side is whole before the step.
LEMMA UpWhole ==
    ASSUME SessionInv, HoleInv, Up
    PROVE  /\ Whole(gw, net) /\ Numbers(net) /\ Ordered(net, gw) /\ Moved(net, gw) /\ Closing(gw)
           /\ \A sa \in DOMAIN gw.win : sa \in gw.ever /\ WindowShape(gw.win[sa])
BY DEF SessionInv, Good, ClientSide, Drawn, Numbered, GatewaySide, Windows, WindowOf, HoleInv,
       Mended, Whole, Numbers

\* The gateway g has taken the request req in: nothing else has changed yet.
TakesIn(g, req) ==
    /\ req \in net /\ From(req) = "client" /\ ~Resp(req) /\ Sa(req) \in DOMAIN gw.win
    /\ Id(req) = gw.win[Sa(req)].rx
    /\ DOMAIN g = GatewayFields /\ g.kids = gw.kids /\ g.cur = gw.cur /\ g.ever = gw.ever
    /\ g.out = {} /\ g.declined = gw.declined /\ DOMAIN g.win = DOMAIN gw.win
    /\ Sa(req) # gw.cur => g.newborn = gw.newborn
    /\ \A sa \in DOMAIN gw.win :
          /\ Req(g, sa) = Req(gw, sa) /\ g.win[sa].tx = gw.win[sa].tx
          /\ g.win[sa].rx = IF sa = Sa(req) THEN gw.win[sa].rx + 1 ELSE gw.win[sa].rx

\* The gateway with a request of the client taken in.
LEMMA ReceivedTakes ==
    ASSUME SessionInv, NEW req \in net, From(req) = "client", CanReceive(gw, req), NEW b,
           Sa(req) # gw.cur => b = gw.newborn
    PROVE  LET g == [gw EXCEPT !.win[req.sa].rx = @ + 1, !.newborn = b]
           IN TakesIn(g, req)
<1> DEFINE g == [gw EXCEPT !.win[req.sa].rx = @ + 1, !.newborn = b]
           w == [gw.win EXCEPT ![Sa(req)].rx = @ + 1]
<1>1. Windows(gw, net, fresh) /\ DOMAIN gw = GatewayFields /\ gw.out = {}
  BY DEF SessionInv, Good, GatewaySide, Windows
<1>2. ~Resp(req) /\ Sa(req) \in DOMAIN gw.win /\ Id(req) = gw.win[Sa(req)].rx
  BY DEF CanReceive, Held, Resp, Sa, Id
<1>3. \A sa \in DOMAIN gw.win : WindowShape(gw.win[sa])
  BY <1>1 DEF Windows, WindowOf
<1>4. /\ DOMAIN g = GatewayFields /\ g.win = w /\ g.ever = gw.ever /\ g.cur = gw.cur
      /\ g.kids = gw.kids /\ g.out = {} /\ g.declined = gw.declined /\ g.newborn = b
  BY <1>1 DEF GatewayFields, Sa
<1>5. /\ DOMAIN w = DOMAIN gw.win
      /\ \A sa \in DOMAIN gw.win :
            /\ w[sa].req = gw.win[sa].req /\ w[sa].tx = gw.win[sa].tx
            /\ w[sa].rx = IF sa = Sa(req) THEN gw.win[sa].rx + 1 ELSE gw.win[sa].rx
  BY <1>2, <1>3 DEF WindowShape
<1> HIDE DEF g, w
<1>6. TakesIn(g, req)
  BY <1>2, <1>4, <1>5 DEF TakesIn, Req
<1> QED BY <1>6 DEF g

\* Taking a request in leaves the gateway's own requests outstanding.
LEMMA WaitsAlike ==
    ASSUME NEW g, NEW req, TakesIn(g, req)
    PROVE  \A q : Waiting(g, q) <=> Waiting(gw, q)
BY DEF TakesIn, Waiting

\* While an answer that grants a Child SA is on its way, the client has nothing new
\* to say: the gateway keeps in mind that it has just made that SA.
LEMMA Unrecalled ==
    ASSUME SessionInv, HoleInv, Up, MayDelete, s.pending.kind = "child",
           NEW r \in net, Grants(r, s.pending.req), NEW g, NEW req, TakesIn(g, req)
    PROVE  Sa(req) # gw.cur /\ Kind(req) = "delIKE"
<1> DEFINE p == s.pending.req
<1>1. /\ From(p) = "client" /\ ~Resp(p) /\ Sa(p) = s.ike /\ p \in Asked(s, net)
  BY DEF SessionInv, Good, ClientSide, InFlight, Asked, Kept
<1>2. /\ From(r) = "gw" /\ Resp(r) /\ Sa(r) = s.ike /\ Id(r) = Id(p)
  BY <1>1 DEF Grants, Answers, Resp, Sa, Id
<1>3. req \in Asked(s, net) /\ Sa(req) \in DOMAIN gw.win /\ Id(req) = gw.win[Sa(req)].rx
  BY DEF TakesIn, Asked
<1>4. /\ \A m \in Asked(s, net) : Id(m) \in Nat
      /\ Sa(req) = s.ike => Id(req) < s.messageID
  BY <1>3 DEF SessionInv, Good, ClientSide, Numbered
<1>5. InTurn(s, net, gw) /\ Moved(net, gw) /\ Ordered(net, gw)
  BY DEF HoleInv, Mended, Apt
<1> HIDE DEF p
<1>6. Id(p) + 1 = s.messageID
  BY <1>5 DEF InTurn, p
<1>7. Sa(req) # s.ike
  <2> SUFFICES ASSUME Sa(req) = s.ike PROVE FALSE
    OBVIOUS
  <2>1. Id(r) < gw.win[s.ike].rx
    BY <1>2, <1>3, <1>5 DEF Ordered
  <2>2. Id(p) < Id(req) /\ Id(req) < Id(p) + 1 /\ Id(p) \in Nat /\ Id(req) \in Nat
    BY <1>1, <1>2, <1>3, <1>4, <1>6, <2>1
  <2> QED BY <2>2
<1>8. /\ Superseded(Sa(req), net)
      /\ Kind(req) # "delIKE" => Id(req) < gw.win[Sa(req)].rx
  BY <1>3, <1>5, <1>7 DEF InTurn
<1>9. Id(req) \in Nat
  BY <1>3, <1>4
<1>10. Sa(req) # gw.cur
  BY <1>5, <1>8 DEF Moved
<1>11. Kind(req) = "delIKE"
  <2>1. ~(Id(req) < Id(req))
    BY <1>9
  <2> QED BY <1>3, <1>8, <2>1
<1> QED BY <1>10, <1>11

\* An answer to req answers no other request.
LEMMA SameRequest ==
    ASSUME SessionInv, NEW req \in net, From(req) = "client", ~Resp(req), NEW r,
           Sa(r) = Sa(req), Id(r) = Id(req), s.pending.kind # "none", Answers(r, s.pending.req)
    PROVE  s.pending.req = req
<1>1. From(s.pending.req) = "client" /\ ~Resp(s.pending.req) /\ Numbered(s, net)
  BY DEF SessionInv, Good, ClientSide, InFlight
<1>2. s.pending.req \in Asked(s, net) /\ req \in Asked(s, net)
  BY <1>1 DEF Asked, Kept
<1>3. Sa(s.pending.req) = Sa(req) /\ Id(s.pending.req) = Id(req)
  BY DEF Answers, Sa, Id
<1> QED BY <1>1, <1>2, <1>3 DEF Numbered

\* The answer r is all that h has on top of g.
Replied(g, h, req, body, r) ==
    /\ DOMAIN h = GatewayFields /\ h.win = g.win /\ h.kids = g.kids /\ h.cur = g.cur
    /\ h.ever = g.ever /\ h.newborn = g.newborn /\ h.declined = g.declined
    /\ h.out = g.out \cup {r}
    /\ From(r) = "gw" /\ Resp(r) = TRUE /\ Sa(r) = Sa(req) /\ Ex(r) = Ex(req)
    /\ Id(r) = Id(req) /\ r.body = body

\* What an answer of the gateway changes.
LEMMA ReplyFields ==
    ASSUME NEW g, NEW h, NEW req, NEW body, NEW r, DOMAIN g = GatewayFields, Replies(g, h, req, body, r)
    PROVE  Replied(g, h, req, body, r)
BY DEF Replied, Replies, Reply, Emit, GatewayFields, Message, From, Resp, Sa, Ex, Id

\* An answer comes in order.
LEMMA ReplyOn ==
    ASSUME SessionInv, HoleInv, Up, NEW g, NEW h, NEW req, NEW r, TakesIn(g, req),
           gw.ever \subseteq h.ever,
           \A sa \in DOMAIN h.win :
              \/ sa \in DOMAIN g.win /\ h.win[sa] = g.win[sa]
              \/ sa \notin gw.ever /\ h.win[sa] = Window(0),
           From(r) = "gw", Resp(r) = TRUE, Sa(r) = Sa(req), Ex(r) = Ex(req), Id(r) = Id(req)
    PROVE  Onward(gw, h) /\ News(gw, h, net, {r})
<1>0. /\ Ordered(net, gw) /\ \A sa \in DOMAIN gw.win : sa \in gw.ever
  BY UpWhole
<1>1. /\ req \in net /\ From(req) = "client" /\ ~Resp(req) /\ Sa(req) \in DOMAIN gw.win
      /\ Id(req) = gw.win[Sa(req)].rx /\ DOMAIN g.win = DOMAIN gw.win
      /\ \A sa \in DOMAIN gw.win :
            /\ g.win[sa].tx = gw.win[sa].tx
            /\ g.win[sa].rx = IF sa = Sa(req) THEN gw.win[sa].rx + 1 ELSE gw.win[sa].rx
  BY DEF TakesIn
<1>2. \A sa \in DOMAIN gw.win : gw.win[sa].rx \in Nat /\ gw.win[sa].tx \in Nat
  BY <1>0 DEF Ordered
<1>3. Window(0).rx = 0 /\ Window(0).tx = 0
  BY DEF Window
<1>4. \A sa \in DOMAIN g.win :
        /\ g.win[sa].rx \in Nat /\ g.win[sa].tx \in Nat
        /\ gw.win[sa].rx <= g.win[sa].rx /\ gw.win[sa].tx <= g.win[sa].tx
  BY <1>1, <1>2
<1>5. Onward(gw, h)
  BY <1>1, <1>3, <1>4 DEF Onward
<1>6. Answers(r, req) /\ ~Demand(r)
  BY <1>1 DEF Answers, Demand, From, Resp, Sa, Ex, Id
<1>7. Sa(r) \in DOMAIN h.win => Id(r) < h.win[Sa(r)].rx
  <2>1. g.win[Sa(req)].rx = Id(req) + 1 /\ Id(req) \in Nat
    BY <1>1, <1>2
  <2> QED BY <1>0, <1>1, <2>1
<1>8. News(gw, h, net, {r})
  BY <1>0, <1>1, <1>6, <1>7 DEF News
<1> QED BY <1>5, <1>8

\* The gateway g, having taken req in, becomes i and gives up nothing that the client
\* uses or asks for, nor what it waits for itself.
Same(g, i) ==
    /\ DOMAIN i = GatewayFields /\ i.cur = g.cur /\ i.ever = g.ever /\ i.out = g.out
    /\ i.newborn = g.newborn
    /\ DOMAIN i.win \subseteq DOMAIN g.win /\ \A sa \in DOMAIN i.win : i.win[sa] = g.win[sa]
Gentle(g, i, req) ==
    /\ i.declined \in Nat
    /\ \A c \in g.kids \ i.kids :
          c # s.child /\ (s.pending.kind = "child" => c.in # Spi(s.pending.req))
    /\ gw.cur \in DOMAIN g.win => gw.cur \in DOMAIN i.win
    /\ \A q \in net : Demand(q) /\ Kind(q) \in {"child", "delESP", "ike"} /\ Waiting(gw, q) =>
          Waiting(i, q)
    /\ MayDelete /\ s.pending.reest /\ s.pending.req = req => Doomed(gw)

\* An answer that grants nothing.
LEMMA PlainHole ==
    ASSUME SessionInv, HoleInv, NEW g, NEW h, NEW i, NEW req, NEW body, TakesIn(g, req),
           body.t \in {"empty", "notify"}, h = Reply(i, req, body), GatewayStep(h),
           Same(g, i), Up => Gentle(g, i, req)
    PROVE  HoleInv'
<1> DEFINE r == Message("gw", Sa(req), Ex(req), TRUE, Id(req), body)  X == {r}
<1>0. Replies(i, h, req, body, r)
  BY DEF Replies
<1> HIDE DEF r
<1>1. /\ DOMAIN h = GatewayFields /\ h.win = i.win /\ h.kids = i.kids /\ h.cur = gw.cur
      /\ h.ever = gw.ever /\ h.out = X /\ g.kids = gw.kids /\ h.newborn = g.newborn
      /\ h.declined = i.declined /\ DOMAIN g.win = DOMAIN gw.win
      /\ From(r) = "gw" /\ Resp(r) = TRUE /\ Sa(r) = Sa(req) /\ Ex(r) = Ex(req) /\ Id(r) = Id(req)
      /\ Kind(r) \notin {"child", "ike"} /\ ~Demand(r)
  <2>1. Replied(i, h, req, body, r)
    BY <1>0, ReplyFields DEF Same
  <2>2. /\ g.kids = gw.kids /\ i.cur = gw.cur /\ i.ever = gw.ever /\ i.out = {}
        /\ i.newborn = g.newborn /\ DOMAIN g.win = DOMAIN gw.win
    BY DEF TakesIn, Same
  <2>3. Kind(r) \notin {"child", "ike"} /\ ~Demand(r)
    BY <2>1 DEF Kind, Replied, Demand
  <2> QED BY <2>1, <2>2, <2>3 DEF Replied
<1>a. /\ DOMAIN i.win \subseteq DOMAIN gw.win /\ \A sa \in DOMAIN i.win : i.win[sa] = g.win[sa]
  BY <1>1 DEF Same
<1>2. ASSUME Up PROVE Whole(h, net \cup X)
  <2>0. Whole(gw, net) /\ Numbers(net) /\ Closing(gw)
    BY <1>2, UpWhole
  <2>1. Onward(gw, h) /\ News(gw, h, net, X)
    <3>1. \A sa \in DOMAIN h.win : sa \in DOMAIN g.win /\ h.win[sa] = g.win[sa]
      BY <1>1, <1>a
    <3> QED BY <1>1, <1>2, <3>1, ReplyOn
  <2>2. /\ \A q : Waiting(h, q) <=> Waiting(i, q)
        /\ \A q : Waiting(i, q) => Waiting(gw, q)
        /\ \A sa \in DOMAIN h.win : sa \in DOMAIN gw.win /\ Req(h, sa) = Req(gw, sa)
    <3>1. \A q : Waiting(g, q) <=> Waiting(gw, q)
      BY WaitsAlike
    <3>2. \A sa \in DOMAIN gw.win : Req(g, sa) = Req(gw, sa)
      BY DEF TakesIn
    <3>3. \A q : Waiting(h, q) <=> Waiting(i, q)
      BY <1>1 DEF Waiting, Req
    <3>4. \A sa \in DOMAIN h.win : sa \in DOMAIN gw.win /\ Req(h, sa) = Req(gw, sa)
      BY <1>1, <1>a, <3>2 DEF Req
    <3>5. \A q : Waiting(h, q) => Waiting(gw, q)
      BY <3>4 DEF Waiting
    <3> QED BY <3>3, <3>4, <3>5
  <2>3. Doomed(gw) => Doomed(h)
    <3>1. gw.cur \in DOMAIN gw.win => gw.cur \in DOMAIN h.win
      BY <1>1, <1>2 DEF Gentle
    <3> QED BY <1>1, <2>2, <3>1 DEF Doomed
  <2>4. Stays(gw, h, net, X)
    <3>1. \A q : Kind(q) \notin {"child", "delESP", "ike"} => Absolved(q, net, gw, h)
      BY DEF Absolved, Unheard
    <3>2. \A q \in net : Demand(q) /\ Kind(q) \in {"child", "delESP", "ike"} /\ Waiting(gw, q) =>
             Waiting(i, q)
      BY <1>2 DEF Gentle
    <3>3. /\ \A q \in net : Demand(q) /\ Waiting(h, q) => Waiting(gw, q)
          /\ \A q \in net : Demand(q) /\ Waiting(gw, q) => Waiting(h, q) \/ Absolved(q, net, gw, h)
      BY <2>2, <3>1, <3>2
    <3>4. h.cur = gw.cur /\ \A m \in X : Kind(m) # "ike" /\ ~Demand(m)
      BY <1>1
    <3> HIDE DEF X
    <3> QED BY <2>3, <3>3, <3>4 DEF Stays
  <2>5. Spares(gw, h, net, X)
    <3>1. MayDelete /\ s.pending.kind = "child" /\ (\E p \in net : Grants(p, s.pending.req)) =>
            gw.newborn = h.newborn
      <4>1. MayDelete /\ s.pending.kind = "child" /\ (\E p \in net : Grants(p, s.pending.req)) =>
              Sa(req) # gw.cur
        BY <1>2, Unrecalled
      <4>2. Sa(req) # gw.cur => g.newborn = gw.newborn
        BY DEF TakesIn
      <4> QED BY <1>1, <4>1, <4>2
    <3>2. \A m \in X : Kind(m) # "child"
      BY <1>1
    <3>3. \A c \in gw.kids \ h.kids :
            c # s.child /\ (s.pending.kind = "child" => c.in # Spi(s.pending.req))
      BY <1>1, <1>2 DEF Gentle
    <3> HIDE DEF X
    <3> QED BY <3>1, <3>2, <3>3 DEF Spares, Grants
  <2>6. Grateful(h, X)
    <3> SUFFICES ASSUME MayDelete, s.pending.reest, Answers(r, s.pending.req) PROVE Doomed(h)
      BY DEF Grateful
    <3>1. s.pending.kind = "child"
      BY <1>2 DEF HoleInv, Mended, Spared
    <3>2. req \in net /\ From(req) = "client" /\ ~Resp(req)
      BY DEF TakesIn
    <3>3. s.pending.req = req
      BY <1>1, <3>1, <3>2, SameRequest
    <3>4. Doomed(gw)
      BY <1>2, <3>3 DEF Gentle
    <3> QED BY <2>3, <3>4
  <2>7. Closing(h)
    <3>1. h.declined \in Nat
      BY <1>1, <1>2 DEF Gentle
    <3> QED BY <1>1, <2>0, <2>2, <3>1 DEF Closing
  <2> HIDE DEF X
  <2> QED BY <2>0, <2>1, <2>4, <2>5, <2>6, <2>7, WholeStep
<1>3. \A m \in X : From(m) = "gw"
  BY <1>1
<1> HIDE DEF X
<1> QED BY <1>1, <1>2, <1>3, GatewayHole

\* A re-establishment asks for a Child SA and replaces none.
LEMMA Reestablishes ==
    ASSUME SessionInv, HoleInv, Up, MayDelete, s.pending.reest
    PROVE  /\ s.pending.kind = "child" /\ Kind(s.pending.req) = "child"
           /\ s.pending.req.body.rekey = 0 /\ Ke(s.pending.req) = s.pending.dh
<1>1. s.pending.kind = "child" /\ Welcome(s, net, gw)
  BY DEF HoleInv, Mended, Spared, Apt
<1> QED BY <1>1 DEF Welcome, SessionInv, Good, ClientSide, InFlight

\* A gateway that is not sloppy answers with the group it was asked for, or with none.
LEMMA FairAnswers ==
    ASSUME NEW ke, NEW e, ~e.sloppyKE, NEW a \in KEAnswers(ke, e)
    PROVE  (a.ke # 0 => a.ke = ke) /\ (a.ke = 0 => a.sel = 0)
<1>1. KEAnswers(ke, e) = {[ke |-> 0, sel |-> 0], [ke |-> ke, sel |-> ke]}
  BY SMT DEF KEAnswers
<1>2. a = [ke |-> 0, sel |-> 0] \/ a = [ke |-> ke, sel |-> ke]
  BY <1>1
<1> QED BY <1>2

\* It grants a Child SA, which it holds from then on.
LEMMA AcceptChildHole ==
    ASSUME SessionInv, HoleInv, HonoursRecovery, NEW g, NEW req, NEW a \in KEAnswers(req.body.ke, E),
           TakesIn(g, req), Kind(req) = "child", GatewayStep(AcceptChild(g, req, fresh + 1, a))
    PROVE  HoleInv'
<1> DEFINE body == ChildResponse(fresh + 1, fresh + 1, a.ke, a.sel)
           r == Message("gw", Sa(req), Ex(req), TRUE, Id(req), body)
           dh == IF req.body.ke = 0 THEN 0 ELSE IF a.ke # 0 THEN a.ke ELSE a.sel
           kid == [in |-> req.body.spi, out |-> fresh + 1,
                   key |-> DeriveChildKeys(req.sa, req.body.ni, fresh + 1, dh)]
           i == [g EXCEPT !.kids = @ \cup {kid}, !.newborn = {kid}]
           h == AcceptChild(g, req, fresh + 1, a)
           X == {r}
<1>1. /\ req \in net /\ From(req) = "client" /\ ~Resp(req) /\ DOMAIN g = GatewayFields
      /\ g.kids = gw.kids /\ g.cur = gw.cur /\ g.ever = gw.ever /\ g.out = {}
      /\ g.declined = gw.declined /\ DOMAIN g.win = DOMAIN gw.win
      /\ \A sa \in DOMAIN gw.win : Req(g, sa) = Req(gw, sa)
  BY DEF TakesIn
<1>2. Replies(i, h, req, body, r)
  BY DEF Replies, AcceptChild
<1>3. /\ DOMAIN i = GatewayFields /\ i.win = g.win /\ i.ever = g.ever /\ i.cur = g.cur
      /\ i.kids = g.kids \cup {kid} /\ i.out = {} /\ i.newborn = {kid} /\ i.declined = g.declined
  BY <1>1 DEF GatewayFields
<1>4. /\ From(r) = "gw" /\ Resp(r) = TRUE /\ Kind(r) = "child" /\ Spi(r) = fresh + 1
      /\ Nr(r) = fresh + 1 /\ GroupOf(req, r) = dh /\ Sa(r) = Sa(req) /\ Id(r) = Id(req)
      /\ Ex(r) = Ex(req) /\ r.body = body /\ ~Demand(r)
  BY <1>1 DEF Message, ChildResponse, From, Resp, Sa, Id, Ex, Kind, Spi, Nr, Ke, GroupOf, Demand
<1>5. kid = Kid(req, r)
  BY <1>4 DEF Kid, Spi, Sa, Ni
<1>6. body.t = "child" /\ body.ke = a.ke /\ body.sel = a.sel
  BY DEF ChildResponse
<1> HIDE DEF i, r, kid, body, dh, h
<1>7. /\ DOMAIN h = GatewayFields /\ h.win = g.win /\ h.kids = gw.kids \cup {kid}
      /\ h.cur = gw.cur /\ h.ever = gw.ever /\ h.out = X /\ h.newborn = {kid}
      /\ h.declined = gw.declined
  <2>1. Replied(i, h, req, body, r)
    BY <1>2, <1>3, ReplyFields
  <2> QED BY <1>1, <1>3, <2>1 DEF Replied
<1>8. s.pending.kind = "child" /\ Answers(r, s.pending.req) => s.pending.req = req
  BY <1>1, <1>4, SameRequest
<1>9. ASSUME Up PROVE Whole(h, net \cup X)
  <2>0. Whole(gw, net) /\ Numbers(net) /\ Closing(gw)
    BY <1>9, UpWhole
  <2>1. Onward(gw, h) /\ News(gw, h, net, X)
    BY <1>1, <1>4, <1>7, <1>9, ReplyOn
  <2>2. /\ \A q : Waiting(h, q) <=> Waiting(gw, q)
        /\ \A sa \in DOMAIN h.win : sa \in DOMAIN gw.win /\ Req(h, sa) = Req(gw, sa)
    BY <1>1, <1>7 DEF Waiting, Req
  <2>3. Doomed(gw) => Doomed(h)
    BY <1>1, <1>7, <2>2 DEF Doomed
  <2>4. Stays(gw, h, net, X)
    BY <1>4, <1>7, <2>2, <2>3 DEF Stays
  <2>5. Spares(gw, h, net, X)
    <3>1. ~(MayDelete /\ s.pending.kind = "child" /\ \E p \in net : Grants(p, s.pending.req))
      <4>1. Kind(req) # "delIKE"
        OBVIOUS
      <4> QED BY <1>9, <4>1, Unrecalled
    <3>2. s.pending.kind = "child" /\ Grants(r, s.pending.req) =>
            Kid(s.pending.req, r) \in h.kids /\ Kid(s.pending.req, r) \in h.newborn
      BY <1>5, <1>7, <1>8 DEF Grants
    <3>3. gw.kids \subseteq h.kids
      BY <1>7
    <3> QED BY <3>1, <3>2, <3>3 DEF Spares
  <2>6. Grateful(h, X)
    <3> SUFFICES ASSUME MayDelete, s.pending.reest, Answers(r, s.pending.req)
                 PROVE  ChildResponseOK(s.pending, body)
      BY <1>4 DEF Grateful
    <3>1. s.pending.kind = "child" /\ Ke(s.pending.req) = s.pending.dh
      BY <1>9, Reestablishes
    <3>2. req.body.ke = s.pending.dh
      BY <1>8, <3>1 DEF Ke
    <3>3. ~E.sloppyKE
      BY DEF HonoursRecovery, MayDelete
    <3>4. (a.ke # 0 => a.ke = s.pending.dh) /\ (a.ke = 0 => a.sel = 0)
      BY <3>2, <3>3, FairAnswers
    <3> QED BY <1>6, <3>4 DEF ChildResponseOK
  <2>7. Closing(h)
    BY <1>1, <1>7, <2>0, <2>2 DEF Closing
  <2> HIDE DEF X
  <2> QED BY <2>0, <2>1, <2>4, <2>5, <2>6, <2>7, WholeStep
<1>10. GatewayStep(h) /\ \A m \in X : From(m) = "gw"
  BY <1>4 DEF h
<1> HIDE DEF X
<1> QED BY <1>7, <1>9, <1>10, GatewayHole

\* Where nothing is outstanding, the client has answered all that was said of Child SAs.
LEMMA AllAnswered ==
    ASSUME SessionInv, HoleInv, Up, NEW q \in net, Asks(q), ~Waiting(gw, q)
    PROVE  Read(q, net)
<1>1. Windows(gw, net, fresh) /\ Parted(s, net) /\ Moved(net, gw)
  BY DEF SessionInv, Good, GatewaySide, HoleInv, Mended
<1>2. Done(q, net)
  BY <1>1 DEF Windows, Asks, Demand
<1>3. ASSUME NEW m \in net, From(m) = "client", ~Resp(m), Kind(m) = "delIKE", Sa(m) = Sa(q)
      PROVE  Read(q, net)
  <2>1. m \in Asked(s, net)
    BY <1>3 DEF Asked
  <2>2. Superseded(Sa(q), net)
    BY <1>1, <1>3, <2>1 DEF Parted
  <2> QED BY <1>1, <2>2 DEF Moved
<1> QED BY <1>2, <1>3 DEF Done, Read

\* It grants an IKE SA and moves on, with no Child SA asked for or deleted in vain.
LEMMA AcceptIKEHole ==
    ASSUME SessionInv, HoleInv, NEW g, NEW req, TakesIn(g, req), Kind(req) = "ike",
           \A x \in DOMAIN g.win : Kind(Req(g, x)) \notin {"child", "delESP", "ike", "delIKE"},
           GatewayStep(AcceptIKE(g, req, fresh + 1))
    PROVE  HoleInv'
<1> DEFINE new == DeriveRekeyIKE(Sa(req), Ni(req), fresh + 1, Ke(req))
           body == IKEResponse(fresh + 1, Ke(req))
           r == Message("gw", Sa(req), Ex(req), TRUE, Id(req), body)
           i == Adopt(g, new)
           h == AcceptIKE(g, req, fresh + 1)
           X == {r}
<1>1. /\ Sa(req) \in DOMAIN gw.win /\ DOMAIN g = GatewayFields /\ DOMAIN g.win = DOMAIN gw.win
      /\ g.kids = gw.kids /\ g.cur = gw.cur /\ g.ever = gw.ever /\ g.out = {}
      /\ g.declined = gw.declined /\ \A sa \in DOMAIN gw.win : Req(g, sa) = Req(gw, sa)
  BY DEF TakesIn
<1>2. Windows(gw, net, fresh) /\ fresh \in Nat
  BY DEF SessionInv, Good, GatewaySide, ClientSide, Drawn
<1>3. Second(new) = fresh + 1
  BY DEF DeriveRekeyIKE, Second
<1>4. Replies(i, h, req, body, r)
  BY DEF Replies, AcceptIKE, Sa, Ni, Ke
<1>5. Kind(r) = "ike"
  BY DEF Message, IKEResponse, Kind
<1> HIDE DEF new, body, r
<1>6. /\ new \notin gw.ever /\ \A x \in DOMAIN gw.win : x # new
  <2>1. \A x \in gw.ever : Second(x) \in 0..fresh
    BY <1>2 DEF Windows, Old
  <2>2. fresh + 1 \notin 0..fresh
    BY <1>2
  <2>3. DOMAIN gw.win \subseteq gw.ever
    BY <1>2 DEF Windows, WindowOf
  <2> QED BY <1>3, <2>1, <2>2, <2>3
<1>7. /\ DOMAIN i = GatewayFields /\ i.win = With(g.win, new, Window(0)) /\ i.kids = g.kids
      /\ i.cur = new /\ i.ever = g.ever \cup {new} /\ i.out = {} /\ i.newborn = g.newborn
      /\ i.declined = g.declined
  BY <1>1 DEF Adopt, GatewayFields
<1> HIDE DEF i, h
<1>8. /\ DOMAIN h = GatewayFields /\ h.win = With(g.win, new, Window(0)) /\ h.kids = gw.kids
      /\ h.cur = new /\ h.ever = gw.ever \cup {new} /\ h.out = X /\ h.declined = gw.declined
      /\ From(r) = "gw" /\ Resp(r) = TRUE /\ Sa(r) = Sa(req) /\ Ex(r) = Ex(req) /\ Id(r) = Id(req)
  <2>1. Replied(i, h, req, body, r)
    BY <1>4, <1>7, ReplyFields
  <2> QED BY <1>1, <1>7, <2>1 DEF Replied
<1>9. /\ DOMAIN h.win = DOMAIN g.win \cup {new} /\ h.win[new] = Window(0)
      /\ \A x \in DOMAIN g.win : h.win[x] = g.win[x]
  BY <1>1, <1>6, <1>8 DEF With
<1>10. Window(0).req = NoMessage /\ From(NoMessage) # "gw" /\ Kind(NoMessage) = "empty"
  BY DEF Window, NoMessage, Message, From, Kind, Empty
<1>11. \A x \in DOMAIN h.win : Kind(Req(h, x)) \notin {"child", "delESP", "ike", "delIKE"}
  BY <1>9, <1>10 DEF Req
<1>12. ASSUME Up PROVE Whole(h, net \cup X)
  <2>0. Whole(gw, net) /\ Numbers(net) /\ Closing(gw)
    BY <1>12, UpWhole
  <2>1. Onward(gw, h) /\ News(gw, h, net, X)
    <3>1. \A sa \in DOMAIN h.win :
              \/ sa \in DOMAIN g.win /\ h.win[sa] = g.win[sa]
              \/ sa \notin gw.ever /\ h.win[sa] = Window(0)
      BY <1>6, <1>9
    <3>2. gw.ever \subseteq h.ever
      BY <1>8
    <3> HIDE DEF X
    <3> QED BY <1>8, <1>12, <3>1, <3>2, ReplyOn DEF X
  <2>2. \A q : Kind(q) \in {"child", "delESP", "ike", "delIKE"} => ~Waiting(gw, q) /\ ~Waiting(h, q)
    BY <1>1, <1>11 DEF Waiting
  <2>3. ~Doomed(gw)
    BY <1>1 DEF Doomed
  <2>4. MayDelete /\ s.pending.kind = "child" => ~\E p \in net : Grants(p, s.pending.req)
    <3>1. Kind(req) # "delIKE"
      OBVIOUS
    <3> QED BY <1>12, <3>1, Unrecalled
  <2>5. Grateful(h, X)
    <3> SUFFICES ASSUME MayDelete, s.pending.reest, Answers(r, s.pending.req) PROVE FALSE
      BY DEF Grateful
    <3>1. s.pending.kind = "child" /\ Kind(s.pending.req) = "child"
      BY <1>12, Reestablishes
    <3>2. s.pending.req = req
      BY <1>8, <3>1, SameRequest DEF TakesIn
    <3> QED BY <3>1, <3>2
  <2>6. Closing(h)
    BY <1>8, <1>11, <2>0 DEF Closing
  <2>7. \A q \in net : Asks(q) => ~Waiting(gw, q) /\ ~Waiting(h, q) /\ Read(q, net)
    BY <1>12, <2>2, AllAnswered DEF Asks
  <2>8. /\ \A m \in X : Resp(m) /\ Kind(m) = "ike"
        /\ \A q \in net : Demand(q) /\ Kind(q) = "ike" => ~Waiting(h, q)
    BY <1>5, <1>8, <2>2
  <2> HIDE DEF X
  <2> QED BY <1>6, <1>8, <2>0, <2>1, <2>3, <2>4, <2>5, <2>6, <2>7, <2>8, WholeAdopt
<1>13. GatewayStep(h) /\ \A m \in X : From(m) = "gw"
  BY <1>8 DEF h
<1> HIDE DEF X
<1> QED BY <1>8, <1>12, <1>13, GatewayHole

\* A gateway that deletes Child SAs is busy with the IKE SA only when it closes it.
LEMMA BusyDoomed ==
    ASSUME SessionInv, HoleInv, Up, HonoursRecovery, MayDelete, NEW g, NEW req, TakesIn(g, req),
           Busy(g, {"ike", "delIKE"})
    PROVE  Doomed(gw)
<1>0. "ike" \notin E.kinds
  BY DEF HonoursRecovery, MayDelete
<1>1. PICK sa \in DOMAIN gw.win : Req(gw, sa) # NoMessage /\ Kind(Req(gw, sa)) \in {"ike", "delIKE"}
  <2>1. PICK q \in Outstanding(g) : q.body.t \in {"ike", "delIKE"}
    BY DEF Busy
  <2>2. PICK sa \in DOMAIN g.win : q = Req(g, sa) /\ q # NoMessage
    BY <2>1 DEF Outstanding, Held, Req
  <2>3. sa \in DOMAIN gw.win /\ Req(gw, sa) = q
    BY <2>2 DEF TakesIn
  <2> QED BY <2>1, <2>2, <2>3 DEF Kind
<1> DEFINE q == Req(gw, sa)
<1>2. q \in net /\ Demand(q)
  BY <1>1 DEF SessionInv, Good, GatewaySide, Windows, WindowOf, Sent, Demand
<1> HIDE DEF q
<1>3. Kind(q) # "ike"
  BY <1>0, <1>2 DEF HoleInv, Mended, Turned
<1>4. Kind(q) = "delIKE"
  BY <1>1, <1>3 DEF q
<1>5. sa = gw.cur
  BY <1>0, <1>4 DEF HoleInv, Closing, q
<1> QED BY <1>4, <1>5 DEF Doomed, q

\* It declines.
LEMMA DeclineHole ==
    ASSUME SessionInv, HoleInv, HonoursRecovery, NEW g, NEW req, NEW h, TakesIn(g, req), GatewayStep(h),
           \/ /\ \E why : h = Decline(g, req, why)
              /\ Up /\ MayDelete /\ s.pending.reest /\ s.pending.req = req => Doomed(gw)
           \/ h \in Declined(g, req, E)
    PROVE  HoleInv'
<1>0. /\ DOMAIN g = GatewayFields /\ g.cur = gw.cur /\ g.declined = gw.declined
      /\ \A q : Waiting(g, q) <=> Waiting(gw, q)
  BY WaitsAlike DEF TakesIn
<1>a. Up => gw.declined \in Nat
  BY DEF HoleInv, Closing
<1>1. CASE /\ \E why : h = Decline(g, req, why)
           /\ Up /\ MayDelete /\ s.pending.reest /\ s.pending.req = req => Doomed(gw)
  <2>1. PICK why : h = Decline(g, req, why)
    BY <1>1
  <2> DEFINE body == Notify(why)
  <2>2. h = Reply(g, req, body) /\ body.t = "notify"
    BY <2>1 DEF Decline, Notify
  <2> HIDE DEF body
  <2>3. Same(g, g)
    BY <1>0 DEF Same
  <2>4. Up => Gentle(g, g, req)
    BY <1>0, <1>1, <1>a DEF Gentle
  <2> QED BY <2>2, <2>3, <2>4, PlainHole
<1>2. CASE h \in Declined(g, req, E)
  <2> DEFINE i == [g EXCEPT !.declined = @ + 1]
             body == Notify("TEMPORARY_FAILURE")
  <2>1. h = Reply(i, req, body) /\ body.t = "notify" /\ g.declined < E.declines
    BY <1>2 DEF Declined, Decline, Notify
  <2>2. /\ DOMAIN i = GatewayFields /\ i.win = g.win /\ i.ever = g.ever /\ i.cur = g.cur
        /\ i.kids = g.kids /\ i.out = g.out /\ i.newborn = g.newborn /\ i.declined = g.declined + 1
    BY <1>0 DEF GatewayFields
  <2> HIDE DEF i, body
  <2>3. \A q : Waiting(i, q) <=> Waiting(gw, q)
    BY <1>0, <2>2 DEF Waiting, Req
  <2>4. Up => ~MayDelete
    <3> SUFFICES ASSUME Up, MayDelete PROVE FALSE
      OBVIOUS
    <3>1. E.declines = 0 /\ gw.declined \in Nat /\ gw.declined < E.declines
      BY <1>0, <1>a, <2>1 DEF HonoursRecovery, MayDelete
    <3> QED BY <3>1
  <2>5. Up => i.declined \in Nat
    BY <1>0, <1>a, <2>2
  <2>6. Same(g, i)
    BY <2>2 DEF Same
  <2>7. Up => Gentle(g, i, req)
    BY <1>0, <2>2, <2>3, <2>4, <2>5 DEF Gentle
  <2> QED BY <2>1, <2>6, <2>7, PlainHole
<1> QED BY <1>1, <1>2

\* The gateway takes a request of the client.
LEMMA ReceivesHole ==
    ASSUME SessionInv, HoleInv, HonoursRecovery, NEW req \in net, GatewayReceives(req)
    PROVE  HoleInv'
<1> DEFINE b == IF req.sa = gw.cur THEN {} ELSE gw.newborn
           g == [gw EXCEPT !.win[req.sa].rx = @ + 1, !.newborn = b]
<1>1. From(req) = "client" /\ CanReceive(gw, req)
  BY DEF GatewayReceives, From
<1>2. PICK h \in Process(g, req, fresh + 1, E) : GatewayStep(h)
  BY DEF GatewayReceives, Receive
<1>3. TakesIn(g, req)
  <2>1. Sa(req) # gw.cur => b = gw.newborn
    BY DEF Sa
  <2> HIDE DEF b
  <2> QED BY <1>1, <2>1, ReceivedTakes
<1> HIDE DEF g
<1>4. /\ DOMAIN g = GatewayFields /\ g.kids = gw.kids /\ g.cur = gw.cur /\ ~Resp(req)
      /\ g.declined = gw.declined /\ \A q : Waiting(g, q) <=> Waiting(gw, q)
  BY <1>3, WaitsAlike DEF TakesIn
<1>5. Empty.t = "empty"
  BY DEF Empty
<1>a. req \in Asked(s, net)
  BY <1>1, <1>4 DEF Asked
<1>b. Up => g.declined \in Nat
  BY <1>4 DEF HoleInv, Closing
<1>c. Kind(req) # "child" => ~(Up /\ MayDelete /\ s.pending.reest /\ s.pending.req = req)
  BY Reestablishes
<1>6. CASE Kind(req) = "empty"
  <2>1. h = Reply(g, req, Empty)
    BY <1>2, <1>6 DEF Process, Kind
  <2>2. Same(g, g)
    BY <1>4 DEF Same
  <2>3. Up => Gentle(g, g, req)
    BY <1>4, <1>6, <1>b, <1>c DEF Gentle
  <2> QED BY <1>2, <1>3, <1>5, <2>1, <2>2, <2>3, PlainHole
<1>7. CASE Kind(req) = "delESP"
  <2> DEFINE i == [g EXCEPT !.kids = {k \in @ : k.in # req.body.spi}]
  <2>1. h = Reply(i, req, Empty)
    BY <1>2, <1>7 DEF Process, Kind
  <2>2. /\ DOMAIN i = GatewayFields /\ i.win = g.win /\ i.ever = g.ever /\ i.cur = g.cur
        /\ i.kids = {k \in g.kids : k.in # Spi(req)} /\ i.out = g.out
        /\ i.newborn = g.newborn /\ i.declined = g.declined
    BY <1>4 DEF GatewayFields, Spi
  <2> HIDE DEF i
  <2>3. \A q : Waiting(i, q) <=> Waiting(gw, q)
    BY <1>4, <2>2 DEF Waiting, Req
  <2>4. Up => \A c \in g.kids \ i.kids :
            c # s.child /\ (s.pending.kind = "child" => c.in # Spi(s.pending.req))
    <3> SUFFICES ASSUME Up, NEW c \in g.kids \ i.kids
                 PROVE  c # s.child /\ (s.pending.kind = "child" => c.in # Spi(s.pending.req))
      OBVIOUS
    <3>1. c.in = Spi(req)
      BY <2>2
    <3>2. Spi(req) # s.child.in /\ (s.pending.kind = "child" => Spi(req) # s.pending.newIn)
      BY <1>7, <1>a DEF HoleInv, Mended, Spared
    <3>3. s.pending.kind = "child" => Spi(s.pending.req) = s.pending.newIn
      BY DEF SessionInv, Good, ClientSide, InFlight
    <3> QED BY <3>1, <3>2, <3>3
  <2>5. Same(g, i)
    BY <2>2 DEF Same
  <2>6. Up => Gentle(g, i, req)
    BY <1>7, <1>b, <1>c, <2>2, <2>3, <2>4 DEF Gentle
  <2> QED BY <1>2, <1>3, <1>5, <2>1, <2>5, <2>6, PlainHole
<1>8. CASE Kind(req) = "delIKE"
  <2> DEFINE i == [g EXCEPT !.win = Drop(@, req.sa), !.kids = IF g.cur = req.sa THEN {} ELSE @]
  <2>1. h = Reply(i, req, Empty)
    BY <1>2, <1>8 DEF Process, Kind
  <2>2. /\ DOMAIN i = GatewayFields /\ i.win = Drop(g.win, Sa(req)) /\ i.ever = g.ever
        /\ i.cur = g.cur /\ (g.cur # Sa(req) => i.kids = g.kids) /\ i.out = g.out
        /\ i.newborn = g.newborn /\ i.declined = g.declined
    BY <1>4 DEF GatewayFields, Sa
  <2> HIDE DEF i
  <2>3. /\ DOMAIN i.win = DOMAIN g.win \ {Sa(req)}
        /\ \A x \in DOMAIN i.win : i.win[x] = g.win[x]
    BY <2>2 DEF Drop
  <2>4. ASSUME Up
        PROVE  /\ i.kids = g.kids
               /\ gw.cur \in DOMAIN g.win => gw.cur \in DOMAIN i.win
               /\ \A q \in net : Demand(q) /\ Kind(q) \in {"child", "delESP", "ike"} /\ Waiting(gw, q) =>
                     Waiting(i, q)
    <3>1. Superseded(Sa(req), net) /\ Moved(net, gw) /\ Turned(net, gw)
      BY <1>8, <1>a, <2>4 DEF HoleInv, Mended, Parted
    <3>2. /\ Sa(req) # gw.cur
          /\ \A q \in net : Asks(q) /\ Sa(q) = Sa(req) => ~Waiting(gw, q)
      BY <3>1 DEF Moved
    <3>3. \A q \in net : Demand(q) /\ Kind(q) \in {"child", "delESP", "ike"} /\ Waiting(gw, q) =>
            Sa(q) # Sa(req)
      BY <3>1, <3>2 DEF Asks, Turned
    <3>4. \A q \in net : Waiting(gw, q) /\ Sa(q) # Sa(req) => Waiting(i, q)
      BY <1>4, <2>3 DEF Waiting, Req
    <3> QED BY <1>4, <2>2, <2>3, <3>2, <3>3, <3>4
  <2>5. Same(g, i)
    BY <2>2, <2>3 DEF Same
  <2>6. Up => Gentle(g, i, req)
    BY <1>8, <1>b, <1>c, <2>2, <2>4 DEF Gentle
  <2> QED BY <1>2, <1>3, <1>5, <2>1, <2>5, <2>6, PlainHole
<1>9. CASE Kind(req) = "child"
  <2>1. \/ req.body.rekey # 0 /\ \E why : h = Decline(g, req, why)
        \/ Busy(g, {"ike", "delIKE"}) /\ \E why : h = Decline(g, req, why)
        \/ h \in Declined(g, req, E)
        \/ \E a \in KEAnswers(req.body.ke, E) : h = AcceptChild(g, req, fresh + 1, a)
    BY <1>2, <1>9 DEF Process, Kind
  <2>2. CASE \E a \in KEAnswers(req.body.ke, E) : h = AcceptChild(g, req, fresh + 1, a)
    BY <1>2, <1>3, <1>9, <2>2, AcceptChildHole
  <2>3. req.body.rekey # 0 => ~(Up /\ MayDelete /\ s.pending.reest /\ s.pending.req = req)
    BY Reestablishes
  <2>4. Busy(g, {"ike", "delIKE"}) /\ Up /\ MayDelete => Doomed(gw)
    BY <1>3, BusyDoomed
  <2> QED BY <1>2, <1>3, <2>1, <2>2, <2>3, <2>4, DeclineHole
<1>10. CASE Kind(req) = "ike"
  <2>1. \/ \E why : h = Decline(g, req, why)
        \/ h \in Declined(g, req, E)
        \/ h = AcceptIKE(g, req, fresh + 1) /\ ~Busy(g, {"child", "delESP", "ike", "delIKE"})
    BY <1>2, <1>10 DEF Process, Kind
  <2>2. CASE h = AcceptIKE(g, req, fresh + 1) /\ ~Busy(g, {"child", "delESP", "ike", "delIKE"})
    <3>1. \A x \in DOMAIN g.win : Kind(Req(g, x)) \notin {"child", "delESP", "ike", "delIKE"}
      <4> SUFFICES ASSUME NEW x \in DOMAIN g.win
                   PROVE  Kind(Req(g, x)) \notin {"child", "delESP", "ike", "delIKE"}
        OBVIOUS
      <4>1. Req(g, x) # NoMessage => Req(g, x) \in Outstanding(g)
        BY DEF Outstanding, Held, Req
      <4>2. Kind(NoMessage) = "empty"
        BY DEF NoMessage, Message, Kind, Empty
      <4> QED BY <2>2, <4>1, <4>2 DEF Busy, Kind
    <3> QED BY <1>2, <1>3, <1>10, <2>2, <3>1, AcceptIKEHole
  <2> QED BY <1>2, <1>3, <1>10, <1>c, <2>1, <2>2, DeclineHole
<1>11. CASE Kind(req) \notin {"empty", "delESP", "delIKE", "child", "ike"}
  <2>1. Process(g, req, fresh + 1, E) = {}
    BY <1>11 DEF Process, Kind
  <2> QED BY <1>2, <2>1
<1> QED BY <1>6, <1>7, <1>8, <1>9, <1>10, <1>11

\* The Child SA in use, when the gateway asked for it, is one the client granted.
LEMMA GrantedChild ==
    ASSUME SessionInv, NEW q \in net, Demand(q), Kind(q) = "child", Spi(q) = s.child.out
    PROVE  \E r \in net : From(r) = "client" /\ Answers(r, q) /\ Kind(r) = "child"
<1> DEFINE c == s.child
<1>1. GatewayNonces(net) /\ ClientSide(s, net, fresh) /\ Pedigree(c, net)
  BY DEF SessionInv, Good, GatewaySide
<1>2. Keyed(q) /\ Spi(q) = Nonce(q) /\ Nonce(q) > 2 /\ Nonce(q) \in Nat
  <2>1. From(q) = "gw" /\ ~Resp(q) /\ Kind(q) = "child" /\ Keyed(q)
    BY DEF Demand, Keyed
  <2>2. Spi(q) = Nonce(q) /\ Nonce(q) > 2
    BY <1>1, <2>1 DEF GatewayNonces
  <2>3. Nonce(q) \in 0..fresh /\ fresh \in Nat
    BY <1>1, <2>1 DEF ClientSide, Drawn
  <2> QED BY <2>1, <2>2, <2>3
<1>3. \A m \in net : From(m) = "gw" /\ Kind(m) = "child" /\ Spi(m) = Spi(q) => m = q
  <2>1. \A m \in net : From(m) = "gw" /\ Kind(m) = "child" => Keyed(m) /\ Spi(m) = Nonce(m)
    BY <1>1 DEF GatewayNonces, Keyed
  <2> QED BY <1>1, <1>2, <2>1 DEF GatewayNonces, Demand
<1> DEFINE first == FirstChild(InitialGroup)
           Ours(p, r) ==
             /\ From(p) = "client" /\ From(r) = "gw" /\ Answers(r, p)
             /\ Kind(p) = "child" /\ Kind(r) = "child"
             /\ c = [in |-> Spi(p), out |-> Spi(r),
                     key |-> DeriveChildKeys(Sa(p), Ni(p), Nr(r), GroupOf(p, r))]
           Theirs(p, r) ==
             /\ From(p) = "gw" /\ From(r) = "client" /\ Answers(r, p)
             /\ Kind(p) = "child" /\ Kind(r) = "child"
             /\ c = [in |-> Spi(r), out |-> Spi(p),
                     key |-> DeriveChildKeys(Sa(p), Ni(p), Nr(r), Ke(r))]
<1>4. first.out = 2 /\ c.out = Spi(q)
  BY DEF FirstChild
<1>5. c = first \/ (\E p, r \in net : Ours(p, r)) \/ \E p, r \in net : Theirs(p, r)
  BY <1>1 DEF Pedigree
<1> HIDE DEF first, c
<1>6. c # first
  <2>1. Spi(q) # 2
    BY <1>2
  <2> QED BY <1>4, <2>1
<1>7. \A p, r \in net : ~Ours(p, r)
  <2> SUFFICES ASSUME NEW p \in net, NEW r \in net, Ours(p, r) PROVE FALSE
    OBVIOUS
  <2>1. c.out = Spi(r)
    OBVIOUS
  <2>2. r = q
    BY <1>3, <1>4, <2>1
  <2>3. Resp(r)
    BY DEF Answers, Resp
  <2> QED BY <2>2, <2>3 DEF Demand
<1>8. ASSUME NEW p \in net, NEW r \in net, Theirs(p, r)
      PROVE  p = q /\ From(r) = "client" /\ Answers(r, p) /\ Kind(r) = "child"
  <2>1. c.out = Spi(p)
    BY <1>8
  <2> QED BY <1>3, <1>4, <1>8, <2>1
<1> HIDE DEF Ours, Theirs
<1> QED BY <1>5, <1>6, <1>7, <1>8

\* Once the gateway has closed the IKE SA it uses, a client that is up has not heard of it.
LEMMA DoomLasts ==
    ASSUME SessionInv, HoleInv, Up, Doomed(gw), NEW r \in net, From(r) = "client"
    PROVE  ~Answers(r, Req(gw, gw.cur))
<1> DEFINE q == Req(gw, gw.cur)
<1> SUFFICES ASSUME Answers(r, q) PROVE FALSE
  OBVIOUS
<1>1. gw.cur \in DOMAIN gw.win /\ Kind(q) = "delIKE"
  BY DEF Doomed
<1>2. Kind(NoMessage) = "empty"
  BY DEF NoMessage, Message, Kind, Empty
<1>3. q \in net /\ Demand(q) /\ Sa(q) = gw.cur
  BY <1>1, <1>2 DEF SessionInv, Good, GatewaySide, Windows, WindowOf, Sent, Demand
<1> HIDE DEF q
<1>4. Quit(s, net) /\ Turned(net, gw) /\ Moved(net, gw) /\ Read(q, net)
  BY DEF HoleInv, Mended, Read
<1>5. Left(gw.cur, net)
  BY <1>1, <1>3, <1>4 DEF Quit
<1>6. ~Superseded(gw.cur, net)
  BY <1>4 DEF Moved
<1>7. PICK p, a \in net : Demand(p) /\ Kind(p) = "ike" /\ Sa(p) = gw.cur /\ Yields(a, p)
  BY <1>5, <1>6 DEF Left
<1>8. Waiting(gw, p)
  BY <1>4, <1>7 DEF Turned
<1> QED BY <1>1, <1>7, <1>8 DEF Waiting, q

\* The gateway reads an answer: it then holds what the answer granted.
LEMMA ConcludesHole ==
    ASSUME SessionInv, HoleInv, NEW r \in net, GatewayConcludes(r)
    PROVE  HoleInv'
<1> DEFINE q == Req(gw, Sa(r))  h == Conclude(gw, r)
           w == [gw.win EXCEPT ![Sa(r)].req = NoMessage]
           g == [gw EXCEPT !.win[r.sa].req = NoMessage]
           kid == [in |-> Spi(r), out |-> Spi(q), key |-> DeriveChildKeys(Sa(q), Ni(q), Nr(r), Ke(r))]
           new == Derived(q, r)
           X == {}
<1>1. From(r) = "client" /\ CanConclude(gw, r) /\ GatewayStep(h)
  BY DEF GatewayConcludes, From
<1>2. /\ Sa(r) \in DOMAIN gw.win /\ Answers(r, q) /\ q \in net /\ Demand(q) /\ Waiting(gw, q)
      /\ Sa(q) = Sa(r) /\ WindowShape(gw.win[Sa(r)])
      /\ \A p : Sa(p) = Sa(r) /\ Waiting(gw, p) => p = q
      /\ \A m \in net : From(m) = "client" /\ Answers(m, q) => m = r
  BY <1>1, ConcludedRequest DEF WindowOf, Demand, Waiting
<1>3. DOMAIN gw = GatewayFields /\ gw.out = {} /\ Pedigree(s.child, net)
  BY DEF SessionInv, Good, GatewaySide, Windows
<1>4. /\ DOMAIN g = GatewayFields /\ g.win = w /\ g.ever = gw.ever /\ g.cur = gw.cur
      /\ g.kids = gw.kids /\ g.out = {} /\ g.newborn = gw.newborn /\ g.declined = gw.declined
  BY <1>3 DEF GatewayFields, Sa
<1>5. h = CASE Kind(q) = "child" /\ Kind(r) = "child" -> [g EXCEPT !.kids = @ \cup {kid}]
            [] Kind(q) = "ike" /\ Kind(r) = "ike" -> Adopt([g EXCEPT !.stale = @ \cup {r.sa}], new)
            [] Kind(q) = "delIKE" -> [g EXCEPT !.win = Drop(@, r.sa)]
            [] OTHER -> g
  BY <1>2 DEF Conclude, Req, Sa, Kind, Spi, Ni, Nr, Ke, Derived
<1>6. /\ DOMAIN w = DOMAIN gw.win /\ \A x \in DOMAIN gw.win \ {Sa(r)} : w[x] = gw.win[x]
      /\ w[Sa(r)].req = NoMessage
      /\ w[Sa(r)].rx = gw.win[Sa(r)].rx /\ w[Sa(r)].tx = gw.win[Sa(r)].tx
  BY <1>2 DEF WindowShape
<1>7. kid.out = Spi(q) /\ ~Demand(NoMessage) /\ Kind(NoMessage) = "empty"
  BY DEF NoMessage, Message, From, Demand, Kind, Empty
<1>9. \A m \in X : FALSE
  OBVIOUS
<1> HIDE DEF g, h, kid, new, w, X, q
<1>10. News(gw, h, net, X) /\ Grateful(h, X)
  BY <1>9 DEF News, Grateful
\* The gateway goes on under the same IKE SA.
<1>11. ASSUME Up, h.win = w \/ h.win = Drop(w, Sa(r)), h.cur = gw.cur, h.ever = gw.ever,
              gw.kids \subseteq h.kids, h.newborn = gw.newborn, h.declined = gw.declined,
              Kind(q) = "ike" => Kind(r) # "ike",
              Kind(q) = "child" /\ Spi(q) = s.child.out => s.child \in h.kids
       PROVE  Whole(h, net \cup X)
  <2>0. Whole(gw, net) /\ Numbers(net) /\ Closing(gw) /\ Ordered(net, gw)
    BY <1>11, UpWhole
  <2>1. /\ DOMAIN h.win \subseteq DOMAIN gw.win /\ DOMAIN gw.win \ {Sa(r)} \subseteq DOMAIN h.win
        /\ \A x \in DOMAIN h.win \ {Sa(r)} : h.win[x] = gw.win[x]
        /\ Sa(r) \in DOMAIN h.win =>
              /\ h.win[Sa(r)].req = NoMessage
              /\ h.win[Sa(r)].rx = gw.win[Sa(r)].rx /\ h.win[Sa(r)].tx = gw.win[Sa(r)].tx
    BY <1>2, <1>6, <1>11 DEF Drop
  <2>2. Onward(gw, h)
    <3>1. \A x \in DOMAIN h.win : h.win[x].rx = gw.win[x].rx /\ h.win[x].tx = gw.win[x].tx
      BY <2>1
    <3>2. \A x \in DOMAIN gw.win :
            /\ gw.win[x].rx \in Nat /\ gw.win[x].tx \in Nat
            /\ gw.win[x].rx <= gw.win[x].rx /\ gw.win[x].tx <= gw.win[x].tx
      BY <2>0 DEF Ordered
    <3> QED BY <1>11, <2>1, <3>1, <3>2 DEF Onward
  <2>3. /\ \A p : Demand(p) /\ Waiting(h, p) => Waiting(gw, p)
        /\ \A p : Demand(p) /\ Waiting(gw, p) => Waiting(h, p) \/ p = q
    BY <1>2, <1>7, <2>1 DEF Waiting, Req
  <2>4. Doomed(gw) => Doomed(h)
    <3>1. Doomed(gw) => Sa(r) # gw.cur
      BY <1>1, <1>2, <1>11, DoomLasts DEF q
    <3> QED BY <1>11, <2>1, <3>1 DEF Doomed, Req
  <2>5. Absolved(q, net, gw, h)
    <3>1. Read(q, net)
      BY <1>1, <1>2 DEF Read
    <3>2. Kind(q) = "ike" => ~\E a \in net : Yields(a, q)
      BY <1>2, <1>11 DEF Yields
    <3> QED BY <1>11, <3>1, <3>2 DEF Absolved, Unheard
  <2>6. Stays(gw, h, net, X)
    BY <1>9, <1>11, <2>3, <2>4, <2>5 DEF Stays
  <2>7. Spares(gw, h, net, X)
    BY <1>9, <1>11 DEF Spares
  <2>8. Closing(h)
    BY <1>7, <1>11, <2>0, <2>1 DEF Closing, Req
  <2> QED BY <1>10, <2>0, <2>2, <2>6, <2>7, <2>8, WholeStep
<1>12. CASE Kind(q) = "child" /\ Kind(r) = "child"
  <2>1. /\ DOMAIN h = GatewayFields /\ h.win = w /\ h.ever = gw.ever /\ h.cur = gw.cur
        /\ h.kids = gw.kids \cup {kid} /\ h.out = X /\ h.newborn = gw.newborn
        /\ h.declined = gw.declined
    BY <1>4, <1>5, <1>12 DEF GatewayFields, X
  <2>2. Pedigree(kid, net)
    BY <1>1, <1>2, <1>12, PedigreeOfAnswer DEF kid, Demand
  <2>3. Spi(q) = s.child.out => s.child \in h.kids
    BY <1>3, <1>7, <2>1, <2>2, SameChild
  <2>4. Up => Whole(h, net \cup X)
    BY <1>11, <1>12, <2>1, <2>3
  <2> QED BY <1>1, <1>9, <2>1, <2>4, GatewayHole
<1>13. CASE Kind(q) = "ike" /\ Kind(r) = "ike"
  <2>1. Makes(q, r, new)
    BY DEF Makes, new
  <2>2. new \notin gw.ever /\ new \notin DOMAIN gw.win
    BY <1>1, <1>2, <1>13, <2>1, NewSA
  <2>3. /\ DOMAIN h = GatewayFields /\ h.win = With(w, new, Window(0)) /\ h.ever = gw.ever \cup {new}
        /\ h.cur = new /\ h.kids = gw.kids /\ h.out = X /\ h.newborn = gw.newborn
        /\ h.declined = gw.declined
    BY <1>4, <1>5, <1>13 DEF GatewayFields, Adopt, X
  <2>4. /\ DOMAIN h.win = DOMAIN gw.win \cup {new} /\ h.win[new] = Window(0)
        /\ \A x \in DOMAIN gw.win : h.win[x] = w[x]
    BY <1>6, <2>2, <2>3 DEF With
  <2>5. Window(0).req = NoMessage /\ Window(0).rx = 0 /\ Window(0).tx = 0
    BY DEF Window
  <2>6. \A p : Demand(p) => (Waiting(h, p) <=> Waiting(gw, p) /\ p # q)
    <3> SUFFICES ASSUME NEW p, Demand(p) PROVE Waiting(h, p) <=> Waiting(gw, p) /\ p # q
      OBVIOUS
    <3>1. CASE Sa(p) = new
      BY <1>7, <2>2, <2>4, <2>5, <3>1 DEF Waiting, Req
    <3>2. CASE Sa(p) = Sa(r)
      BY <1>2, <1>6, <1>7, <2>4, <3>2 DEF Waiting, Req
    <3>3. CASE Sa(p) # new /\ Sa(p) # Sa(r)
      BY <1>2, <1>6, <2>4, <3>3 DEF Waiting, Req
    <3> QED BY <3>1, <3>2, <3>3
  <2>7. ASSUME Up PROVE Whole(h, net \cup X)
    <3>0. Whole(gw, net) /\ Numbers(net) /\ Closing(gw) /\ Ordered(net, gw) /\ Turned(net, gw)
      BY <2>7, UpWhole DEF Whole
    <3>1. Sa(q) = gw.cur /\ "ike" \in E.kinds
      BY <1>2, <1>13, <3>0 DEF Turned
    <3>2. ~Doomed(gw)
      BY <1>2, <1>13, <3>1 DEF Doomed, q
    <3>3. \A p \in net : Demand(p) /\ Kind(p) = "ike" => ~Waiting(h, p)
      BY <1>2, <2>6, <3>0, <3>1 DEF Turned
    <3>4. \A p \in net : Asks(p) => (Waiting(h, p) <=> Waiting(gw, p))
      BY <1>13, <2>6 DEF Asks
    <3>5. Closing(h)
      BY <2>3, <3>0, <3>1 DEF Closing
    <3>6. Onward(gw, h)
      <4>1. \A x \in DOMAIN gw.win : h.win[x].rx = gw.win[x].rx /\ h.win[x].tx = gw.win[x].tx
        BY <1>6, <2>4
      <4>2. \A x \in DOMAIN gw.win :
              /\ gw.win[x].rx \in Nat /\ gw.win[x].tx \in Nat
              /\ gw.win[x].rx <= gw.win[x].rx /\ gw.win[x].tx <= gw.win[x].tx
        BY <3>0 DEF Ordered
      <4> QED BY <2>2, <2>3, <2>4, <2>5, <4>1, <4>2 DEF Onward
    <3>7. new \in h.ever
      BY <2>3
    <3> QED BY <1>9, <1>10, <2>2, <2>3, <3>0, <3>2, <3>3, <3>4, <3>5, <3>6, <3>7, WholeAdopt
  <2> QED BY <1>1, <1>9, <2>3, <2>7, GatewayHole
<1>14. CASE ~(Kind(q) = "child" /\ Kind(r) = "child") /\ ~(Kind(q) = "ike" /\ Kind(r) = "ike")
  <2>1. /\ DOMAIN h = GatewayFields /\ (h.win = w \/ h.win = Drop(w, Sa(r))) /\ h.ever = gw.ever
        /\ h.cur = gw.cur /\ h.kids = gw.kids /\ h.out = X /\ h.newborn = gw.newborn
        /\ h.declined = gw.declined
    <3>1. CASE Kind(q) = "delIKE"
      BY <1>4, <1>5, <1>14, <3>1 DEF GatewayFields, Sa, X
    <3>2. CASE Kind(q) # "delIKE"
      BY <1>4, <1>5, <1>14, <3>2 DEF X
    <3> QED BY <3>1, <3>2
  <2>2. ~(Kind(q) = "child" /\ Spi(q) = s.child.out)
    BY <1>2, <1>14, GrantedChild
  <2>3. Up => Whole(h, net \cup X)
    BY <1>11, <1>14, <2>1, <2>2
  <2> QED BY <1>1, <1>9, <2>1, <2>3, GatewayHole
<1> QED BY <1>12, <1>13, <1>14

\* The gateway i differs from gw in its Child SAs only.
AsBefore(i) ==
    /\ DOMAIN i = GatewayFields /\ i.win = gw.win /\ i.cur = gw.cur /\ i.ever = gw.ever
    /\ i.out = {} /\ i.newborn = gw.newborn /\ i.declined = gw.declined

\* The IKE SA is the right one for the request.
Proper(sa, body) ==
    /\ body.t \in {"child", "delESP", "ike"} => sa = gw.cur
    /\ body.t = "ike" => "ike" \in E.kinds
    /\ body.t = "delIKE" => sa = gw.cur \/ "ike" \in E.kinds

\* The request says what becomes of the Child SAs that i lacks.
GivesUp(i, sa, body) ==
    \A c \in gw.kids \ i.kids :
        \/ body.t = "delIKE" /\ sa = gw.cur
        \/ body.t = "delESP" /\ body.spi = c.out /\ MayDelete /\ c \notin gw.newborn

\* The gateway sends a request, and gives up only what the request deletes: a Child
\* SA the client is past the making of, or all with the IKE SA.
LEMMA StartHole ==
    ASSUME SessionInv, HoleInv, NEW i, NEW sa \in DOMAIN gw.win, NEW ex, NEW body,
           Req(gw, sa) = NoMessage, GatewayStep(Start(i, sa, ex, body)), AsBefore(i),
           Proper(sa, body), GivesUp(i, sa, body)
    PROVE  HoleInv'
<1> DEFINE q == Message("gw", sa, ex, FALSE, gw.win[sa].tx, body)
           h == Start(i, sa, ex, body)
           w == [gw.win EXCEPT ![sa].tx = @ + 1, ![sa].req = q]
           X == {q}
<1>1. /\ From(q) = "gw" /\ Resp(q) = FALSE /\ Sa(q) = sa /\ Kind(q) = body.t
      /\ Spi(q) = body.spi /\ Id(q) = gw.win[sa].tx
  BY DEF Message, From, Resp, Sa, Kind, Spi, Id
<1>2. WindowShape(gw.win[sa])
  BY DEF SessionInv, Good, GatewaySide, Windows, WindowOf
<1>3. /\ DOMAIN h = GatewayFields /\ h.win = w /\ h.ever = gw.ever /\ h.cur = gw.cur
      /\ h.kids = i.kids /\ h.out = X /\ h.newborn = gw.newborn /\ h.declined = gw.declined
  BY DEF Start, Emit, GatewayFields, AsBefore
<1>4. GatewayStep(h) /\ ~Demand(NoMessage) /\ Kind(NoMessage) = "empty"
  BY DEF NoMessage, Message, From, Demand, Kind, Empty
<1> HIDE DEF q, h
<1>5. /\ DOMAIN w = DOMAIN gw.win /\ \A x \in DOMAIN gw.win \ {sa} : w[x] = gw.win[x]
      /\ w[sa].req = q /\ w[sa].tx = gw.win[sa].tx + 1 /\ w[sa].rx = gw.win[sa].rx
  BY <1>2 DEF WindowShape
<1> HIDE DEF w
<1>6. Demand(q) /\ \A p : ~Answers(q, p)
  BY <1>1 DEF Demand, Answers, Resp
<1>7. ASSUME Up PROVE Whole(h, net \cup X)
  <2>0. Whole(gw, net) /\ Numbers(net) /\ Closing(gw) /\ Ordered(net, gw) /\ sa \in gw.ever
    BY <1>7, UpWhole
  <2>1. Onward(gw, h) /\ News(gw, h, net, X)
    <3>1. \A x \in DOMAIN gw.win : gw.win[x].rx \in Nat /\ gw.win[x].tx \in Nat
      BY <2>0 DEF Ordered
    <3>2. ASSUME NEW x \in DOMAIN gw.win
          PROVE  /\ w[x].rx \in Nat /\ w[x].tx \in Nat
                 /\ gw.win[x].rx <= w[x].rx /\ gw.win[x].tx <= w[x].tx
      <4>1. w[x].rx = gw.win[x].rx /\ (w[x].tx = gw.win[x].tx \/ w[x].tx = gw.win[x].tx + 1)
        BY <1>5
      <4> QED BY <3>1, <4>1
    <3>3. Onward(gw, h)
      BY <1>3, <1>5, <3>2 DEF Onward
    <3>4. Id(q) < w[sa].tx
      BY <1>1, <1>5, <3>1
    <3> QED BY <1>1, <1>3, <2>0, <3>3, <3>4 DEF News
  <2>2. q \notin net /\ ~Read(q, net \cup X)
    <3>1. \A m \in net : Id(m) \in Nat
      BY <2>0 DEF Numbers
    <3>2. q \in X
      OBVIOUS
    <3> HIDE DEF X
    <3> QED BY <1>6, <2>0, <2>1, <3>1, <3>2, OrderedOn
  <2>a. /\ DOMAIN h.win = DOMAIN gw.win /\ Req(h, sa) = q
        /\ \A x \in DOMAIN gw.win \ {sa} : Req(h, x) = Req(gw, x)
    BY <1>3, <1>5 DEF Req
  <2>3. Waiting(h, q) /\ \A p \in net : Demand(p) => (Waiting(h, p) <=> Waiting(gw, p))
    BY <1>1, <1>4, <2>2, <2>a DEF Waiting
  <2>4. Doomed(gw) => Doomed(h)
    BY <1>3, <1>4, <2>a DEF Doomed
  <2>5. Stays(gw, h, net, X)
    <3>1. \A m \in X : m = q
      OBVIOUS
    <3> HIDE DEF X
    <3>2. /\ Resp(q) = FALSE /\ (Kind(q) = "ike" => "ike" \in E.kinds)
          /\ Kind(q) \in {"child", "delESP", "ike"} => Sa(q) = gw.cur
      BY <1>1 DEF Proper
    <3>3. h.cur = gw.cur
      BY <1>3
    <3> QED BY <2>3, <2>4, <3>1, <3>2, <3>3 DEF Stays
  <2>6. Spares(gw, h, net, X)
    <3>1. ASSUME NEW c \in gw.kids \ h.kids
          PROVE  \/ Doomed(h)
                 \/ /\ c = s.child => MayDelete /\ \E m \in X : Unheard(m, s, net \cup X, h)
                    /\ MayDelete /\ c \notin gw.newborn
      <4>1. CASE body.t = "delIKE" /\ sa = gw.cur
        BY <1>1, <1>3, <2>a, <4>1 DEF Doomed
      <4>2. CASE body.t = "delESP" /\ body.spi = c.out /\ MayDelete /\ c \notin gw.newborn
        <5>1. c = s.child => Unheard(q, s, net \cup X, h)
          BY <1>1, <1>6, <2>2, <2>3, <4>2 DEF Unheard
        <5> QED BY <4>2, <5>1
      <4> QED BY <1>3, <3>1, <4>1, <4>2 DEF GivesUp
    <3>2. \A m \in X : ~Grants(m, s.pending.req)
      BY <1>6 DEF Grants
    <3> HIDE DEF X
    <3> QED BY <1>3, <3>1, <3>2 DEF Spares
  <2>7. Grateful(h, X)
    BY <1>6 DEF Grateful
  <2>8. Closing(h)
    <3>1. Kind(q) = "delIKE" => sa = gw.cur \/ "ike" \in E.kinds
      BY <1>1 DEF Proper
    <3> QED BY <1>3, <2>0, <2>a, <3>1 DEF Closing
  <2> HIDE DEF X
  <2> QED BY <2>0, <2>1, <2>5, <2>6, <2>7, <2>8, WholeStep
<1>8. \A m \in X : From(m) = "gw"
  BY <1>1
<1> HIDE DEF X
<1> QED BY <1>3, <1>4, <1>7, <1>8, GatewayHole

\* What the gateway may start.
LEMMA Started ==
    ASSUME NEW g, NEW n, NEW e, NEW h \in Startable(g, n, e)
    PROVE  \/ CanStart(g, "dpd", g.cur, e) /\ h = Start(g, g.cur, "INFO", Empty)
           \/ /\ CanStart(g, "child", g.cur, e)
              /\ \E x, y, z : h = Start(g, g.cur, "CCSA", ChildRequest(n, n, x, y, z))
           \/ /\ CanStart(g, "ike", g.cur, e)
              /\ \E x, y : h = Start(g, g.cur, "CCSA", IKERequest(n, x, y))
           \/ \E sa : CanStart(g, "ike", sa, e) /\ h = Start(g, sa, "INFO", DeleteIKE)
           \/ /\ CanStart(g, "delESP", g.cur, e)
              /\ \E k \in g.kids \ g.newborn :
                    h = Start([g EXCEPT !.kids = @ \ {k}], g.cur, "INFO", DeleteESP(k.out))
           \/ /\ CanStart(g, "delIKE", g.cur, e)
              /\ h = Start([g EXCEPT !.kids = {}], g.cur, "INFO", DeleteIKE)
<1> DEFINE Dpd == IF CanStart(g, "dpd", g.cur, e) THEN {Start(g, g.cur, "INFO", Empty)} ELSE {}
           Child == IF CanStart(g, "child", g.cur, e)
                    THEN {Start(g, g.cur, "CCSA", ChildRequest(n, n, old, o.ke, o.offer)) :
                             old \in {k.in : k \in g.kids} \cup {0}, o \in KEOffers(e.groups, e)}
                    ELSE {}
           DelESP == IF CanStart(g, "delESP", g.cur, e)
                     THEN {Start([g EXCEPT !.kids = @ \ {k}], g.cur, "INFO", DeleteESP(k.out)) :
                              k \in g.kids \ g.newborn}
                     ELSE {}
           IKE == IF CanStart(g, "ike", g.cur, e)
                  THEN {Start(g, g.cur, "CCSA", IKERequest(n, o.ke, o.offer)) :
                           o \in KEOffers({g.cur.dh} \cup (e.groups \ {0}), e)}
                  ELSE {}
           Stale == {Start(g, sa, "INFO", DeleteIKE) : sa \in {x \in g.stale : CanStart(g, "ike", x, e)}}
           DelIKE == IF CanStart(g, "delIKE", g.cur, e)
                     THEN {Start([g EXCEPT !.kids = {}], g.cur, "INFO", DeleteIKE)} ELSE {}
<1>1. Startable(g, n, e) = Dpd \cup Child \cup DelESP \cup IKE \cup Stale \cup DelIKE
  BY SMT DEF Startable
<1> HIDE DEF Dpd, Child, DelESP, IKE, Stale, DelIKE
<1>2. CASE h \in Dpd
  BY <1>2 DEF Dpd
<1>3. CASE h \in Child
  BY <1>3, SMT DEF Child
<1>4. CASE h \in DelESP
  BY <1>4 DEF DelESP
<1>5. CASE h \in IKE
  BY <1>5 DEF IKE
<1>6. CASE h \in Stale
  BY <1>6 DEF Stale
<1>7. CASE h \in DelIKE
  BY <1>7 DEF DelIKE
<1> QED BY <1>1, <1>2, <1>3, <1>4, <1>5, <1>6, <1>7

\* The gateway starts a request.
LEMMA StartsHole ==
    ASSUME SessionInv, HoleInv, GatewayStarts
    PROVE  HoleInv'
<1> DEFINE n == fresh + 1
<1>0. DOMAIN gw = GatewayFields /\ gw.out = {}
  BY DEF SessionInv, Good, GatewaySide, Windows
<1>1. PICK h \in Startable(gw, n, E) : GatewayStep(h)
  BY DEF GatewayStarts
<1>2. \A kind, sa : CanStart(gw, kind, sa, E) =>
        kind \in E.kinds /\ sa \in DOMAIN gw.win /\ Req(gw, sa) = NoMessage
  BY DEF CanStart, Held, Req
<1>a. AsBefore(gw) /\ \A sa, body : GivesUp(gw, sa, body)
  BY <1>0 DEF AsBefore, GivesUp
<1>3. CASE CanStart(gw, "dpd", gw.cur, E) /\ h = Start(gw, gw.cur, "INFO", Empty)
  <2>1. Empty.t = "empty"
    BY DEF Empty
  <2>2. Proper(gw.cur, Empty)
    BY <2>1 DEF Proper
  <2> QED BY <1>1, <1>2, <1>3, <1>a, <2>2, StartHole
<1>4. CASE /\ CanStart(gw, "child", gw.cur, E)
           /\ \E body : h = Start(gw, gw.cur, "CCSA", body) /\ body.t = "child"
  <2>1. \A body : body.t = "child" => Proper(gw.cur, body)
    BY DEF Proper
  <2> QED BY <1>1, <1>2, <1>4, <1>a, <2>1, StartHole
<1>5. CASE /\ CanStart(gw, "ike", gw.cur, E)
           /\ \E body : h = Start(gw, gw.cur, "CCSA", body) /\ body.t = "ike"
  <2>1. \A body : body.t = "ike" => Proper(gw.cur, body)
    BY <1>2, <1>5 DEF Proper
  <2> QED BY <1>1, <1>2, <1>5, <1>a, <2>1, StartHole
<1>6. CASE \E sa : CanStart(gw, "ike", sa, E) /\ h = Start(gw, sa, "INFO", DeleteIKE)
  <2>1. DeleteIKE.t = "delIKE"
    BY DEF DeleteIKE
  <2>2. \A sa : Proper(sa, DeleteIKE)
    BY <1>2, <1>6, <2>1 DEF Proper
  <2> QED BY <1>1, <1>2, <1>6, <1>a, <2>2, StartHole
<1>7. CASE /\ CanStart(gw, "delESP", gw.cur, E)
           /\ \E k \in gw.kids \ gw.newborn :
                 h = Start([gw EXCEPT !.kids = @ \ {k}], gw.cur, "INFO", DeleteESP(k.out))
  <2>1. PICK k \in gw.kids \ gw.newborn :
               h = Start([gw EXCEPT !.kids = @ \ {k}], gw.cur, "INFO", DeleteESP(k.out))
    BY <1>7
  <2> DEFINE i == [gw EXCEPT !.kids = @ \ {k}]
             body == DeleteESP(k.out)
  <2>2. /\ DOMAIN i = GatewayFields /\ i.win = gw.win /\ i.cur = gw.cur /\ i.ever = gw.ever
        /\ i.out = {} /\ i.newborn = gw.newborn /\ i.declined = gw.declined
        /\ i.kids = gw.kids \ {k} /\ body.t = "delESP" /\ body.spi = k.out
    BY <1>0 DEF GatewayFields, DeleteESP
  <2>3. h = Start(i, gw.cur, "INFO", body) /\ MayDelete /\ k \notin gw.newborn
    BY <1>2, <1>7, <2>1 DEF MayDelete
  <2> HIDE DEF i, body
  <2>4. \A c \in gw.kids \ i.kids : c = k
    BY <2>2
  <2>5. AsBefore(i) /\ Proper(gw.cur, body)
    BY <2>2 DEF AsBefore, Proper
  <2>6. GivesUp(i, gw.cur, body)
    BY <2>2, <2>3, <2>4 DEF GivesUp
  <2> QED BY <1>1, <1>2, <1>7, <2>3, <2>5, <2>6, StartHole
<1>8. CASE /\ CanStart(gw, "delIKE", gw.cur, E)
           /\ h = Start([gw EXCEPT !.kids = {}], gw.cur, "INFO", DeleteIKE)
  <2> DEFINE i == [gw EXCEPT !.kids = {}]
  <2>1. /\ DOMAIN i = GatewayFields /\ i.win = gw.win /\ i.cur = gw.cur /\ i.ever = gw.ever
        /\ i.out = {} /\ i.newborn = gw.newborn /\ i.declined = gw.declined
    BY <1>0 DEF GatewayFields
  <2>2. DeleteIKE.t = "delIKE"
    BY DEF DeleteIKE
  <2>3. h = Start(i, gw.cur, "INFO", DeleteIKE)
    BY <1>8
  <2> HIDE DEF i
  <2>4. AsBefore(i) /\ Proper(gw.cur, DeleteIKE) /\ GivesUp(i, gw.cur, DeleteIKE)
    BY <2>1, <2>2 DEF AsBefore, Proper, GivesUp
  <2> QED BY <1>1, <1>2, <1>8, <2>3, <2>4, StartHole
<1>9. /\ \A x, y, z, u, v : ChildRequest(x, y, z, u, v).t = "child"
      /\ \A x, y, z : IKERequest(x, y, z).t = "ike"
  BY DEF ChildRequest, IKERequest
<1>10. \/ CanStart(gw, "dpd", gw.cur, E) /\ h = Start(gw, gw.cur, "INFO", Empty)
       \/ /\ CanStart(gw, "child", gw.cur, E)
          /\ \E x, y, z : h = Start(gw, gw.cur, "CCSA", ChildRequest(n, n, x, y, z))
       \/ /\ CanStart(gw, "ike", gw.cur, E)
          /\ \E x, y : h = Start(gw, gw.cur, "CCSA", IKERequest(n, x, y))
       \/ \E sa : CanStart(gw, "ike", sa, E) /\ h = Start(gw, sa, "INFO", DeleteIKE)
       \/ /\ CanStart(gw, "delESP", gw.cur, E)
          /\ \E k \in gw.kids \ gw.newborn :
                h = Start([gw EXCEPT !.kids = @ \ {k}], gw.cur, "INFO", DeleteESP(k.out))
       \/ /\ CanStart(gw, "delIKE", gw.cur, E)
          /\ h = Start([gw EXCEPT !.kids = {}], gw.cur, "INFO", DeleteIKE)
  BY <1>1, Started
<1> QED BY <1>3, <1>4, <1>5, <1>6, <1>7, <1>8, <1>9, <1>10

\* The gateway stops.
LEMMA VanishHole ==
    ASSUME SessionInv, HoleInv, GatewayVanishes
    PROVE  HoleInv'
<1> DEFINE h == [gw EXCEPT !.alive = FALSE]
<1>0. DOMAIN gw = GatewayFields /\ gw.out = {}
  BY DEF SessionInv, Good, GatewaySide, Windows
<1>1. /\ DOMAIN h = GatewayFields /\ h.win = gw.win /\ h.ever = gw.ever /\ h.cur = gw.cur
      /\ h.kids = gw.kids /\ h.out = {} /\ h.newborn = gw.newborn /\ h.declined = gw.declined
  BY <1>0 DEF GatewayFields
<1>2. GatewayStep(h)
  BY DEF GatewayVanishes
<1> HIDE DEF h
<1>3. (\A q : Waiting(h, q) <=> Waiting(gw, q)) /\ (Doomed(h) <=> Doomed(gw))
  BY <1>1 DEF Waiting, Req, Doomed
<1>4. ASSUME Up PROVE Whole(h, net \cup h.out)
  <2>1. Whole(gw, net) /\ net \cup h.out = net
    BY <1>1, <1>4, UpWhole
  <2>2. Promised(s, net, h) /\ Backed(s, net, h)
    BY <1>1, <1>3, <2>1 DEF Whole, Promised, Backed, Unheard
  <2>3. Turned(net, h) /\ Ordered(net, h) /\ Moved(net, h)
    BY <1>1, <1>3, <2>1 DEF Whole, Turned, Ordered, Moved
  <2>4. Apt(s, net, h) /\ Closing(h)
    BY <1>1, <1>3, <2>1 DEF Whole, Apt, InTurn, Welcome, Closing, Req
  <2> QED BY <2>1, <2>2, <2>3, <2>4 DEF Whole
<1> QED BY <1>1, <1>2, <1>4, GatewayHole

-----------------------------------------------------------------------------
\* The invariant holds at the start.
LEMMA InitHole ==
    ASSUME Init
    PROVE  HoleInv
<1>1. /\ s.pending = NoExchange /\ s.oldIKEDelete = NoExchange /\ s.oldIKE = NoIKE
      /\ s.child = FirstChild(InitialGroup) /\ gw.kids = {FirstChild(InitialGroup)}
      /\ net = {} /\ fresh = 2 /\ gw.declined = 0
      /\ gw.win = [sa \in {FirstIKE(InitialGroup)} |-> Window(2)]
  BY DEF Init, InitialSession, InitialGateway
<1>2. /\ NoExchange.kind = "none" /\ NoExchange.reest = FALSE /\ FirstChild(InitialGroup).in = 1
      /\ Window(2).rx = 2 /\ Window(2).tx = 0 /\ Kind(Window(2).req) = "empty"
  BY DEF NoExchange, FirstChild, Window, NoMessage, Message, Kind, Empty
<1>3. Asked(s, net) = {}
  BY <1>1, <1>2 DEF Asked, Kept
<1>4. Spared(s, net, fresh)
  BY <1>1, <1>2, <1>3 DEF Spared
<1>5. Promised(s, net, gw) /\ Parted(s, net) /\ Backed(s, net, gw) /\ Moved(net, gw)
  BY <1>1, <1>2, <1>3 DEF Promised, Parted, Backed, Moved, Superseded
<1>6. Quit(s, net) /\ Turned(net, gw)
  BY <1>1 DEF Quit, HasOld, Turned
<1>7. Ordered(net, gw) /\ Closing(gw)
  BY <1>1, <1>2 DEF Ordered, Closing, Req
<1>8. Apt(s, net, gw)
  BY <1>1, <1>2, <1>3 DEF Apt, InTurn, Welcome
<1> QED BY <1>4, <1>5, <1>6, <1>7, <1>8 DEF HoleInv, Mended

\* Every step keeps it.
LEMMA NextHole ==
    ASSUME SessionInv, HoleInv, HonoursRecovery, [Next]_vars
    PROVE  HoleInv'
<1>1. CASE \E m \in net, in \in Inputs : Inbound(m, in)
  <2>1. PICK m \in net, in \in Inputs : Inbound(m, in)
    BY <1>1
  <2>2. in.n = fresh + 1 /\ in.spi \in {fresh + 1, s.child.in}
    BY DEF Inputs
  <2>3. Up /\ From(m) = "gw" /\ CanDecode(s, m) /\ ClientStep(handleInbound(s, m, in))
    BY <2>1 DEF Inbound, From
  <2>4. Reaches(handleInbound(s, m, in), fresh) /\ Solid(handleInbound(s, m, in), fresh)
    BY <2>2, <2>3, ReachesInbound, SolidInbound
  <2> QED BY <2>3, <2>4, ClientStepHole
<1>2. CASE \E due \in SUBSET Relevant, in \in Inputs : Tick(due, in)
  <2>1. PICK due \in SUBSET Relevant, in \in Inputs : Tick(due, in)
    BY <1>2
  <2>2. in.n = fresh + 1 /\ in.spi \in {fresh + 1, s.child.in}
    BY DEF Inputs
  <2>3. Up /\ ClientStep(housekeeping(s, due, in)) /\ Holds(s, fresh) /\ Wire(s) = net
    BY <2>1, StepHolds DEF Tick
  <2>4. Sound(s, fresh) /\ s.status = "up"
    BY <2>3 DEF HoleInv, Sound, Up
  <2>5. Reaches(housekeeping(s, due, in), fresh) /\ Solid(housekeeping(s, due, in), fresh)
    BY <2>2, <2>3, <2>4, ReachesTick, SolidTick
  <2> QED BY <2>3, <2>5, ClientStepHole
<1>3. CASE UNCHANGED vars
  <2>1. s' = s /\ net' = net /\ gw' = gw /\ fresh' = fresh /\ env' = env
    BY <1>3 DEF vars
  <2>2. s'.status = "up" => Mended(s', net', gw', fresh') /\ Moved(net', gw') /\ Closing(gw')
    BY <2>1 DEF HoleInv, Up
  <2> QED BY <2>1, <2>2, SameEnvironment
<1>4. CASE Shutdown
  BY <1>4, ShutdownFields DEF HoleInv, Up
<1> QED BY <1>1, <1>2, <1>3, <1>4, ReceivesHole, ConcludesHole, StartsHole, VanishHole DEF Next

\* What the invariant says of the Child SA in use.
LEMMA HoleCloses ==
    ASSUME SessionInv, HoleInv
    PROVE  NoBlackHole
<1> SUFFICES ASSUME Up, s.ike = gw.cur, s.child \notin gw.kids PROVE RecoveryUnderWay
  BY DEF NoBlackHole
<1>1. Backed(s, net, gw)
  BY DEF HoleInv, Mended
<1>2. /\ ~Demand(NoMessage) /\ Kind(NoMessage) = "empty"
  BY DEF NoMessage, Message, From, Demand, Kind, Empty
<1>3. \A q : Demand(q) /\ Waiting(gw, q) => q \in Outstanding(gw)
  BY <1>2 DEF Outstanding, Held, Waiting, Req
<1>4. CASE Doomed(gw)
  <2> DEFINE q == Req(gw, gw.cur)
  <2>1. gw.cur \in DOMAIN gw.win /\ Kind(q) = "delIKE"
    BY <1>4 DEF Doomed
  <2>2. q \in net /\ Demand(q) /\ Sa(q) = gw.cur
    BY <1>2, <2>1 DEF SessionInv, Good, GatewaySide, Windows, WindowOf, Sent, Demand
  <2>3. q \in Outstanding(gw)
    BY <1>3, <2>1, <2>2 DEF Waiting
  <2> HIDE DEF q
  <2> QED BY <2>1, <2>2, <2>3 DEF RecoveryUnderWay, Kind, Sa
<1>5. CASE \E q \in net : Demand(q) /\ Kind(q) = "child" /\ Spi(q) = s.child.out /\ Waiting(gw, q)
  BY <1>3, <1>5 DEF RecoveryUnderWay, Kind, Spi
<1>6. CASE Heals(s)
  BY <1>6 DEF RecoveryUnderWay, Heals
<1>7. CASE \E q \in net : Unheard(q, s, net, gw)
  BY <1>3, <1>7 DEF RecoveryUnderWay, Unheard, Kind, Spi
<1> QED BY <1>1, <1>4, <1>5, <1>6, <1>7 DEF Backed

\* No step leaves the data plane dead, whatever is rekeyed or deleted by whichever
\* end, declined, lost, repeated, reordered or answered late, and whatever fails
\* locally: the Child SA the driver sends on is one the gateway holds with the same
\* keys, or will hold once it reads an answer that is on its way, or its end has not
\* been heard of yet, or its successor is being asked for (handleInboundChildDelete,
\* housekeeping, completeChildRekey, handleChildRekeyRequest, sendChildDelete,
\* completeIKERekey, swapIKE).  A gateway that deletes Child SAs of its own accord is
\* taken not to turn down the client that makes up for one: where it does, a
\* re-establishment is given up on while the Child SA is gone.
THEOREM NoBlackHoleHolds == Spec => [](HonoursRecovery => NoBlackHole)
<1>1. Init => (HonoursRecovery => HoleInv)
  BY InitHole
<1>2. SessionInv /\ (HonoursRecovery => HoleInv) /\ [Next]_vars => (HonoursRecovery => HoleInv)'
  <2> SUFFICES ASSUME SessionInv, HonoursRecovery => HoleInv, [Next]_vars, HonoursRecovery'
               PROVE  HoleInv'
    OBVIOUS
  <2>1. env' = env
    BY DEF Next, vars, Inbound, Tick, Shutdown, GatewayReceives, GatewayConcludes, GatewayStarts,
           GatewayVanishes, ClientStep, GatewayStep
  <2>2. HonoursRecovery
    BY <2>1 DEF HonoursRecovery, E
  <2> QED BY <2>2, NextHole
<1>3. SessionInv /\ (HonoursRecovery => HoleInv) => (HonoursRecovery => NoBlackHole)
  BY HoleCloses
<1> QED BY <1>1, <1>2, <1>3, SessionCorrect, PTL DEF Spec
=============================================================================
