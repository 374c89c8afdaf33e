------------------------- MODULE DriverClockProofs -------------------------
(***************************************************************************)
(* A silent gateway is declared dead in time, for every number of tries    *)
(* and all delays and intervals.                                           *)
(***************************************************************************)
EXTENDS DriverClock, WellFoundedInduction, TLAPS

USE ZenonT(2), SMTT(30), ZenonT(20)

-----------------------------------------------------------------------------
(* Induction and recursion over the natural numbers.                       *)

\* A set of numbers has a least one.
LEMMA LeastNat ==
    ASSUME NEW T, T \subseteq Nat, T # {}
    PROVE  \E m \in T : \A n \in T : m <= n
<1> DEFINE R == {p \in Nat \X Nat : p[1] < p[2]}
<1>1. IsWellFoundedOn(R, Nat)
  BY NatLessThanWellFounded DEF OpToRel
<1>2. PICK x \in T : \A y \in T : ~(<<y, x>> \in R)
  <2> HIDE DEF R
  <2> QED BY <1>1, WFMin
<1>3. \A y \in T : ~(y < x)
  BY <1>2
<1> QED BY <1>3

\* A set that holds 0, and the successor of each number it holds, holds all.
LEMMA Induction ==
    ASSUME NEW T, 0 \in T, \A n \in Nat : n \in T => n + 1 \in T
    PROVE  Nat \subseteq T
<1> SUFFICES ASSUME Nat \ T # {} PROVE FALSE
  OBVIOUS
<1>1. PICK m \in Nat \ T : \A n \in Nat \ T : m <= n
  BY LeastNat
<1>2. m - 1 \in Nat /\ m - 1 \notin T
  BY <1>1
<1> QED BY <1>1, <1>2

\* There is a function that starts with b and goes on by step.
Begun(g, n, S, b, step) ==
    /\ g \in [0..n -> S] /\ g[0] = b
    /\ \A i \in 0..n : i < n => g[i + 1] = step[i][g[i]]

Follows(f, S, b, step) ==
    f \in [Nat -> S] /\ f[0] = b /\ \A n \in Nat : f[n + 1] = step[n][f[n]]

\* A function on the naturals given by a start and a step exists and obeys them.
LEMMA Recursion ==
    ASSUME NEW S, NEW b, b \in S, NEW step, step \in [Nat -> [S -> S]]
    PROVE  \E f : Follows(f, S, b, step)
<1> DEFINE P(g, n) == Begun(g, n, S, b, step)
           Known == {n \in Nat : \E g : P(g, n)}
<1>1. 0 \in Known
  <2> DEFINE g == [i \in 0..0 |-> b]
  <2>1. P(g, 0)
    BY DEF Begun
  <2> QED BY <2>1
<1>2. ASSUME NEW n \in Nat, n \in Known PROVE n + 1 \in Known
  <2>1. PICK g : P(g, n)
    BY <1>2
  <2> DEFINE h == [i \in 0..n + 1 |-> IF i = n + 1 THEN step[n][g[n]] ELSE g[i]]
  <2>2. g[n] \in S /\ step[n][g[n]] \in S
    BY <2>1 DEF Begun
  <2>3. g \in [0..n -> S] /\ g[0] = b /\ \A i \in 0..n : i < n => g[i + 1] = step[i][g[i]]
    BY <2>1 DEF Begun
  <2>4. h \in [0..n + 1 -> S]
    BY <2>2, <2>3
  <2>5. h[n + 1] = step[n][g[n]] /\ \A i \in 0..n : h[i] = g[i]
    OBVIOUS
  <2> HIDE DEF h
  <2>6. ASSUME NEW i \in 0..n + 1, i < n + 1 PROVE h[i + 1] = step[i][h[i]]
    <3>1. CASE i = n
      BY <2>5, <3>1
    <3>2. CASE i # n
      <4>1. i \in 0..n /\ i + 1 \in 0..n /\ i < n
        BY <2>6, <3>2
      <4> QED BY <2>3, <2>5, <4>1
    <3> QED BY <3>1, <3>2
  <2>7. h[0] = b
    BY <2>3, <2>5, 0 \in 0..n
  <2>8. P(h, n + 1)
    BY <2>4, <2>6, <2>7 DEF Begun
  <2> QED BY <2>8
<1>3. Nat \subseteq Known
  <2> HIDE DEF Known
  <2> QED BY <1>1, <1>2, Induction
<1>4. ASSUME NEW m \in Nat, NEW g, NEW h, P(g, m), P(h, m + 1)
      PROVE  g[m] = h[m]
  <2> DEFINE Same == {i \in Nat : i <= m => g[i] = h[i]}
  <2>1. 0 \in Same
    BY <1>4 DEF Begun
  <2>2. ASSUME NEW i \in Nat, i \in Same PROVE i + 1 \in Same
    <3> SUFFICES ASSUME i + 1 <= m PROVE g[i + 1] = h[i + 1]
      OBVIOUS
    <3>1. g[i] = h[i] /\ i \in 0..m /\ i < m /\ i \in 0..m + 1 /\ i < m + 1
      BY <2>2
    <3>2. g[i + 1] = step[i][g[i]] /\ h[i + 1] = step[i][h[i]]
      BY <1>4, <3>1 DEF Begun
    <3> QED BY <3>1, <3>2
  <2>3. Nat \subseteq Same
    <3> HIDE DEF Same
    <3> QED BY <2>1, <2>2, Induction
  <2> QED BY <2>3
<1> DEFINE G == [n \in Nat |-> CHOOSE g : P(g, n)]
           f == [n \in Nat |-> G[n][n]]
<1>5. \A n \in Nat : P(G[n], n)
  BY <1>3
<1> HIDE DEF G
<1>6. f \in [Nat -> S] /\ f[0] = b
  BY <1>5 DEF Begun
<1>7. ASSUME NEW n \in Nat PROVE f[n + 1] = step[n][f[n]]
  <2>1. P(G[n], n) /\ P(G[n + 1], n + 1)
    BY <1>5
  <2>2. G[n][n] = G[n + 1][n]
    BY <1>4, <2>1
  <2>3. G[n + 1][n + 1] = step[n][G[n + 1][n]]
    BY <2>1 DEF Begun
  <2> QED BY <2>2, <2>3
<1> QED BY <1>6, <1>7 DEF Follows

-----------------------------------------------------------------------------
(* The delays.                                                             *)
LEMMA PowerDef ==
    /\ Power \in [Nat -> Nat] /\ Power[0] = 1
    /\ \A n \in Nat : Power[n + 1] = 2 * Power[n]
<1>1. PICK step : step = [n \in Nat |-> [v \in Nat |-> 2 * v]]
  OBVIOUS
<1>2. step \in [Nat -> [Nat -> Nat]] /\ 1 \in Nat
  BY <1>1
<1>3. PICK f : Follows(f, Nat, 1, step)
  BY <1>2, Recursion
<1>4. /\ f \in [Nat -> Nat] /\ f[0] = 1
      /\ \A n \in Nat : f[n + 1] = 2 * f[n]
  BY <1>1, <1>3 DEF Follows
<1>5. \A n \in Nat : n # 0 => f[n] = 2 * f[n - 1]
  BY <1>4, \A n \in Nat : n # 0 => n - 1 \in Nat /\ (n - 1) + 1 = n
<1>6. f = [n \in Nat |-> IF n = 0 THEN 1 ELSE 2 * f[n - 1]]
  BY <1>4, <1>5
<1>7. Power = [n \in Nat |-> IF n = 0 THEN 1 ELSE 2 * Power[n - 1]]
  BY <1>6 DEF Power
<1>8. Power[0] = 1
  BY <1>7
<1>9. \A n \in Nat : Power[n + 1] = 2 * Power[n]
  BY <1>7
<1>10. \A n \in Nat : Power[n] \in Nat
  <2> DEFINE Typed == {n \in Nat : Power[n] \in Nat}
  <2>1. 0 \in Typed
    BY <1>8
  <2>2. \A n \in Nat : n \in Typed => n + 1 \in Typed
    BY <1>9
  <2>3. Nat \subseteq Typed
    <3> HIDE DEF Typed
    <3> QED BY <2>1, <2>2, Induction
  <2> QED BY <2>3
<1> QED BY <1>7, <1>8, <1>9, <1>10

\* retransBackoff obeys its definition and is a number of ticks.
LEMMA BackoffDef ==
    /\ retransBackoff \in [Nat -> Nat] /\ retransBackoff[1] = Base
    /\ \A a \in Nat \ {0} : retransBackoff[a + 1] =
          IF 2 * retransBackoff[a] >= MaxDelay THEN MaxDelay ELSE 2 * retransBackoff[a]
<1> DEFINE Longer(v) == IF 2 * v >= MaxDelay THEN MaxDelay ELSE 2 * v
<1>0. Base \in Nat /\ MaxDelay \in Nat
  BY ClockAssumption
<1>1. PICK step : step = [n \in Nat |-> [v \in Nat |-> IF n = 0 THEN Base ELSE Longer(v)]]
  OBVIOUS
<1>2. step \in [Nat -> [Nat -> Nat]]
  BY <1>0, <1>1
<1>3. PICK f : Follows(f, Nat, Base, step)
  BY <1>0, <1>2, Recursion
<1>4. /\ f \in [Nat -> Nat] /\ f[0] = Base
      /\ \A n \in Nat : f[n + 1] = IF n = 0 THEN Base ELSE Longer(f[n])
  BY <1>1, <1>3 DEF Follows
<1>5. \A n \in Nat : n # 0 => f[n] = IF n - 1 = 0 THEN Base ELSE Longer(f[n - 1])
  BY <1>4, \A n \in Nat : n # 0 => n - 1 \in Nat /\ (n - 1) + 1 = n
<1>6. \A n \in Nat : f[n] = IF n <= 1 THEN Base ELSE Longer(f[n - 1])
  BY <1>4, <1>5
<1>7. f = [n \in Nat |-> IF n <= 1 THEN Base ELSE Longer(f[n - 1])]
  BY <1>4, <1>6
<1>8. retransBackoff = [n \in Nat |-> IF n <= 1 THEN Base ELSE Longer(retransBackoff[n - 1])]
  BY <1>7 DEF retransBackoff
<1>9. retransBackoff[0] = Base /\ retransBackoff[1] = Base
  BY <1>8
<1>10. \A n \in Nat \ {0} : retransBackoff[n + 1] = Longer(retransBackoff[n])
  BY <1>8
<1>11. \A n \in Nat : retransBackoff[n] \in Nat
  <2> DEFINE Typed == {n \in Nat : retransBackoff[n] \in Nat}
  <2>1. 0 \in Typed
    BY <1>0, <1>9
  <2>2. ASSUME NEW n \in Nat, n \in Typed PROVE n + 1 \in Typed
    <3>1. CASE n = 0
      BY <1>0, <1>9, <3>1
    <3>2. CASE n # 0
      BY <1>0, <1>10, <2>2, <3>2
    <3> QED BY <3>1, <3>2
  <2>3. Nat \subseteq Typed
    <3> HIDE DEF Typed
    <3> QED BY <2>1, <2>2, Induction
  <2> QED BY <2>3
<1> QED BY <1>8, <1>9, <1>10, <1>11

\* The loop of retransBackoff computes Base times a power of two, up to MaxDelay.
THEOREM BackoffExact == \A a \in Nat \ {0} : retransBackoff[a] = Delay(a) /\ Delay(a) \in Nat
<1>0. Base \in Nat \ {0} /\ MaxDelay \in Nat \ {0}
  BY ClockAssumption
<1> DEFINE B(n) == Base * Power[n]
<1>1. \A n \in Nat : B(n) \in Nat /\ B(n + 1) = 2 * B(n)
  BY <1>0, PowerDef
<1>2. B(0) = Base
  BY <1>0, PowerDef
<1> DEFINE Right == {n \in Nat : retransBackoff[n + 1] = Delay(n + 1) /\ Delay(n + 1) \in Nat}
<1>3. \A n \in Nat : n # 0 => Delay(n + 1) = IF B(n) < MaxDelay THEN B(n) ELSE MaxDelay
  BY DEF Delay
<1>4. Delay(1) = Base
  BY DEF Delay
<1> HIDE DEF B
<1>5. 0 \in Right
  BY <1>0, <1>4, BackoffDef
<1>6. ASSUME NEW n \in Nat, n \in Right PROVE n + 1 \in Right
  <2>1. /\ retransBackoff[n + 1] = Delay(n + 1) /\ Delay(n + 1) \in Nat
        /\ retransBackoff[(n + 1) + 1] =
              IF 2 * Delay(n + 1) >= MaxDelay THEN MaxDelay ELSE 2 * Delay(n + 1)
    BY <1>6, BackoffDef
  <2>2. Delay((n + 1) + 1) = IF B(n + 1) < MaxDelay THEN B(n + 1) ELSE MaxDelay
    BY <1>3
  <2>3. B(n) \in Nat /\ B(n + 1) = 2 * B(n)
    BY <1>1
  <2>4. Delay(n + 1) = B(n) \/ (n # 0 /\ Delay(n + 1) = MaxDelay /\ B(n) >= MaxDelay)
    BY <1>2, <1>3, <1>4, <1>0, <2>3
  <2> QED BY <1>0, <2>1, <2>2, <2>3, <2>4
<1>7. Nat \subseteq Right
  <2> HIDE DEF Right
  <2> QED BY <1>5, <1>6, Induction
<1> SUFFICES ASSUME NEW a \in Nat \ {0} PROVE retransBackoff[a] = Delay(a) /\ Delay(a) \in Nat
  OBVIOUS
<1>8. a - 1 \in Right /\ (a - 1) + 1 = a
  BY <1>7
<1> QED BY <1>8

\* Rest obeys its definition and is a number of ticks.
LEMMA RestDef ==
    /\ Rest \in [Nat -> Nat] /\ Rest[0] = 0
    /\ \A n \in Nat : Rest[n + 1] = Rest[n] + Delay(Tries - n) + 1
<1>0. \A a \in Int : Delay(a) \in Nat
  <2>1. \A a \in Int : a <= 1 => Delay(a) \in Nat
    BY ClockAssumption DEF Delay
  <2> QED BY <2>1, BackoffExact
<1> HIDE DEF Delay
<1>1. Tries \in Nat
  BY TriesAssumption
<1>2. PICK step : step = [n \in Nat |-> [v \in Nat |-> v + Delay(Tries - n) + 1]]
  OBVIOUS
<1>3. step \in [Nat -> [Nat -> Nat]] /\ 0 \in Nat
  <2>1. \A n \in Nat : Delay(Tries - n) \in Nat
    BY <1>0, <1>1
  <2> QED BY <1>2, <2>1
<1>4. PICK f : Follows(f, Nat, 0, step)
  BY <1>3, Recursion
<1>5. /\ f \in [Nat -> Nat] /\ f[0] = 0
      /\ \A n \in Nat : f[n + 1] = f[n] + Delay(Tries - n) + 1
  BY <1>2, <1>4 DEF Follows
<1>6. \A n \in Nat : n # 0 => f[n] = f[n - 1] + Delay(Tries + 1 - n) + 1
  <2>1. \A n \in Nat : n # 0 => n - 1 \in Nat /\ (n - 1) + 1 = n /\ Tries - (n - 1) = Tries + 1 - n
    BY <1>1
  <2> QED BY <1>5, <2>1
<1>7. f = [n \in Nat |-> IF n = 0 THEN 0 ELSE f[n - 1] + Delay(Tries + 1 - n) + 1]
  BY <1>5, <1>6
<1>8. Rest = [n \in Nat |-> IF n = 0 THEN 0 ELSE Rest[n - 1] + Delay(Tries + 1 - n) + 1]
  BY <1>7 DEF Rest
<1>9. Rest[0] = 0
  BY <1>8
<1>10. \A n \in Nat : Rest[n + 1] = Rest[n] + Delay(Tries - n) + 1
  <2>1. \A n \in Nat : n + 1 \in Nat /\ n + 1 # 0 /\ (n + 1) - 1 = n /\ Tries + 1 - (n + 1) = Tries - n
    BY <1>1
  <2> QED BY <1>8, <2>1
<1>11. \A n \in Nat : Rest[n] \in Nat
  <2> DEFINE Typed == {n \in Nat : Rest[n] \in Nat}
  <2>1. 0 \in Typed
    BY <1>9
  <2>2. \A n \in Nat : n \in Typed => n + 1 \in Typed
    BY <1>0, <1>1, <1>10
  <2>3. Nat \subseteq Typed
    <3> HIDE DEF Typed
    <3> QED BY <2>1, <2>2, Induction
  <2> QED BY <2>3
<1> QED BY <1>8, <1>9, <1>10, <1>11

-----------------------------------------------------------------------------
(* The invariant.                                                          *)
SessionFields ==
    {"ike", "messageID", "ikeDHGroup", "pending", "peer", "oldIKE", "oldPeer", "oldIKEDelete",
     "child", "childPFS", "childPFSGroup", "childReestablish", "throttled", "fastDPDDue",
     "status", "out"}
ExchangeFields ==
    {"kind", "req", "attempts", "fast", "reest", "newIn", "oldIn", "ni", "dh"}

\* What a tick needs to know of a session t.
Shaped(t) ==
    /\ DOMAIN t = SessionFields /\ DOMAIN t.pending = ExchangeFields
    /\ t.oldIKE = NoIKE /\ t.oldIKEDelete.kind = "none"
    /\ {t.fastDPDDue, t.childReestablish, t.throttled, t.pending.fast, t.pending.reest} \subseteq BOOLEAN
    /\ Pending(t) => t.pending.attempts \in Nat \ {0}

\* The clocks; that of the retransmissions runs while an exchange is under way.
Clocked ==
    /\ left \in [Clocks -> Nat \cup {Off, Passed}]
    /\ Pending(s) => left["retry"] \in Nat
    /\ idle \in Nat /\ since \in Nat /\ awake \in Nat /\ awake <= Never /\ woken \in BOOLEAN
    /\ ~silent => since = 0

Short == FastBase + 1
\* What the attempts of a fast exchange that are left take.
FastRest(a) == IF a < FastTries THEN (FastTries - a) * Short ELSE 0

\* After a wake: what is under way is fast, and the fast probe is it or follows it.
Woken ==
    awake # Never =>
        IF ~Pending(s)
        THEN s.fastDPDDue /\ awake + FastTries * Short <= FastBound
        ELSE /\ s.pending.fast
             /\ awake + FastRest(s.pending.attempts) + left["retry"]
                   + (IF s.pending.kind = "dpd" THEN 0 ELSE 1 + FastTries * Short) <= FastBound
             /\ s.pending.kind # "dpd" => s.fastDPDDue

\* Before any wake and without rekeys: one re-establishment at most stands between
\* the end of the idle interval and the probe.
Undisturbed ==
    awake = Never /\ NoRekeyDue =>
        /\ ~s.fastDPDDue
        /\ since <= idle \/ idle > Dpd
        /\ ~Pending(s) =>
              \/ since <= Dpd
              \/ /\ since <= Dpd + 1 + Span
                 /\ s.childReestablish => s.throttled /\ left["backoff"] > 1
        /\ Pending(s) =>
              /\ ~s.pending.fast /\ s.pending.attempts <= Tries
              /\ IF s.pending.kind = "dpd"
                 THEN since + Rest[Tries - s.pending.attempts] + left["retry"] <= DeadBound
                 ELSE /\ s.pending.reest
                      /\ since + Rest[Tries - s.pending.attempts] + left["retry"] <= Dpd + Span

ClockInv == Shaped(s) /\ Clocked /\ (s.status = "up" => Woken /\ Undisturbed)

-----------------------------------------------------------------------------
(* What a tick does to the session.                                        *)

\* u differs from t in its pending exchange only, as far as a tick can tell.
Alike(t, u) ==
    /\ u.fastDPDDue = t.fastDPDDue /\ u.childReestablish = t.childReestablish
    /\ u.throttled = t.throttled /\ u.status = t.status

\* u has just begun an exchange.
Opens(u, kind, fast, reest) ==
    /\ u.pending.kind = kind /\ u.pending.attempts = 1
    /\ u.pending.fast = fast /\ u.pending.reest = reest

First(x, kind, fast, reest) ==
    /\ DOMAIN x = ExchangeFields /\ x.kind = kind /\ x.attempts = 1
    /\ x.fast = fast /\ x.reest = reest

\* Beginning an exchange leaves everything a tick looks at but the pending exchange.
LEMMA Begins ==
    ASSUME NEW t, Shaped(t), NEW x, NEW kind, NEW fast \in BOOLEAN, NEW reest \in BOOLEAN,
           First(x, kind, fast, reest), NEW v, v = Begin(t, x, "ok")
    PROVE  Shaped(v) /\ Alike(t, v) /\ Opens(v, kind, fast, reest)
<1>1. PICK u : u = [t EXCEPT !.messageID = @ + 1, !.pending = x]
  OBVIOUS
<1>2. /\ DOMAIN u = SessionFields /\ u.pending = x /\ u.oldIKE = t.oldIKE
      /\ u.oldIKEDelete = t.oldIKEDelete /\ Alike(t, u)
  BY <1>1 DEF Shaped, SessionFields, Alike
<1>3. v = [u EXCEPT !.out = @ \cup {x.req}]
  BY <1>1 DEF Begin, Send
<1>4. /\ DOMAIN v = SessionFields /\ v.pending = x /\ v.oldIKE = t.oldIKE
      /\ v.oldIKEDelete = t.oldIKEDelete /\ Alike(t, v)
  BY <1>2, <1>3 DEF SessionFields, Alike
<1>5. Shaped(v)
  BY <1>4 DEF Shaped, Alike, First
<1> QED BY <1>4, <1>5 DEF Opens, First

\* A new exchange is at its first attempt, neither fast nor a re-establishment.
LEMMA Exchanges ==
    ASSUME NEW kind, NEW req, NEW x, x = Exchange(kind, req)
    PROVE  First(x, kind, FALSE, FALSE)
BY DEF Exchange, NoExchange, ExchangeFields, First

\* A dead-peer probe begins, fast or not (initiateDPD).
LEMMA ProbeBegins ==
    ASSUME NEW t, Shaped(t), NEW fast \in BOOLEAN, NEW u, u = initiateDPD(t, fast, "ok")
    PROVE  Shaped(u) /\ Alike(t, u) /\ Opens(u, "dpd", fast, FALSE)
<1>1. PICK y : y = Exchange("dpd", Request(t, "INFO", Empty))
  OBVIOUS
<1>2. PICK x : x = [y EXCEPT !.fast = fast]
  OBVIOUS
<1>3. First(x, "dpd", fast, FALSE)
  <2>1. First(y, "dpd", FALSE, FALSE)
    BY <1>1, Exchanges
  <2> QED BY <1>2, <2>1 DEF First, ExchangeFields
<1>4. u = Begin(t, x, "ok")
  BY <1>1, <1>2 DEF initiateDPD
<1> QED BY <1>3, <1>4, Begins

\* A Child SA rekey or a re-establishment begins (initiateChildRekey).
LEMMA ChildRekeyBegins ==
    ASSUME NEW t, Shaped(t), NEW reest \in BOOLEAN, NEW u, u = initiateChildRekey(t, reest, Input)
    PROVE  Shaped(u) /\ Alike(t, u) /\ Opens(u, "child", FALSE, reest)
<1> DEFINE dh  == IF t.childPFS THEN childRekeyGroup(t) ELSE 0
           old == IF reest THEN 0 ELSE t.child.in
           req == Request(t, "CCSA", ChildRequest(Input.n, Input.spi, old, dh, "good"))
<1>1. PICK y : y = Exchange("child", req)
  OBVIOUS
<1>2. PICK x : x = [y EXCEPT !.reest = reest, !.newIn = Input.spi, !.oldIn = t.child.in,
                             !.ni = Input.n, !.dh = dh]
  OBVIOUS
<1>0. u = Begin(t, x, Input.err) /\ Input.err = "ok"
  BY <1>1, <1>2 DEF initiateChildRekey, Input
<1> HIDE DEF dh, old, req
<1>3. First(x, "child", FALSE, reest)
  <2>1. First(y, "child", FALSE, FALSE)
    BY <1>1, Exchanges
  <2> QED BY <1>2, <2>1 DEF First, ExchangeFields
<1>4. u = Begin(t, x, "ok")
  BY <1>0
<1> QED BY <1>3, <1>4, Begins

\* An IKE SA rekey begins (initiateIKERekey).
LEMMA IKERekeyBegins ==
    ASSUME NEW t, Shaped(t), NEW u, u = initiateIKERekey(t, Input)
    PROVE  Shaped(u) /\ Alike(t, u) /\ Opens(u, "ike", FALSE, FALSE)
<1> DEFINE req == Request(t, "CCSA", IKERequest(Input.n, t.ikeDHGroup, "good"))
<1>1. PICK y : y = Exchange("ike", req)
  OBVIOUS
<1>2. PICK x : x = [y EXCEPT !.ni = Input.n, !.dh = t.ikeDHGroup]
  OBVIOUS
<1>0. u = Begin(t, x, Input.err) /\ Input.err = "ok"
  BY <1>1, <1>2 DEF initiateIKERekey, Input
<1> HIDE DEF req
<1>3. First(x, "ike", FALSE, FALSE)
  <2>1. First(y, "ike", FALSE, FALSE)
    BY <1>1, Exchanges
  <2> QED BY <1>2, <2>1 DEF First, ExchangeFields
<1>4. u = Begin(t, x, "ok")
  BY <1>0
<1> QED BY <1>3, <1>4, Begins

-----------------------------------------------------------------------------
\* A wake finds an exchange under way.
Hastened(t, u) ==
    /\ u.pending.kind = t.pending.kind /\ u.pending.attempts = t.pending.attempts
    /\ u.pending.fast = TRUE /\ u.pending.reest = t.pending.reest
    /\ u.fastDPDDue = (t.fastDPDDue \/ t.pending.kind # "dpd")
    /\ u.childReestablish = t.childReestablish /\ u.throttled = t.throttled /\ u.status = t.status

Waits(t, due, u) == "retry" \notin due /\ Alike(t, u) /\ u.pending = t.pending
Repeats(t, due, u) ==
    /\ "retry" \in due /\ t.pending.attempts + 1 <= pendingTries(t.pending) /\ Alike(t, u)
    /\ u.pending.kind = t.pending.kind /\ u.pending.attempts = t.pending.attempts + 1
    /\ u.pending.fast = t.pending.fast /\ u.pending.reest = t.pending.reest
Abandons(t, due, u) ==
    /\ "retry" \in due /\ t.pending.attempts + 1 > pendingTries(t.pending)
    /\ u.pending.kind = "none" /\ u.fastDPDDue = t.fastDPDDue
    /\ t.pending.kind = "dpd" => u.status = "dead"
    /\ t.pending.kind # "dpd" => u.status = t.status
    /\ u.childReestablish = (t.childReestablish \/ t.pending.reest)
    /\ u.throttled = (t.throttled \/ t.pending.reest)

\* The window is free.
ProbesFast(t, u) == t.fastDPDDue /\ u.status = t.status /\ Opens(u, "dpd", TRUE, FALSE)
Reestablishes(t, due, u) ==
    /\ ~t.fastDPDDue /\ u.fastDPDDue = t.fastDPDDue /\ u.status = t.status
    /\ t.childReestablish /\ (t.throttled => "backoff" \in due)
    /\ Opens(u, "child", FALSE, TRUE)
Rekeys(t, due, u) ==
    /\ ~t.fastDPDDue /\ Alike(t, u) /\ due \cap {"volume", "ike", "child"} # {}
    /\ Opens(u, "child", FALSE, FALSE) \/ Opens(u, "ike", FALSE, FALSE)
Probes(t, u) == ~t.fastDPDDue /\ Alike(t, u) /\ Opens(u, "dpd", FALSE, FALSE)
Rests(t, due, u) == ~t.fastDPDDue /\ "idle" \notin due /\ Alike(t, u) /\ u.pending = t.pending

Outcome(t, due, u) ==
    IF "wake" \in due
    THEN IF Pending(t) THEN Hastened(t, u)
         ELSE Alike(t, u) /\ Opens(u, "dpd", TRUE, FALSE)
    ELSE IF Pending(t) THEN Waits(t, due, u) \/ Repeats(t, due, u) \/ Abandons(t, due, u)
         ELSE \/ ProbesFast(t, u) \/ Reestablishes(t, due, u) \/ Rekeys(t, due, u)
              \/ Probes(t, u) \/ Rests(t, due, u)

\* A pending exchange waits, is sent again, or is abandoned (retransmitPending).
LEMMA RetryCases ==
    ASSUME NEW t, Shaped(t), Pending(t), NEW due, NEW u, u = retransmitPending(t, due)
    PROVE  Shaped(u) /\ (Waits(t, due, u) \/ Repeats(t, due, u) \/ Abandons(t, due, u))
<1>0. /\ t.pending.attempts \in Nat \ {0} /\ pendingTries(t.pending) \in Nat
      /\ DOMAIN t = SessionFields /\ DOMAIN t.pending = ExchangeFields
  BY TriesAssumption DEF Shaped, pendingTries
<1>1. CASE "retry" \notin due
  BY <1>1 DEF retransmitPending, Waits, Alike
<1>2. CASE "retry" \in due /\ t.pending.attempts + 1 > pendingTries(t.pending)
  <2>1. u = abandonPending(t)
    BY <1>2 DEF retransmitPending
  <2>2. PICK x : x = NoExchange
    OBVIOUS
  <2>3. x.kind = "none" /\ x.fast = FALSE /\ x.reest = FALSE /\ DOMAIN x = ExchangeFields
    BY <2>2 DEF NoExchange, ExchangeFields
  <2>4. u = [t EXCEPT !.pending = x,
                      !.status = IF t.pending.kind = "dpd" THEN "dead" ELSE @,
                      !.childReestablish = @ \/ t.pending.reest,
                      !.throttled = @ \/ t.pending.reest]
    BY <2>1, <2>2 DEF abandonPending
  <2>5. /\ DOMAIN u = SessionFields /\ u.pending = x /\ u.oldIKE = t.oldIKE
        /\ u.oldIKEDelete = t.oldIKEDelete /\ u.fastDPDDue = t.fastDPDDue
        /\ u.status = IF t.pending.kind = "dpd" THEN "dead" ELSE t.status
    BY <1>0, <2>4 DEF SessionFields
  <2>6. /\ u.childReestablish = (t.childReestablish \/ t.pending.reest)
        /\ u.throttled = (t.throttled \/ t.pending.reest)
    BY <1>0, <2>4 DEF SessionFields
  <2>7. Shaped(u)
    BY <2>3, <2>5, <2>6 DEF Shaped, Pending
  <2> QED BY <1>2, <2>3, <2>5, <2>6, <2>7 DEF Abandons
<1>3. CASE "retry" \in due /\ t.pending.attempts + 1 <= pendingTries(t.pending)
  <2>1. PICK x : x = [t.pending EXCEPT !.attempts = @ + 1]
    OBVIOUS
  <2>2. /\ DOMAIN x = ExchangeFields /\ x.kind = t.pending.kind
        /\ x.attempts = t.pending.attempts + 1
        /\ x.fast = t.pending.fast /\ x.reest = t.pending.reest
    BY <1>0, <2>1 DEF ExchangeFields
  <2>3. PICK v : v = [t EXCEPT !.pending = x]
    OBVIOUS
  <2>4. /\ DOMAIN v = SessionFields /\ v.pending = x /\ v.oldIKE = t.oldIKE
        /\ v.oldIKEDelete = t.oldIKEDelete /\ Alike(t, v)
    BY <1>0, <2>3 DEF SessionFields, Alike
  <2>5. v = [t EXCEPT !.pending.attempts = @ + 1]
    BY <1>0, <2>1, <2>3 DEF SessionFields
  <2>6. u = [v EXCEPT !.out = @ \cup {t.pending.req}]
    BY <1>0, <1>3, <2>5 DEF retransmitPending, Send
  <2>7. /\ DOMAIN u = SessionFields /\ u.pending = x /\ u.oldIKE = t.oldIKE
        /\ u.oldIKEDelete = t.oldIKEDelete /\ Alike(t, u)
    BY <2>4, <2>6 DEF SessionFields, Alike
  <2>8. Shaped(u)
    BY <1>0, <2>2, <2>7 DEF Shaped, Pending, Alike
  <2> QED BY <1>3, <2>2, <2>7, <2>8 DEF Repeats
<1> QED BY <1>0, <1>1, <1>2, <1>3

\* With the window free the tick starts one exchange, in the order of startExchange,
\* or none if the tunnel has not been idle.
LEMMA StartCases ==
    ASSUME NEW t, Shaped(t), ~Pending(t), NEW due, NEW u, u = startExchange(t, due, Input)
    PROVE  /\ Shaped(u)
           /\ \/ ProbesFast(t, u) \/ Reestablishes(t, due, u) \/ Rekeys(t, due, u)
              \/ Probes(t, u) \/ Rests(t, due, u)
<1>0. DOMAIN t = SessionFields /\ Input.err = "ok"
  BY DEF Shaped, Input
<1>1. CASE t.fastDPDDue
  <2>1. PICK v : v = [t EXCEPT !.fastDPDDue = FALSE]
    OBVIOUS
  <2>2. /\ DOMAIN v = SessionFields /\ v.pending = t.pending /\ v.oldIKE = t.oldIKE
        /\ v.oldIKEDelete = t.oldIKEDelete /\ v.status = t.status /\ v.fastDPDDue = FALSE
        /\ v.childReestablish = t.childReestablish /\ v.throttled = t.throttled
    BY <1>0, <2>1 DEF SessionFields
  <2>3. Shaped(v)
    BY <2>2 DEF Shaped, Pending
  <2>4. u = initiateDPD(v, TRUE, "ok")
    BY <1>0, <1>1, <2>1 DEF startExchange
  <2> QED BY <1>1, <2>2, <2>3, <2>4, ProbeBegins DEF ProbesFast, Alike
<1>2. CASE ~t.fastDPDDue /\ t.childReestablish /\ (t.throttled => "backoff" \in due)
  <2>1. PICK v : v = initiateChildRekey(t, TRUE, Input)
    OBVIOUS
  <2>2. Shaped(v) /\ Alike(t, v) /\ Opens(v, "child", FALSE, TRUE)
    BY <2>1, ChildRekeyBegins
  <2>3. u = [v EXCEPT !.childReestablish = FALSE, !.throttled = FALSE]
    BY <1>0, <1>2, <2>1 DEF startExchange, reestablishChild
  <2>4. /\ DOMAIN u = SessionFields /\ u.pending = v.pending /\ u.oldIKE = v.oldIKE
        /\ u.oldIKEDelete = v.oldIKEDelete /\ u.status = v.status /\ u.fastDPDDue = v.fastDPDDue
        /\ u.childReestablish = FALSE /\ u.throttled = FALSE
    BY <2>2, <2>3 DEF Shaped, SessionFields
  <2>5. Shaped(u)
    BY <2>2, <2>4 DEF Shaped, Pending
  <2> QED BY <1>2, <2>2, <2>4, <2>5 DEF Reestablishes, Opens, Alike
<1>3. CASE /\ ~t.fastDPDDue /\ ~(t.childReestablish /\ (t.throttled => "backoff" \in due))
           /\ u = initiateChildRekey(t, FALSE, Input) /\ due \cap {"volume", "ike", "child"} # {}
  BY <1>3, ChildRekeyBegins DEF Rekeys
<1>4. CASE /\ ~t.fastDPDDue /\ u = initiateIKERekey(t, Input) /\ "ike" \in due
  BY <1>4, IKERekeyBegins DEF Rekeys
<1>5. CASE ~t.fastDPDDue /\ u = initiateDPD(t, FALSE, "ok")
  BY <1>5, ProbeBegins DEF Probes
<1>6. CASE ~t.fastDPDDue /\ u = t /\ "idle" \notin due
  BY <1>6 DEF Rests, Alike
<1> QED BY <1>0, <1>1, <1>2, <1>3, <1>4, <1>5, <1>6 DEF startExchange

\* What the tick as a whole does to the session (housekeeping).
LEMMA TickCases ==
    ASSUME NEW t, Shaped(t), NEW due, NEW h, h = housekeeping(t, due, Input),
           NEW u, u = Unnumbered(h)
    PROVE  Shaped(u) /\ Outcome(t, due, u) /\ u.pending = h.pending
<1>0. DOMAIN t = SessionFields /\ DOMAIN t.pending = ExchangeFields /\ Input.err = "ok"
  BY DEF Shaped, Input
<1>1. ASSUME NEW v, Shaped(v) PROVE retransmitOldDelete(expireGrace(v, due), due) = v
  BY <1>1 DEF Shaped, HasOld, expireGrace, retransmitOldDelete
<1>2. Shaped(h) /\ Outcome(t, due, h)
  <2>1. CASE "wake" \in due /\ ~Pending(t)
    <3>1. PICK v : v = initiateDPD(t, TRUE, "ok")
      OBVIOUS
    <3>2. Shaped(v) /\ Alike(t, v) /\ Opens(v, "dpd", TRUE, FALSE)
      BY <3>1, ProbeBegins
    <3>3. v = detectSuspend(t, due, Input.err)
      BY <1>0, <2>1, <3>1 DEF detectSuspend
    <3>4. Pending(v)
      BY <3>2 DEF Opens, Pending
    <3>5. h = retransmitPending(v, {})
      BY <1>1, <2>1, <3>2, <3>3, <3>4 DEF housekeeping
    <3>6. h = v
      BY <3>5 DEF retransmitPending
    <3> QED BY <2>1, <3>2, <3>6 DEF Outcome
  <2>2. CASE "wake" \in due /\ Pending(t)
    <3>1. PICK x : x = [t.pending EXCEPT !.fast = TRUE]
      OBVIOUS
    <3>2. /\ DOMAIN x = ExchangeFields /\ x.kind = t.pending.kind /\ x.fast = TRUE
          /\ x.attempts = t.pending.attempts /\ x.reest = t.pending.reest
      BY <1>0, <3>1 DEF ExchangeFields
    <3>3. PICK v : v = [t EXCEPT !.pending = x, !.fastDPDDue = @ \/ t.pending.kind # "dpd"]
      OBVIOUS
    <3>4. /\ DOMAIN v = SessionFields /\ v.pending = x /\ v.oldIKE = t.oldIKE
          /\ v.oldIKEDelete = t.oldIKEDelete /\ v.status = t.status
          /\ v.childReestablish = t.childReestablish /\ v.throttled = t.throttled
      BY <1>0, <3>3 DEF SessionFields
    <3>5. v.fastDPDDue = (t.fastDPDDue \/ t.pending.kind # "dpd")
      BY <1>0, <3>3 DEF SessionFields
    <3>6. Shaped(v)
      BY <2>2, <3>2, <3>4, <3>5 DEF Shaped, Pending
    <3>7. v = detectSuspend(t, due, Input.err)
      BY <1>0, <2>2, <3>1, <3>3 DEF detectSuspend, SessionFields
    <3>8. Pending(v)
      BY <2>2, <3>2, <3>4 DEF Pending
    <3>9. h = retransmitPending(v, {})
      BY <1>1, <2>2, <3>6, <3>7, <3>8 DEF housekeeping
    <3>10. h = v
      BY <3>9 DEF retransmitPending
    <3> QED BY <2>2, <3>2, <3>4, <3>5, <3>6, <3>10 DEF Outcome, Hastened
  <2>3. CASE "wake" \notin due
    <3>1. t = detectSuspend(t, due, Input.err)
      BY <2>3 DEF detectSuspend
    <3>2. h = IF Pending(t) THEN retransmitPending(t, due) ELSE startExchange(t, due, Input)
      BY <1>1, <2>3, <3>1 DEF housekeeping
    <3> QED BY <2>3, <3>2, RetryCases, StartCases DEF Outcome
  <2> QED BY <2>1, <2>2, <2>3
<1>3. /\ DOMAIN u = SessionFields /\ u.pending = h.pending /\ u.oldIKE = h.oldIKE
      /\ u.oldIKEDelete = h.oldIKEDelete /\ Alike(h, u)
  BY <1>2 DEF Unnumbered, Shaped, SessionFields, Alike
<1>4. Shaped(u)
  BY <1>2, <1>3 DEF Shaped, Pending, Alike
<1>5. Outcome(t, due, u)
  BY <1>2, <1>3 DEF Outcome, Alike, Opens, Hastened, Waits, Repeats, Abandons, ProbesFast,
     Reestablishes, Rekeys, Probes, Rests
<1> QED BY <1>3, <1>4, <1>5

-----------------------------------------------------------------------------
(* The clocks at a tick.                                                   *)
Runs(l) == l = [k \in Clocks |-> Run(left[k])]

\* l is left a tick later.
Later(l) ==
    /\ l \in [Clocks -> Nat \cup {Off, Passed}]
    /\ \A k \in Clocks : /\ left[k] \in Nat => l[k] = left[k] - 1
                         /\ l[k] = Off => left[k] = Off

\* Every clock that runs has run down by one.
LEMMA RunClocks == ASSUME Clocked, NEW l, Runs(l) PROVE Later(l)
BY DEF Clocked, Runs, Run, Off, Passed, Later

\* The deadlines due are among those that may be found passed.
Found(l, i, w, due) ==
    /\ "wake" \in due <=> w
    /\ \A k \in Clocks : /\ l[k] = Passed => k \in due
                         /\ k \in due => l[k] \in {0, Passed}
    /\ i > Dpd => "idle" \in due

\* A deadline that has passed is found, and none is found before it is reached.
LEMMA DueFacts ==
    ASSUME NEW l, Later(l), NEW i \in Nat, NEW w \in BOOLEAN, NEW due \in DueSets(l, i, w)
    PROVE  Found(l, i, w, due)
BY ClockAssumption DEF DueSets, Clocks, Later, Found

\* The clocks a tick leaves behind, for u the session after it.
Rearmed(u, l) ==
    /\ left' \in [Clocks -> Nat \cup {Off, Passed}]
    /\ left'["retry"] = RetransmitClock(u, l)
    /\ \A k \in {"ike", "child", "volume"} : left'[k] \in {Retry, l[k]}
    /\ s.pending.reest /\ ~Pending(u) => left'["backoff"] = Retry

\* The clocks as a tick leaves them.
LEMMA RearmFacts ==
    ASSUME NEW l, Later(l), Shaped(s), NEW u, Shaped(u), NEW h,
           h.pending = u.pending, NEW due, left' = Rearm(h, due, l)
    PROVE  Rearmed(u, l)
<1>0. l \in [Clocks -> Nat \cup {Off, Passed}]
  BY DEF Later
<1>1. RetransmitClock(h, l) = RetransmitClock(u, l)
  BY DEF RetransmitClock, Pending
<1>2. RetransmitClock(u, l) \in Nat \cup {Off, Passed}
  <2>1. Pending(u) => pendingBackoff(u.pending) \in Nat
    BY ClockAssumption, BackoffDef DEF pendingBackoff, Shaped
  <2> QED BY <1>0, <2>1, ClockAssumption DEF RetransmitClock, Clocks
<1> DEFINE began(kind) == ~Pending(s) /\ h.pending.kind = kind
           rekeyed     == began("child") /\ ~h.pending.reest
           byVolume    == rekeyed /\ "volume" \in due
           r  == RetransmitClock(u, l)
           vo == IF byVolume THEN Retry ELSE l["volume"]
           ik == IF began("ike") THEN Retry ELSE l["ike"]
           ch == IF rekeyed /\ ~byVolume THEN Retry ELSE l["child"]
           ba == IF s.pending.reest /\ ~Pending(h) THEN Retry
                 ELSE IF began("child") /\ h.pending.reest THEN Off ELSE l["backoff"]
<1>3. left' = [l EXCEPT !["retry"] = r, !["volume"] = vo, !["ike"] = ik, !["child"] = ch,
                        !["backoff"] = ba]
  BY <1>0, <1>1 DEF Rearm, Clocks
<1>4. /\ vo \in {Retry, l["volume"]} /\ ik \in {Retry, l["ike"]} /\ ch \in {Retry, l["child"]}
      /\ ba \in {Retry, Off, l["backoff"]}
  OBVIOUS
<1>5. s.pending.reest /\ ~Pending(u) => ba = Retry
  BY DEF Pending
<1> HIDE DEF vo, ik, ch, ba
<1>6. Retry \in Nat
  BY ClockAssumption
<1>7. {r, vo, ik, ch, ba} \subseteq Nat \cup {Off, Passed}
  BY <1>0, <1>2, <1>4, <1>6 DEF Clocks
<1> HIDE DEF r
<1>8. left' \in [Clocks -> Nat \cup {Off, Passed}]
  BY <1>0, <1>3, <1>7 DEF Clocks
<1>9. /\ left'["retry"] = r /\ left'["volume"] = vo /\ left'["ike"] = ik /\ left'["child"] = ch
      /\ left'["backoff"] = ba
  BY <1>0, <1>3 DEF Clocks
<1> QED BY <1>4, <1>5, <1>8, <1>9 DEF Rearmed, r

-----------------------------------------------------------------------------
(* The bounds.                                                             *)
LEMMA SpanFacts ==
    /\ Span \in Nat /\ Span = Rest[Tries - 1] + Base + 1
    /\ \A a \in 1..Tries : Rest[Tries - a] \in Nat
    /\ \A a \in 1..Tries :
          a + 1 <= Tries => Rest[Tries - a] = Rest[Tries - (a + 1)] + retransBackoff[a + 1] + 1
<1>1. Tries \in Nat \ {0} /\ Base \in Nat
  BY TriesAssumption, ClockAssumption
<1>2. Delay(1) = Base
  BY DEF Delay
<1>3. Rest[Tries] = Rest[Tries - 1] + Delay(Tries - (Tries - 1)) + 1
  BY <1>1, RestDef, Tries - 1 \in Nat, (Tries - 1) + 1 = Tries
<1>4. Tries - (Tries - 1) = 1
  BY <1>1
<1>5. ASSUME NEW a \in 1..Tries, a + 1 <= Tries
      PROVE  Rest[Tries - a] = Rest[Tries - (a + 1)] + retransBackoff[a + 1] + 1
  <2>1. /\ Tries - (a + 1) \in Nat /\ (Tries - (a + 1)) + 1 = Tries - a
        /\ Tries - (Tries - (a + 1)) = a + 1 /\ a + 1 \in Nat \ {0}
    BY <1>1, <1>5
  <2>2. Rest[(Tries - (a + 1)) + 1] =
           Rest[Tries - (a + 1)] + Delay(Tries - (Tries - (a + 1))) + 1
    BY <2>1, RestDef
  <2> QED BY <2>1, <2>2, BackoffExact
<1>6. \A a \in 1..Tries : Rest[Tries - a] \in Nat
  BY <1>1, RestDef
<1> QED BY <1>1, <1>2, <1>3, <1>4, <1>5, <1>6, RestDef DEF Span

\* Multiplication distributes over addition; the solver is asked for this alone.
LEMMA Times == ASSUME NEW x \in Int, NEW y \in Int, NEW z \in Int PROVE (x + y) * z = x * z + y * z
OBVIOUS

\* The fast schedule: the waits left shrink by one short wait per attempt, and the
\* bound is a full fast schedule after what is left of another.
LEMMA FastFacts ==
    /\ Short \in Nat /\ Short = FastBase + 1 /\ FastTries * Short \in Nat /\ FastBound \in Nat
    /\ FastRest(1) \in Nat /\ FastRest(1) + Short = FastTries * Short
    /\ FastBound = FastRest(1) + FastTries * Short + 1
    /\ \A a \in Nat \ {0} : /\ FastRest(a) \in Nat /\ FastRest(a) <= FastRest(1)
                            /\ a + 1 <= FastTries => FastRest(a) = FastRest(a + 1) + Short
<1>1. FastTries \in Nat \ {0} /\ FastBase \in Nat /\ Short \in Nat /\ Short = FastBase + 1
  BY TriesAssumption, ClockAssumption DEF Short
<1>2. \A n \in Nat : n * Short \in Nat
  BY <1>1
<1>3. ASSUME NEW a \in Nat \ {0}, a <= FastTries PROVE FastRest(a) = (FastTries - a) * Short
  BY <1>1, <1>3 DEF FastRest
<1>4. FastRest(1) = (FastTries - 1) * Short
  BY <1>1, <1>3
<1>5. FastTries * Short = (FastTries - 1) * Short + 1 * Short
  BY <1>1, Times
<1>6. (2 * FastTries - 1) * Short = (FastTries - 1) * Short + FastTries * Short
  BY <1>1, Times
<1>7. ASSUME NEW a \in Nat \ {0}
      PROVE  /\ FastRest(a) \in Nat /\ FastRest(a) <= FastRest(1)
             /\ a + 1 <= FastTries => FastRest(a) = FastRest(a + 1) + Short
  <2>1. CASE a < FastTries
    <3>1. FastTries - a \in Nat /\ a - 1 \in Nat /\ FastTries - (a + 1) \in Nat
      BY <1>1, <2>1
    <3>2. (FastTries - 1) * Short = (FastTries - a) * Short + (a - 1) * Short
      BY <1>1, <3>1, Times
    <3>3. (FastTries - a) * Short = (FastTries - (a + 1)) * Short + 1 * Short
      BY <1>1, <3>1, Times
    <3>4. FastRest(a) = (FastTries - a) * Short /\ FastRest(a + 1) = (FastTries - (a + 1)) * Short
      BY <1>1, <1>3, <2>1
    <3> QED BY <1>1, <1>2, <1>4, <3>1, <3>2, <3>3, <3>4
  <2>2. CASE ~(a < FastTries)
    <3>1. FastRest(a) = 0 /\ ~(a + 1 <= FastTries)
      BY <1>1, <2>2 DEF FastRest
    <3> QED BY <1>1, <1>2, <1>4, <3>1
  <2> QED BY <2>1, <2>2
<1>8. FastBound = (2 * FastTries - 1) * Short + 1
  BY <1>1 DEF FastBound
<1> QED BY <1>1, <1>2, <1>4, <1>5, <1>6, <1>7, <1>8

-----------------------------------------------------------------------------
(* A tick keeps the invariant.                                             *)

\* A tick that finds the deadlines due passed, with the clocks at l, ends in u.
Ticked(u, l, due) ==
    /\ s.status = "up" /\ u = s' /\ Shaped(u) /\ Outcome(s, due, u) /\ Rearmed(u, l)
    /\ Later(l) /\ Found(l, idle', woken, due)
    /\ idle' \in Nat /\ idle' = (IF idle > Dpd THEN idle ELSE idle + 1)
    /\ woken' = FALSE
    /\ since' \in Nat /\ since' <= since + 1 /\ silent' = silent /\ (~silent => since' = 0)
    /\ awake' = IF woken THEN 0 ELSE IF awake > FastBound THEN awake ELSE awake + 1

\* A tick, taken apart.
LEMMA TickFacts ==
    ASSUME ClockInv, Tick
    PROVE  \E u, l, due : Ticked(u, l, due)
<1>1. Shaped(s) /\ Clocked
  BY DEF ClockInv
<1>2. PICK l : Runs(l)
  BY DEF Runs
<1>3. PICK i : i = IF idle > Dpd THEN idle ELSE idle + 1
  OBVIOUS
<1>4. /\ s.status = "up" /\ idle' = i /\ woken' = FALSE
      /\ since' = (IF silent THEN Count(since, DeadBound) ELSE 0) /\ silent' = silent
      /\ awake' = IF woken THEN 0 ELSE Count(awake, FastBound)
  BY <1>3 DEF Tick
<1>5. PICK due \in DueSets(l, i, woken) :
         LET t == housekeeping(s, due, Input)
         IN s' = Unnumbered(t) /\ left' = Rearm(t, due, l)
  BY <1>2, <1>3 DEF Tick, Runs
<1>6. PICK h : h = housekeeping(s, due, Input)
  OBVIOUS
<1>7. PICK u : u = s'
  OBVIOUS
<1>8. u = Unnumbered(h) /\ left' = Rearm(h, due, l)
  BY <1>5, <1>6, <1>7
<1>9. Shaped(u) /\ Outcome(s, due, u) /\ u.pending = h.pending
  BY <1>1, <1>6, <1>8, TickCases
<1>10. Later(l)
  BY <1>1, <1>2, RunClocks
<1>11. Rearmed(u, l)
  BY <1>1, <1>8, <1>9, <1>10, RearmFacts
<1>12. i \in Nat /\ woken \in BOOLEAN /\ since \in Nat /\ Dpd \in Nat
  BY <1>1, <1>3, ClockAssumption DEF Clocked
<1>13. Found(l, i, woken, due)
  BY <1>10, <1>12, DueFacts
<1>14. since' \in Nat /\ since' <= since + 1 /\ (~silent => since' = 0)
  BY <1>4, <1>12 DEF Count
<1>15. awake' = IF woken THEN 0 ELSE IF awake > FastBound THEN awake ELSE awake + 1
  BY <1>4 DEF Count
<1>16. Ticked(u, l, due)
  BY <1>3, <1>4, <1>7, <1>9, <1>10, <1>11, <1>12, <1>13, <1>14, <1>15 DEF Ticked
<1> QED BY <1>16

\* The clock of the retransmissions after a tick.
LEMMA RetryAfter ==
    ASSUME ClockInv, NEW u, NEW l, NEW due, Ticked(u, l, due)
    PROVE  /\ ~Pending(s) /\ Pending(u) =>
                 left'["retry"] = IF u.pending.fast THEN FastBase ELSE Base
           /\ Pending(s) => left["retry"] \in Nat
           /\ Pending(s) /\ Pending(u) /\ u.pending.attempts # s.pending.attempts =>
                 left'["retry"] = pendingBackoff(u.pending)
           /\ Pending(s) /\ Pending(u) /\ u.pending.attempts = s.pending.attempts =>
                 IF woken THEN left'["retry"] = 0
                 ELSE left'["retry"] = left["retry"] - 1 /\ ("retry" \notin due => left["retry"] > 0)
<1>1. /\ left'["retry"] = RetransmitClock(u, l)
      /\ Pending(s) => left["retry"] \in Nat
  BY DEF Ticked, Rearmed, ClockInv, Clocked
<1>2. Pending(s) => l["retry"] = left["retry"] - 1 /\ (l["retry"] = -1 => "retry" \in due)
  BY <1>1 DEF Ticked, Later, Found, Clocks, Passed
<1>3. left'["retry"] =
         IF ~Pending(u) THEN Off
         ELSE IF ~Pending(s) THEN IF u.pending.fast THEN FastBase ELSE Base
         ELSE IF u.pending.attempts # s.pending.attempts THEN pendingBackoff(u.pending)
         ELSE IF woken THEN 0 ELSE l["retry"]
  BY <1>1 DEF RetransmitClock
<1>4. Pending(s) /\ "retry" \notin due => left["retry"] > 0
  BY <1>1, <1>2
<1> QED BY <1>1, <1>2, <1>3, <1>4

\* The clocks keep their types, and a pending exchange keeps its deadline.
LEMMA ClockedStep ==
    ASSUME ClockInv, NEW u, NEW l, NEW due, Ticked(u, l, due)
    PROVE  Clocked'
<1>1. /\ left' \in [Clocks -> Nat \cup {Off, Passed}] /\ left'["retry"] = RetransmitClock(u, l)
      /\ idle' \in Nat /\ since' \in Nat /\ woken' = FALSE /\ (~silent' => since' = 0)
  BY DEF Ticked, Rearmed
<1>2. awake' \in Nat /\ awake' <= Never
  BY FastFacts DEF Ticked, ClockInv, Clocked, Never
<1>3. Pending(u) => left'["retry"] \in Nat
  <2>1. Shaped(u) /\ Outcome(s, due, u) /\ ("wake" \in due <=> woken)
    BY DEF Ticked, Found
  <2>2. Pending(u) => pendingBackoff(u.pending) \in Nat
    BY <2>1, ClockAssumption, BackoffDef DEF pendingBackoff, Shaped
  <2>3. Pending(s) /\ ~woken /\ "retry" \in due /\ Pending(u) => u.pending.attempts = s.pending.attempts + 1
    BY <2>1 DEF Outcome, Waits, Repeats, Abandons, Pending
  <2>4. Pending(s) => s.pending.attempts \in Nat
    BY DEF ClockInv, Shaped
  <2>5. Base \in Nat /\ FastBase \in Nat
    BY ClockAssumption
  <2> QED BY <2>2, <2>3, <2>4, <2>5, RetryAfter
<1>4. (Pending(s))' => Pending(u)
  BY DEF Ticked, Pending
<1> QED BY <1>1, <1>2, <1>3, <1>4 DEF Clocked

\* A wake is followed by a fast probe, or one is queued behind a hastened exchange,
\* and the short waits spent and left stay within the bound.
LEMMA WokenStep ==
    ASSUME ClockInv, NEW u, NEW l, NEW due, Ticked(u, l, due), u.status = "up"
    PROVE  Woken'
<1>1. /\ s.status = "up" /\ u = s' /\ Outcome(s, due, u) /\ ("wake" \in due <=> woken)
      /\ awake' = IF woken THEN 0 ELSE IF awake > FastBound THEN awake ELSE awake + 1
  BY DEF Ticked, Found
<1>2. awake \in Nat /\ Woken /\ (Pending(s) => s.pending.attempts \in Nat \ {0})
  BY <1>1 DEF ClockInv, Clocked, Shaped
<1> DEFINE W(a) == IF ~Pending(u)
                   THEN u.fastDPDDue /\ a + FastTries * Short <= FastBound
                   ELSE /\ u.pending.fast
                        /\ a + FastRest(u.pending.attempts) + left'["retry"]
                             + (IF u.pending.kind = "dpd" THEN 0 ELSE 1 + FastTries * Short) <= FastBound
                        /\ u.pending.kind # "dpd" => u.fastDPDDue
<1>3. SUFFICES ASSUME awake' # Never PROVE W(awake')
  <2>1. Pending(s)' = Pending(u) /\ (s.pending)' = u.pending /\ (s.fastDPDDue)' = u.fastDPDDue
    BY <1>1 DEF Pending
  <2>2. FastRest(s.pending.attempts)' = FastRest(u.pending.attempts)
    BY <1>1 DEF FastRest, Short
  <2>3. Never' = Never /\ FastBound' = FastBound /\ Short' = Short
    BY DEF Never, FastBound, Short
  <2> QED BY <1>1, <2>1, <2>2, <2>3 DEF Woken
<1>4. CASE woken /\ ~Pending(s)
  <2>1. /\ Pending(u) /\ u.pending.kind = "dpd" /\ u.pending.attempts = 1 /\ u.pending.fast = TRUE
    BY <1>1, <1>4 DEF Outcome, Opens, Pending
  <2>2. left'["retry"] = FastBase /\ awake' = 0
    BY <1>1, <1>4, <2>1, RetryAfter
  <2>3. 0 + FastRest(1) + FastBase + 0 <= FastBound
    BY FastFacts, ClockAssumption
  <2> QED BY <2>1, <2>2, <2>3
<1>5. CASE woken /\ Pending(s)
  <2>1. Hastened(s, u)
    BY <1>1, <1>5 DEF Outcome
  <2>2. Pending(u)
    BY <1>5, <2>1 DEF Hastened, Pending
  <2>3. left'["retry"] = 0 /\ awake' = 0
    BY <1>1, <1>5, <2>1, <2>2, RetryAfter DEF Hastened
  <2>4. \A a \in Nat \ {0} : 0 + FastRest(a) + 0 + (1 + FastTries * Short) <= FastBound
                             /\ 0 + FastRest(a) + 0 + 0 <= FastBound
    BY FastFacts
  <2> QED BY <1>2, <1>5, <2>1, <2>2, <2>3, <2>4 DEF Hastened
<1>6. CASE ~woken
  <2>1. awake # Never /\ awake' = awake + 1
    <3>1. awake # Never
      BY <1>1, <1>3, <1>6, FastFacts DEF Never
    <3>2. ~Pending(s) => awake <= FastBound
      BY <1>2, <3>1, FastFacts DEF Woken
    <3>3. Pending(s) => awake <= FastBound
      <4> SUFFICES ASSUME Pending(s) PROVE awake <= FastBound
        OBVIOUS
      <4>1. left["retry"] \in Nat /\ FastRest(s.pending.attempts) \in Nat
        BY <1>2, FastFacts, RetryAfter
      <4> QED BY <1>2, <3>1, <4>1, FastFacts DEF Woken
    <3> QED BY <1>1, <1>2, <1>6, <3>1, <3>2, <3>3, FastFacts
  <2>2. CASE ~Pending(s)
    <3>1. s.fastDPDDue /\ awake + FastTries * Short <= FastBound
      BY <1>2, <2>1, <2>2 DEF Woken
    <3>2. Opens(u, "dpd", TRUE, FALSE)
      BY <1>1, <1>6, <2>2, <3>1 DEF Outcome, ProbesFast, Reestablishes, Rekeys, Probes, Rests
    <3>3. Pending(u) /\ u.pending.kind = "dpd" /\ u.pending.attempts = 1 /\ u.pending.fast = TRUE
      BY <3>2 DEF Opens, Pending
    <3>4. left'["retry"] = FastBase
      BY <2>2, <3>3, RetryAfter
    <3>5. (awake + 1) + FastRest(1) + FastBase + 0 <= FastBound
      BY <1>2, <3>1, FastFacts, ClockAssumption
    <3> QED BY <2>1, <3>3, <3>4, <3>5
  <2>3. CASE Pending(s)
    <3> DEFINE tail == IF s.pending.kind = "dpd" THEN 0 ELSE 1 + FastTries * Short
    <3>1. /\ s.pending.fast /\ (s.pending.kind # "dpd" => s.fastDPDDue)
          /\ awake + FastRest(s.pending.attempts) + left["retry"] + tail <= FastBound
      BY <1>2, <2>1, <2>3 DEF Woken
    <3>2. /\ left["retry"] \in Nat /\ FastRest(s.pending.attempts) \in Nat /\ tail \in Nat
          /\ pendingTries(s.pending) = FastTries
      BY <1>2, <2>3, <3>1, FastFacts, RetryAfter DEF pendingTries
    <3>3. CASE Waits(s, due, u)
      <4>1. u.pending = s.pending /\ u.fastDPDDue = s.fastDPDDue /\ Pending(u)
        BY <2>3, <3>3 DEF Waits, Alike, Pending
      <4>2. left'["retry"] = left["retry"] - 1
        BY <1>6, <2>3, <4>1, RetryAfter
      <4>3. (awake + 1) + FastRest(s.pending.attempts) + (left["retry"] - 1) + tail <= FastBound
        BY <1>2, <3>1, <3>2, FastFacts
      <4> QED BY <2>1, <3>1, <4>1, <4>2, <4>3
    <3>4. CASE Repeats(s, due, u)
      <4>1. /\ u.pending.kind = s.pending.kind /\ u.fastDPDDue = s.fastDPDDue /\ Pending(u)
            /\ u.pending.fast = s.pending.fast /\ u.pending.attempts = s.pending.attempts + 1
            /\ s.pending.attempts + 1 <= FastTries
        BY <2>3, <3>2, <3>4 DEF Repeats, Alike, Pending
      <4>2. u.pending.attempts # s.pending.attempts
        BY <1>2, <2>3, <4>1
      <4>3. left'["retry"] = FastBase
        BY <2>3, <3>1, <4>1, <4>2, RetryAfter DEF pendingBackoff
      <4>4. FastRest(s.pending.attempts) = FastRest(s.pending.attempts + 1) + Short
        BY <1>2, <2>3, <4>1, FastFacts
      <4>5. FastRest(s.pending.attempts + 1) \in Nat
        BY <1>2, <2>3, FastFacts
      <4>6. (awake + 1) + FastRest(s.pending.attempts + 1) + FastBase + tail <= FastBound
        BY <1>2, <3>1, <3>2, <4>4, <4>5, FastFacts, ClockAssumption
      <4> QED BY <2>1, <3>1, <4>1, <4>3, <4>6
    <3>5. CASE Abandons(s, due, u)
      <4>1. ~Pending(u) /\ s.pending.kind # "dpd" /\ u.fastDPDDue = s.fastDPDDue
        BY <3>5 DEF Abandons, Pending
      <4>2. (awake + 1) + FastTries * Short <= FastBound
        BY <1>2, <3>1, <3>2, <4>1, FastFacts
      <4> QED BY <2>1, <3>1, <4>1, <4>2
    <3> QED BY <1>1, <1>6, <2>3, <3>3, <3>4, <3>5 DEF Outcome
  <2> QED BY <2>2, <2>3
<1> QED BY <1>4, <1>5, <1>6

\* Without a wake, the waits spent and left since the silence stay within the bound.
LEMMA UndisturbedStep ==
    ASSUME ClockInv, NEW u, NEW l, NEW due, Ticked(u, l, due), u.status = "up"
    PROVE  Undisturbed'
<1>1. /\ s.status = "up" /\ u = s' /\ Outcome(s, due, u) /\ ("wake" \in due <=> woken)
      /\ awake' = IF woken THEN 0 ELSE IF awake > FastBound THEN awake ELSE awake + 1
      /\ since' \in Nat /\ since' <= since + 1
      /\ idle' = (IF idle > Dpd THEN idle ELSE idle + 1) /\ (idle' > Dpd => "idle" \in due)
  BY DEF Ticked, Found
<1>2. /\ awake \in Nat /\ idle \in Nat /\ since \in Nat /\ Woken /\ Undisturbed
      /\ Pending(s) => s.pending.attempts \in Nat \ {0}
      /\ left \in [Clocks -> Nat \cup {Off, Passed}]
  BY <1>1 DEF ClockInv, Clocked, Shaped
<1>3. Dpd \in Nat /\ Base \in Nat /\ Retry \in Nat /\ Retry > 1 /\ Tries \in Nat \ {0}
  BY ClockAssumption, TriesAssumption
<1> DEFINE U ==
        /\ ~u.fastDPDDue
        /\ since' <= idle' \/ idle' > Dpd
        /\ ~Pending(u) =>
              \/ since' <= Dpd
              \/ /\ since' <= Dpd + 1 + Span
                 /\ u.childReestablish => u.throttled /\ left'["backoff"] > 1
        /\ Pending(u) =>
              /\ ~u.pending.fast /\ u.pending.attempts <= Tries
              /\ IF u.pending.kind = "dpd"
                 THEN since' + Rest[Tries - u.pending.attempts] + left'["retry"] <= DeadBound
                 ELSE /\ u.pending.reest
                      /\ since' + Rest[Tries - u.pending.attempts] + left'["retry"] <= Dpd + Span
<1>4. SUFFICES ASSUME awake' = Never, NoRekeyDue' PROVE U
  <2>1. Pending(s)' = Pending(u) /\ s' = u
    BY <1>1 DEF Pending
  <2>2. Never' = Never /\ Span' = Span /\ DeadBound' = DeadBound /\ Rest' = Rest
    BY DEF Never, FastBound, Span, DeadBound, Rest, Delay, Power
  <2> QED BY <2>1, <2>2 DEF Undisturbed
<1>5. ~woken /\ awake = Never
  <2>1. ~woken
    BY <1>1, <1>4, FastFacts DEF Never
  <2>2. ASSUME awake # Never PROVE awake <= FastBound
    <3>1. ~Pending(s) => awake <= FastBound
      BY <1>2, <2>2, FastFacts DEF Woken
    <3>2. ASSUME Pending(s) PROVE awake <= FastBound
      <4>1. left["retry"] \in Nat /\ FastRest(s.pending.attempts) \in Nat
        BY <1>2, <3>2, FastFacts, RetryAfter
      <4> QED BY <1>2, <2>2, <3>2, <4>1, FastFacts DEF Woken
    <3> QED BY <3>1, <3>2
  <2> QED BY <1>1, <1>2, <1>4, <2>1, <2>2, FastFacts DEF Never
<1>6. NoRekeyDue /\ due \cap {"volume", "ike", "child"} = {}
  <2>1. ASSUME NEW k \in {"ike", "child", "volume"} PROVE left[k] = Off /\ k \notin due
    <3>1. left'[k] = Off
      BY <1>4, <2>1 DEF NoRekeyDue
    <3>2. l[k] = Off
      BY <1>3, <3>1 DEF Ticked, Rearmed, Off
    <3> QED BY <2>1, <3>2 DEF Ticked, Later, Found, Clocks, Off, Passed
  <2> QED BY <2>1 DEF NoRekeyDue
<1>7. /\ ~s.fastDPDDue /\ (since <= idle \/ idle > Dpd)
      /\ ~Pending(s) =>
            \/ since <= Dpd
            \/ /\ since <= Dpd + 1 + Span
               /\ s.childReestablish => s.throttled /\ left["backoff"] > 1
      /\ Pending(s) =>
            /\ ~s.pending.fast /\ s.pending.attempts <= Tries
            /\ IF s.pending.kind = "dpd"
               THEN since + Rest[Tries - s.pending.attempts] + left["retry"] <= DeadBound
               ELSE /\ s.pending.reest
                    /\ since + Rest[Tries - s.pending.attempts] + left["retry"] <= Dpd + Span
  BY <1>2, <1>5, <1>6 DEF Undisturbed
<1>8. since' <= idle' \/ idle' > Dpd
  BY <1>1, <1>2, <1>3, <1>7
<1>9. DeadBound = Dpd + 2 * Span + 1
  BY DEF DeadBound
<1>10. CASE ~Pending(s)
  <2>1. Reestablishes(s, due, u) \/ Probes(s, u) \/ Rests(s, due, u)
    BY <1>1, <1>5, <1>6, <1>7, <1>10 DEF Outcome, ProbesFast, Rekeys
  <2>2. ASSUME Reestablishes(s, due, u) PROVE U
    <3>1. /\ Pending(u) /\ u.pending.kind = "child" /\ u.pending.attempts = 1
          /\ u.pending.fast = FALSE /\ u.pending.reest = TRUE /\ u.fastDPDDue = s.fastDPDDue
      BY <2>2 DEF Reestablishes, Opens, Pending
    <3>2. since <= Dpd
      <4>1. s.throttled => "backoff" \in due /\ l["backoff"] \in {0, Passed}
        BY <2>2 DEF Reestablishes, Ticked, Found, Clocks
      <4>2. left["backoff"] > 1 => left["backoff"] \in Nat /\ l["backoff"] = left["backoff"] - 1
        BY <1>2 DEF Ticked, Later, Clocks, Off, Passed
      <4> QED BY <1>7, <1>10, <2>2, <4>1, <4>2 DEF Reestablishes, Passed
    <3>3. left'["retry"] = Base
      BY <1>10, <3>1, RetryAfter
    <3>4. Rest[Tries - 1] \in Nat
      BY <1>3, SpanFacts
    <3>5. since' + Rest[Tries - 1] + Base <= Dpd + Span
      BY <1>1, <1>2, <1>3, <3>2, <3>4, SpanFacts
    <3> QED BY <1>3, <1>7, <1>8, <3>1, <3>3, <3>5
  <2>3. ASSUME Probes(s, u) PROVE U
    <3>1. /\ Pending(u) /\ u.pending.kind = "dpd" /\ u.pending.attempts = 1
          /\ u.pending.fast = FALSE /\ u.fastDPDDue = s.fastDPDDue
      BY <2>3 DEF Probes, Opens, Pending, Alike
    <3>2. left'["retry"] = Base
      BY <1>10, <3>1, RetryAfter
    <3>3. Rest[Tries - 1] \in Nat
      BY <1>3, SpanFacts
    <3>4. since' + Rest[Tries - 1] + Base <= DeadBound
      BY <1>1, <1>2, <1>3, <1>7, <1>9, <1>10, <3>3, SpanFacts
    <3> QED BY <1>3, <1>7, <1>8, <3>1, <3>2, <3>4
  <2>4. ASSUME Rests(s, due, u) PROVE U
    <3>1. ~Pending(u) /\ u.fastDPDDue = s.fastDPDDue /\ ~(idle' > Dpd)
      BY <1>1, <1>10, <2>4 DEF Rests, Alike, Pending
    <3>2. since' <= Dpd
      BY <1>1, <1>2, <1>3, <1>8, <3>1
    <3> QED BY <1>7, <1>8, <3>1, <3>2
  <2> QED BY <2>1, <2>2, <2>3, <2>4
<1>11. CASE Pending(s)
  <2> DEFINE bound == IF s.pending.kind = "dpd" THEN DeadBound ELSE Dpd + Span
  <2>1. /\ since + Rest[Tries - s.pending.attempts] + left["retry"] <= bound /\ bound \in Int
        /\ s.pending.attempts \in 1..Tries /\ left["retry"] \in Nat
        /\ Rest[Tries - s.pending.attempts] \in Nat
    <3>1. s.pending.attempts \in 1..Tries /\ left["retry"] \in Nat
      BY <1>2, <1>3, <1>7, <1>11, RetryAfter
    <3> QED BY <1>3, <1>7, <1>9, <1>11, <3>1, SpanFacts
  <2> HIDE DEF bound
  <2>2. ASSUME Waits(s, due, u) PROVE U
    <3>1. u.pending = s.pending /\ u.fastDPDDue = s.fastDPDDue /\ Pending(u)
      BY <1>11, <2>2 DEF Waits, Alike, Pending
    <3>2. left'["retry"] = left["retry"] - 1
      BY <1>5, <1>11, <3>1, RetryAfter
    <3>3. since' + Rest[Tries - s.pending.attempts] + (left["retry"] - 1) <= bound
      BY <1>1, <1>2, <2>1
    <3> QED BY <1>7, <1>8, <1>11, <3>1, <3>2, <3>3 DEF bound
  <2>3. ASSUME Repeats(s, due, u) PROVE U
    <3>0. pendingTries(s.pending) = Tries
      BY <1>7, <1>11 DEF pendingTries
    <3>1. /\ u.pending.kind = s.pending.kind /\ u.fastDPDDue = s.fastDPDDue /\ Pending(u)
          /\ u.pending.fast = s.pending.fast /\ u.pending.reest = s.pending.reest
          /\ u.pending.attempts = s.pending.attempts + 1 /\ s.pending.attempts + 1 <= Tries
      BY <1>11, <2>3, <3>0 DEF Repeats, Alike, Pending
    <3>2. u.pending.attempts # s.pending.attempts
      BY <2>1, <3>1
    <3>3. left'["retry"] = retransBackoff[s.pending.attempts + 1]
      BY <1>7, <1>11, <3>1, <3>2, RetryAfter DEF pendingBackoff
    <3>4. /\ Rest[Tries - s.pending.attempts] =
                Rest[Tries - (s.pending.attempts + 1)] + retransBackoff[s.pending.attempts + 1] + 1
          /\ Rest[Tries - (s.pending.attempts + 1)] \in Nat
          /\ retransBackoff[s.pending.attempts + 1] \in Nat
      <4>1. s.pending.attempts + 1 \in 1..Tries /\ s.pending.attempts + 1 \in Nat
        BY <1>3, <2>1, <3>1
      <4> QED BY <2>1, <3>1, <4>1, SpanFacts, BackoffDef
    <3>5. since' + Rest[Tries - (s.pending.attempts + 1)] + retransBackoff[s.pending.attempts + 1] <= bound
      BY <1>1, <1>2, <2>1, <3>4
    <3> QED BY <1>7, <1>8, <1>11, <3>1, <3>3, <3>5 DEF bound
  <2>4. ASSUME Abandons(s, due, u) PROVE U
    <3>1. ~Pending(u) /\ s.pending.kind # "dpd" /\ u.fastDPDDue = s.fastDPDDue
      BY <2>4 DEF Abandons, Pending
    <3>2. s.pending.reest
      BY <1>7, <1>11, <3>1
    <3>3. u.throttled = TRUE /\ left'["backoff"] = Retry
      BY <2>4, <3>1, <3>2 DEF Abandons, Ticked, Rearmed
    <3>4. since' <= Dpd + 1 + Span
      BY <1>1, <1>2, <1>3, <2>1, <3>1, SpanFacts DEF bound
    <3> QED BY <1>3, <1>7, <1>8, <3>1, <3>3, <3>4
  <2> QED BY <1>1, <1>5, <1>11, <2>2, <2>3, <2>4 DEF Outcome
<1> QED BY <1>10, <1>11

\* A tick keeps the invariant.
LEMMA TickInv == ASSUME ClockInv, Tick PROVE ClockInv'
<1>1. PICK u, l, due : Ticked(u, l, due)
  BY TickFacts
<1>2. u = s' /\ Shaped(u)
  BY <1>1 DEF Ticked
<1>3. Shaped(s)'
  BY <1>2 DEF Shaped, Pending, SessionFields, ExchangeFields, NoIKE
<1>4. Clocked'
  BY <1>1, ClockedStep
<1>5. (s.status = "up")' => Woken' /\ Undisturbed'
  BY <1>1, <1>2, WokenStep, UndisturbedStep
<1> QED BY <1>3, <1>4, <1>5 DEF ClockInv

-----------------------------------------------------------------------------
(* The other steps, and what the invariant says.                           *)
LEMMA InitClockInv == ASSUME Init PROVE ClockInv
<1>1. PICK t : t = InitialSession(FALSE)
  OBVIOUS
<1>2. PICK queued : queued \in BOOLEAN /\ s = [t EXCEPT !.childReestablish = queued]
  BY <1>1 DEF Init
<1>3. /\ DOMAIN t = SessionFields /\ t.oldIKE = NoIKE /\ t.oldIKEDelete = NoExchange
      /\ t.pending = NoExchange /\ t.fastDPDDue = FALSE /\ t.throttled = FALSE
  BY <1>1 DEF InitialSession, SessionFields
<1>4. /\ DOMAIN s = SessionFields /\ s.oldIKE = NoIKE /\ s.oldIKEDelete = NoExchange
      /\ s.pending = NoExchange /\ s.fastDPDDue = FALSE /\ s.throttled = FALSE
      /\ s.childReestablish = queued
  BY <1>2, <1>3 DEF SessionFields
<1>5. PICK x : x = NoExchange
  OBVIOUS
<1>6. DOMAIN x = ExchangeFields /\ x.kind = "none" /\ x.fast = FALSE /\ x.reest = FALSE
  BY <1>5 DEF NoExchange, ExchangeFields
<1>7. Shaped(s) /\ ~Pending(s)
  BY <1>2, <1>4, <1>5, <1>6 DEF Shaped, Pending
<1>8. left \in [Clocks -> Nat \cup {Off, Passed}]
  BY ClockAssumption DEF Init, InitialClocks, AllOff, Clocks
<1>9. /\ idle = 0 /\ woken = FALSE /\ silent = FALSE /\ since = 0 /\ awake = Never
      /\ Never \in Nat /\ Dpd \in Nat
  BY FastFacts, ClockAssumption DEF Init, Never
<1>10. Clocked
  <2>1. awake \in Nat /\ awake <= Never
    BY <1>9
  <2> QED BY <1>7, <1>8, <1>9, <2>1 DEF Clocked
<1>11. Woken /\ Undisturbed
  BY <1>4, <1>7, <1>9 DEF Woken, Undisturbed
<1> QED BY <1>7, <1>10, <1>11 DEF ClockInv

\* So does every other step: none touches the session or the clocks.
LEMMA ClockStep == ASSUME ClockInv, [Next]_vars PROVE ClockInv'
<1> DEFINE Kept == /\ UNCHANGED <<s, left, awake, since>> /\ idle' \in Nat /\ woken' \in BOOLEAN
                   /\ ~silent' => since = 0
                   /\ (since <= idle \/ idle > Dpd) => (since <= idle' \/ idle' > Dpd)
<1>1. ASSUME Kept PROVE ClockInv'
  <2>1. s' = s /\ left' = left /\ awake' = awake /\ since' = since
    BY <1>1
  <2>2. Shaped(s)'
    BY <2>1 DEF ClockInv, Shaped, Pending, SessionFields, ExchangeFields, NoIKE
  <2>3. Never' = Never /\ Span' = Span /\ DeadBound' = DeadBound /\ Rest' = Rest /\ FastBound' = FastBound
        /\ Short' = Short
    BY DEF Never, FastBound, Span, DeadBound, Rest, Delay, Power, Short
  <2>4. Pending(s)' = Pending(s) /\ FastRest(s.pending.attempts)' = FastRest(s.pending.attempts)
        /\ NoRekeyDue' = NoRekeyDue
    BY <2>1 DEF Pending, FastRest, Short, NoRekeyDue
  <2>5. Clocked'
    BY <1>1, <2>1, <2>3, <2>4 DEF ClockInv, Clocked, Clocks, Off, Passed
  <2>6. (s.status = "up")' => Woken'
    BY <2>1, <2>3, <2>4 DEF ClockInv, Woken
  <2>7. (s.status = "up")' => Undisturbed'
    BY <1>1, <2>1, <2>3, <2>4 DEF ClockInv, Undisturbed
  <2> QED BY <2>2, <2>5, <2>6, <2>7 DEF ClockInv
<1>2. idle \in Nat /\ since \in Nat /\ woken \in BOOLEAN /\ (~silent => since = 0)
  BY DEF ClockInv, Clocked
<1>3. CASE Data
  BY <1>1, <1>2, <1>3 DEF Data
<1>4. CASE Silence
  BY <1>1, <1>2, <1>4 DEF Silence
<1>5. CASE Suspend
  BY <1>1, <1>2, <1>5 DEF Suspend
<1>6. CASE UNCHANGED vars
  BY <1>1, <1>2, <1>6 DEF vars
<1> QED BY <1>3, <1>4, <1>5, <1>6, TickInv DEF Next

\* The invariant holds in every reachable state.
LEMMA ClockInvHolds == Spec => []ClockInv
BY InitClockInv, ClockStep, PTL DEF Spec

\* A gateway that has gone silent is declared dead in time while no rekey is due,
\* for every schedule of retransmissions and every idle interval (housekeeping).
THEOREM SilentGatewayDies == Spec => []DeadInTime
<1>1. ASSUME ClockInv PROVE DeadInTime
  <2> SUFFICES ASSUME silent, NoRekeyDue, awake = Never, s.status = "up" PROVE since <= DeadBound
    BY DEF DeadInTime
  <2>1. Undisturbed /\ since \in Nat /\ (Pending(s) => left["retry"] \in Nat)
        /\ (Pending(s) => s.pending.attempts \in Nat \ {0})
    BY <1>1 DEF ClockInv, Clocked, Shaped
  <2>2. Dpd \in Nat /\ Tries \in Nat /\ Span \in Nat
    BY ClockAssumption, TriesAssumption, SpanFacts
  <2>3. CASE ~Pending(s)
    BY <2>1, <2>2, <2>3 DEF Undisturbed, DeadBound
  <2>4. CASE Pending(s)
    <3>1. s.pending.attempts \in 1..Tries
      BY <2>1, <2>2, <2>4 DEF Undisturbed
    <3>2. Rest[Tries - s.pending.attempts] \in Nat /\ left["retry"] \in Nat
      BY <2>1, <2>4, <3>1, SpanFacts
    <3> QED BY <2>1, <2>2, <2>4, <3>2 DEF Undisturbed, DeadBound
  <2> QED BY <2>3, <2>4
<1> QED BY <1>1, ClockInvHolds, PTL

\* After a wake a gateway that does not answer is declared dead within the short
\* waits of what the suspend caught half-way and of the fast probe (detectSuspend).
THEOREM WakeFindsOut == Spec => []DeadSoonAfterWake
<1>1. ASSUME ClockInv PROVE DeadSoonAfterWake
  <2> SUFFICES ASSUME s.status = "up" PROVE awake # FastBound + 1
    BY DEF DeadSoonAfterWake
  <2>1. Woken /\ awake \in Nat /\ (Pending(s) => left["retry"] \in Nat)
        /\ (Pending(s) => s.pending.attempts \in Nat \ {0})
    BY <1>1 DEF ClockInv, Clocked, Shaped
  <2>2. CASE awake = Never
    BY <2>2, FastFacts DEF Never
  <2>3. CASE awake # Never /\ ~Pending(s)
    BY <2>1, <2>3, FastFacts DEF Woken
  <2>4. CASE awake # Never /\ Pending(s)
    <3>1. FastRest(s.pending.attempts) \in Nat /\ left["retry"] \in Nat
      BY <2>1, <2>4, FastFacts
    <3> QED BY <2>1, <2>4, <3>1, FastFacts DEF Woken
  <2> QED BY <2>2, <2>3, <2>4
<1> QED BY <1>1, ClockInvHolds, PTL
=============================================================================
