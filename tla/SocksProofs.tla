---------------------------- MODULE SocksProofs ----------------------------
(***************************************************************************)
(* The slots of the proxy are exact, and what a splice promises is         *)
(* relayed, for every number of connections, every limit and timeout.      *)
(***************************************************************************)
EXTENDS Socks, FiniteSetTheorems, TLAPS

USE ZenonT(2), SMTT(30), ZenonT(20)

Running == {c \in Conns : phase[c] \in Handled}

\* What makes SlotsExact inductive: a connection that waits for a slot is not
\* handled yet, so that its handler is one more.
SlotInv ==
    /\ scene \in Scenes /\ held \in Nat
    /\ phase \in [Conns -> {"none", "accepted", "closed"} \cup Handled]
    /\ acceptor \in {"accept", "returned"} \cup Conns
    /\ acceptor \in Conns => phase[acceptor] = "accepted"
    /\ SlotsExact

LEMMA RunningFinite == IsFiniteSet(Running)
<1>1. Running \subseteq Conns
  BY DEF Running
<1> QED BY <1>1, FS_Subset, SocksAssumption

\* One connection comes to be handled, or ceases to be.
LEMMA Enters ==
    ASSUME NEW c \in Conns, NEW k \in Handled, phase \in [Conns -> {"none", "accepted", "closed"} \cup Handled],
           phase[c] \notin Handled, phase' = [phase EXCEPT ![c] = k]
    PROVE  Cardinality(Running') = Cardinality(Running) + 1
<1>1. Running' = Running \cup {c} /\ c \notin Running
  BY DEF Running
<1> QED BY <1>1, RunningFinite, FS_AddElement

LEMMA Leaves ==
    ASSUME NEW c \in Conns, phase \in [Conns -> {"none", "accepted", "closed"} \cup Handled],
           phase[c] \in Handled, phase' = [phase EXCEPT ![c] = "closed"]
    PROVE  Cardinality(Running') = Cardinality(Running) - 1
<1>1. Running' = Running \ {c} /\ c \in Running
  BY DEF Running, Handled
<1> QED BY <1>1, RunningFinite, FS_RemoveElement

\* A step by which nobody enters or leaves.
LEMMA Stays ==
    ASSUME SlotInv, UNCHANGED <<scene, held>>, Running' = Running,
           phase' \in [Conns -> {"none", "accepted", "closed"} \cup Handled],
           acceptor' \in {"accept", "returned"} \cup Conns,
           acceptor' \in Conns => phase'[acceptor'] = "accepted"
    PROVE  SlotInv'
BY DEF SlotInv, SlotsExact, Running

LEMMA LeaveInv ==
    ASSUME SlotInv, NEW c \in Conns, phase[c] \in Handled, Leave(c), UNCHANGED <<scene, acceptor>>
    PROVE  SlotInv'
<1>1. Cardinality(Running') = Cardinality(Running) - 1
  BY Leaves DEF Leave, SlotInv
<1>2. Cardinality(Running) \in Nat /\ Cardinality(Running') \in Nat
  <2>1. IsFiniteSet(Running')
    BY RunningFinite, FS_Subset, SocksAssumption DEF Running
  <2> QED BY <2>1, RunningFinite, FS_CardinalityType
<1>3. scene.max \in Nat
  BY SocksAssumption DEF SlotInv
<1>4. scene.max > 0 => held = Cardinality(Running) /\ held <= scene.max
  BY DEF SlotInv, SlotsExact, Running
<1>5. held' \in Nat
  BY <1>1, <1>2, <1>3, <1>4 DEF Leave, SlotInv
<1>6. SlotsExact'
  BY <1>1, <1>2, <1>3, <1>4 DEF Leave, SlotsExact, Running, SlotInv
<1>7. \A d \in Conns : phase[d] = "accepted" => phase'[d] = "accepted"
  BY DEF Leave, SlotInv, Handled
<1> QED BY <1>5, <1>6, <1>7 DEF Leave, SlotInv

LEMMA SpawnInv ==
    ASSUME SlotInv, NEW c \in Conns, Spawn(c)
    PROVE  SlotInv'
<1>1. phase[c] \notin Handled /\ "negotiate" \in Handled
  BY DEF Spawn, SlotInv, Handled
<1>2. Cardinality(Running') = Cardinality(Running) + 1
  BY <1>1, Enters DEF Spawn, SlotInv
<1>3. scene.max \in Nat
  BY SocksAssumption DEF SlotInv
<1>4. SlotsExact'
  BY <1>2, <1>3 DEF Spawn, SlotsExact, Running, SlotInv
<1> QED BY <1>1, <1>4, SocksAssumption DEF Spawn, SlotInv

LEMMA SlotNextInv == SlotInv /\ [Next]_vars => SlotInv'
<1> SUFFICES ASSUME SlotInv, [Next]_vars PROVE SlotInv'
  OBVIOUS
<1>1. CASE UNCHANGED <<scene, held, phase, acceptor>>
  BY <1>1, Stays DEF SlotInv, Running
<1>2. ASSUME NEW c \in Conns, Accept(c) PROVE SlotInv'
  <2>1. Running' = Running
    BY <1>2 DEF Accept, SlotInv, Running, Handled
  <2> QED BY <1>2, <2>1, Stays DEF Accept, SlotInv
<1>3. ASSUME NEW c \in Conns, GiveUp(c) PROVE SlotInv'
  <2>1. Running' = Running
    BY <1>3 DEF GiveUp, SlotInv, Running, Handled
  <2> QED BY <1>3, <2>1, Stays, SocksAssumption DEF GiveUp, SlotInv
<1>4. CASE AcceptFails
  <2>1. Running' = Running
    BY <1>4 DEF AcceptFails, Running
  <2> QED BY <1>4, <2>1, Stays, SocksAssumption DEF AcceptFails, SlotInv
<1>5. ASSUME NEW c \in Conns, Progress(c) PROVE SlotInv'
  <2>1. PICK to \in Handled : <<phase[c], to>> \in Follows /\ phase' = [phase EXCEPT ![c] = to]
    BY <1>5 DEF Progress
  <2>2. phase[c] \in Handled
    BY <2>1 DEF Follows, Handled
  <2>3. Running' = Running
    BY <2>1, <2>2 DEF SlotInv, Running
  <2>4. \A d \in Conns : phase[d] = "accepted" => phase'[d] = "accepted"
    BY <2>1, <2>2 DEF SlotInv, Handled
  <2> QED BY <1>5, <2>1, <2>3, <2>4, Stays DEF Progress, SlotInv
<1>6. ASSUME NEW c \in Conns, Fail(c) \/ SpliceReturns(c) PROVE SlotInv'
  <2>1. phase[c] \in Handled /\ Leave(c) /\ UNCHANGED <<scene, acceptor>>
    BY <1>6 DEF Fail, SpliceReturns, Spliced, Handled
  <2> QED BY <2>1, LeaveInv
<1>7. ASSUME NEW c \in Conns,
             \/ Watchdog(c) \/ Tick(c)
             \/ \E d \in Dirs : PumpReads(c, d) \/ PumpWrites(c, d) \/ PumpEnds(c, d) \/ Peer(c, d)
      PROVE  UNCHANGED <<scene, held, phase, acceptor>>
  BY <1>7 DEF Watchdog, Tick, PumpReads, PumpWrites, PumpEnds, Peer, Relay
<1>8. CASE Cancel \/ CloseListener \/ UNCHANGED vars
  BY <1>1, <1>8 DEF Cancel, CloseListener, vars
<1> QED
  BY <1>1, <1>2, <1>3, <1>4, <1>5, <1>6, <1>7, <1>8, SpawnInv DEF Next, System, Environment

LEMMA SlotInit == Init => SlotInv
<1>1. Init => Running = {}
  BY DEF Init, Running, Handled
<1> QED BY <1>1, FS_EmptySet, SocksAssumption DEF Init, SlotInv, SlotsExact, Running

\* The proxy never runs more handlers than it has slots, and a slot is free again
\* as soon as its handler has returned, by whichever way.
THEOREM SlotsAlwaysExact == Spec => []SlotsExact
<1>1. SlotInv => SlotsExact
  BY DEF SlotInv
<1> QED
  BY <1>1, SlotInit, SlotNextInv, PTL DEF Spec

-----------------------------------------------------------------------------
(* splice.                                                                 *)

Links ==
    [pump : [Dirs -> {"off", "read", "write", "done"}], sent : [Dirs -> Nat], got : [Dirs -> Nat],
     fin : [Dirs -> BOOLEAN], eof : [Dirs -> BOOLEAN], sink : [Dirs -> {"reads", "slow", "gone"}],
     torn : BOOLEAN, quiet : Nat, still : Nat, silent : BOOLEAN]

\* The splice may end only when both directions have.
Healthy(l) == scene.half /\ scene.idle /\ ~l.silent /\ \A d \in Dirs : l.sink[d] = "reads"

\* What makes Relayed inductive: the time the watchdog measures is the time nothing
\* was read; a healthy splice is not torn down while it runs; and a pump of it is
\* done only when its source has ended and the sink has everything.
LinkOK(l, ph) ==
    /\ l.quiet = l.still /\ (l.quiet >= Idle => l.silent)
    /\ ph \notin {"splice", "closed"} => l = Unspliced
    /\ Healthy(l) =>
          /\ l.torn => ph = "closed" /\ \A d \in Dirs : l.got[d] = l.sent[d]
          /\ \A d \in Dirs : l.pump[d] = "done" => l.fin[d] /\ l.got[d] = l.sent[d]
LinkInv ==
    /\ link \in [Conns -> Links]
    /\ \A c \in Conns : LinkOK(link[c], phase[c])

\* A step of one splice, which keeps the others as they are.
LEMMA RelayInv ==
    ASSUME LinkInv, NEW c \in Conns, NEW l \in Links, Relay(c, l), LinkOK(l, phase[c])
    PROVE  LinkInv'
<1>1. link' = [link EXCEPT ![c] = l] /\ phase' = phase /\ scene' = scene
  BY DEF Relay
<1>2. link' \in [Conns -> Links]
  BY <1>1 DEF LinkInv
<1>3. ASSUME NEW x \in Conns PROVE LinkOK(link[x], phase[x])'
  <2>1. LinkOK(link'[x], phase'[x])
    BY <1>1 DEF LinkInv
  <2> QED BY <1>1, <2>1 DEF LinkOK, Healthy
<1> QED BY <1>2, <1>3 DEF LinkInv

\* The pumps.
LEMMA PumpInv ==
    ASSUME LinkInv, NEW c \in Conns, NEW d \in Dirs,
           PumpReads(c, d) \/ PumpWrites(c, d) \/ PumpEnds(c, d)
    PROVE  LinkInv'
<1> DEFINE l == link[c]
<1>1. l \in Links /\ LinkOK(l, phase[c]) /\ phase[c] = "splice"
  BY DEF LinkInv, PumpReads, PumpWrites, PumpEnds, Spliced
<1>2. CASE PumpReads(c, d)
  <2> DEFINE m == [l EXCEPT !.pump[d] = "write", !.quiet = 0, !.still = 0]
  <2>1. Relay(c, m)
    BY <1>2 DEF PumpReads
  <2> HIDE DEF l
  <2>2. m \in Links
    BY <1>1 DEF Links
  <2>3. LinkOK(m, phase[c])
    BY <1>1, SocksAssumption DEF Links, LinkOK, Healthy
  <2> QED BY <2>1, <2>2, <2>3, RelayInv
<1>3. CASE PumpWrites(c, d)
  <2> DEFINE m == [l EXCEPT !.pump[d] = "read", !.got[d] = @ + 1]
  <2> DEFINE t == Torn([l EXCEPT !.pump[d] = "done"])
  <2>1. \/ l.pump[d] = "write" /\ ~l.torn /\ Relay(c, m)
        \/ l.pump[d] = "write" /\ (l.torn \/ l.sink[d] = "gone") /\ Relay(c, t)
    BY <1>3 DEF PumpWrites
  <2> HIDE DEF l
  <2>2. m \in Links
    <3> DEFINE np == [l.pump EXCEPT ![d] = "read"]
    <3> DEFINE ng == [l.got EXCEPT ![d] = l.got[d] + 1]
    <3>1. np \in [Dirs -> {"off", "read", "write", "done"}] /\ ng \in [Dirs -> Nat]
      BY <1>1 DEF Links
    <3>2. m = [l EXCEPT !.pump = np, !.got = ng]
      BY <1>1 DEF Links
    <3> HIDE DEF np, ng, m
    <3> QED BY <1>1, <3>1, <3>2 DEF Links
  <2>5. t \in Links
    BY <1>1 DEF Links, Torn
  <2>3. ~l.torn => LinkOK(m, phase[c])
    BY <1>1, SocksAssumption DEF Links, LinkOK, Healthy
  <2>4. l.torn \/ l.sink[d] = "gone" => LinkOK(t, phase[c])
    BY <1>1, SocksAssumption DEF Links, LinkOK, Healthy, Torn
  <2> QED BY <2>1, <2>2, <2>3, <2>4, <2>5, RelayInv
<1>4. CASE PumpEnds(c, d)
  <2> DEFINE m == [l EXCEPT !.pump[d] = "done", !.eof[d] = TRUE]
  <2> DEFINE t == Torn([l EXCEPT !.pump[d] = "done"])
  <2>1. /\ l.pump[d] = "read" /\ (l.torn \/ (l.fin[d] /\ Taken(l, d) = l.sent[d]))
        /\ Relay(c, IF scene.half /\ scene.idle THEN m ELSE t)
    BY <1>4 DEF PumpEnds
  <2> HIDE DEF l
  <2>2. m \in Links
    BY <1>1 DEF Links
  <2>5. t \in Links
    BY <1>1 DEF Links, Torn
  <2>3. LinkOK(m, phase[c])
    BY <1>1, <2>1, SocksAssumption DEF Links, LinkOK, Healthy, Taken
  <2>4. ~(scene.half /\ scene.idle) => LinkOK(t, phase[c])
    BY <1>1, SocksAssumption DEF Links, LinkOK, Healthy, Torn
  <2> QED BY <2>1, <2>2, <2>3, <2>4, <2>5, RelayInv
<1> QED BY <1>2, <1>3, <1>4

\* Time, the watchdog and the peers.
LEMMA AroundInv ==
    ASSUME LinkInv, NEW c \in Conns, Watchdog(c) \/ Tick(c) \/ \E d \in Dirs : Peer(c, d)
    PROVE  LinkInv'
<1> DEFINE l == link[c]
<1>1. l \in Links /\ LinkOK(l, phase[c]) /\ phase[c] = "splice"
  BY DEF LinkInv, Watchdog, Tick, Peer, Spliced
<1>2. CASE Watchdog(c)
  <2>1. l.quiet >= Idle /\ Relay(c, Torn(l))
    BY <1>2 DEF Watchdog
  <2> HIDE DEF l
  <2>2. Torn(l) \in Links /\ LinkOK(Torn(l), phase[c])
    BY <1>1, <2>1 DEF Links, LinkOK, Healthy, Torn
  <2> QED BY <2>1, <2>2, RelayInv
<1>3. CASE Tick(c)
  <2> DEFINE b == l.silent \/ l.still + 1 >= Idle
  <2> DEFINE m == [l EXCEPT !.quiet = @ + 1, !.still = @ + 1, !.silent = b]
  <2>1. Relay(c, m)
    BY <1>3 DEF Tick
  <2>2. b \in BOOLEAN /\ (l.silent => b) /\ (l.still + 1 >= Idle => b)
    OBVIOUS
  <2> HIDE DEF l, b
  <2>3. m \in Links
    <3>1. l.quiet + 1 \in Nat /\ l.still + 1 \in Nat
      BY <1>1 DEF Links
    <3> QED BY <1>1, <2>2, <3>1 DEF Links
  <2>4. LinkOK(m, phase[c])
    BY <1>1, <2>2 DEF Links, LinkOK, Healthy
  <2> QED BY <2>1, <2>3, <2>4, RelayInv
<1>4. ASSUME NEW d \in Dirs, Peer(c, d) PROVE LinkInv'
  <2>1. CASE ~l.fin[d] /\ Relay(c, [l EXCEPT !.sent[d] = @ + 1])
    <3> DEFINE m == [l EXCEPT !.sent[d] = @ + 1]
    <3> HIDE DEF l
    <3>1. m \in Links
      BY <1>1 DEF Links
    <3>2. ~l.torn
      BY <1>4 DEF Peer, l
    <3>3. LinkOK(m, phase[c])
      BY <1>1, <2>1, <3>2 DEF Links, LinkOK, Healthy
    <3> QED BY <2>1, <3>1, <3>3, RelayInv
  <2>2. CASE Relay(c, [l EXCEPT !.fin[d] = TRUE])
    <3> DEFINE m == [l EXCEPT !.fin[d] = TRUE]
    <3> HIDE DEF l
    <3>1. m \in Links
      BY <1>1 DEF Links
    <3>2. LinkOK(m, phase[c])
      BY <1>1, <2>1 DEF Links, LinkOK, Healthy
    <3> QED BY <2>2, <3>1, <3>2, RelayInv
  <2>3. ASSUME NEW k \in {"slow", "gone"}, l.sink[d] = "reads", Relay(c, [l EXCEPT !.sink[d] = k])
        PROVE  LinkInv'
    <3> DEFINE m == [l EXCEPT !.sink[d] = k]
    <3> HIDE DEF l
    <3>1. m \in Links
      BY <1>1 DEF Links
    <3>2. LinkOK(m, phase[c])
      BY <1>1 DEF Links, LinkOK, Healthy
    <3> QED BY <2>3, <3>1, <3>2, RelayInv
  <2> QED BY <1>4, <2>1, <2>2, <2>3 DEF Peer
<1> QED BY <1>2, <1>3, <1>4

\* A handler moves on or returns without a splice, or the splice returns.
LEMMA HandlerInv ==
    ASSUME LinkInv, NEW c \in Conns,
           phase \in [Conns -> {"none", "accepted", "closed"} \cup Handled],
           Accept(c) \/ Spawn(c) \/ GiveUp(c) \/ Fail(c) \/ Progress(c) \/ SpliceReturns(c),
           acceptor = c => phase[c] = "accepted"
    PROVE  LinkInv'
<1>1. link \in [Conns -> Links] /\ \A x \in Conns : LinkOK(link[x], phase[x])
  BY DEF LinkInv
<1>2. ASSUME NEW ph, NEW l \in Links, LinkOK(l, ph), scene' = scene,
             phase' = [phase EXCEPT ![c] = ph], link' = [link EXCEPT ![c] = l]
      PROVE  LinkInv'
  <2>1. link' \in [Conns -> Links]
    BY <1>1, <1>2
  <2>2. ASSUME NEW x \in Conns PROVE LinkOK(link[x], phase[x])'
    <3>1. LinkOK(link'[x], phase'[x])
      BY <1>1, <1>2
    <3> QED BY <1>2, <3>1 DEF LinkOK, Healthy
  <2> QED BY <2>1, <2>2 DEF LinkInv
<1>3. link[c] \in Links /\ link = [link EXCEPT ![c] = link[c]]
  BY <1>1
<1>4. CASE Accept(c) \/ Spawn(c) \/ GiveUp(c) \/ Fail(c)
  <2>1. PICK ph \in {"accepted", "negotiate", "closed"} :
           phase' = [phase EXCEPT ![c] = ph] /\ link' = link /\ scene' = scene
    BY <1>4 DEF Accept, Spawn, GiveUp, Fail, Leave
  <2>2. phase[c] \notin {"splice", "closed"}
    BY <1>4 DEF Accept, Spawn, GiveUp, Fail, Handled
  <2>3. LinkOK(link[c], ph)
    BY <1>1, <2>2 DEF LinkOK, Unspliced
  <2> QED BY <1>2, <1>3, <2>1, <2>3
<1>5. CASE Progress(c)
  <2>1. PICK to \in Handled : <<phase[c], to>> \in Follows
           /\ phase' = [phase EXCEPT ![c] = to] /\ scene' = scene
           /\ link' = IF to = "splice" THEN [link EXCEPT ![c].pump = [d \in Dirs |-> "read"]] ELSE link
    BY <1>5 DEF Progress
  <2>2. phase[c] \notin {"splice", "closed"}
    BY <2>1 DEF Follows
  <2>3. link[c] = Unspliced
    BY <1>1, <2>2 DEF LinkOK
  <2> DEFINE l == [Unspliced EXCEPT !.pump = [d \in Dirs |-> "read"]]
  <2>4. l \in Links /\ LinkOK(l, "splice")
    <3>1. l \in Links
      BY DEF Links, Unspliced
    <3>2. /\ l.quiet = 0 /\ l.still = 0 /\ l.torn = FALSE
          /\ \A d \in Dirs : l.pump[d] = "read"
      BY DEF Unspliced
    <3> QED BY <3>1, <3>2, SocksAssumption DEF LinkOK
  <2>5. CASE to = "splice"
    <3>1. link' = [link EXCEPT ![c] = l]
      BY <1>1, <2>1, <2>3, <2>5
    <3> HIDE DEF l
    <3> QED BY <1>2, <2>1, <2>4, <2>5, <3>1
  <2>6. CASE to # "splice"
    <3>1. LinkOK(link[c], to)
      BY <1>1, <2>2, <2>3, <2>6 DEF LinkOK, Unspliced
    <3> QED BY <1>2, <1>3, <2>1, <2>6, <3>1
  <2> QED BY <2>5, <2>6
<1>6. CASE SpliceReturns(c)
  <2>1. /\ \A d \in Dirs : link[c].pump[d] = "done"
        /\ link' = [link EXCEPT ![c] = Torn(link[c])]
        /\ phase' = [phase EXCEPT ![c] = "closed"] /\ scene' = scene
        /\ phase[c] = "splice"
    BY <1>6 DEF SpliceReturns, Leave, Spliced
  <2>2. Torn(link[c]) \in Links
    BY <1>3 DEF Links, Torn
  <2>3. LinkOK(Torn(link[c]), "closed")
    <3> DEFINE l == link[c]
    <3>1. l \in Links /\ LinkOK(l, "splice") /\ \A d \in Dirs : l.pump[d] = "done"
      BY <1>1, <1>3, <2>1
    <3> HIDE DEF l
    <3>2. LinkOK(Torn(l), "closed")
      BY <3>1 DEF Links, LinkOK, Healthy, Torn
    <3> QED BY <3>2 DEF l
  <2> QED BY <1>2, <2>1, <2>2, <2>3
<1> QED BY <1>4, <1>5, <1>6

LEMMA LinkNextInv == SlotInv /\ LinkInv /\ [Next]_vars => LinkInv'
<1> SUFFICES ASSUME SlotInv, LinkInv, [Next]_vars PROVE LinkInv'
  OBVIOUS
<1>1. CASE UNCHANGED <<scene, phase, link>>
  BY <1>1 DEF LinkInv, LinkOK, Healthy
<1>2. CASE AcceptFails \/ Cancel \/ CloseListener \/ UNCHANGED vars
  BY <1>1, <1>2 DEF AcceptFails, Cancel, CloseListener, vars
<1>3. ASSUME NEW c \in Conns,
             Accept(c) \/ Spawn(c) \/ GiveUp(c) \/ Fail(c) \/ Progress(c) \/ SpliceReturns(c)
      PROVE  LinkInv'
  BY <1>3, HandlerInv DEF SlotInv
<1> QED
  BY <1>2, <1>3, PumpInv, AroundInv DEF Next, System, Environment

\* A direction of a splice whose sinks keep reading is relayed to its end, although
\* the other one ended first and although only one is active, unless both were
\* quiet for the idle timeout (splice, its pumps and its watchdog).
THEOREM RelayedToTheEnd == Spec => []Relayed
<1>1. Init => SlotInv /\ LinkInv
  <2>1. ASSUME Init PROVE LinkInv
    <3>1. Unspliced \in Links /\ LinkOK(Unspliced, "none")
      BY SocksAssumption DEF Unspliced, Links, LinkOK, Dirs
    <3> QED BY <2>1, <3>1 DEF Init, LinkInv
  <2> QED BY <2>1, SlotInit
<1>2. LinkInv => Relayed
  BY DEF LinkInv, LinkOK, Healthy, Relayed
<1> QED BY <1>1, <1>2, SlotNextInv, LinkNextInv, PTL DEF Spec
=============================================================================
