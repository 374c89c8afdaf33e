---------------------------- MODULE ClientProofs ----------------------------
(***************************************************************************)
(* The two halves of a Client: its teardown order, for any number of       *)
(* callers of Close, of generations and of panics, and the inbound         *)
(* registry under rekeys, grace timers and reconnects, for any set of SPIs *)
(* and any number of SAs.                                                  *)
(***************************************************************************)
EXTENDS Client, DataPlane, TLAPS

USE ZenonT(2), SMTT(30), ZenonT(20)

Busy == {"reconnect", "wait", "redial", "dialing", "build", "publish"} \cup Kind

\* Before Dial publishes the first Manager nothing else has begun.
Starts ==
    /\ pc["dial"] \in {"launch", "publish", "done"} \cup Kind
    /\ pc["sup"] \in {"off", "idle", "exit"} \cup Busy
    /\ mgr = 0 <=> pc["dial"] \in {"launch", "publish"}
    /\ mgr = 0 => /\ gen = 1 /\ next = 1 /\ deathSig = 0 /\ once = "free" /\ ~cancelled
                  /\ pc["sup"] \in {"off", "idle"}
                  /\ \A c \in AllClosers : closer[c] = "idle"

\* The Manager is that of the current session, except while the supervisor is
\* between storing a session and publishing its Manager; from the wait until then
\* the Manager is shut down and drained, so that Dial can start nothing.
Generations ==
    /\ mgr <= gen /\ gen <= next
    /\ mgr # 0 /\ pc["sup"] # "publish" => mgr = gen
    /\ pc["sup"] \in Kind \cup {"publish"} => next = gen /\ sess[gen] = "open"
    /\ pc["sup"] = "build" => gen < next /\ sess[next] = "open"
    /\ pc["sup"] \in {"wait", "redial", "dialing", "build", "publish"} => mgr \in shut
    /\ pc["sup"] \in {"redial", "dialing", "build", "publish"} => Drained(mgr)
    /\ pc["sup"] \in {"redial", "dialing", "build"} => sess[gen] = "closed"

\* Only the current Manager has workers; the first, whose workers Dial may still
\* be starting, refuses more once it is superseded.
Workers ==
    /\ \A g \in Gen : g > mgr => \A k \in Kind : work[g][k] = "none"
    /\ \A g \in Gen : g < mgr => Drained(g)
    /\ mgr > 1 => 1 \in shut

\* Only the current session is open, and the one just dialed; a closed one has no
\* workers and gets none.
Sessions ==
    /\ \A g \in Gen : g > next => sess[g] = "none"
    /\ \A g \in Gen : g # gen /\ sess[g] = "open" => pc["sup"] = "build" /\ g = next
    /\ \A g \in Gen : sess[g] = "closed" => Drained(g) /\ (g = 1 => 1 \in shut)

\* How far a Close is, and what it has achieved by then.
Unpublished == ~(net = "up" /\ builder = "published")
Ended == mgr \in shut /\ pc["sup"] \in {"off", "exit"}
Closing ==
    /\ once # "free" => closed = TRUE
    /\ \A c \in AllClosers :
          /\ closer[c] \in {"cancel", "super", "workers", "session"} => closed = TRUE
          /\ closer[c] \in {"workers", "session"} => Ended
          /\ closer[c] = "session" => Drained(mgr) /\ Unpublished
    /\ once = "done" => Ended /\ Drained(mgr) /\ sess[gen] = "closed" /\ Unpublished
    /\ builder = "idle" => net = "none"
    /\ builder = "discarded" => net = "closed"

ClientInv == TypeOK /\ Starts /\ Generations /\ Workers /\ Sessions /\ Closing

LEMMA InitClientInv == Init => ClientInv
<1> SUFFICES ASSUME Init PROVE ClientInv
  OBVIOUS
<1> USE ClientAssumption DEF Gen, Thread, Kind
<1>1. TypeOK
  <2>1. cancelled \in BOOLEAN /\ closed \in BOOLEAN
    BY Zenon DEF Init
  <2> QED BY <2>1 DEF Init, TypeOK
<1>2. Starts /\ Generations
  BY DEF Init, Starts, Generations, Busy
<1>3. Workers /\ Sessions
  BY DEF Init, Workers, Sessions, Drained
<1>4. Closing
  BY DEF Init, Closing, Unpublished, Ended
<1> QED BY <1>1, <1>2, <1>3, <1>4 DEF ClientInv

\* Whatever a worker does, a generation that is drained stays so.
LEMMA WorkerInv ==
    ASSUME ClientInv, NEW g \in Gen, NEW k \in Kind, work[g][k] # "none", work[g][k] # "gone",
           NEW s \in {"leaving", "caught", "gone"}, Become(g, k, s),
           shut \subseteq shut', shut' \subseteq Gen, died' \subseteq Gen, panics' \in 0..MaxPanics,
           \/ UNCHANGED <<deathSig, closer>>
           \/ onDead(g),
           UNCHANGED <<pc, gen, next, sess, mgr, cancelled, closed, once, builder, net>>
    PROVE  ClientInv'
<1> USE ClientAssumption DEF Gen, AllClosers
<1>1. TypeOK /\ Starts /\ Generations /\ Workers /\ Sessions /\ Closing
  BY DEF ClientInv
<1>2. /\ work' \in [Gen -> [Kind -> {"none", "run", "leaving", "caught", "gone"}]]
      /\ work'[g][k] = s
      /\ \A h \in Gen, j \in Kind : h # g \/ j # k => work'[h][j] = work[h][j]
  BY <1>1 DEF Become, TypeOK
<1>3. \A h \in Gen : Drained(h) => Drained(h)'
  BY <1>2 DEF Drained
<1>4. mgr # 0 /\ g <= mgr
  BY <1>1 DEF Workers, TypeOK
<1>5. /\ deathSig' \in 0..1
      /\ closer' \in [AllClosers -> {"idle", "call", "cancel", "super", "workers", "session", "returned"}]
      /\ \A c \in AllClosers : closer'[c] # closer[c] => closer'[c] = "call"
  BY <1>1 DEF onDead, signalDeath, TypeOK
<1>6. TypeOK'
  BY <1>1, <1>2, <1>5 DEF TypeOK
<1>7. Starts'
  BY <1>1, <1>4 DEF Starts
<1>8. Generations'
  <2>1. mgr \in Gen /\ (Drained(mgr) => Drained(mgr)')
    BY <1>1, <1>3, <1>4 DEF TypeOK
  <2> QED BY <1>1, <2>1 DEF Generations, Drained
<1>9. Workers'
  <2>1. \A h \in Gen : h > mgr => \A j \in Kind : work'[h][j] = "none"
    BY <1>1, <1>2, <1>4 DEF Workers, TypeOK
  <2> QED BY <1>1, <1>3, <2>1 DEF Workers
<1>10. Sessions'
  BY <1>1, <1>3 DEF Sessions
<1>11. Closing'
  <2>1. mgr \in Gen /\ (Drained(mgr) => Drained(mgr)')
    BY <1>1, <1>3, <1>4 DEF TypeOK
  <2> QED BY <1>1, <1>5, <2>1 DEF Closing, Ended, Unpublished
<1> QED BY <1>6, <1>7, <1>8, <1>9, <1>10, <1>11 DEF ClientInv

\* Dial and the supervisor, the start of workers apart.
LEMMA SuperInv ==
    ASSUME ClientInv,
           \/ Launch \/ SupExits \/ SupTakes \/ StopGeneration \/ CloseDeadSession
           \/ Redial \/ DialFails \/ DialSucceeds \/ BuildFails \/ SwapGeneration
    PROVE  ClientInv'
<1> USE ClientAssumption DEF Gen, Thread, Kind, Busy
<1>1. TypeOK /\ Starts /\ Generations /\ Workers /\ Sessions /\ Closing
  BY DEF ClientInv
<1>2. UNCHANGED <<work, mgr, closed, once, closer, builder, net, panics, died>>
  BY DEF Launch, SupExits, SupTakes, StopGeneration, CloseDeadSession, Redial, DialFails,
         DialSucceeds, BuildFails, SwapGeneration, managers, sessions, closing, stack, history
<1>3. \A h \in Gen : Drained(h)' <=> Drained(h)
  BY <1>2 DEF Drained
<1>4. CASE Launch
  <2>1. TypeOK'
    BY <1>1, <1>2, <1>4 DEF Launch, sessions, managers, closing, TypeOK
  <2>4. Starts'
    BY <1>1, <1>2, <1>4 DEF Launch, sessions, closing, TypeOK, Starts
  <2>2. Generations' /\ Workers' /\ Sessions'
    BY <1>1, <1>2, <1>4 DEF Launch, sessions, managers, TypeOK, Starts, Generations, Workers,
                            Sessions, Drained
  <2>3. Closing'
    BY <1>1, <1>2, <1>4 DEF Launch, managers, sessions, Starts, Closing, Unpublished
  <2> QED BY <2>1, <2>2, <2>3, <2>4 DEF ClientInv
<1>5. CASE SupExits \/ SupTakes \/ Redial \/ DialFails
  <2>1. /\ pc' = [pc EXCEPT !["sup"] = pc'["sup"]]
        /\ \/ pc["sup"] = "idle" /\ pc'["sup"] = "exit" /\ cancelled
           \/ pc["sup"] = "idle" /\ deathSig = 1 /\ pc'["sup"] = "reconnect"
           \/ pc["sup"] \in {"redial", "dialing"} /\ pc'["sup"] \in {"idle", "redial", "dialing"}
        /\ deathSig' \in {deathSig, 0}
        /\ UNCHANGED <<gen, next, sess, shut, cancelled>>
    BY <1>1, <1>5 DEF SupExits, SupTakes, Redial, DialFails, Goto, sessions, managers, closing, TypeOK
  <2>2. TypeOK'
    BY <1>1, <1>2, <2>1 DEF TypeOK
  <2>5. Starts'
    <3>1. pc'["dial"] = pc["dial"] /\ pc'["sup"] \in {"off", "idle", "exit"} \cup Busy
      BY <1>1, <2>1 DEF TypeOK
    <3>2. mgr # 0
      BY <1>1, <2>1 DEF Starts
    <3> QED BY <1>1, <1>2, <2>1, <3>1, <3>2 DEF Starts
  <2>3. Generations' /\ Workers' /\ Sessions'
    BY <1>1, <1>2, <2>1 DEF TypeOK, Starts, Generations, Workers, Sessions, Drained
  <2>4. Closing'
    BY <1>1, <1>2, <2>1 DEF Closing, Ended, Unpublished, Drained
  <2> QED BY <2>2, <2>3, <2>4, <2>5 DEF ClientInv
<1>6. CASE StopGeneration
  <2>1. /\ pc["sup"] = "reconnect" /\ pc' = [pc EXCEPT !["sup"] = pc'["sup"]]
        /\ \/ pc'["sup"] = "idle" /\ shut' = shut
           \/ pc'["sup"] = "wait" /\ shut' = shut \cup {mgr}
        /\ UNCHANGED <<gen, next, sess, deathSig, cancelled>>
    BY <1>1, <1>6 DEF StopGeneration, Goto, sessions, closing, TypeOK
  <2>6. mgr \in Gen
    BY <1>1, <2>1 DEF TypeOK, Starts
  <2>2. TypeOK'
    <3>1. shut' \subseteq Gen
      BY <1>1, <2>1, <2>6 DEF TypeOK
    <3> QED BY <1>1, <1>2, <2>1, <3>1 DEF TypeOK
  <2>3. Starts'
    BY <1>1, <1>2, <2>1 DEF TypeOK, Starts
  <2>4. Generations' /\ Workers' /\ Sessions'
    BY <1>1, <1>2, <2>1 DEF TypeOK, Starts, Generations, Workers, Sessions, Drained
  <2>5. Closing'
    BY <1>1, <1>2, <2>1 DEF Closing, Ended, Unpublished, Drained
  <2> QED BY <2>2, <2>3, <2>4, <2>5 DEF ClientInv
<1>7. CASE CloseDeadSession
  BY <1>1, <1>7 DEF CloseDeadSession, Goto, managers, closing, stack, history, ClientInv, TypeOK, Starts,
                    Generations, Workers, Sessions, Closing, Ended, Unpublished, Drained
<1>8. CASE DialSucceeds
  BY <1>1, <1>8 DEF DialSucceeds, Goto, managers, closing, stack, history, ClientInv, TypeOK, Starts,
                    Generations, Workers, Sessions, Closing, Ended, Unpublished, Drained
<1>9. CASE BuildFails
  BY <1>1, <1>9 DEF BuildFails, Goto, signalDeath, managers, closing, stack, history, ClientInv, TypeOK,
                    Starts, Generations, Workers, Sessions, Closing, Ended, Unpublished, Drained
<1>10. CASE SwapGeneration
  BY <1>1, <1>10 DEF SwapGeneration, Goto, managers, closing, stack, history, ClientInv, TypeOK, Starts,
                    Generations, Workers, Sessions, Closing, Ended, Unpublished, Drained
<1> QED BY <1>4, <1>5, <1>6, <1>7, <1>8, <1>9, <1>10

\* A Manager is published: by Dial for the first session, by the supervisor for
\* one whose predecessor is shut down and drained.
LEMMA PublishInv ==
    ASSUME ClientInv, NEW t \in Thread, PublishManager(t)
    PROVE  ClientInv'
<1> USE ClientAssumption DEF Gen, Thread, Kind, Busy
<1>1. TypeOK /\ Starts /\ Generations /\ Workers /\ Sessions /\ Closing
  BY DEF ClientInv
<1>2. /\ pc[t] = "publish" /\ pc' = [pc EXCEPT ![t] = "rx"]
      /\ mgr' = gen
      /\ UNCHANGED <<gen, next, sess, shut, work, deathSig, cancelled, closed, once, closer,
                     builder, net, panics, died>>
  BY <1>1 DEF PublishManager, Starting, Goto, Starts, Generations, sessions, closing, stack, history
<1>3. TypeOK'
  BY <1>1, <1>2 DEF TypeOK
<1>4. /\ t = "sup" => mgr # 0 /\ mgr \in shut /\ Drained(mgr) /\ gen = next
      /\ t = "dial" => mgr = 0 /\ gen = 1
  BY <1>1, <1>2 DEF Starts, Generations
<1>5. Starts'
  BY <1>1, <1>2, <1>4 DEF Starts, TypeOK
<1>6. Generations'
  BY <1>1, <1>2, <1>4 DEF Generations, Starts, TypeOK, Drained
<1>7. Workers'
  <2>1. \A g \in Gen : g > gen => \A k \in Kind : work[g][k] = "none"
    BY <1>1 DEF Workers, Generations, TypeOK
  <2>2. \A g \in Gen : g < gen => Drained(g)
    BY <1>1, <1>4 DEF Workers, TypeOK, Drained
  <2>3. gen > 1 => 1 \in shut
    BY <1>1, <1>4 DEF Workers, TypeOK
  <2> QED BY <1>2, <2>1, <2>2, <2>3 DEF Workers, Drained
<1>8. Sessions'
  BY <1>1, <1>2 DEF Sessions, Starts, TypeOK, Drained
<1>9. Closing'
  <2>1. once # "done" /\ \A c \in AllClosers : closer[c] \notin {"workers", "session"}
    BY <1>1, <1>2, <1>4 DEF Closing, Ended, Starts
  <2> QED BY <1>1, <1>2, <2>1 DEF Closing
<1> QED BY <1>3, <1>5, <1>6, <1>7, <1>8, <1>9 DEF ClientInv

\* A worker is started, if its Manager was not shut down.
LEMMA StartInv ==
    ASSUME ClientInv, NEW t \in Thread, NEW k \in Kind, StartWorker(t, k)
    PROVE  ClientInv'
<1> USE ClientAssumption DEF Gen
<1>1. TypeOK /\ Starts /\ Generations /\ Workers /\ Sessions /\ Closing
  BY DEF ClientInv
<1> DEFINE g == Starting(t)
<1>2. /\ pc[t] = k /\ Go(g, k)
      /\ UNCHANGED <<gen, next, sess, mgr, shut, deathSig, cancelled, closed, once, closer,
                     builder, net, panics, died>>
  BY DEF StartWorker, sessions, closing, stack, history
<1>3. \/ t = "dial" /\ pc' = [pc EXCEPT !["dial"] = pc'["dial"]] /\ pc'["dial"] \in {"driver", "keepalive", "done"}
      \/ t = "sup" /\ pc' = [pc EXCEPT !["sup"] = pc'["sup"]] /\ pc'["sup"] \in {"driver", "keepalive", "idle"}
  BY <1>1 DEF StartWorker, Goto, TypeOK, Thread, Kind
<1>4. mgr # 0 /\ (t = "sup" => g = mgr /\ g = gen /\ sess[g] = "open") /\ (t = "dial" => g = 1)
  BY <1>1, <1>2 DEF Starting, Starts, Generations, Thread, Kind, TypeOK
<1>5. g \in Gen /\ g <= mgr
  BY <1>1, <1>4 DEF TypeOK, Thread
<1> HIDE DEF g
<1>6. /\ work' \in [Gen -> [Kind -> {"none", "run", "leaving", "caught", "gone"}]]
      /\ \A h \in Gen : h # g \/ g \in shut => work'[h] = work[h]
  BY <1>1, <1>2, <1>5 DEF Go, TypeOK
<1>7. g < mgr => g \in shut
  BY <1>1, <1>4 DEF Workers, TypeOK, Thread
<1>8. \A h \in Gen : Drained(h) /\ (h # g \/ h \in shut) => Drained(h)'
  BY <1>6 DEF Drained
<1>9. TypeOK'
  BY <1>1, <1>2, <1>3, <1>6 DEF TypeOK, Thread, Kind
<1>10. Starts'
  BY <1>1, <1>2, <1>3, <1>4 DEF Starts, TypeOK, Thread, Kind, Busy
<1>11. Generations'
  <2>1. mgr \in Gen /\ (Drained(mgr) /\ mgr \in shut => Drained(mgr)')
    BY <1>1, <1>2, <1>4, <1>8 DEF TypeOK, Drained
  <2>2. CASE t = "dial"
    <3>1. pc'["sup"] = pc["sup"]
      BY <1>1, <1>3, <2>2 DEF TypeOK, Thread
    <3> QED BY <1>1, <1>2, <2>1, <3>1 DEF Generations
  <2>3. CASE t = "sup"
    BY <1>1, <1>2, <1>3, <2>3 DEF Generations, Kind
  <2> QED BY <2>2, <2>3 DEF Thread
<1>12. Workers'
  BY <1>1, <1>2, <1>5, <1>6, <1>7, <1>8 DEF Workers, TypeOK
<1>13. Sessions'
  <2>1. \A h \in Gen : sess[h] = "closed" => Drained(h)'
    <3>1. ASSUME NEW h \in Gen, sess[h] = "closed" PROVE h # g \/ h \in shut
      BY <1>1, <1>4, <3>1 DEF Sessions, Thread
    <3> QED BY <1>1, <1>8, <3>1 DEF Sessions
  <2>2. pc["sup"] = "build" => pc'["sup"] = "build"
    BY <1>1, <1>2, <1>3 DEF TypeOK, Thread, Kind
  <2> QED BY <1>1, <1>2, <2>1, <2>2 DEF Sessions
<1>14. Closing'
  <2>1. Ended => pc'["sup"] = pc["sup"]
    BY <1>1, <1>2, <1>3 DEF Ended, TypeOK, Thread, Kind
  <2>2. mgr \in Gen /\ (Ended /\ Drained(mgr) => Drained(mgr)')
    BY <1>1, <1>2, <1>4, <1>8 DEF TypeOK, Ended, Drained
  <2> QED BY <1>1, <1>2, <2>1, <2>2 DEF Closing, Ended, Unpublished
<1> QED BY <1>9, <1>10, <1>11, <1>12, <1>13, <1>14 DEF ClientInv

LEMMA CloseInv ==
    ASSUME ClientInv, NEW c \in AllClosers, CallClose(c) \/ CloseStep(c)
    PROVE  ClientInv'
<1> USE ClientAssumption DEF Gen
<1>1. TypeOK /\ Starts /\ Generations /\ Workers /\ Sessions /\ Closing
  BY DEF ClientInv
<1>2. UNCHANGED <<pc, gen, next, mgr, work, deathSig, builder, panics, died>>
  BY DEF CallClose, CloseStep, EnterOnce, PassOnce, Cancel, StopWorkers, CloseNet, CloseSession,
         sessions, managers, stack, history
<1>3. mgr # 0 /\ mgr \in Gen
  BY <1>1 DEF CallClose, CloseStep, EnterOnce, PassOnce, Cancel, StopWorkers, CloseNet, CloseSession,
              Starts, TypeOK
<1>4. \A h \in Gen : Drained(h)' <=> Drained(h)
  BY <1>2 DEF Drained
<1>5. Drained(mgr)' <=> Drained(mgr)
  BY <1>2, <1>3, <1>4
<1>6. CASE CallClose(c) \/ EnterOnce(c) \/ PassOnce(c) \/ Cancel(c)
  <2>1. /\ closer' = [closer EXCEPT ![c] = closer'[c]]
        /\ closer'[c] \in {"call", "cancel", "super", "returned"}
        /\ closer'[c] \in {"cancel", "super"} => closed' = TRUE
        /\ once' \in {once, "held"} /\ (once' = "held" => closed' = TRUE \/ once = "held")
        /\ once' = "done" => once = "done"
        /\ closed = TRUE => closed' = TRUE
        /\ UNCHANGED <<sess, shut, net>>
    BY <1>1, <1>6 DEF CallClose, EnterOnce, PassOnce, Cancel, Move, Closing, TypeOK, sessions, managers, stack
  <2>2. closed' \in BOOLEAN /\ cancelled' \in BOOLEAN
    BY <1>1, <1>6, Zenon DEF CallClose, EnterOnce, PassOnce, Cancel, TypeOK
  <2>3. TypeOK'
    BY <1>1, <1>2, <2>1, <2>2 DEF TypeOK
  <2>4. Starts' /\ Generations' /\ Workers' /\ Sessions'
    BY <1>1, <1>2, <1>3, <1>4, <1>5, <2>1 DEF Starts, Generations, Workers, Sessions
  <2>5. Closing'
    BY <1>1, <1>2, <1>5, <2>1 DEF Closing, Ended, Unpublished, TypeOK
  <2> QED BY <2>3, <2>4, <2>5 DEF ClientInv
<1>7. CASE StopWorkers(c)
  <2>1. /\ pc["sup"] \in {"off", "exit"} /\ shut' = shut \cup {mgr}
        /\ closer[c] = "super" /\ closer' = [closer EXCEPT ![c] = "workers"]
        /\ UNCHANGED <<sess, net, closed, once, cancelled>>
    BY <1>7 DEF StopWorkers, Move, sessions, stack
  <2>2. TypeOK'
    BY <1>1, <1>2, <1>3, <2>1 DEF TypeOK
  <2>3. Starts' /\ Generations' /\ Workers' /\ Sessions'
    BY <1>1, <1>2, <1>3, <1>4, <1>5, <2>1 DEF Starts, Generations, Workers, Sessions
  <2>4. Closing'
    BY <1>1, <1>2, <1>5, <2>1 DEF Closing, Ended, Unpublished, TypeOK
  <2> QED BY <2>2, <2>3, <2>4 DEF ClientInv
<1>8. CASE CloseNet(c)
  <2>1. /\ closer[c] = "workers" /\ Drained(mgr) /\ closer' = [closer EXCEPT ![c] = "session"]
        /\ net' = IF builder = "published" THEN "closed" ELSE net
        /\ UNCHANGED <<sess, shut, closed, once, cancelled>>
    BY <1>8 DEF CloseNet, Move, sessions, managers
  <2>2. TypeOK'
    BY <1>1, <1>2, <2>1 DEF TypeOK
  <2>3. Starts' /\ Generations' /\ Workers' /\ Sessions'
    BY <1>1, <1>2, <1>3, <1>4, <1>5, <2>1 DEF Starts, Generations, Workers, Sessions
  <2>4. Closing'
    BY <1>1, <1>2, <1>5, <2>1 DEF Closing, Ended, Unpublished, TypeOK
  <2> QED BY <2>2, <2>3, <2>4 DEF ClientInv
<1>9. CASE CloseSession(c)
  <2>1. /\ closer[c] = "session" /\ closer' = [closer EXCEPT ![c] = "returned"]
        /\ sess' = [sess EXCEPT ![gen] = "closed"] /\ once' = "done"
        /\ UNCHANGED <<shut, net, closed, cancelled>>
    BY <1>9 DEF CloseSession, Move, managers, stack
  <2>2. TypeOK'
    BY <1>1, <1>2, <2>1 DEF TypeOK
  <2>3. Ended /\ Drained(mgr) /\ mgr = gen /\ Unpublished
    BY <1>1, <1>3, <2>1 DEF Closing, Ended, Generations
  <2>4. Starts' /\ Generations' /\ Workers'
    BY <1>1, <1>2, <1>3, <1>4, <1>5, <2>1, <2>3 DEF Starts, Generations, Workers, Ended, Kind
  <2>5. Sessions'
    <3>1. sess'[gen] = "closed" /\ \A g \in Gen : g # gen => sess'[g] = sess[g]
      BY <1>1, <2>1 DEF TypeOK
    <3>2. gen \in shut /\ Drained(gen) /\ gen \in Gen /\ gen <= next
      BY <1>1, <1>3, <2>3 DEF Ended, Generations
    <3>3. \A g \in Gen : sess'[g] = "closed" => Drained(g) /\ (g = 1 => 1 \in shut)
      BY <1>1, <3>1, <3>2 DEF Sessions
    <3>4. \A g \in Gen : g > next => sess'[g] = "none"
      BY <1>1, <3>1, <3>2 DEF Sessions, TypeOK
    <3>5. \A g \in Gen : g # gen /\ sess'[g] = "open" => pc["sup"] = "build" /\ g = next
      BY <1>1, <3>1 DEF Sessions
    <3> QED BY <1>2, <1>4, <2>1, <3>3, <3>4, <3>5 DEF Sessions
  <2>6. Closing'
    BY <1>1, <1>2, <1>5, <2>1, <2>3 DEF Closing, Ended, Unpublished, TypeOK
  <2> QED BY <2>2, <2>4, <2>5, <2>6 DEF ClientInv
<1> QED BY <1>6, <1>7, <1>8, <1>9 DEF CloseStep

LEMMA NetInv ==
    ASSUME ClientInv, BuildNet \/ PublishNet \/ DiscardNet
    PROVE  ClientInv'
<1> USE ClientAssumption DEF Gen
<1>1. TypeOK /\ Starts /\ Generations /\ Workers /\ Sessions /\ Closing
  BY DEF ClientInv
<1>2. UNCHANGED <<pc, gen, next, sess, mgr, shut, work, deathSig, cancelled, closed, once, closer, panics, died>>
  BY DEF BuildNet, PublishNet, DiscardNet, sessions, managers, closing, history
<1>3. Drained(mgr)' <=> Drained(mgr)
  BY <1>2 DEF Drained
<1>4. /\ net' \in {"none", "up", "closed"}
      /\ builder' \in {"built", "published", "discard", "discarded"}
      /\ builder' = "discarded" => net' = "closed"
      /\ builder' = "published" => closed # TRUE
  BY <1>1 DEF BuildNet, PublishNet, DiscardNet, TypeOK
<1>5. TypeOK'
  BY <1>1, <1>2, <1>4 DEF TypeOK
<1>6. Starts' /\ Generations' /\ Workers' /\ Sessions'
  BY <1>1, <1>2, <1>3 DEF Starts, Generations, Workers, Sessions, Drained
<1>7. Closing'
  BY <1>1, <1>2, <1>3, <1>4 DEF Closing, Ended, Unpublished, TypeOK
<1> QED BY <1>5, <1>6, <1>7 DEF ClientInv

LEMMA NextClientInv == ClientInv /\ [Next]_vars => ClientInv'
<1> SUFFICES ASSUME ClientInv, [Next]_vars PROVE ClientInv'
  OBVIOUS
<1> USE ClientAssumption
<1>1. TypeOK
  BY DEF ClientInv
<1>2. ASSUME NEW g \in Gen, DriverDies(g) PROVE ClientInv'
  <2>1. /\ work[g]["driver"] = "run" /\ Become(g, "driver", "leaving") /\ onDead(g)
        /\ UNCHANGED <<pc, gen, next, sess, mgr, shut, cancelled, closed, once, builder, net, panics>>
    BY <1>2 DEF DriverDies, sessions, stack
  <2>2. died' \subseteq Gen
    BY <1>1, <2>1 DEF onDead, TypeOK
  <2> QED BY <1>1, <2>1, <2>2, WorkerInv DEF TypeOK, Kind
<1>3. ASSUME NEW g \in Gen, NEW k \in Kind, Panic(g, k) PROVE ClientInv'
  <2>1. /\ work[g][k] = "run" /\ Become(g, k, "caught") /\ onDead(g)
        /\ panics < MaxPanics /\ panics' = panics + 1
        /\ UNCHANGED <<pc, gen, next, sess, mgr, shut, cancelled, closed, once, builder, net>>
    BY <1>3 DEF Panic, sessions, stack
  <2>2. died' \subseteq Gen /\ panics' \in 0..MaxPanics
    BY <1>1, <2>1 DEF onDead, TypeOK
  <2> QED BY <1>1, <2>1, <2>2, WorkerInv DEF TypeOK
<1>4. ASSUME NEW g \in Gen, NEW k \in Kind,
             WorkerStops(g, k) \/ Recovered(g, k)
             \/ (k = "driver" /\ DriverLeaves(g)) \/ (k = "rx" /\ RxFails(g))
      PROVE  ClientInv'
  <2>1. /\ work[g][k] \in {"run", "leaving", "caught"}
        /\ \E s \in {"leaving", "caught", "gone"} : Become(g, k, s)
        /\ shut' \in {shut, shut \cup {g}}
        /\ UNCHANGED <<pc, gen, next, sess, mgr, deathSig, cancelled, closed, once, closer, builder,
                       net, panics, died>>
    BY <1>4 DEF WorkerStops, Recovered, DriverLeaves, RxFails, sessions, closing, stack, history
  <2> QED BY <1>1, <2>1, WorkerInv DEF TypeOK
<1>5. CASE UNCHANGED vars
  BY <1>5 DEF vars, ClientInv, TypeOK, Starts, Generations, Workers, Sessions, Closing, Ended,
              Unpublished, Drained
<1>6. "rx" \in Kind /\ "driver" \in Kind /\ {"dial", "sup"} \subseteq Thread
  BY DEF Kind, Thread
<1>7. ASSUME NEW g \in Gen, DriverLeaves(g) \/ RxFails(g) PROVE ClientInv'
  BY <1>4, <1>6, <1>7
<1> QED
  BY <1>2, <1>3, <1>4, <1>5, <1>6, <1>7, SuperInv, PublishInv, StartInv, CloseInv, NetInv
     DEF Next, DialStep, SupStep, WorkerStep

\* No socket is closed under a worker, for any number of generations, of panics and
\* of callers of Close.
THEOREM SocketsOutliveWorkers == Spec => []SocketOutlivesWorkers
<1>1. ClientInv => SocketOutlivesWorkers
  BY DEF ClientInv, Sessions, SocketOutlivesWorkers
<1> QED
  BY <1>1, InitClientInv, NextClientInv, PTL DEF Spec

\* No two generations ever run side by side.
THEOREM GenerationsApart == Spec => []OneGeneration
<1>1. ClientInv => OneGeneration
  BY ClientAssumption DEF ClientInv, TypeOK, Workers, OneGeneration, Drained, Gen
<1> QED
  BY <1>1, InitClientInv, NextClientInv, PTL DEF Spec

\* Nothing is left behind by a Close that has returned.
THEOREM CloseLeavesNothing == Spec => []ClosedClean
<1>1. ClientInv => ClosedClean
  <2> SUFFICES ASSUME ClientInv, once = "done" PROVE ClosedClean
    BY DEF ClosedClean
  <2> USE ClientAssumption DEF Gen
  <2>1. /\ TypeOK /\ Starts /\ Generations /\ Workers /\ Sessions
        /\ Ended /\ Drained(mgr) /\ sess[gen] = "closed" /\ Unpublished
        /\ builder = "idle" => net = "none"
        /\ builder = "discarded" => net = "closed"
    BY DEF ClientInv, Closing
  <2>2. \A g \in Gen : Drained(g)
    BY <2>1 DEF TypeOK, Workers, Drained
  <2>3. \A g \in Gen : sess[g] # "open"
    BY <2>1 DEF Sessions, Ended
  <2>4. net = "up" => builder \in {"built", "discard"}
    BY <2>1 DEF TypeOK, Unpublished
  <2> QED BY <2>1, <2>2, <2>3, <2>4 DEF ClosedClean, Ended
<1> QED
  BY <1>1, InitClientInv, NextClientInv, PTL DEF Spec

-----------------------------------------------------------------------------
(* The inbound registry.                                                   *)

Timers == [st : {"none", "armed", "fired", "removed"}, spi : SPI, sa : SA \cup {Nil}]

RegistryTypeOK ==
    /\ made \in SA /\ spiOf \in [SA -> SPI] /\ old \in SA \cup {Nil}
    /\ inbound \in [SPI -> SA \cup {Nil}]
    /\ drv \in {"idle", "swap", "schedule", "append"}
    /\ timer \in [SA -> Timers] /\ listed \subseteq SA
    /\ sup \in {"idle", "redial", "reconfigure", "closed"}

\* Nothing is registered that was not created, and what an installation or a timer
\* has captured is older than the newest SA, whatever SPI that one has.
Older ==
    /\ \A x \in SPI : inbound[x] <= made
    /\ drv # "idle" => old < made /\ made > 1
    /\ \A a \in SA : timer[a].sa < made

\* A timer that can still fire is in the list, except between its creation and the
\* append; what is in the list has work to do; an installation and a reconnect
\* exclude each other.
InList ==
    /\ \A a \in SA : timer[a].st = "armed" => a \in listed \/ (drv = "append" /\ a = made)
    /\ \A a \in listed : timer[a].st # "none" /\ a <= made
    /\ drv # "idle" => sup = "idle" /\ made \notin listed
    /\ drv = "append" => timer[made].st = "armed"
    /\ sup # "idle" => \A a \in SA : timer[a].st # "armed"

RegistryInv == RegistryTypeOK /\ Older /\ InList /\ NewestReceives

LEMMA NoTimerType == NoTimer \in Timers /\ NoTimer.st = "none" /\ NoTimer.sa = Nil
<1>1. (CHOOSE x \in SPI : TRUE) \in SPI
  BY DataPlaneAssumption
<1> QED BY <1>1 DEF NoTimer, Timers

LEMMA TimerTypes ==
    ASSUME timer \in [SA -> Timers]
    PROVE  \A a \in SA : /\ timer[a].sa \in SA \cup {Nil} /\ timer[a].spi \in SPI
                         /\ timer[a].st \in {"none", "armed", "fired", "removed"}
BY DEF Timers

LEMMA InitRegistry == RegistryInit => RegistryInv
<1> SUFFICES ASSUME RegistryInit PROVE RegistryInv
  OBVIOUS
<1> USE DataPlaneAssumption, NoTimerType DEF SA, Nil
<1>1. PICK x \in SPI : spiOf = [a \in SA |-> x] /\ inbound = [y \in SPI |-> IF y = x THEN 1 ELSE Nil]
  BY DEF RegistryInit
<1>2. RegistryTypeOK
  BY <1>1 DEF RegistryInit, RegistryTypeOK
<1>3. Older /\ InList
  BY <1>1 DEF RegistryInit, Older, InList
<1>4. NewestReceives
  BY <1>1 DEF RegistryInit, NewestReceives, Registered
<1> QED BY <1>2, <1>3, <1>4 DEF RegistryInv

LEMMA AddRegistry ==
    ASSUME RegistryInv, NEW x \in SPI, AddInbound(x) \/ resetInbound(x)
    PROVE  RegistryInv'
<1> USE DataPlaneAssumption DEF SA, Nil
<1>1. RegistryTypeOK /\ Older /\ InList
  BY DEF RegistryInv
<1>2. /\ drv = "idle" /\ made < MaxSA /\ made' = made + 1 /\ made' \in SA
      /\ spiOf' = [spiOf EXCEPT ![made + 1] = x] /\ spiOf'[made'] = x
      /\ inbound'[x] = made'
      /\ \A y \in SPI : inbound'[y] \in {inbound[y], Nil, made'}
      /\ UNCHANGED <<timer, listed>>
      /\ inbound' \in [SPI -> SA \cup {Nil}]
    <2>1. CASE AddInbound(x)
      BY <1>1, <2>1 DEF AddInbound, RegistryTypeOK
    <2>2. CASE resetInbound(x)
      BY <1>1, <2>2 DEF resetInbound, RegistryTypeOK, InList
    <2> QED BY <2>1, <2>2
<1>3. \/ sup = "idle" /\ sup' = "idle" /\ drv' = "swap" /\ old' = inbound[spiOf[made]]
      \/ sup = "redial" /\ sup' = "reconfigure" /\ drv' = "idle" /\ old' = old
  BY <1>2 DEF AddInbound, resetInbound
<1>4. RegistryTypeOK'
  BY <1>1, <1>2, <1>3 DEF RegistryTypeOK
<1>5. Older'
  <2>1. ASSUME NEW a \in SA PROVE timer'[a].sa < made'
    <3>1. timer' = timer /\ timer[a].sa \in Nat /\ made \in Nat
      BY <1>1, <1>2, TimerTypes DEF RegistryTypeOK
    <3>2. timer[a].sa < made
      BY <1>1 DEF Older
    <3> QED BY <1>2, <3>1, <3>2
  <2>2. \A y \in SPI : inbound'[y] <= made'
    BY <1>1, <1>2 DEF Older, RegistryTypeOK
  <2>3. drv' # "idle" => old' < made' /\ made' > 1
    BY <1>1, <1>2, <1>3 DEF Older, RegistryTypeOK
  <2> QED BY <2>1, <2>2, <2>3 DEF Older
<1>6. InList'
  BY <1>1, <1>2, <1>3 DEF InList, RegistryTypeOK
<1>7. NewestReceives'
  BY <1>2 DEF NewestReceives, Registered
<1> QED BY <1>4, <1>5, <1>6, <1>7 DEF RegistryInv

LEMMA InstallRegistry ==
    ASSUME RegistryInv, InstallStep \/ Reconfigure
    PROVE  RegistryInv'
<1> USE DataPlaneAssumption DEF SA, Nil
<1>1. RegistryTypeOK /\ Older /\ InList /\ NewestReceives
  BY DEF RegistryInv
<1>2. CASE SwapOutbound \/ Reconfigure
  BY <1>1, <1>2 DEF SwapOutbound, Reconfigure, RegistryInv, RegistryTypeOK, Older, InList,
                    NewestReceives, Registered
<1>3. CASE ListTimer
  BY <1>1, <1>3 DEF ListTimer, RegistryInv, RegistryTypeOK, Older, InList, NewestReceives, Registered
<1>4. CASE ScheduleRemoval
  <2>1. CASE drv' = "idle" /\ UNCHANGED timer
    BY <1>1, <1>4, <2>1 DEF ScheduleRemoval, RegistryInv, RegistryTypeOK, Older, InList,
                            NewestReceives, Registered
  <2>2. CASE /\ drv' = "append"
             /\ timer' = [timer EXCEPT ![made] = [st |-> "armed", spi |-> spiOf[made - 1], sa |-> old]]
    <3>1. made - 1 \in SA
      BY <1>1, <1>4 DEF ScheduleRemoval, RegistryTypeOK, InList, Older, Nil, SA
    <3>2. RegistryTypeOK'
      BY <1>1, <1>4, <2>2, <3>1 DEF ScheduleRemoval, RegistryTypeOK, Timers
    <3>3. Older' /\ InList' /\ NewestReceives'
      BY <1>1, <1>4, <2>2 DEF ScheduleRemoval, RegistryTypeOK, Older, InList, NewestReceives, Registered
    <3> QED BY <3>2, <3>3 DEF RegistryInv
  <2> QED BY <1>4, <2>1, <2>2 DEF ScheduleRemoval
<1> QED BY <1>2, <1>3, <1>4 DEF InstallStep

LEMMA TimerRegistry ==
    ASSUME RegistryInv, NEW b \in SA, TimerStep(b)
    PROVE  RegistryInv'
<1> USE DataPlaneAssumption, NoTimerType DEF SA, Nil
<1>1. RegistryTypeOK /\ Older /\ InList /\ NewestReceives
  BY DEF RegistryInv
<1>2. CASE TimerFires(b)
  <2>1. timer' \in [SA -> Timers] /\ timer'[b].st = "fired" /\ timer'[b].sa = timer[b].sa
        /\ \A a \in SA : a # b => timer'[a] = timer[a]
    BY <1>1, <1>2 DEF TimerFires, RegistryTypeOK, Timers
  <2> QED
    BY <1>1, <1>2, <2>1 DEF TimerFires, RegistryInv, RegistryTypeOK, Older, InList, NewestReceives, Registered
<1>3. CASE removeInbound(b)
  <2>1. timer' \in [SA -> Timers] /\ timer'[b].st = "removed" /\ timer'[b].sa = timer[b].sa
        /\ \A a \in SA : a # b => timer'[a] = timer[a]
    BY <1>1, <1>3 DEF removeInbound, RegistryTypeOK, Timers
  <2>2. timer[b].spi \in SPI /\ timer[b].sa < made
    BY <1>1 DEF RegistryTypeOK, Timers, Older
  <2>3. /\ inbound' \in [SPI -> SA \cup {Nil}]
        /\ \A y \in SPI : inbound'[y] \in {inbound[y], Nil}
        /\ \A y \in SPI : inbound[y] = made => inbound'[y] = made
    BY <1>1, <1>3, <2>2 DEF removeInbound, RegistryTypeOK
  <2>4. /\ timer[b].st = "fired"
        /\ UNCHANGED <<made, spiOf, out, drv, old, listed, sup>>
    BY <1>3 DEF removeInbound
  <2>5. RegistryTypeOK' /\ NewestReceives'
    BY <1>1, <2>1, <2>3, <2>4 DEF RegistryTypeOK, NewestReceives, Registered
  <2>6. Older' /\ InList'
    <3>1. Older'
      <4>1. \A a \in SA : timer'[a].sa = timer[a].sa
        BY <2>1
      <4>2. \A y \in SPI : inbound'[y] <= made
        BY <1>1, <2>3 DEF RegistryTypeOK, Older
      <4> QED BY <1>1, <2>4, <4>1, <4>2 DEF Older
    <3>2. InList'
      BY <1>1, <2>1, <2>4 DEF RegistryTypeOK, InList
    <3> QED BY <3>1, <3>2
  <2> QED BY <2>5, <2>6 DEF RegistryInv
<1>4. CASE PruneTimer(b)
  <2>1. /\ timer' \in [SA -> Timers] /\ timer'[b] = NoTimer
        /\ \A a \in SA : a # b => timer'[a] = timer[a]
    BY <1>1, <1>4 DEF PruneTimer, RegistryTypeOK
  <2>2. /\ timer[b].st = "removed" /\ listed' = listed \ {b}
        /\ UNCHANGED <<made, spiOf, inbound, out, drv, old, sup>>
    BY <1>4 DEF PruneTimer
  <2> QED
    BY <1>1, <2>1, <2>2 DEF RegistryInv, RegistryTypeOK, Older, InList, NewestReceives, Registered
<1> QED BY <1>2, <1>3, <1>4 DEF TimerStep

LEMMA StopRegistry ==
    ASSUME RegistryInv, NEW where \in {"redial", "closed"}, stopGraceTimers(where)
    PROVE  RegistryInv'
<1> USE DataPlaneAssumption, NoTimerType DEF SA, Nil
<1>1. RegistryTypeOK /\ Older /\ InList
  BY DEF RegistryInv
<1>2. /\ sup' = where /\ drv = "idle" /\ listed' = {} /\ timer' = Disarmed
      /\ UNCHANGED <<made, spiOf, inbound, out, drv, old>>
  BY DEF stopGraceTimers
<1>3. \A a \in SA : timer'[a] \in {timer[a], NoTimer} /\ timer'[a].st # "armed"
  BY <1>1, <1>2 DEF Disarmed, InList
<1>4. timer' \in [SA -> Timers]
  BY <1>1, <1>2 DEF Disarmed, RegistryTypeOK
<1> QED
  <2>1. RegistryTypeOK' /\ NewestReceives'
    BY <1>1, <1>2, <1>4 DEF RegistryTypeOK, NewestReceives
  <2>2. Older'
    <3>1. \A a \in SA : timer'[a].sa < made'
      BY <1>1, <1>2, <1>3, TimerTypes DEF Older, RegistryTypeOK
    <3> QED BY <1>1, <1>2, <3>1 DEF Older
  <2>3. InList'
    BY <1>2, <1>3 DEF InList
  <2> QED BY <2>1, <2>2, <2>3 DEF RegistryInv

LEMMA NextRegistry == RegistryInv /\ [RegistryNext]_registryVars => RegistryInv'
<1>1. RegistryInv /\ UNCHANGED registryVars => RegistryInv'
  BY DEF registryVars, RegistryInv, RegistryTypeOK, Older, InList, NewestReceives, Registered
<1> QED
  BY <1>1, AddRegistry, InstallRegistry, TimerRegistry, StopRegistry DEF RegistryNext

\* Whatever SPIs are drawn and however timers are late, the newest Child SA is
\* never evicted from the registry.
THEOREM NewestAlwaysReceives == RegistrySpec => []NewestReceives
<1>1. RegistryInv => NewestReceives
  BY DEF RegistryInv
<1> QED
  BY <1>1, InitRegistry, NextRegistry, PTL DEF RegistrySpec

\* The list of grace timers has no leftovers and misses no timer that is armed.
THEOREM TimersAlwaysAccounted == RegistrySpec => []TimersAccounted
<1>1. RegistryInv => TimersAccounted
  BY DEF RegistryInv, InList, TimersAccounted
<1> QED
  BY <1>1, InitRegistry, NextRegistry, PTL DEF RegistrySpec

\* A superseded SA goes only by its own timer, to a newer SA with its SPI, or in a
\* reconnect.
THEOREM GraceAlwaysKept == RegistrySpec => GraceKept
<1> DEFINE Gone(a) == Registered(a) /\ ~Registered(a)'
           Expired(a) == \E b \in SA : timer[b].st = "fired" /\ timer[b].sa = a
           Replaced(a) == Registered(made)' /\ made' # made
                          /\ (spiOf'[made'] = spiOf[a] \/ sup = "redial")
           Kept == \A a \in SA : Gone(a) => Expired(a) \/ Replaced(a)
<1>1. RegistryInv /\ [RegistryNext]_registryVars => Kept
  <2> SUFFICES ASSUME RegistryInv, [RegistryNext]_registryVars, NEW a \in SA, Registered(a), ~Registered(a)'
               PROVE  Expired(a) \/ Replaced(a)
    OBVIOUS
  <2> USE DataPlaneAssumption DEF SA, Nil
  <2>1. RegistryTypeOK
    BY DEF RegistryInv
  <2>2. ASSUME NEW x \in SPI, AddInbound(x) PROVE Replaced(a)
    BY <2>1, <2>2 DEF AddInbound, Registered, RegistryTypeOK
  <2>3. ASSUME NEW x \in SPI, resetInbound(x) PROVE Replaced(a)
    BY <2>1, <2>3 DEF resetInbound, Registered, RegistryTypeOK
  <2>4. ASSUME NEW b \in SA, removeInbound(b) PROVE Expired(a)
    BY <2>1, <2>4, TimerTypes DEF removeInbound, Registered, RegistryTypeOK
  <2>5. CASE UNCHANGED <<made, spiOf, inbound>>
    BY <2>5 DEF Registered
  <2>6. ASSUME \/ InstallStep \/ Reconfigure \/ UNCHANGED registryVars
               \/ \E b \in SA : TimerFires(b) \/ PruneTimer(b)
               \/ \E where \in {"redial", "closed"} : stopGraceTimers(where)
        PROVE  UNCHANGED <<made, spiOf, inbound>>
    BY <2>6 DEF InstallStep, SwapOutbound, ScheduleRemoval, ListTimer, Reconfigure, TimerFires,
                PruneTimer, stopGraceTimers, registryVars
  <2> QED
    BY <2>2, <2>3, <2>4, <2>5, <2>6 DEF RegistryNext, TimerStep
<1>2. Kept <=> \A a \in SA :
          Registered(a) /\ ~Registered(a)' =>
              \/ \E b \in SA : timer[b].st = "fired" /\ timer[b].sa = a
              \/ Registered(made)' /\ made' # made
                 /\ (spiOf'[made'] = spiOf[a] \/ sup = "redial")
  OBVIOUS
<1> HIDE DEF Kept
<1> QED
  BY <1>1, <1>2, InitRegistry, NextRegistry, PTL DEF RegistrySpec, GraceKept
=============================================================================
