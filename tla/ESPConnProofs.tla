--------------------------- MODULE ESPConnProofs ---------------------------
(***************************************************************************)
(* The data path, for every set of writers, casts and bounds.  No IV is    *)
(* used twice by the sender, a cancelled call of the transport returns and *)
(* fails only for a cause, and the composed data path keeps what its parts *)
(* promise: it is a behaviour of ESPSender and of UDPConn, its receiver    *)
(* delivers once, and its Read is woken.                                   *)
(***************************************************************************)
EXTENDS ESPConn, TLAPS

USE ZenonT(2), SMTT(30), ZenonT(20)

-----------------------------------------------------------------------------
(* The sender: no IV is used twice.                                        *)
\* A number is drawn from the moment the CAS succeeds until the packet is sealed.
Drawn(w) == pc[w] = "seal"

\* What makes UniqueSeq inductive: the counter of an SA is at least every number
\* sealed or drawn under it, and a drawn number is neither on the wire nor drawn
\* by anybody else.
Below ==
    /\ \A p \in wire : p.seq <= seq[p.sa]
    /\ \A w \in Writers : Drawn(w) => num[w] \in 1..seq[mine[w]]
    /\ \A w \in Writers : pc[w] = "cas" => num[w] # SeqMax
Apart ==
    /\ \A w \in Writers : Drawn(w) =>
          \A p \in wire : ~(p.sa = mine[w] /\ p.seq = num[w])
    /\ \A w, v \in Writers :
          w # v /\ Drawn(w) /\ Drawn(v) => ~(mine[w] = mine[v] /\ num[w] = num[v])
IndInv == TypeOK /\ UniqueSeq /\ Below /\ Apart

LEMMA InitIndInv == Init => IndInv
BY SenderAssumption DEF Init, IndInv, TypeOK, UniqueSeq, Below, Apart, Drawn, SA, Packet

\* The CAS succeeds: w draws the next number of its SA.
LEMMA DrawIndInv ==
    ASSUME IndInv, NEW w \in Writers, CompareAndSwap(w), seq[mine[w]] = num[w]
    PROVE  IndInv'
<1> USE SenderAssumption DEF SA
<1> DEFINE n == num[w] + 1
<1>1. TypeOK /\ UniqueSeq /\ Below /\ Apart
  BY DEF IndInv
<1>2. /\ pc[w] = "cas" /\ mine[w] \in SA /\ n \in 1..SeqMax
      /\ seq' = [seq EXCEPT ![mine[w]] = n]
      /\ num' = [num EXCEPT ![w] = n]
      /\ pc' = [pc EXCEPT ![w] = "seal"]
      /\ UNCHANGED <<live, conn, mine, writes, wire>>
  BY <1>1 DEF CompareAndSwap, TypeOK, Below
<1>3. TypeOK'
  BY <1>1, <1>2 DEF TypeOK
<1>4. \A a \in SA : seq[a] <= seq'[a]
  BY <1>1, <1>2 DEF TypeOK
<1>5. seq'[mine[w]] = n /\ num'[w] = n
  BY <1>1, <1>2 DEF TypeOK
<1>6. \A v \in Writers : v # w => num'[v] = num[v] /\ pc'[v] = pc[v]
  BY <1>1, <1>2 DEF TypeOK
<1>7. \A p \in wire : p.sa \in SA /\ p.seq \in 1..SeqMax
  BY <1>1 DEF TypeOK, Packet
<1>8. Below'
  <2>1. \A p \in wire' : p.seq <= seq'[p.sa]
    BY <1>1, <1>2, <1>3, <1>4, <1>7 DEF Below, TypeOK
  <2>2. \A v \in Writers : Drawn(v)' => num'[v] \in 1..seq'[mine'[v]]
    BY <1>1, <1>2, <1>3, <1>4, <1>5, <1>6 DEF Below, TypeOK, Drawn
  <2>3. \A v \in Writers : pc'[v] = "cas" => num'[v] # SeqMax
    BY <1>1, <1>2, <1>6 DEF Below, TypeOK
  <2> QED BY <2>1, <2>2, <2>3 DEF Below
<1>9. Apart'
  <2>1. \A v \in Writers : Drawn(v)' =>
           \A p \in wire' : ~(p.sa = mine'[v] /\ p.seq = num'[v])
    BY <1>1, <1>2, <1>5, <1>6, <1>7 DEF Below, Apart, TypeOK, Drawn
  <2>2. ASSUME NEW v \in Writers, NEW u \in Writers, v # u, Drawn(v)', Drawn(u)'
        PROVE  ~(mine'[v] = mine'[u] /\ num'[v] = num'[u])
    BY <2>2, <1>1, <1>2, <1>5, <1>6 DEF Below, Apart, TypeOK, Drawn
  <2> QED BY <2>1, <2>2 DEF Apart
<1> QED BY <1>1, <1>2, <1>3, <1>8, <1>9 DEF IndInv, UniqueSeq

\* The CAS fails: nothing is drawn.
LEMMA RetryIndInv ==
    ASSUME IndInv, NEW w \in Writers, CompareAndSwap(w), seq[mine[w]] # num[w]
    PROVE  IndInv'
<1>1. /\ pc' = [pc EXCEPT ![w] = "loadSeq"]
      /\ UNCHANGED <<live, seq, num, conn, mine, writes, wire>>
  BY DEF CompareAndSwap
<1>2. \A v \in Writers : v # w => pc'[v] = pc[v]
  BY <1>1 DEF IndInv, TypeOK
<1>3. pc'[w] = "loadSeq" /\ TypeOK'
  BY <1>1 DEF IndInv, TypeOK
<1> QED
  BY <1>1, <1>2, <1>3 DEF IndInv, UniqueSeq, Below, Apart, Drawn

LEMMA SealIndInv ==
    ASSUME IndInv, NEW w \in Writers, Seal(w)
    PROVE  IndInv'
<1> USE SenderAssumption DEF SA
<1> DEFINE new == [sa |-> mine[w], seq |-> num[w], by |-> w, nth |-> writes[w]]
<1>1. TypeOK /\ UniqueSeq /\ Below /\ Apart
  BY DEF IndInv
<1>2. /\ Drawn(w) /\ num[w] \in 1..SeqMax /\ num[w] \in 1..seq[mine[w]]
      /\ wire' = wire \cup {new}
      /\ pc' = [pc EXCEPT ![w] = "send"]
      /\ UNCHANGED <<live, seq, conn, mine, num, writes>>
  BY <1>1 DEF Seal, Below, Drawn, TypeOK
<1>3. new \in Packet
  BY <1>1, <1>2 DEF TypeOK, Packet
<1>4. TypeOK'
  BY <1>1, <1>2, <1>3 DEF TypeOK
<1>5. UniqueSeq'
  BY <1>1, <1>2 DEF UniqueSeq, Apart
<1>6. pc'[w] = "send" /\ \A v \in Writers : v # w => pc'[v] = pc[v]
  BY <1>1, <1>2 DEF TypeOK
<1>7. Below'
  BY <1>1, <1>2, <1>6 DEF Below, Drawn
<1>8. Apart'
  BY <1>1, <1>2, <1>6 DEF Apart, Drawn
<1> QED BY <1>4, <1>5, <1>7, <1>8 DEF IndInv

LEMMA NextIndInv == IndInv /\ [Next]_vars => IndInv'
<1> SUFFICES ASSUME IndInv, [Next]_vars PROVE IndInv'
  OBVIOUS
<1> USE SenderAssumption
<1>1. CASE UNCHANGED vars
  BY <1>1 DEF vars, IndInv, TypeOK, UniqueSeq, Below, Apart, Drawn
<1>2. ASSUME NEW w \in Writers, Enter(w) PROVE IndInv'
  BY <1>2 DEF Enter, Return, IndInv, TypeOK, UniqueSeq, Below, Apart, Drawn
<1>3. ASSUME NEW w \in Writers, LoadSA(w) PROVE IndInv'
  BY <1>3 DEF LoadSA, IndInv, TypeOK, UniqueSeq, Below, Apart, Drawn, SA
<1>4. ASSUME NEW w \in Writers, LoadSeq(w) PROVE IndInv'
  <2>1. /\ num' = [num EXCEPT ![w] = seq[mine[w]]]
        /\ pc[w] = "loadSeq"
        /\ UNCHANGED <<live, seq, conn, mine, wire>>
    BY <1>4 DEF LoadSeq
  <2>2. seq[mine[w]] \in 0..SeqMax
    BY DEF IndInv, TypeOK, SA
  <2>3. /\ pc' \in [Writers -> {"idle", "loadSA", "loadSeq", "cas", "seal", "send"}]
        /\ pc'[w] # "seal" /\ (pc'[w] = "cas" => seq[mine[w]] # SeqMax)
        /\ \A v \in Writers : v # w => pc'[v] = pc[v]
        /\ writes' \in [Writers -> Nat]
    BY <1>4 DEF LoadSeq, Return, IndInv, TypeOK
  <2>4. num'[w] = seq[mine[w]] /\ \A v \in Writers : v # w => num'[v] = num[v]
    BY <2>1 DEF IndInv, TypeOK
  <2>5. TypeOK'
    BY <2>1, <2>2, <2>3 DEF IndInv, TypeOK
  <2> QED
    BY <2>1, <2>3, <2>4, <2>5 DEF IndInv, UniqueSeq, Below, Apart, Drawn
<1>5. ASSUME NEW w \in Writers, CompareAndSwap(w) PROVE IndInv'
  BY <1>5, DrawIndInv, RetryIndInv
<1>6. ASSUME NEW w \in Writers, Seal(w) PROVE IndInv'
  BY <1>6, SealIndInv
<1>7. CASE swapSA
  BY <1>7 DEF swapSA, IndInv, TypeOK, UniqueSeq, Below, Apart, Drawn, SA
<1>8. CASE Close
  BY <1>8 DEF Close, IndInv, TypeOK, UniqueSeq, Below, Apart, Drawn
<1>9. ASSUME NEW w \in Writers, SealFails(w) \/ SendReturns(w) PROVE IndInv'
  BY <1>9 DEF SealFails, SendReturns, Return, IndInv, TypeOK, UniqueSeq, Below, Apart, Drawn
<1> QED
  BY <1>1, <1>2, <1>3, <1>4, <1>5, <1>6, <1>7, <1>8, <1>9 DEF Next, Step

\* Encrypt never gives two packets of one SA the same sequence number, hence
\* never the same IV, for every number of concurrent Writes.
THEOREM SeqNeverReused == Spec => []UniqueSeq
<1>1. IndInv => UniqueSeq
  BY DEF IndInv
<1> QED
  BY <1>1, InitIndInv, NextIndInv, PTL DEF Spec

\* The counter and the numbers on the wire stay within the number space.
THEOREM SenderTypeCorrect == Spec => []TypeOK
<1>1. IndInv => TypeOK
  BY DEF IndInv
<1> QED
  BY <1>1, InitIndInv, NextIndInv, PTL DEF Spec

-----------------------------------------------------------------------------
(* The transport: what cancellation and deadlines do to calls that share a *)
(* socket.                                                                 *)
Dirs == {"read", "write"}

\* A deadline on the socket is that of a call which is still going on.
Owned ==
    \A d \in Dirs : deadline[d] \in Timed =>
        \E q \in Callers : Dir(q) = d /\ ctx[q] = deadline[d] /\ call[q] # "out"

\* Two calls that go on in one direction know of each other.
Met ==
    \A p, q \in Callers :
        p # q /\ Dir(p) = Dir(q) /\ call[p] # "out" /\ call[q] # "out" => overlap[p]

\* An AfterFunc waits only during its call and for a context that is not done; a
\* call in the socket has one, or it was started, or it has done its work.
Hooked ==
    \A p \in Callers :
        /\ p \in waiting => call[p] \in {"io", "stop"} /\ ctx[p] \notin ended
        /\ call[p] = "io" => p \in waiting \/ running[p] > 0 \/ Past(Dir(p)) \/ overlap[p]

\* During a call that meets no other and inherits nothing, its own AfterFunc is the
\* only one that can move the deadline into the past, and only for its context.
Alone(p) == call[p] # "out" /\ ~overlap[p] /\ ~stray[p]
Caused ==
    \A p \in Callers : Alone(p) =>
        /\ \A q \in Callers : Dir(q) = Dir(p) /\ running[q] > 0 => q = p /\ ctx[p] \in ended
        /\ deadline[Dir(p)] = "past" => ctx[p] \in ended

\* Errors are told apart only as long as the call goes on.
TimedOut ==
    \A p \in Callers : result[p] = "timeout" =>
        call[p] # "out" /\ (Alone(p) => ctx[p] \in overdue \cup ended)

UDPInv == UDPTypeOK /\ Owned /\ Met /\ Hooked /\ Caused /\ TimedOut

LEMMA DirType == \A p \in Callers : Dir(p) \in Dirs
BY DEF Dir, Dirs

LEMMA InitUDPInv == UDPInit => UDPInv
BY UDPAssumption, DirType
   DEF UDPInit, UDPInv, UDPTypeOK, Owned, Met, Hooked, Caused, Alone, TimedOut, Past, Dirs

\* A call begins: it takes the deadline over from every other one, which now overlaps.
LEMMA BeginInv ==
    ASSUME UDPInv, NEW p \in Callers, NEW c \in Contexts, Begin(p, c)
    PROVE  UDPInv'
<1> USE UDPAssumption, DirType DEF Dirs
<1>1. UDPTypeOK /\ Owned /\ Met /\ Hooked /\ Caused /\ TimedOut
  BY DEF UDPInv
<1>2. CASE sock = "closed"
  <2>1. /\ call[p] = "out"
        /\ result' = [result EXCEPT ![p] = "err"]
        /\ UNCHANGED <<sock, pressure, deadline, call, ctx, overdue, ended, waiting, running, overlap, stray>>
    BY <1>2 DEF Begin, ctxVars, hookVars
  <2> QED BY <1>1, <2>1 DEF UDPInv, UDPTypeOK, Owned, Met, Hooked, Caused, Alone, TimedOut, Past
<1>3. CASE sock = "open"
  <2>1. /\ call[p] = "out"
        /\ deadline' = [deadline EXCEPT ![Dir(p)] = OwnDeadline(c)]
        /\ call' = [call EXCEPT ![p] = "set"]
        /\ ctx' = [ctx EXCEPT ![p] = c]
        /\ result' = [result EXCEPT ![p] = "none"]
        /\ UNCHANGED <<sock, pressure, overdue, ended, waiting, running>>
    BY <1>3 DEF Begin, ctxVars, hookVars
  <2> DEFINE met == {q \in Peers(p) : call[q] # "out"}
  <2>2. /\ overlap' \in [Callers -> BOOLEAN]
        /\ overlap'[p] <=> met # {}
        /\ \A q \in Callers : q # p => (overlap'[q] <=> overlap[q] \/ q \in met)
    <3>1. overlap' = [q \in Callers |-> IF q = p THEN met # {} ELSE overlap[q] \/ q \in met]
      BY <1>3 DEF Begin
    <3>2. \A q \in Callers : overlap[q] \in BOOLEAN
      BY <1>1 DEF UDPTypeOK
    <3> HIDE DEF met
    <3> QED BY <3>1, <3>2
  <2>2a. \A q \in Callers : q \in met <=> q # p /\ Dir(q) = Dir(p) /\ call[q] # "out"
    BY DEF Peers
  <2>2b. met # {} <=> \E q \in Callers : q # p /\ Dir(q) = Dir(p) /\ call[q] # "out"
    BY DEF Peers
  <2> HIDE DEF met
  <2>3. /\ stray' \in [Callers -> BOOLEAN]
        /\ stray'[p] <=> \E q \in Callers : Dir(q) = Dir(p) /\ running[q] > 0
        /\ \A q \in Callers : q # p => (stray'[q] <=> stray[q])
    BY <1>1, <1>3 DEF Begin, Peers, UDPTypeOK
  <2>4. OwnDeadline(c) \in Timed \cup {"none"} /\ (OwnDeadline(c) \in Timed => OwnDeadline(c) = c)
    BY DEF OwnDeadline
  <2>5. UDPTypeOK'
    BY <1>1, <2>1, <2>2, <2>3, <2>4 DEF UDPTypeOK
  <2>6. /\ call'[p] = "set" /\ ctx'[p] = c /\ result'[p] = "none"
        /\ deadline'[Dir(p)] = OwnDeadline(c)
        /\ \A q \in Callers : q # p =>
              call'[q] = call[q] /\ ctx'[q] = ctx[q] /\ result'[q] = result[q]
        /\ \A d \in Dirs : d # Dir(p) => deadline'[d] = deadline[d]
    BY <1>1, <2>1 DEF UDPTypeOK
  <2>7. Owned'
    BY <1>1, <2>1, <2>4, <2>6 DEF Owned
  <2>8. Met'
    BY <1>1, <2>1, <2>2, <2>2a, <2>2b, <2>6 DEF Met
  <2>9. Hooked'
    BY <1>1, <2>1, <2>2, <2>2a, <2>4, <2>6 DEF Hooked, Past
  <2>10. Caused'
    BY <1>1, <2>1, <2>2, <2>2a, <2>3, <2>4, <2>6 DEF Caused, Alone
  <2>11. TimedOut'
    BY <1>1, <2>1, <2>2, <2>3, <2>6 DEF TimedOut, Alone
  <2> QED BY <2>5, <2>7, <2>8, <2>9, <2>10, <2>11 DEF UDPInv
<1> QED BY <1>1, <1>2, <1>3 DEF UDPTypeOK

\* The steps of a call that has begun.
LEMMA CallInv ==
    ASSUME UDPInv, NEW p \in Callers, CallStep(p)
    PROVE  UDPInv'
<1> USE UDPAssumption, DirType DEF Dirs
<1>1. UDPTypeOK /\ Owned /\ Met /\ Hooked /\ Caused /\ TimedOut
  BY DEF UDPInv
<1>2. CASE Register(p)
  <2>1. /\ call[p] = "set" /\ call'[p] = "io"
        /\ \A q \in Callers : q # p => call'[q] = call[q] /\ running'[q] = running[q]
        /\ \A q \in Callers : call'[q] # "out" <=> call[q] # "out"
        /\ UNCHANGED <<sock, pressure, deadline, ctx, result, overdue, ended, overlap, stray>>
    BY <1>1, <1>2 DEF Register, ctxVars, UDPTypeOK
  <2>2. \/ ctx[p] \in ended /\ running'[p] = running[p] + 1 /\ waiting' = waiting
        \/ ctx[p] \notin ended /\ waiting' = waiting \cup {p} /\ running' = running
    BY <1>1, <1>2 DEF Register, UDPTypeOK
  <2>3. UDPTypeOK'
    BY <1>1, <1>2 DEF Register, ctxVars, UDPTypeOK
  <2>4. Owned' /\ Met' /\ TimedOut'
    BY <1>1, <2>1 DEF Owned, Met, TimedOut, Alone
  <2>5. Hooked'
    BY <1>1, <2>1, <2>2 DEF Hooked, Past, UDPTypeOK
  <2>6. Caused'
    BY <1>1, <2>1, <2>2 DEF Caused, Met, Alone, UDPTypeOK
  <2> QED BY <2>3, <2>4, <2>5, <2>6 DEF UDPInv
<1>3. CASE Finish(p)
  <2>1. /\ call[p] = "io" /\ call'[p] = "stop"
        /\ \A q \in Callers : q # p => call'[q] = call[q] /\ result'[q] = result[q]
        /\ \A q \in Callers : call'[q] # "out" <=> call[q] # "out"
        /\ UNCHANGED <<sock, pressure, deadline, ctx, overdue, ended, waiting, running, overlap, stray>>
    BY <1>1, <1>3 DEF Finish, ctxVars, hookVars, UDPTypeOK
  <2>2. UDPTypeOK'
    BY <1>1, <1>3 DEF Finish, ctxVars, hookVars, UDPTypeOK
  <2>3. Owned' /\ Met' /\ Hooked' /\ Caused'
    BY <1>1, <2>1 DEF Owned, Met, Hooked, Caused, Alone, Past
  <2>4. result'[p] = "timeout" => Past(Dir(p))
    BY <1>1, <1>3 DEF Finish, UDPTypeOK
  <2>5. Past(Dir(p)) /\ Alone(p) => ctx[p] \in overdue \cup ended
    <3>1. CASE deadline[Dir(p)] = "past"
      BY <3>1, <1>1 DEF Caused
    <3>2. CASE deadline[Dir(p)] \in overdue
      BY <3>2, <1>1, <2>1 DEF Owned, Met, Alone, UDPTypeOK
    <3> QED BY <3>1, <3>2 DEF Past
  <2>6. TimedOut'
    BY <1>1, <2>1, <2>4, <2>5 DEF TimedOut, Alone
  <2> QED BY <2>2, <2>3, <2>6 DEF UDPInv
<1>4. CASE Stop(p)
  <2>1. /\ call[p] = "stop" /\ call'[p] = "clear" /\ waiting' = waiting \ {p}
        /\ \A q \in Callers : q # p => call'[q] = call[q]
        /\ \A q \in Callers : call'[q] # "out" <=> call[q] # "out"
        /\ UNCHANGED <<sock, pressure, deadline, ctx, result, overdue, ended, running, overlap, stray>>
    BY <1>1, <1>4 DEF Stop, ctxVars, UDPTypeOK
  <2>2. UDPTypeOK'
    BY <1>1, <1>4 DEF Stop, ctxVars, UDPTypeOK
  <2>3. Owned' /\ Met' /\ Hooked' /\ Caused' /\ TimedOut'
    BY <1>1, <2>1 DEF Owned, Met, Hooked, Caused, TimedOut, Alone, Past
  <2> QED BY <2>2, <2>3 DEF UDPInv
<1>5. CASE Clear(p)
  <2>1. /\ call[p] = "clear" /\ call'[p] = "out" /\ deadline'[Dir(p)] = "none"
        /\ \A q \in Callers : q # p =>
              /\ call'[q] = call[q] /\ result'[q] = result[q]
              /\ overlap'[q] = overlap[q] /\ stray'[q] = stray[q]
        /\ result'[p] # "timeout"
        /\ \A d \in Dirs : d # Dir(p) => deadline'[d] = deadline[d]
        /\ UNCHANGED <<sock, pressure, ctx, overdue, ended, waiting, running>>
    BY <1>1, <1>5 DEF Clear, ctxVars, hookVars, UDPTypeOK
  <2>2. UDPTypeOK'
    BY <1>1, <1>5 DEF Clear, ctxVars, hookVars, UDPTypeOK
  <2>3. Owned' /\ Met'
    BY <1>1, <2>1 DEF Owned, Met
  <2>4. Hooked'
    BY <1>1, <2>1 DEF Hooked, Met, Past
  <2>5. Caused' /\ TimedOut'
    BY <1>1, <2>1 DEF Caused, TimedOut, Alone
  <2> QED BY <2>2, <2>3, <2>4, <2>5 DEF UDPInv
<1> QED BY <1>2, <1>3, <1>4, <1>5 DEF CallStep

LEMMA AfterFuncInv ==
    ASSUME UDPInv, NEW p \in Callers, AfterFunc(p)
    PROVE  UDPInv'
<1> USE UDPAssumption, DirType DEF Dirs
<1>1. UDPTypeOK /\ Owned /\ Met /\ Hooked /\ Caused /\ TimedOut
  BY DEF UDPInv
<1>2. /\ running[p] > 0 /\ running'[p] = running[p] - 1
      /\ \A q \in Callers : q # p => running'[q] = running[q]
      /\ deadline'[Dir(p)] = "past"
      /\ \A d \in Dirs : d # Dir(p) => deadline'[d] = deadline[d]
      /\ UNCHANGED <<sock, pressure, call, ctx, result, overdue, ended, waiting, overlap, stray>>
  BY DEF AfterFunc, callVars, ctxVars, UDPInv, UDPTypeOK
<1>3. UDPTypeOK'
  BY DEF AfterFunc, callVars, ctxVars, UDPInv, UDPTypeOK
<1>4. Owned' /\ Met' /\ TimedOut'
  BY <1>1, <1>2 DEF Owned, Met, TimedOut, Alone
<1>5. Hooked'
  BY <1>1, <1>2 DEF Hooked, Past
<1>6. Caused'
  BY <1>1, <1>2, <1>3 DEF Caused, Alone, UDPTypeOK
<1> QED BY <1>3, <1>4, <1>5, <1>6 DEF UDPInv

\* Contexts are done: every AfterFunc that waits for one of them is started.
LEMMA DoneInv ==
    ASSUME UDPInv, NEW C \in SUBSET Contexts, Done(C),
           UNCHANGED <<sock, pressure, deadline, callVars, overdue, overlap, stray>>
    PROVE  UDPInv'
<1> USE UDPAssumption, DirType DEF Dirs
<1>1. UDPTypeOK /\ Owned /\ Met /\ Hooked /\ Caused /\ TimedOut
  BY DEF UDPInv
<1>2. /\ ended' = ended \cup C
      /\ waiting' = waiting \ {p \in waiting : ctx[p] \in C}
      /\ \A p \in Callers : running'[p] = IF p \in waiting /\ ctx[p] \in C
                                          THEN running[p] + 1 ELSE running[p]
      /\ UNCHANGED <<sock, pressure, deadline, call, ctx, result, overdue, overlap, stray>>
  BY DEF Done, callVars
<1>3. UDPTypeOK'
  BY <1>1 DEF Done, callVars, UDPTypeOK
<1>4. Owned' /\ Met' /\ TimedOut'
  BY <1>1, <1>2 DEF Owned, Met, TimedOut, Alone
<1>5. Hooked'
  BY <1>1, <1>2, <1>3 DEF Hooked, Past, UDPTypeOK
<1>6. Caused'
  BY <1>1, <1>2, <1>3 DEF Caused, Hooked, Met, Alone, UDPTypeOK
<1> QED BY <1>3, <1>4, <1>5, <1>6 DEF UDPInv

LEMMA RenewInv ==
    ASSUME UDPInv, NEW c \in Timed, Renew(c)
    PROVE  UDPInv'
<1> USE UDPAssumption, DirType DEF Dirs
<1>1. UDPTypeOK /\ Owned /\ Met /\ Hooked /\ Caused /\ TimedOut
  BY DEF UDPInv
<1>2. /\ \A p \in Callers : ctx[p] = c => call[p] = "out"
      /\ overdue' = overdue \ {c} /\ ended' = ended \ {c}
      /\ UNCHANGED <<sock, pressure, deadline, call, ctx, result, waiting, running, overlap, stray>>
  BY DEF Renew, callVars, hookVars
<1>3. UDPTypeOK'
  BY <1>1, <1>2 DEF UDPTypeOK
<1>4. \A d \in Dirs : Past(d)' <=> Past(d)
  BY <1>1, <1>2 DEF Owned, Past, UDPTypeOK
<1>5. Owned' /\ Met' /\ Hooked'
  BY <1>1, <1>2, <1>4 DEF Owned, Met, Hooked
<1>6. Caused' /\ TimedOut'
  BY <1>1, <1>2 DEF Caused, TimedOut, Alone
<1> QED BY <1>3, <1>5, <1>6 DEF UDPInv

LEMMA UDPNextInv == UDPInv /\ [UDPNext]_udpVars => UDPInv'
<1> SUFFICES ASSUME UDPInv, [UDPNext]_udpVars PROVE UDPInv'
  OBVIOUS
<1> USE UDPAssumption
<1>1. ASSUME NEW c \in Timed, Elapse(c) PROVE UDPInv'
  BY <1>1, DirType DEF Elapse, callVars, hookVars, UDPInv, UDPTypeOK, Owned, Met, Hooked, Caused,
                       Alone, TimedOut, Past
<1>2. ASSUME Stall \/ CloseSocket \/ UNCHANGED udpVars PROVE UDPInv'
  BY <1>2, DirType DEF Stall, CloseSocket, udpVars, callVars, ctxVars, hookVars, UDPInv, UDPTypeOK,
                       Owned, Met, Hooked, Caused, Alone, TimedOut, Past
<1>3. ASSUME NEW C \in SUBSET Contexts, Cancel(C) PROVE UDPInv'
  BY <1>3, DoneInv DEF Cancel
<1>4. ASSUME NEW c \in Timed, Expire(c) PROVE UDPInv'
  BY <1>4, DoneInv DEF Expire
<1> QED
  BY <1>1, <1>2, <1>3, <1>4, BeginInv, CallInv, AfterFuncInv, RenewInv DEF UDPNext

LEMMA UDPInvImplies == UDPInv => Interrupted /\ FailsForCause
BY DEF UDPInv, Hooked, TimedOut, Alone, Interrupted, FailsForCause, UDPTypeOK

\* However many goroutines share the socket: the end of a context reaches its call,
\* unless another call in the same direction crossed it.
THEOREM CancelReaches == UDPSpec => []Interrupted
BY InitUDPInv, UDPNextInv, UDPInvImplies, PTL DEF UDPSpec

\* However many goroutines share the socket: a call that meets no other and no late
\* AfterFunc fails with a timeout only when its own context is over.
THEOREM TimeoutHasCause == UDPSpec => []FailsForCause
BY InitUDPInv, UDPNextInv, UDPInvImplies, PTL DEF UDPSpec

-----------------------------------------------------------------------------
(* The composed data path.                                                 *)
LEMMA CastTypes ==
    /\ Writers \subseteq Callers /\ Workers \subseteq Callers
    /\ {"tunnel", "workers", "bye", "attempt"} \subseteq Contexts
BY ConnAssumption

\* Every step of the data path is a step of the sender or leaves it alone.
LEMMA SenderStep == ConnNext => [Next]_vars
<1> SUFFICES ASSUME ConnNext PROVE Next \/ UNCHANGED vars
  OBVIOUS
<1>1. ASSUME NEW w \in Writers, WriterStep(w) PROVE Next \/ UNCHANGED vars
  BY <1>1 DEF WriterStep, Encrypting, SealAndSend, Sending, WriteReturns, Next, Step
<1>2. ASSUME NEW p \in Workers, WorkerStep(p) PROVE UNCHANGED vars
  BY <1>2 DEF WorkerStep, WorkerSend, WorkerLeaves, Calling, DriverGone, Recv, RxLeaves, Established
<1>3. CASE CloseTunnel \/ TunnelClose
  BY <1>3 DEF CloseTunnel, TunnelClose, CloseConn, Next
<1>4. CASE Rekey
  BY <1>4 DEF Rekey, Next
<1>5. CASE \/ \E p \in Callers : AfterFuncRuns(p)
           \/ \E c \in Timed : Time(c)
           \/ CloseSession \/ NextAttempt \/ Backpressure \/ Arrival \/ CloseBegins
           \/ UNCHANGED NotRead
  BY <1>5 DEF AfterFuncRuns, Time, CloseSession, NextAttempt, Backpressure, Arrival, CloseBegins, NotRead
<1> QED
  BY <1>1, <1>2, <1>3, <1>4, <1>5 DEF ConnNext, System, Environment

\* Every step of the data path is a step of the transport or leaves it alone.
LEMMA TransportStep == ConnNext => [UDPNext]_udpVars
<1> SUFFICES ASSUME ConnNext PROVE UDPNext \/ UNCHANGED udpVars
  OBVIOUS
<1> USE CastTypes
<1>1. ASSUME NEW w \in Writers, WriterStep(w) PROVE UDPNext \/ UNCHANGED udpVars
  BY <1>1 DEF WriterStep, Encrypting, SealAndSend, Sending, WriteReturns, UDPNext
<1>2. ASSUME NEW p \in Workers, WorkerStep(p) PROVE UDPNext \/ UNCHANGED udpVars
  BY <1>2 DEF WorkerStep, WorkerSend, WorkerLeaves, Calling, DriverGone, Recv, RxLeaves, Established, UDPNext, Workers
<1>3. CASE CloseTunnel \/ TunnelClose \/ CloseBegins
  BY <1>3 DEF CloseTunnel, TunnelClose, CloseConn, CloseBegins, UDPNext
<1>4. CASE NextAttempt
  BY <1>4, ConnAssumption DEF NextAttempt, UDPNext
<1>5. ASSUME NEW p \in Callers, AfterFuncRuns(p) PROVE UDPNext
  BY <1>5 DEF AfterFuncRuns, UDPNext
<1>6. ASSUME NEW c \in Timed, Time(c) PROVE UDPNext
  BY <1>6 DEF Time, UDPNext
<1>7. CASE CloseSession \/ Backpressure
  BY <1>7 DEF CloseSession, Backpressure, UDPNext
<1>8. CASE Rekey \/ Arrival \/ UNCHANGED NotRead
  BY <1>8 DEF Rekey, Arrival, NotRead
<1> QED
  BY <1>1, <1>2, <1>3, <1>4, <1>5, <1>6, <1>7, <1>8 DEF ConnNext, System, Environment

\* A step that changes nothing here changes neither the sender nor the transport.
LEMMA Stutters == UNCHANGED connVars => UNCHANGED vars /\ UNCHANGED udpVars /\ UNCHANGED readVars
BY DEF connVars

\* The composition implements the sender: whatever the transport and the other
\* goroutines do, its packets are numbered as ESPSender numbers them.
THEOREM ImplementsSender == ConnSpec => Init /\ [][Next]_vars
<1>1. ConnInit => Init
  BY DEF ConnInit
<1>2. [ConnNext]_connVars => [Next]_vars
  BY SenderStep, Stutters
<1> QED
  BY <1>1, <1>2, PTL DEF ConnSpec

\* The composition implements the transport with callers and contexts left open.
THEOREM ImplementsTransport == ConnSpec => UDPSpec
<1>1. ConnInit => UDPInit
  BY DEF ConnInit
<1>2. [ConnNext]_connVars => [UDPNext]_udpVars
  BY TransportStep, Stutters
<1> QED
  BY <1>1, <1>2, PTL DEF ConnSpec, UDPSpec

\* No IV is used twice on the composed path.
THEOREM ConnSeqNeverReused == ConnSpec => []UniqueSeq
<1>1. IndInv => UniqueSeq
  BY DEF IndInv
<1> QED
  BY <1>1, InitIndInv, NextIndInv, ImplementsSender, PTL

\* Cancellation reaches a Send or Recv of the composed path, crossing calls apart.
THEOREM ConnCancelReaches == ConnSpec => []Interrupted
BY ImplementsTransport, CancelReaches, PTL

\* A Send or Recv of the composed path fails for a cause of its own, with the same
\* exception and that of a late AfterFunc.
THEOREM ConnTimeoutHasCause == ConnSpec => []FailsForCause
BY ImplementsTransport, TimeoutHasCause, PTL

-----------------------------------------------------------------------------
(* The receiver.                                                           *)

\* A trailer that fillTrailer wrote for a datagram of any length fills whole blocks
\* or words, passes every check of Decrypt and gives the datagram back.
THEOREM TrailerReadsBack ==
    ASSUME NEW suite \in Suites, NEW n \in Nat, NEW v \in {4, 6}
    PROVE  LET plain == fillTrailer(suite, n, v)
           IN  /\ plain.len % Align(suite) = 0
               /\ Framed(suite, plain) /\ WellFormed(plain)
               /\ InnerLen(plain) = n
<1> DEFINE a == Align(suite)
           k == padLen(suite, n)
           plain == fillTrailer(suite, n, v)
<1>1. a \in {4, 16} /\ (suite = "cbc" => a = 16) /\ Least(suite) <= a
  BY DEF Align, Suites, Least
<1>2. k \in 0..15 /\ (n + k + 2) % a = 0
  <2>1. CASE suite = "cbc"
    BY <2>1, Z3 DEF padLen, Align
  <2>2. CASE suite = "aead"
    BY <2>2, Z3 DEF padLen, Align
  <2> QED BY <2>1, <2>2 DEF Suites
<1>3. /\ plain.len = n + k + 2 /\ plain.padLen = k /\ plain.next \in {4, 41}
      /\ plain.pad = [i \in 1..k |-> i]
  BY DEF fillTrailer
<1>4. n + k + 2 >= a
  BY <1>1, <1>2, Z3
<1> HIDE DEF a, k, plain
<1>5. WellFormed(plain) /\ InnerLen(plain) = n
  BY <1>2, <1>3 DEF WellFormed, InnerLen
<1>6. Framed(suite, plain)
  BY <1>1, <1>2, <1>3, <1>4 DEF Framed, Least, Suites
<1> QED BY <1>2, <1>3, <1>5, <1>6 DEF a, plain

\* What makes DeliveredOnce inductive: the window of an SA has taken exactly the
\* numbers of the packets delivered, and those are packets the socket took.
RcvInv ==
    /\ sent \subseteq wire /\ delivered \subseteq sent /\ again = {}
    /\ taken \in [SA -> SUBSET Nat] /\ high \in [SA -> Nat]
    /\ \A a \in SA, n \in Nat : n \in taken[a] <=> \E q \in delivered : q.sa = a /\ q.seq = n
    /\ \A a \in SA : high[a] = 0 \/ high[a] \in taken[a]

\* A sealed packet that arrives is delivered exactly if the window accepts it.
LEMMA ArriveDelivers ==
    ASSUME NEW p, NEW suite \in Suites, NEW n \in Lengths, NEW v \in {4, 6}, Arrive(p, suite, n, v)
    PROVE  IF Window(p.sa)!Acceptable(p.seq)
           THEN Record(p.sa, p.seq) /\ DeliverInbound(p)
           ELSE UNCHANGED <<high, taken, delivered, again>>
<1> DEFINE plain == fillTrailer(suite, n, v)
<1>1. Framed(suite, plain) /\ WellFormed(plain)
  BY TrailerReadsBack, RcvAssumption
<1>2. Decrypt(p, TRUE, suite, plain)
  BY DEF Arrive
<1>3. plain.len >= Least(suite)
  BY <1>1 DEF Framed
<1> HIDE DEF plain
<1> QED BY <1>1, <1>2, <1>3 DEF Decrypt

LEMMA ArriveInv ==
    ASSUME IndInv, RcvInv, NEW p \in sent, NEW suite \in Suites, NEW n \in Lengths, NEW v \in {4, 6},
           Arrive(p, suite, n, v), UNCHANGED <<vars, sent>>
    PROVE  RcvInv'
<1> USE SenderAssumption
<1>1. p \in wire /\ p.sa \in SA /\ p.seq \in Nat
  BY DEF RcvInv, IndInv, TypeOK, Packet
<1>2. UNCHANGED <<wire, sent>>
  BY DEF vars
<1>3. CASE ~Window(p.sa)!Acceptable(p.seq)
  BY <1>2, <1>3, ArriveDelivers DEF RcvInv
<1>4. CASE Window(p.sa)!Acceptable(p.seq)
  <2>1. /\ p.seq \notin taken[p.sa]
        /\ taken' = [taken EXCEPT ![p.sa] = @ \cup {p.seq}]
        /\ high' = [high EXCEPT ![p.sa] = Larger(@, p.seq)]
        /\ delivered' = delivered \cup {p}
        /\ again' = IF p \in delivered THEN again \cup {p} ELSE again
    BY <1>4, ArriveDelivers DEF Window!Acceptable, Record, DeliverInbound
  <2>2. p \notin delivered
    BY <1>1, <2>1 DEF RcvInv
  <2>3. taken' \in [SA -> SUBSET Nat] /\ high' \in [SA -> Nat]
    BY <1>1, <2>1 DEF RcvInv, Larger
  <2>4. /\ taken'[p.sa] = taken[p.sa] \cup {p.seq} /\ high'[p.sa] = Larger(high[p.sa], p.seq)
        /\ \A a \in SA : a # p.sa => taken'[a] = taken[a] /\ high'[a] = high[a]
    BY <1>1, <2>1 DEF RcvInv
  <2>5. \A a \in SA, m \in Nat : m \in taken'[a] <=> \E q \in delivered' : q.sa = a /\ q.seq = m
    BY <1>1, <2>1, <2>4 DEF RcvInv
  <2>6. \A a \in SA : high'[a] = 0 \/ high'[a] \in taken'[a]
    <3>1. high'[p.sa] = high[p.sa] \/ high'[p.sa] = p.seq
      BY <2>4 DEF Larger
    <3>2. \A a \in SA : high[a] = 0 \/ high[a] \in taken[a]
      BY DEF RcvInv
    <3> QED BY <1>1, <2>4, <3>1, <3>2
  <2> QED BY <1>2, <2>1, <2>2, <2>3, <2>5, <2>6 DEF RcvInv
<1> QED BY <1>3, <1>4

LEMMA RcvNextInv == IndInv /\ RcvInv /\ [ConnNext]_connVars => RcvInv'
<1> SUFFICES ASSUME IndInv, RcvInv, [ConnNext]_connVars PROVE RcvInv'
  OBVIOUS
<1>1. wire \subseteq wire'
  <2>1. [Next]_vars
    BY SenderStep, Stutters
  <2> QED
    BY <2>1 DEF Next, Step, Enter, LoadSA, LoadSeq, CompareAndSwap, Seal, SealFails, SendReturns, swapSA,
                Close, vars
<1>2. CASE UNCHANGED rcvVars /\ sent' \subseteq sent \cup wire /\ sent \subseteq sent'
  BY <1>1, <1>2 DEF RcvInv, rcvVars
<1>3. CASE Arrival
  <2>1. UNCHANGED <<vars, sent>>
    BY <1>3 DEF Arrival
  <2>2. ASSUME NEW a \in SA, NEW n \in 1..SeqMax, NEW suite \in Suites, ArriveForged(a, n, suite)
        PROVE  RcvInv'
    BY <2>1, <2>2 DEF ArriveForged, Decrypt, RcvInv, vars
  <2> QED BY <1>3, <2>1, <2>2, ArriveInv DEF Arrival
<1>4. ASSUME NEW w \in Writers, WriterStep(w)
      PROVE  UNCHANGED rcvVars /\ sent' \subseteq sent \cup wire /\ sent \subseteq sent'
  BY <1>4 DEF WriterStep, Encrypting, SealAndSend, Sending, WriteReturns
<1>5. ASSUME NEW p \in Workers, WorkerStep(p) PROVE UNCHANGED <<rcvVars, sent>>
  BY <1>5 DEF WorkerStep, WorkerSend, WorkerLeaves, Calling, DriverGone, Recv, RxLeaves, Established
<1>6. CASE \/ \E p \in Callers : AfterFuncRuns(p)
           \/ \E c \in Timed : Time(c)
           \/ CloseTunnel \/ TunnelClose \/ CloseSession \/ CloseBegins
           \/ NextAttempt \/ Backpressure \/ Rekey
           \/ UNCHANGED NotRead \/ UNCHANGED connVars
  <2>1. UNCHANGED <<rcvVars, sent>>
    BY <1>6 DEF AfterFuncRuns, Time, CloseTunnel, TunnelClose, CloseSession, CloseBegins, NextAttempt,
                Backpressure, Rekey, NotRead, connVars
  <2> QED BY <1>2, <2>1
<1> QED
  BY <1>2, <1>3, <1>4, <1>5, <1>6 DEF ConnNext, System, Environment

LEMMA RcvInitInv == ConnInit => IndInv /\ RcvInv
<1>1. ConnInit => IndInv
  BY InitIndInv DEF ConnInit
<1>2. ConnInit => RcvInv
  BY DEF ConnInit, RcvInit, Init, RcvInv
<1> QED BY <1>1, <1>2

\* For any number of writers, SAs and arrivals and any window, no datagram is
\* delivered twice.
THEOREM NeverDeliveredTwice == ConnSpec => []DeliveredOnce
<1>1. IndInv /\ [ConnNext]_connVars => IndInv'
  BY NextIndInv, SenderStep, Stutters
<1>2. RcvInv => DeliveredOnce
  BY DEF RcvInv, DeliveredOnce
<1> QED
  BY <1>1, <1>2, RcvInitInv, RcvNextInv, PTL DEF ConnSpec

\* For any window a packet that arrives for the first time is delivered unless one
\* that was delivered before has pushed it out: nothing else uses its number up.
THEOREM FreshNeverRefused == ConnSpec => FreshDelivered
<1> DEFINE Late(p) == ~ \A q \in delivered : q.sa = p.sa => q.seq < p.seq + WindowSize
           Kept == \A p \in sent \ delivered' : ~Late(p) =>
                     ~ \E suite \in Suites, n \in Lengths, v \in {4, 6} : Arrive(p, suite, n, v)
<1>1. IndInv /\ RcvInv => Kept
  <2> SUFFICES ASSUME IndInv, RcvInv, NEW p \in sent, p \notin delivered', ~Late(p),
                      NEW suite \in Suites, NEW n \in Lengths, NEW v \in {4, 6},
                      Arrive(p, suite, n, v)
               PROVE  FALSE
    OBVIOUS
  <2> USE SenderAssumption, RcvAssumption
  <2>1. p \in wire /\ p.sa \in SA /\ p.seq \in Nat \ {0} /\ wire \subseteq Packet
    BY DEF RcvInv, IndInv, TypeOK, Packet
  <2>2. ~Window(p.sa)!Acceptable(p.seq) /\ delivered' = delivered
    BY ArriveDelivers DEF DeliverInbound
  <2>3. CASE p.seq \in taken[p.sa]
    <3>1. PICK q \in delivered : q.sa = p.sa /\ q.seq = p.seq
      BY <2>1, <2>3 DEF RcvInv
    <3>2. q = p
      BY <3>1, <2>1 DEF RcvInv, IndInv, UniqueSeq
    <3> QED BY <3>1, <3>2, <2>2
  <2>4. CASE p.seq \notin taken[p.sa]
    <3>1. p.seq + WindowSize <= high[p.sa] /\ high[p.sa] \in Nat
      BY <2>1, <2>2, <2>4 DEF Window!Acceptable, RcvInv
    <3>2. PICK q \in delivered : q.sa = p.sa /\ q.seq = high[p.sa]
      BY <2>1, <3>1 DEF RcvInv
    <3> QED BY <2>1, <3>1, <3>2
  <2> QED BY <2>3, <2>4
<1>2. IndInv /\ [ConnNext]_connVars => IndInv'
  BY NextIndInv, SenderStep, Stutters
<1>3. Kept <=> \A p \in sent \ delivered' :
                  (\A q \in delivered : q.sa = p.sa => q.seq < p.seq + WindowSize)
                  => ~ \E suite \in Suites, n \in Lengths, v \in {4, 6} : Arrive(p, suite, n, v)
  OBVIOUS
<1> HIDE DEF Kept
<1> QED
  BY <1>1, <1>2, <1>3, RcvInitInv, RcvNextInv, PTL DEF ConnSpec, FreshDelivered

-----------------------------------------------------------------------------
(* Read.                                                                   *)

\* The deadline that a Read works with is the current one from the moment it was
\* loaded, not only once the Read waits, or a wake-up is due.
ReadInv ==
    /\ wakes \in Nat /\ wake \in BOOLEAN
    /\ rd \in {"loaded", "wait"} /\ dl # readDeadline => wake \/ wakes > 0

\* No deadline that SetReadDeadline stores, by any number of callers, is slept through.
THEOREM ReadIsWoken == ConnSpec => []NoLostWake
<1>1. ConnInit => ReadInv
  <2>1. ConnInit => rd = "out" /\ wakes = 0 /\ wake = FALSE
    BY Zenon DEF ConnInit
  <2>2. (rd = "out" => rd \notin {"loaded", "wait"}) /\ 0 \in Nat
    OBVIOUS
  <2> QED BY <2>1, <2>2, Zenon DEF ReadInv
<1>2. ReadInv /\ [ConnNext]_connVars => ReadInv'
  <2> SUFFICES ASSUME ReadInv, [ConnNext]_connVars PROVE ReadInv'
    OBVIOUS
  <2>1. CASE UNCHANGED readVars
    BY <2>1 DEF readVars, ReadInv
  <2>2. CASE ReadStep
    BY <2>2 DEF ReadStep, ReadEnter, ReadLoad, ReadWait, ReadSelect, ReadInv
  <2>3. CASE Wake \/ Tick \/ \E t \in 0..MaxTime : SetReadDeadline(t)
    <3>1. CASE Wake
      <4>1. wakes' \in Nat /\ wake' = TRUE
        BY <3>1 DEF Wake, ReadInv
      <4> QED BY <4>1, Zenon DEF ReadInv
    <3>2. CASE Tick
      BY <3>2 DEF Tick, ReadInv
    <3>3. ASSUME NEW t \in 0..MaxTime, SetReadDeadline(t) PROVE ReadInv'
      <4>1. wakes' \in Nat /\ wakes' > 0 /\ wake' = wake
        BY <3>3 DEF SetReadDeadline, ReadInv
      <4> QED BY <4>1, Zenon DEF ReadInv
    <3> QED BY <2>3, <3>1, <3>2, <3>3
  <2>4. ASSUME NEW w \in Writers, WriterStep(w) PROVE UNCHANGED readVars
    BY <2>4 DEF WriterStep, Encrypting, SealAndSend, Sending, WriteReturns
  <2>5. ASSUME NEW p \in Workers, WorkerStep(p) PROVE UNCHANGED readVars
    BY <2>5 DEF WorkerStep, WorkerSend, WorkerLeaves, Calling, DriverGone, Recv, RxLeaves, Established
  <2>6. CASE \/ \E p \in Callers : AfterFuncRuns(p)
             \/ \E c \in Timed : Time(c)
             \/ CloseTunnel \/ TunnelClose \/ CloseSession \/ CloseBegins
             \/ NextAttempt \/ Backpressure \/ Rekey \/ Arrival
    BY <2>1, <2>6 DEF AfterFuncRuns, Time, CloseTunnel, TunnelClose, CloseSession, CloseBegins,
                      NextAttempt, Backpressure, Rekey, Arrival
  <2> QED
    BY <2>1, <2>2, <2>3, <2>4, <2>5, <2>6, Stutters DEF ConnNext, System, Environment
<1>3. ReadInv => NoLostWake
  BY DEF ReadInv, NoLostWake
<1> QED
  BY <1>1, <1>2, <1>3, PTL DEF ConnSpec
=============================================================================
