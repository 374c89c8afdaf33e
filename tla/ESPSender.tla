----------------------------- MODULE ESPSender -----------------------------
(***************************************************************************)
(* The outbound data plane: concurrent Writes of the netstack on one       *)
(* espConn (internal/tunnel) and the sequence numbers they draw from the   *)
(* ESP SA (internal/esp, Encrypt), while a rekey swaps the SA under them.  *)
(*                                                                         *)
(* For the AEAD suites the sequence number is the IV, so a number that is  *)
(* used twice under one SA is a nonce used twice under one key.            *)
(***************************************************************************)
EXTENDS Naturals

CONSTANTS
    Writers,    \* goroutines that call Write
    SeqMax,     \* ^uint32(0): the last sequence number
    MaxSA,      \* bound: SAs the tunnel is given, one after the other
    MaxWrites   \* bound: Writes per goroutine

ASSUME SenderAssumption ==
    /\ SeqMax \in Nat \ {0}
    /\ MaxSA \in Nat \ {0}
    /\ MaxWrites \in Nat

VARIABLES
    live,     \* espConn.sa: the SA the next Write loads
    seq,      \* SA.seq of every SA
    conn,     \* whether the espConn is open or closed
    pc,       \* where each Write stands
    mine,     \* the SA it loaded
    num,      \* Encrypt's cur, then its seq
    writes,   \* Writes that are over, per writer
    wire      \* every ESP packet sealed: SA, number, and whose Write it was

vars == <<live, seq, conn, pc, mine, num, writes, wire>>

SA == 1..MaxSA
Packet == [sa : SA, seq : 1..SeqMax, by : Writers, nth : Nat]

Init ==
    /\ live = 1
    /\ seq = [a \in SA |-> 0]
    /\ conn = "open"
    /\ pc = [w \in Writers |-> "idle"]
    /\ mine = [w \in Writers |-> 1]
    /\ num = [w \in Writers |-> 0]
    /\ writes = [w \in Writers |-> 0]
    /\ wire = {}

\* The Write of w is over, with or without an error.
Return(w) ==
    /\ pc' = [pc EXCEPT ![w] = "idle"]
    /\ writes' = [writes EXCEPT ![w] = @ + 1]

\* Write: refused once the conn is closed.
Enter(w) ==
    /\ pc[w] = "idle" /\ writes[w] < MaxWrites
    /\ IF conn = "closed" THEN Return(w)
       ELSE pc' = [pc EXCEPT ![w] = "loadSA"] /\ UNCHANGED writes
    /\ UNCHANGED <<live, seq, conn, mine, num, wire>>

\* atomicSA.load: from here on the Write keeps this SA.
LoadSA(w) ==
    /\ pc[w] = "loadSA"
    /\ mine' = [mine EXCEPT ![w] = live]
    /\ pc' = [pc EXCEPT ![w] = "loadSeq"]
    /\ UNCHANGED <<live, seq, conn, num, writes, wire>>

\* Encrypt: the counter is read; at its end it stays there and Encrypt fails.
LoadSeq(w) ==
    /\ pc[w] = "loadSeq"
    /\ num' = [num EXCEPT ![w] = seq[mine[w]]]
    /\ IF seq[mine[w]] = SeqMax THEN Return(w)
       ELSE pc' = [pc EXCEPT ![w] = "cas"] /\ UNCHANGED writes
    /\ UNCHANGED <<live, seq, conn, mine, wire>>

\* Fault: the counter is stored without comparing.
CompareAndSwap_Blind(w) ==
    /\ pc[w] = "cas"
    /\ seq' = [seq EXCEPT ![mine[w]] = num[w] + 1]
    /\ num' = [num EXCEPT ![w] = @ + 1]
    /\ pc' = [pc EXCEPT ![w] = "seal"]
    /\ UNCHANGED <<live, conn, mine, writes, wire>>

\* Fault: a lost race is tried again with the value read before it.
CompareAndSwap_Stale(w) ==
    /\ pc[w] = "cas"
    /\ seq[mine[w]] = num[w]
    /\ seq' = [seq EXCEPT ![mine[w]] = num[w] + 1]
    /\ num' = [num EXCEPT ![w] = @ + 1]
    /\ pc' = [pc EXCEPT ![w] = "seal"]
    /\ UNCHANGED <<live, conn, mine, writes, wire>>

\* Encrypt: the number is ours if nobody moved the counter meanwhile.
CompareAndSwap(w) ==
    /\ pc[w] = "cas"
    /\ \/ /\ seq[mine[w]] = num[w]
          /\ seq' = [seq EXCEPT ![mine[w]] = num[w] + 1]
          /\ num' = [num EXCEPT ![w] = @ + 1]
          /\ pc' = [pc EXCEPT ![w] = "seal"]
       \/ /\ seq[mine[w]] # num[w]
          /\ pc' = [pc EXCEPT ![w] = "loadSeq"]
          /\ UNCHANGED <<seq, num>>
    /\ UNCHANGED <<live, conn, mine, writes, wire>>

\* encryptCBC or encryptAEAD seals the packet under the number.
Seal(w) ==
    /\ pc[w] = "seal"
    /\ wire' = wire \cup {[sa |-> mine[w], seq |-> num[w], by |-> w, nth |-> writes[w]]}
    /\ pc' = [pc EXCEPT ![w] = "send"]
    /\ UNCHANGED <<live, seq, conn, mine, num, writes>>

\* encryptCBC without randomness for its IV: the number is lost, nothing is sealed.
SealFails(w) ==
    /\ pc[w] = "seal"
    /\ Return(w)
    /\ UNCHANGED <<live, seq, conn, mine, num, wire>>

\* Write: send has returned, and with it the Write; nothing is sealed again.
SendReturns(w) ==
    /\ pc[w] = "send"
    /\ Return(w)
    /\ UNCHANGED <<live, seq, conn, mine, num, wire>>

\* SwapSA and Reconfigure: the tunnel is given the next SA.
swapSA ==
    /\ live < MaxSA
    /\ live' = live + 1
    /\ UNCHANGED <<seq, conn, pc, mine, num, writes, wire>>

Close ==
    /\ conn = "open"
    /\ conn' = "closed"
    /\ UNCHANGED <<live, seq, pc, mine, num, writes, wire>>

Step(w) == \/ Enter(w) \/ LoadSA(w) \/ LoadSeq(w) \/ CompareAndSwap(w)
           \/ Seal(w) \/ SealFails(w) \/ SendReturns(w)
Next == (\E w \in Writers : Step(w)) \/ swapSA \/ Close

\* A goroutine that can run is run.
Spec == Init /\ [][Next]_vars /\ \A w \in Writers : WF_vars(Step(w))

-----------------------------------------------------------------------------
(* Properties.                                                             *)
TypeOK ==
    /\ live \in SA
    /\ seq \in [SA -> 0..SeqMax]
    /\ conn \in {"open", "closed"}
    /\ pc \in [Writers -> {"idle", "loadSA", "loadSeq", "cas", "seal", "send"}]
    /\ mine \in [Writers -> SA]
    /\ num \in [Writers -> 0..SeqMax]
    /\ writes \in [Writers -> Nat]
    /\ wire \subseteq Packet

\* No sequence number, hence no IV, is used twice under one SA, however the
\* Writes interleave, also at the end of the number space, and although a Write
\* may still hold the SA that a rekey replaced (Encrypt's CAS loop).
UniqueSeq ==
    \A p, q \in wire : p.sa = q.sa /\ p.seq = q.seq => p = q
=============================================================================
