---------------------------- MODULE ESPReceiver ----------------------------
(***************************************************************************)
(* The inbound half of an ESP SA (internal/esp, Decrypt) at the far end of *)
(* the packets ESPSender seals: they arrive late, out of order, twice or   *)
(* never, and among others that carry no valid ICV or tag.  The window is  *)
(* the abstract one, which ReplayWindow implements.                        *)
(*                                                                         *)
(* A plaintext is what its trailer says of it: its length, the pad octets, *)
(* the pad length and the next header.                                     *)
(***************************************************************************)
EXTENDS ESPSender

CONSTANTS
    WindowSize,   \* packets the replay window spans
    Lengths,      \* lengths of the inner datagrams
    MaxArrivals   \* bound: packets that arrive

ASSUME RcvAssumption == WindowSize \in Nat \ {0} /\ Lengths \subseteq Nat

VARIABLES
    high,       \* of each SA: the highest sequence number accepted
    taken,      \* of each SA: the sequence numbers accepted
    delivered,  \* the packets whose datagram was delivered
    again,      \* those of them whose datagram was delivered more than once
    arrivals    \* packets that have arrived

rcvVars == <<high, taken, delivered, again, arrivals>>

Window(a) == INSTANCE AntiReplay WITH highest <- high[a], seen <- taken[a],
                                      Size <- WindowSize, MaxSeq <- SeqMax

-----------------------------------------------------------------------------
(* The trailer.                                                            *)

Suites == {"cbc", "aead"}

\* encryptCBC pads to a cipher block, encryptAEAD to a word.
Align(suite) == IF suite = "cbc" THEN 16 ELSE 4

\* The octets of padding for a datagram of length n.
padLen(suite, n) == (Align(suite) - ((n + 2) % Align(suite))) % Align(suite)

\* fillTrailer of a datagram of length n and IP version v.
fillTrailer(suite, n, v) ==
    [len |-> n + padLen(suite, n) + 2,
     pad |-> [i \in 1..padLen(suite, n) |-> i],
     padLen |-> padLen(suite, n),
     next |-> IF v = 6 THEN 41 ELSE 4]

\* parseTrailer: the padding and the next header are what they must be.
WellFormed(plain) ==
    /\ plain.len >= 2
    /\ plain.padLen + 2 <= plain.len
    /\ \A i \in 1..plain.padLen : plain.pad[i] = i
    /\ plain.next \in {4, 41}
InnerLen(plain) == plain.len - plain.padLen - 2

\* decryptCBC takes a block at least, and whole blocks; decryptAEAD a trailer.
Least(suite) == IF suite = "cbc" THEN 16 ELSE 2
Framed(suite, plain) == plain.len >= Least(suite) /\ (suite = "cbc" => plain.len % 16 = 0)

-----------------------------------------------------------------------------
RcvInit ==
    /\ high = [a \in SA |-> 0]
    /\ taken = [a \in SA |-> {}]
    /\ delivered = {} /\ again = {}
    /\ arrivals = 0

Larger(i, j) == IF i > j THEN i ELSE j

\* replay.Accept: its verdict is Acceptable, and this is what it records.
Record(a, n) ==
    /\ taken' = [taken EXCEPT ![a] = @ \cup {n}]
    /\ high' = [high EXCEPT ![a] = Larger(@, n)]

\* rxDemux hands the inner datagram of p to the tunnel.
DeliverInbound(p) ==
    /\ delivered' = delivered \cup {p}
    /\ again' = IF p \in delivered THEN again \cup {p} ELSE again

\* Fault: the window moves before the ICV or the tag is verified.
Decrypt_WindowFirst(p, authentic, suite, plain) ==
    IF Framed(suite, plain) /\ Window(p.sa)!Acceptable(p.seq)
    THEN /\ Record(p.sa, p.seq)
         /\ IF authentic THEN DeliverInbound(p) ELSE UNCHANGED <<delivered, again>>
    ELSE UNCHANGED <<high, taken, delivered, again>>

\* Fault: an authentic packet is delivered whatever the window says.
Decrypt_NoReplayCheck(p, authentic, suite, plain) ==
    IF authentic
    THEN Record(p.sa, p.seq) /\ DeliverInbound(p)
    ELSE UNCHANGED <<high, taken, delivered, again>>

\* Decrypt: the frame, the ICV or tag, the window, the trailer, in this order. A
\* packet that passes the window and fails at its trailer has used its number up.
Decrypt(p, authentic, suite, plain) ==
    IF plain.len >= Least(suite) /\ authentic /\ Window(p.sa)!Acceptable(p.seq)
    THEN /\ Record(p.sa, p.seq)
         /\ IF Framed(suite, plain) /\ WellFormed(plain) THEN DeliverInbound(p)
            ELSE UNCHANGED <<delivered, again>>
    ELSE UNCHANGED <<high, taken, delivered, again>>

\* A packet of the network arrives, for the first time or again.
Arrive(p, suite, n, v) ==
    /\ arrivals < MaxArrivals
    /\ arrivals' = arrivals + 1
    /\ Decrypt(p, TRUE, suite, fillTrailer(suite, n, v))

\* A packet that nobody sealed arrives under some number.
ArriveForged(a, n, suite) ==
    /\ arrivals < MaxArrivals
    /\ arrivals' = arrivals + 1
    /\ Decrypt([sa |-> a, seq |-> n], FALSE, suite, fillTrailer(suite, 0, 4))
=============================================================================
