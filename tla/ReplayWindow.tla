---------------------------- MODULE ReplayWindow ----------------------------
(***************************************************************************)
(* The RFC 6479 anti-replay window of internal/esp/replay.go, at the level *)
(* of the words of its bitmap.  A uint64 word is the set of the positions  *)
(* of its one-bits, so << and >> move positions and | is union; the width  *)
(* of a word is a parameter (64 in the code) so that TLC can exercise      *)
(* every word boundary with small windows.  Accept holds w.mu throughout   *)
(* and is one step.                                                        *)
(***************************************************************************)
EXTENDS Naturals

CONSTANTS W,         \* bits per word of the bitmap (64)
          ReqSize,   \* the size asked of NewReplayWindow
          MaxWindow, \* MaxReplayWindow (2^20)
          MaxSeq     \* largest sequence number (2^32 - 1)

ASSUME WAssumption == W \in Nat \ {0}
ASSUME SizeAssumption == ReqSize \in Nat /\ MaxWindow \in Nat /\ MaxWindow >= W
ASSUME SeqAssumption == MaxSeq \in Nat

VARIABLES last,      \* highest accepted sequence number
          bits,      \* bits[o \div W] holds o % W: sequence last - o was accepted
          accepted   \* history: every number Accept returned true for

vars == <<last, bits, accepted>>

-----------------------------------------------------------------------------
\* NewReplayWindow: a tiny size is bumped to one word, a huge one clamped,
\* and the result rounded up to whole words.
Clamp(n) == IF n < W THEN W ELSE IF n > MaxWindow THEN MaxWindow ELSE n
Words == (Clamp(ReqSize) + W - 1) \div W
Size == Words * W

Bit == 0..(W - 1)
Bitmap == [0..(Words - 1) -> SUBSET Bit]

Shl(word, k) == {j \in Bit : j >= k /\ j - k \in word}
Shr(word, k) == {j \in Bit : j + k \in word}

\* Fault: the bits that cross a word boundary are lost.
ShiftUp_NoCarry(b, n) ==
    [i \in 0..(Words - 1) |->
        IF i < n \div W THEN {} ELSE Shl(b[i - n \div W], n % W)]

\* shiftUp: whole words first, then the odd bits, which carry from one word
\* into the next; the vacated words are zeroed.
ShiftUp(b, n) ==
    LET words == n \div W
        odd   == n % W
    IN [i \in 0..(Words - 1) |->
          IF i < words THEN {}
          ELSE IF odd = 0 THEN b[i - words]
          ELSE Shl(b[i - words], odd) \cup
               (IF i > words THEN Shr(b[i - words - 1], W - odd) ELSE {})]

GetBit(b, o) == o % W \in b[o \div W]
SetBit(b, o) == [b EXCEPT ![o \div W] = @ \cup {o % W}]

-----------------------------------------------------------------------------
Init ==
    /\ last = 0
    /\ bits = [i \in 0..(Words - 1) |-> {}]
    /\ accepted = {}

\* A late number, still inside the window, whose bit is clear.
Late(seq) ==
    /\ seq > 0
    /\ seq < last
    /\ last - seq < Size
    /\ ~GetBit(bits, last - seq)

\* What Accept returns.
Accepts(seq) == seq > last \/ Late(seq)

\* The highest number moves up: the bitmap shifts and bit 0 is the new one.
AcceptNew(seq) ==
    /\ seq > last
    /\ bits' = SetBit(ShiftUp(bits, seq - last), 0)
    /\ last' = seq
    /\ accepted' = accepted \cup {seq}

\* Fault: a late number becomes the top of the window.
AcceptLate_MovesLast(seq) ==
    /\ Late(seq)
    /\ bits' = SetBit(bits, last - seq)
    /\ accepted' = accepted \cup {seq}
    /\ last' = seq

AcceptLate(seq) ==
    /\ Late(seq)
    /\ bits' = SetBit(bits, last - seq)
    /\ accepted' = accepted \cup {seq}
    /\ UNCHANGED last

\* Zero, the highest number again, a number older than the window, or one
\* whose bit is set: Accept returns false and changes nothing.
Reject(seq) == ~Accepts(seq) /\ UNCHANGED vars

Accept(seq) == AcceptNew(seq) \/ AcceptLate(seq) \/ Reject(seq)

Next == \E seq \in 0..MaxSeq : Accept(seq)

Spec == Init /\ [][Next]_vars

-----------------------------------------------------------------------------
TypeOK ==
    /\ last \in 0..MaxSeq
    /\ bits \in Bitmap
    /\ accepted \in SUBSET (1..MaxSeq)

\* The bitmap is exact: inside the window a bit is set precisely for the
\* numbers Accept has returned true for, after any sequence of jumps and late
\* arrivals, whatever word boundary the shifts crossed.
WindowExact ==
    \A o \in 0..(Size - 1) :
        GetBit(bits, o) <=> o < last /\ last - o \in accepted

\* last is the highest number accepted (0 while none was).
LastIsHighest ==
    /\ \A n \in accepted : n <= last
    /\ last > 0 => last \in accepted

\* The window implements the abstract anti-replay service.
Service == INSTANCE AntiReplay WITH highest <- last, seen <- accepted
ImplementsAntiReplay == Service!Spec

\* Accept's verdict is the service's, in both directions: no number is let
\* through twice or after it left the window, and no number that is new and
\* inside the window is turned away (RFC 4303, and the comment on Accept).
VerdictExact == \A seq \in 0..MaxSeq : Accepts(seq) <=> Service!Acceptable(seq)
=============================================================================
