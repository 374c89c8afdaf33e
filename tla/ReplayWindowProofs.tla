------------------------- MODULE ReplayWindowProofs -------------------------
(***************************************************************************)
(* Proofs about ReplayWindow, for every word width, every window size and  *)
(* every width of the sequence number.                                     *)
(***************************************************************************)
EXTENDS ReplayWindow, Integers, TLAPS

USE ZenonT(2), SMTT(30), ZenonT(20)

-----------------------------------------------------------------------------
(* Division by the word width.                                             *)

\* The quotient and the remainder by W are natural and rebuild the number.
LEMMA DivMod ==
    ASSUME NEW a \in Nat
    PROVE  /\ a \div W \in Nat
           /\ a % W \in Bit
           /\ a = (a \div W) * W + (a % W)
<1>1. W \in Nat /\ W > 0
  BY WAssumption
<1> QED
  BY <1>1, Z3 DEF Bit

\* A multiple of W that is less than W away from another one equals it.
LEMMA MultiplesApart ==
    ASSUME NEW p \in Int, NEW q \in Int, p < q
    PROVE  p * W + W <= q * W
<1>1. W \in Nat /\ W > 0
  BY WAssumption
<1>2. PICK d \in Nat : q = p + 1 + d
  <2>1. q - p - 1 \in Nat /\ q = p + 1 + (q - p - 1)
    OBVIOUS
  <2> QED BY <2>1
<1>3. q * W = p * W + W + d * W
  BY <1>1, <1>2
<1>4. d * W >= 0
  BY <1>1, <1>2
<1> QED
  BY <1>1, <1>3, <1>4

\* The decomposition of a number by W is unique.
LEMMA DivUnique ==
    ASSUME NEW a \in Nat, NEW q \in Int, NEW r \in Bit, a = q * W + r
    PROVE  a \div W = q /\ a % W = r
<1>1. W \in Nat /\ W > 0 /\ r \in Nat /\ r < W
  BY WAssumption DEF Bit
<1> DEFINE p == a \div W
<1> DEFINE s == a % W
<1>2. p \in Int /\ s \in Nat /\ s < W /\ a = p * W + s
  BY DivMod, <1>1 DEF Bit
<1> HIDE DEF p, s
<1>3. p * W \in Int /\ q * W \in Int
  BY <1>1, <1>2
<1>4. ~(p < q)
  <2> SUFFICES ASSUME p < q PROVE FALSE OBVIOUS
  <2>1. p * W + W <= q * W BY MultiplesApart, <1>2
  <2> QED BY <2>1, <1>1, <1>2, <1>3
<1>5. ~(q < p)
  <2> SUFFICES ASSUME q < p PROVE FALSE OBVIOUS
  <2>1. q * W + W <= p * W BY MultiplesApart, <1>2
  <2> QED BY <2>1, <1>1, <1>2, <1>3
<1>6. p = q
  BY <1>2, <1>4, <1>5
<1>7. s = r
  BY <1>1, <1>2, <1>3, <1>6
<1> QED
  BY <1>6, <1>7 DEF p, s

\* The window NewReplayWindow builds has at least one word.
LEMMA WordsType == Words \in Nat \ {0} /\ Size \in Nat /\ Size > 0
<1>1. W \in Nat /\ W > 0
  BY WAssumption
<1>2. Clamp(ReqSize) \in Nat /\ Clamp(ReqSize) >= W
  BY <1>1, SizeAssumption DEF Clamp
<1> DEFINE c == Clamp(ReqSize) + W - 1
<1>3. c \in Nat /\ c >= W
  BY <1>1, <1>2
<1> HIDE DEF c
<1>4. c \div W \in Nat /\ c % W \in Bit /\ c = (c \div W) * W + (c % W)
  BY <1>3, DivMod
<1>5. c \div W # 0
  BY <1>1, <1>3, <1>4 DEF Bit
<1>6. Words \in Nat \ {0}
  BY <1>4, <1>5 DEF Words, c
<1>7. Size \in Nat /\ Size > 0
  <2>1. PICK d \in Nat : Words = d + 1
    <3>1. Words - 1 \in Nat /\ Words = (Words - 1) + 1 BY <1>6
    <3> QED BY <3>1
  <2>2. d * W \in Nat BY <1>1, <2>1
  <2>3. Size = d * W + W BY <1>1, <2>1 DEF Size
  <2> QED BY <1>1, <2>2, <2>3
<1> QED
  BY <1>6, <1>7

\* An offset inside the window lies in one of its words.
LEMMA OffsetInRange ==
    ASSUME NEW o \in 0..(Size - 1)
    PROVE  o \div W \in 0..(Words - 1) /\ o % W \in Bit
<1>1. W \in Nat /\ W > 0
  BY WAssumption
<1>2. o \in Nat /\ o < Size /\ Words \in Nat
  BY WordsType
<1>3. o \div W \in Nat /\ o % W \in Bit /\ o = (o \div W) * W + (o % W)
  BY <1>2, DivMod
<1> DEFINE q == o \div W
<1> HIDE DEF q
<1>4. ~(q >= Words)
  <2> SUFFICES ASSUME q >= Words PROVE FALSE OBVIOUS
  <2>1. q * W >= Words * W
    <3>1. CASE q = Words BY <3>1, <1>1, <1>2
    <3>2. CASE q > Words
      <4>1. Words * W + W <= q * W BY <3>2, <1>2, <1>3, MultiplesApart DEF q
      <4>2. Words * W \in Nat /\ q * W \in Nat BY <1>1, <1>2, <1>3 DEF q
      <4> QED BY <4>1, <4>2, <1>1
    <3> QED BY <3>1, <3>2, <1>2, <1>3 DEF q
  <2>2. Words * W \in Nat /\ q * W \in Nat BY <1>1, <1>2, <1>3 DEF q
  <2> QED BY <2>1, <2>2, <1>1, <1>2, <1>3 DEF Size, q, Bit
<1> QED
  BY <1>2, <1>3, <1>4 DEF q

-----------------------------------------------------------------------------
(* The bitmap.                                                             *)

\* shiftUp moves every bit n places up and clears the low n: the bit at
\* offset o afterwards is the bit that was at o - n, whichever words the two
\* offsets fall in.
LEMMA ShiftUpMovesBits ==
    ASSUME NEW b \in Bitmap, NEW n \in Nat, NEW o \in 0..(Size - 1)
    PROVE  GetBit(ShiftUp(b, n), o) <=> o >= n /\ GetBit(b, o - n)
<1> DEFINE i == o \div W
<1> DEFINE j == o % W
<1> DEFINE w == n \div W
<1> DEFINE k == n % W
<1>1. W \in Nat /\ W > 0
  BY WAssumption
<1>2. i \in 0..(Words - 1) /\ j \in 0..(W - 1) /\ o \in Nat /\ Words \in Nat
  BY OffsetInRange, WordsType DEF Bit
<1>3. w \in Nat /\ k \in 0..(W - 1)
  BY DivMod DEF Bit
<1>4. o = i * W + j /\ n = w * W + k
  BY DivMod, <1>2
<1> HIDE DEF i, j, w, k
<1>5. GetBit(ShiftUp(b, n), o) <=>
         j \in (IF i < w THEN {}
                ELSE IF k = 0 THEN b[i - w]
                ELSE Shl(b[i - w], k) \cup
                     (IF i > w THEN Shr(b[i - w - 1], W - k) ELSE {}))
  BY <1>2 DEF GetBit, ShiftUp, i, j, w, k
<1>6. i * W \in Nat /\ w * W \in Nat
  BY <1>1, <1>2, <1>3
<1>7. CASE i < w
  <2>1. i * W + W <= w * W BY <1>2, <1>3, <1>7, MultiplesApart
  <2>2. ~(o >= n) BY <2>1, <1>1, <1>2, <1>3, <1>4, <1>6
  <2> QED BY <1>5, <1>7, <2>2
<1>8. CASE i >= w /\ j >= k
  <2>1. (i - w) * W = i * W - w * W BY <1>1, <1>2, <1>3
  <2>2. i * W >= w * W
    BY <1>1, <1>2, <1>3, <1>6, <1>8, MultiplesApart
  <2>3. o >= n /\ o - n \in Nat BY <2>2, <1>2, <1>3, <1>4, <1>6, <1>8
  <2>4. o - n = (i - w) * W + (j - k) BY <2>1, <1>2, <1>3, <1>4, <1>6
  <2>5. j - k \in Bit /\ i - w \in Int BY <1>1, <1>2, <1>3, <1>8 DEF Bit
  <2>6. (o - n) \div W = i - w /\ (o - n) % W = j - k
    BY <2>3, <2>4, <2>5, DivUnique
  <2>7. GetBit(b, o - n) <=> j - k \in b[i - w] BY <2>6 DEF GetBit
  <2>8. CASE k = 0
    <3>1. j - k = j BY <2>8, <1>2
    <3> QED BY <1>5, <1>2, <1>3, <1>8, <2>3, <2>7, <2>8, <3>1
  <2>9. CASE k # 0
    <3>1. j \in Shl(b[i - w], k) <=> j - k \in b[i - w]
      BY <1>2, <1>8 DEF Shl, Bit
    <3>2. i > w => j \notin Shr(b[i - w - 1], W - k)
      <4> SUFFICES ASSUME i > w, j \in Shr(b[i - w - 1], W - k) PROVE FALSE
        OBVIOUS
      <4>1. i - w - 1 \in 0..(Words - 1) BY <1>2, <1>3
      <4>2. b[i - w - 1] \in SUBSET (0..(W - 1)) BY <4>1 DEF Bitmap, Bit
      <4>3. j + (W - k) \in 0..(W - 1) BY <4>2 DEF Shr
      <4> QED BY <4>3, <1>1, <1>2, <1>3, <1>8
    <3> QED BY <1>5, <1>2, <1>3, <1>8, <2>3, <2>7, <2>9, <3>1, <3>2
  <2> QED BY <2>8, <2>9
<1>9. CASE i >= w /\ j < k
  <2>1. j \notin Shl(b[i - w], k) BY <1>2, <1>3, <1>9 DEF Shl
  <2>2. k # 0 BY <1>2, <1>3, <1>9
  <2>3. CASE i = w
    <3>1. ~(o >= n) BY <2>3, <1>2, <1>3, <1>4, <1>6, <1>9
    <3> QED BY <1>5, <1>2, <1>3, <2>1, <2>2, <2>3, <3>1
  <2>4. CASE i > w
    <3>1. (i - w - 1) * W = i * W - w * W - W BY <1>1, <1>2, <1>3
    <3>2. w * W + W <= i * W BY <2>4, <1>2, <1>3, MultiplesApart
    <3>3. o >= n /\ o - n \in Nat
      BY <3>2, <1>1, <1>2, <1>3, <1>4, <1>6
    <3>4. o - n = (i - w - 1) * W + (W + j - k)
      BY <3>1, <1>1, <1>2, <1>3, <1>4, <1>6
    <3>5. W + j - k \in Bit /\ i - w - 1 \in Int
      BY <1>1, <1>2, <1>3, <1>9 DEF Bit
    <3>6. (o - n) \div W = i - w - 1 /\ (o - n) % W = W + j - k
      BY <3>3, <3>4, <3>5, DivUnique
    <3>7. GetBit(b, o - n) <=> W + j - k \in b[i - w - 1] BY <3>6 DEF GetBit
    <3>8. j \in Shr(b[i - w - 1], W - k) <=> W + j - k \in b[i - w - 1]
      <4>1. j + (W - k) = W + j - k BY <1>1, <1>2, <1>3
      <4> QED BY <4>1, <1>2 DEF Shr, Bit
    <3> QED BY <1>5, <1>2, <1>3, <2>1, <2>2, <2>4, <3>3, <3>7, <3>8
  <2> QED BY <2>3, <2>4, <1>2, <1>3, <1>9
<1> QED
  BY <1>2, <1>3, <1>7, <1>8, <1>9

\* shiftUp yields a bitmap of the same shape.
LEMMA ShiftUpType ==
    ASSUME NEW b \in Bitmap, NEW n \in Nat
    PROVE  ShiftUp(b, n) \in Bitmap
<1>1. W \in Nat /\ W > 0 /\ Words \in Nat
  BY WAssumption, WordsType
<1>2. n \div W \in Nat
  BY DivMod
<1>3. ASSUME NEW i \in 0..(Words - 1), i >= n \div W
      PROVE  b[i - (n \div W)] \in SUBSET Bit
  <2>1. i - (n \div W) \in 0..(Words - 1) BY <1>1, <1>2, <1>3
  <2> QED BY <2>1 DEF Bitmap
<1>4. \A x, k : Shl(x, k) \in SUBSET Bit /\ Shr(x, k) \in SUBSET Bit
  BY DEF Shl, Shr
<1>5. ASSUME NEW i \in 0..(Words - 1)
      PROVE  ShiftUp(b, n)[i] \in SUBSET Bit
  BY <1>1, <1>2, <1>3, <1>4 DEF ShiftUp
<1>6. ShiftUp(b, n) = [i \in 0..(Words - 1) |-> ShiftUp(b, n)[i]]
  BY DEF ShiftUp
<1> QED
  BY <1>5, <1>6 DEF Bitmap

\* setBit sets the bit at one offset and no other.
LEMMA SetBitSetsOne ==
    ASSUME NEW b \in Bitmap, NEW p \in 0..(Size - 1), NEW o \in 0..(Size - 1)
    PROVE  /\ SetBit(b, p) \in Bitmap
           /\ GetBit(SetBit(b, p), o) <=> o = p \/ GetBit(b, o)
<1>1. /\ p \div W \in 0..(Words - 1) /\ p % W \in Bit
      /\ o \div W \in 0..(Words - 1) /\ o % W \in Bit
  BY OffsetInRange
<1>2. SetBit(b, p) \in Bitmap
  BY <1>1 DEF SetBit, Bitmap
<1>3. o \div W = p \div W /\ o % W = p % W => o = p
  BY DivMod, WordsType
<1>4. GetBit(SetBit(b, p), o) <=>
         \/ o % W \in b[o \div W]
         \/ o \div W = p \div W /\ o % W = p % W
  BY <1>1 DEF SetBit, GetBit, Bitmap
<1> QED
  BY <1>2, <1>3, <1>4 DEF GetBit

-----------------------------------------------------------------------------
(* The inductive invariant: the type, the exact bitmap and the maximum.    *)

IndInv == TypeOK /\ WindowExact /\ LastIsHighest

\* An empty window is exact.
LEMMA InitIndInv == Init => IndInv
<1> SUFFICES ASSUME Init PROVE IndInv
  OBVIOUS
<1>1. bits \in Bitmap
  BY DEF Init, Bitmap
<1>2. \A o \in 0..(Size - 1) : ~GetBit(bits, o)
  BY OffsetInRange DEF Init, GetBit
<1>3. TypeOK
  BY <1>1, SeqAssumption DEF Init, TypeOK
<1>4. WindowExact
  BY <1>2 DEF Init, WindowExact
<1>5. LastIsHighest
  BY DEF Init, LastIsHighest
<1> QED
  BY <1>3, <1>4, <1>5 DEF IndInv

\* A new highest number: the bits that stay in the window keep their numbers.
LEMMA AcceptNewIndInv ==
    ASSUME IndInv, NEW seq \in 0..MaxSeq, AcceptNew(seq)
    PROVE  IndInv'
<1> DEFINE up == ShiftUp(bits, seq - last)
<1>1. /\ last \in Nat /\ seq \in Nat /\ seq > last /\ seq - last \in Nat
      /\ bits \in Bitmap /\ accepted \in SUBSET (1..MaxSeq) /\ MaxSeq \in Nat
  BY SeqAssumption DEF IndInv, TypeOK, AcceptNew
<1>2. up \in Bitmap
  BY <1>1, ShiftUpType
<1>3. 0 \in 0..(Size - 1) /\ Size \in Nat
  BY WordsType
<1>4. \A o \in 0..(Size - 1) :
         GetBit(up, o) <=> o >= seq - last /\ GetBit(bits, o - (seq - last))
  BY <1>1, ShiftUpMovesBits
<1> HIDE DEF up
<1>5. bits' = SetBit(up, 0) /\ last' = seq /\ accepted' = accepted \cup {seq}
  BY DEF AcceptNew, up
<1>6. bits' \in Bitmap /\ \A o \in 0..(Size - 1) : GetBit(bits', o) <=> o = 0 \/ GetBit(up, o)
  BY <1>2, <1>3, <1>5, SetBitSetsOne
<1>7. TypeOK'
  BY <1>1, <1>5, <1>6 DEF TypeOK
<1>8. LastIsHighest'
  BY <1>1, <1>5 DEF LastIsHighest, IndInv
<1>9. WindowExact'
  <2> SUFFICES ASSUME NEW o \in 0..(Size - 1)
               PROVE  GetBit(bits', o) <=> o < last' /\ last' - o \in accepted'
    BY DEF WindowExact, GetBit
  <2>1. CASE o = 0
    BY <2>1, <1>1, <1>5, <1>6
  <2>2. CASE o # 0 /\ o < seq - last
    <3>1. ~GetBit(bits', o) BY <2>2, <1>1, <1>3, <1>4, <1>6
    <3>2. seq - o > last /\ seq - o # seq BY <2>2, <1>1, <1>3
    <3>3. seq - o \notin accepted'
      BY <3>2, <1>1, <1>3, <1>5 DEF IndInv, LastIsHighest
    <3> QED BY <3>1, <3>3, <1>5
  <2>3. CASE o # 0 /\ o >= seq - last
    <3>1. o - (seq - last) \in 0..(Size - 1) BY <2>3, <1>1, <1>3
    <3>2. GetBit(bits', o) <=> GetBit(bits, o - (seq - last))
      BY <2>3, <1>4, <1>6
    <3>3. GetBit(bits, o - (seq - last)) <=>
             /\ o - (seq - last) < last
             /\ last - (o - (seq - last)) \in accepted
      BY <3>1 DEF IndInv, WindowExact
    <3>4. last - (o - (seq - last)) = seq - o /\ seq - o # seq
      BY <2>3, <1>1, <1>3
    <3>5. o - (seq - last) < last <=> o < seq BY <1>1, <1>3
    <3> QED BY <3>2, <3>3, <3>4, <3>5, <1>5
  <2> QED BY <2>1, <2>2, <2>3, <1>1, <1>3
<1> QED
  BY <1>7, <1>8, <1>9 DEF IndInv

\* A late number: one more bit, in the place of its own number.
LEMMA AcceptLateIndInv ==
    ASSUME IndInv, NEW seq \in 0..MaxSeq, AcceptLate(seq)
    PROVE  IndInv'
<1>1. /\ last \in Nat /\ seq \in Nat /\ seq > 0 /\ seq < last /\ last - seq < Size
      /\ bits \in Bitmap /\ accepted \in SUBSET (1..MaxSeq) /\ MaxSeq \in Nat
      /\ last \in 0..MaxSeq /\ Size \in Nat
  BY SeqAssumption, WordsType DEF IndInv, TypeOK, AcceptLate, Late
<1>2. last - seq \in 0..(Size - 1)
  BY <1>1
<1>3. /\ bits' = SetBit(bits, last - seq) /\ last' = last
      /\ accepted' = accepted \cup {seq}
  BY DEF AcceptLate
<1>4. bits' \in Bitmap /\ \A o \in 0..(Size - 1) :
         GetBit(bits', o) <=> o = last - seq \/ GetBit(bits, o)
  BY <1>1, <1>2, <1>3, SetBitSetsOne
<1>5. TypeOK'
  BY <1>1, <1>3, <1>4 DEF TypeOK
<1>6. LastIsHighest'
  BY <1>1, <1>3 DEF LastIsHighest, IndInv
<1>7. WindowExact'
  <2> SUFFICES ASSUME NEW o \in 0..(Size - 1)
               PROVE  GetBit(bits', o) <=> o < last' /\ last' - o \in accepted'
    BY DEF WindowExact, GetBit
  <2>1. GetBit(bits, o) <=> o < last /\ last - o \in accepted
    BY DEF IndInv, WindowExact
  <2>2. o = last - seq <=> last - o = seq
    BY <1>1
  <2>3. last - o = seq => o < last
    BY <1>1
  <2> QED BY <2>1, <2>2, <2>3, <1>3, <1>4
<1> QED
  BY <1>5, <1>6, <1>7 DEF IndInv

\* Every step of the window preserves the invariant.
LEMMA NextIndInv == IndInv /\ [Next]_vars => IndInv'
<1> SUFFICES ASSUME IndInv, [Next]_vars PROVE IndInv'
  OBVIOUS
<1>1. ASSUME UNCHANGED vars PROVE IndInv'
  BY <1>1 DEF vars, IndInv, TypeOK, WindowExact, LastIsHighest, GetBit
<1>2. ASSUME NEW seq \in 0..MaxSeq, Accept(seq) PROVE IndInv'
  <2>1. CASE AcceptNew(seq) BY <2>1, AcceptNewIndInv
  <2>2. CASE AcceptLate(seq) BY <2>2, AcceptLateIndInv
  <2>3. CASE Reject(seq) BY <2>3, <1>1 DEF Reject
  <2> QED BY <1>2, <2>1, <2>2, <2>3 DEF Accept
<1> QED
  BY <1>1, <1>2 DEF Next

\* The state of the window always has its type.
THEOREM TypeCorrect == Spec => []TypeOK
<1>1. IndInv => TypeOK
  BY DEF IndInv
<1> QED
  BY <1>1, InitIndInv, NextIndInv, PTL DEF Spec

\* The bitmap is exact for every word width and window size: replay.go's
\* shiftUp and setBit lose no accepted number and invent none.
THEOREM BitmapExact == Spec => []WindowExact
<1>1. IndInv => WindowExact
  BY DEF IndInv
<1> QED
  BY <1>1, InitIndInv, NextIndInv, PTL DEF Spec

\* From an exact bitmap, Accept returns true exactly for the numbers the
\* service accepts.
LEMMA ExactVerdict ==
    ASSUME IndInv, NEW seq \in 0..MaxSeq
    PROVE  Accepts(seq) <=> Service!Acceptable(seq)
<1>1. last \in Nat /\ seq \in Nat /\ Size \in Nat /\ Size > 0
  BY SeqAssumption, WordsType DEF IndInv, TypeOK
<1>2. CASE seq > last
  BY <1>1, <1>2 DEF Accepts, Service!Acceptable, IndInv, LastIsHighest
<1>3. CASE seq = last
  BY <1>1, <1>3 DEF Accepts, Late, Service!Acceptable, IndInv, LastIsHighest
<1>4. CASE seq < last
  <2>1. CASE last - seq < Size
    <3>1. last - seq \in 0..(Size - 1) /\ last - (last - seq) = seq
      BY <1>1, <1>4, <2>1
    <3>2. GetBit(bits, last - seq) <=> last - seq < last /\ seq \in accepted
      BY <3>1 DEF IndInv, WindowExact
    <3> QED
      BY <1>1, <1>4, <2>1, <3>2 DEF Accepts, Late, Service!Acceptable
  <2>2. CASE ~(last - seq < Size)
    BY <1>1, <1>4, <2>2 DEF Accepts, Late, Service!Acceptable
  <2> QED BY <2>1, <2>2
<1> QED
  BY <1>1, <1>2, <1>3, <1>4

\* Accept lets a sequence number through exactly when it is new and inside the
\* window, whatever order packets arrive in.
THEOREM NeverReplays == Spec => []VerdictExact
<1>1. IndInv => VerdictExact
  BY ExactVerdict DEF VerdictExact
<1> QED
  BY <1>1, InitIndInv, NextIndInv, PTL DEF Spec

\* The bitmap implements the abstract anti-replay service: each accepting step
\* is a step the service allows, and a refused packet changes nothing.
THEOREM Refinement == Spec => ImplementsAntiReplay
<1>1. Init => Service!Init
  BY DEF Init, Service!Init
<1>2. IndInv /\ [Next]_vars => [Service!Next]_(Service!vars)
  <2> SUFFICES ASSUME IndInv, [Next]_vars PROVE [Service!Next]_(Service!vars)
    OBVIOUS
  <2>1. CASE UNCHANGED vars
    BY <2>1 DEF vars, Service!vars
  <2>2. ASSUME NEW seq \in 0..MaxSeq, Accept(seq)
        PROVE  [Service!Next]_(Service!vars)
    <3>1. last \in Nat /\ seq \in Nat /\ Size \in Nat /\ Size > 0
      BY SeqAssumption, WordsType DEF IndInv, TypeOK
    <3>2. CASE AcceptNew(seq) \/ AcceptLate(seq)
      <4>1. Service!Acceptable(seq)
        BY <3>2, ExactVerdict DEF AcceptNew, AcceptLate, Accepts
      <4>2. Service!Admit(seq)
        BY <3>1, <3>2, <4>1 DEF AcceptNew, AcceptLate, Late, Service!Admit
      <4> QED BY <4>2 DEF Service!Next
    <3>3. CASE Reject(seq)
      BY <3>3 DEF Reject, vars, Service!vars
    <3> QED BY <2>2, <3>2, <3>3 DEF Accept
  <2> QED BY <2>1, <2>2 DEF Next
<1> QED
  BY <1>1, <1>2, InitIndInv, NextIndInv, PTL DEF Spec, ImplementsAntiReplay, Service!Spec
=============================================================================
