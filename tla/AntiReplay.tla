----------------------------- MODULE AntiReplay -----------------------------
(***************************************************************************)
(* What an anti-replay service promises (RFC 4303 section 3.4.3), with no  *)
(* word about bitmaps: it remembers every sequence number it accepted and  *)
(* accepts a new one exactly when it is positive, not yet accepted and not *)
(* more than Size behind the highest one accepted.                         *)
(* ReplayWindow is shown to implement this specification.                  *)
(***************************************************************************)
EXTENDS Naturals

CONSTANTS Size,    \* packets the window spans
          MaxSeq   \* largest sequence number of the counter's width

VARIABLES highest,  \* highest sequence number accepted, 0 before the first
          seen      \* every sequence number accepted so far

vars == <<highest, seen>>

Acceptable(seq) == seq > 0 /\ seq \notin seen /\ seq + Size > highest

Init == highest = 0 /\ seen = {}

Admit(seq) ==
    /\ Acceptable(seq)
    /\ seen' = seen \cup {seq}
    /\ highest' = IF seq > highest THEN seq ELSE highest

Next == \E seq \in 0..MaxSeq : Admit(seq)

Spec == Init /\ [][Next]_vars
=============================================================================
