---------------------------- MODULE DriverClock ----------------------------
(***************************************************************************)
(* The driver of module Driver with its deadlines: when a gateway that has *)
(* gone silent is declared dead.  One tick is one second (driverTick).     *)
(*                                                                         *)
(* A clock counts the ticks left to its deadline.  now.After(deadline) is  *)
(* certain once the clock has run out; at zero the tick and the deadline   *)
(* fall together and either outcome is possible.                           *)
(*                                                                         *)
(* Nothing the driver sends is answered.  ESP may still arrive until the   *)
(* gateway goes silent, which is when the data plane stops vouching for it *)
(* (LastDataInbound).                                                      *)
(***************************************************************************)
EXTENDS Driver, Integers

CONSTANTS
    Base, MaxDelay, \* retransmitBase(), retransmitMax()
    FastBase,       \* fastDPDBase
    Dpd,            \* dpdInterval()
    Retry,          \* rekeyRetryInterval
    RekeyAfter      \* ticks to the next IKE and Child rekey at the start

ASSUME ClockAssumption ==
    /\ {Base, MaxDelay, FastBase, Dpd} \subseteq Nat \ {0}
    /\ Retry \in Nat \ {0, 1} \* rekeyRetryInterval is longer than driverTick
    /\ RekeyAfter \subseteq Nat

VARIABLES
    s,        \* the session
    idle,     \* ticks since lastInbound or LastDataInbound, whichever is later
    left,     \* the clocks: ticks to each deadline
    woken,    \* the host was suspended since the last tick
    silent,   \* the gateway is gone
    since,    \* history: ticks since the gateway went silent
    awake     \* history: ticks since the last wake in the silence

vars == <<s, idle, left, woken, silent, since, awake>>

Clocks == {"retry", "backoff", "volume", "ike", "child"}
Passed == -1 \* a clock that has run out
Off == -2    \* a clock whose deadline is not set or far away; it does not run
AllOff == [k \in Clocks |-> Off]

\* The delay after the given attempt.
retransBackoff[attempt \in Nat] ==
    IF attempt <= 1 THEN Base
    ELSE IF 2 * retransBackoff[attempt - 1] >= MaxDelay THEN MaxDelay
    ELSE 2 * retransBackoff[attempt - 1]

pendingBackoff(x) == IF x.fast THEN FastBase ELSE retransBackoff[x.attempts]

\* The longest an exchange can last: a first delay of Base, then Base times a power
\* of two up to MaxDelay, each deadline noticed a tick late.  Rest is what the last
\* n attempts take.
Power[n \in Nat] == IF n = 0 THEN 1 ELSE 2 * Power[n - 1]
Delay(attempt) ==
    IF attempt <= 1 THEN Base
    ELSE IF Base * Power[attempt - 1] < MaxDelay THEN Base * Power[attempt - 1] ELSE MaxDelay
Rest[n \in Nat] == IF n = 0 THEN 0 ELSE Rest[n - 1] + Delay(Tries + 1 - n) + 1
Span == Rest[Tries]
DeadBound == Dpd + 2 * Span + 1
FastBound == (2 * FastTries - 1) * (FastBase + 1) + 1
Never == FastBound + 2
Count(n, bound) == IF n > bound THEN n ELSE n + 1

\* Nonces and Message IDs play no part: nothing is answered.
Input == [n |-> 3, spi |-> 3, err |-> "ok"]
Unnumbered(t) == [t EXCEPT !.messageID = 2, !.out = {}]

\* The rekey deadlines at the start: far away, or anywhere near with the Child SA
\* perhaps over rekeyMaxPackets().
InitialClocks ==
    {AllOff} \cup {[AllOff EXCEPT !["ike"] = i, !["child"] = c, !["volume"] = v] :
                      i \in RekeyAfter, c \in RekeyAfter, v \in {Off, Passed}}

\* Driver's start: nothing in flight, a DELETE may have queued a re-establishment.
Init ==
    /\ \E queued \in BOOLEAN : s = [InitialSession(FALSE) EXCEPT !.childReestablish = queued]
    /\ idle = 0 /\ woken = FALSE /\ silent = FALSE
    /\ since = 0 /\ awake = Never
    /\ left \in InitialClocks

Run(c) == IF c \in {Off, Passed} THEN c ELSE c - 1

\* The sets of deadlines a tick may find passed.
DueSets(l, i, w) ==
    LET must == {k \in Clocks : l[k] = Passed} \cup (IF i > Dpd THEN {"idle"} ELSE {})
        may  == {k \in Clocks : l[k] \in {0, Passed}} \cup (IF i >= Dpd THEN {"idle"} ELSE {})
        wake == IF w THEN {"wake"} ELSE {}
    IN {must \cup wake \cup more : more \in SUBSET (may \ must)}

\* pending.nextRetransmit after a tick that took s to t.
RetransmitClock(t, l) ==
    IF ~Pending(t) THEN Off
    ELSE IF ~Pending(s) THEN IF t.pending.fast THEN FastBase ELSE Base
    ELSE IF t.pending.attempts # s.pending.attempts THEN pendingBackoff(t.pending)
    ELSE IF woken THEN 0
    ELSE l["retry"]

\* The deadlines as the tick re-arms them.  The rekey clocks restart when a rekey
\* is initiated, the re-establishment clock when one is abandoned.
Rearm(t, due, l) ==
    LET began(kind) == ~Pending(s) /\ t.pending.kind = kind
        rekeyed     == began("child") /\ ~t.pending.reest
        byVolume    == rekeyed /\ "volume" \in due
    IN [l EXCEPT !["retry"]   = RetransmitClock(t, l),
                 !["volume"]  = IF byVolume THEN Retry ELSE @,
                 !["ike"]     = IF began("ike") THEN Retry ELSE @,
                 !["child"]   = IF rekeyed /\ ~byVolume THEN Retry ELSE @,
                 !["backoff"] = IF s.pending.reest /\ ~Pending(t) THEN Retry
                                ELSE IF began("child") /\ t.pending.reest THEN Off
                                ELSE @]

Tick ==
    LET l == [k \in Clocks |-> Run(left[k])]
        i == IF idle > Dpd THEN idle ELSE idle + 1
    IN /\ s.status = "up"
       /\ \E due \in DueSets(l, i, woken) :
             LET t == housekeeping(s, due, Input)
             IN s' = Unnumbered(t) /\ left' = Rearm(t, due, l)
       /\ idle' = i
       /\ woken' = FALSE
       /\ since' = IF silent THEN Count(since, DeadBound) ELSE 0
       /\ awake' = IF woken THEN 0 ELSE Count(awake, FastBound)
       /\ UNCHANGED silent

\* An ESP packet: the data plane is alive.
Data ==
    /\ s.status = "up" /\ ~silent
    /\ idle' = 0
    /\ UNCHANGED <<s, left, woken, silent, since, awake>>

Silence ==
    /\ s.status = "up" /\ ~silent
    /\ silent' = TRUE
    /\ UNCHANGED <<s, idle, left, woken, since, awake>>

\* The host sleeps and wakes between two ticks; the monotonic clock stands still.
Suspend ==
    /\ s.status = "up" /\ silent /\ ~woken
    /\ woken' = TRUE
    /\ UNCHANGED <<s, idle, left, silent, since, awake>>

Next == Tick \/ Data \/ Silence \/ Suspend

\* The ticker fires for as long as the driver runs.
Spec == Init /\ [][Next]_vars /\ WF_vars(Tick)

-----------------------------------------------------------------------------
(* Properties.                                                             *)

NoRekeyDue == left["ike"] = Off /\ left["child"] = Off /\ left["volume"] = Off

\* A gateway that has gone silent is declared dead in time while no rekey is due,
\* whatever was in flight or queued when it went silent: at worst after an idle
\* interval, a re-establishment that comes due just before the probe and is
\* abandoned first, and the probe (housekeeping, pendingBackoff).
DeadInTime ==
    silent /\ NoRekeyDue /\ awake = Never /\ s.status = "up" => since <= DeadBound

\* A wake "declares the peer dead within a few seconds" (suspendThreshold):
\* the short waits of the fast probe and of the exchange the suspend caught half-way,
\* which holds the window at first (detectSuspend, fastDPDDue).
DeadSoonAfterWake ==
    s.status = "up" => awake # FastBound + 1

\* Said of the driver without exception: it "sends periodic DPD probes when
\* idle" (Driver), so a silent gateway is found out, also when rekeys are due.
\* A host that is suspended again and again may put the retransmissions off for
\* ever (detectSuspend re-arms them).
DeadDespiteRekeys == <>[]~woken => (silent ~> s.status = "dead")
=============================================================================
