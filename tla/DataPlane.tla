------------------------------ MODULE DataPlane ------------------------------
(***************************************************************************)
(* The registry of inbound Child SAs of a Client (dataplane.go) and the    *)
(* outbound SA of its tunnel, while three kinds of goroutines write them:  *)
(* the driver installing rekeyed SAs, the grace timers removing superseded *)
(* ones, and the supervisor replacing everything on a reconnect.  rxDemux  *)
(* reads the registry without a lock for every ESP packet.                 *)
(*                                                                         *)
(* An SA is the number of its creation.  SPIs are drawn at random, so any  *)
(* SPI may come again; the set of SPIs is small to make that happen.       *)
(***************************************************************************)
EXTENDS Naturals

CONSTANTS
    SPI,     \* inbound SPIs
    MaxSA    \* bound: Child SAs over the life of the Client

ASSUME DataPlaneAssumption == MaxSA \in Nat \ {0} /\ SPI # {}

SA == 1..MaxSA
Nil == 0

VARIABLES
    made,      \* SAs created; the newest is the session's Child SA
    spiOf,     \* the inbound SPI of every SA created
    inbound,   \* c.inbound: SPI to SA
    out,       \* the SA the tunnel encrypts with
    drv,       \* where InstallChildSA stands
    old,       \* its captured superseded SA
    timer,     \* the grace timer armed by the installation of each SA
    listed,    \* c.graceTimers
    sup        \* where the supervisor stands

registryVars == <<made, spiOf, inbound, out, drv, old, timer, listed, sup>>

NoTimer == [st |-> "none", spi |-> CHOOSE x \in SPI : TRUE, sa |-> Nil]

RegistryInit ==
    /\ made = 1
    /\ \E x \in SPI :
          /\ spiOf = [a \in SA |-> x]
          /\ inbound = [y \in SPI |-> IF y = x THEN 1 ELSE Nil]
    /\ out = 1
    /\ drv = "idle" /\ old = Nil
    /\ timer = [a \in SA |-> NoTimer]
    /\ listed = {}
    /\ sup = "idle"

-----------------------------------------------------------------------------
(* InstallChildSA, on the driver's goroutine.                              *)

\* Fault: the registry is replaced, not extended.
AddInbound_Replaces(x) ==
    /\ drv = "idle" /\ sup = "idle" /\ made < MaxSA
    /\ made' = made + 1
    /\ spiOf' = [spiOf EXCEPT ![made + 1] = x]
    /\ old' = inbound[spiOf[made]]
    /\ inbound' = [y \in SPI |-> IF y = x THEN made + 1 ELSE Nil]
    /\ drv' = "swap"
    /\ UNCHANGED <<out, timer, listed, sup>>

\* Under inboundMu: capture the SA at OldInSPI, add the new one at NewInSPI.
AddInbound(x) ==
    /\ drv = "idle" /\ sup = "idle" /\ made < MaxSA
    /\ made' = made + 1
    /\ spiOf' = [spiOf EXCEPT ![made + 1] = x]
    /\ old' = inbound[spiOf[made]]
    /\ inbound' = [inbound EXCEPT ![x] = made + 1]
    /\ drv' = "swap"
    /\ UNCHANGED <<out, timer, listed, sup>>

\* tun.SwapSA and the rekey hooks.
SwapOutbound ==
    /\ drv = "swap"
    /\ out' = made
    /\ drv' = "schedule"
    /\ UNCHANGED <<made, spiOf, inbound, old, timer, listed, sup>>

\* Fault: the timer is armed for the new SA at the old SPI.
ScheduleRemoval_NewSA ==
    /\ drv = "schedule"
    /\ timer' = [timer EXCEPT ![made] = [st |-> "armed", spi |-> spiOf[made - 1], sa |-> made]]
    /\ drv' = "append"
    /\ UNCHANGED <<made, spiOf, inbound, out, old, listed, sup>>

\* scheduleInboundRemoval, unless the new SPI is the old one.
ScheduleRemoval ==
    /\ drv = "schedule"
    /\ IF spiOf[made] = spiOf[made - 1]
       THEN drv' = "idle" /\ UNCHANGED timer
       ELSE /\ timer' = [timer EXCEPT ![made] =
                            [st |-> "armed", spi |-> spiOf[made - 1], sa |-> old]]
            /\ drv' = "append"
    /\ UNCHANGED <<made, spiOf, inbound, out, old, listed, sup>>

ListTimer ==
    /\ drv = "append"
    /\ listed' = listed \cup {made}
    /\ drv' = "idle"
    /\ UNCHANGED <<made, spiOf, inbound, out, old, timer, sup>>

-----------------------------------------------------------------------------
(* A grace timer and its callback.                                         *)

\* childSAGrace has passed (it is far longer than ListTimer takes).
TimerFires(a) ==
    /\ timer[a].st = "armed" /\ a \in listed
    /\ timer' = [timer EXCEPT ![a].st = "fired"]
    /\ UNCHANGED <<made, spiOf, inbound, out, drv, old, listed, sup>>

\* Fault: whatever is registered under the SPI is removed.
removeInbound_AnySA(a) ==
    /\ timer[a].st = "fired"
    /\ inbound' = [inbound EXCEPT ![timer[a].spi] = Nil]
    /\ timer' = [timer EXCEPT ![a].st = "removed"]
    /\ UNCHANGED <<made, spiOf, out, drv, old, listed, sup>>

\* Under inboundMu: only the exact SA the timer was armed for is removed.
removeInbound(a) ==
    /\ timer[a].st = "fired"
    /\ inbound' = [inbound EXCEPT ![timer[a].spi] = IF @ = timer[a].sa THEN Nil ELSE @]
    /\ timer' = [timer EXCEPT ![a].st = "removed"]
    /\ UNCHANGED <<made, spiOf, out, drv, old, listed, sup>>

\* Fault: a fired timer stays in the list.
PruneTimer_Keeps(a) ==
    /\ timer[a].st = "removed"
    /\ timer' = [timer EXCEPT ![a] = NoTimer]
    /\ UNCHANGED <<made, spiOf, inbound, out, drv, old, listed, sup>>

PruneTimer(a) ==
    /\ timer[a].st = "removed"
    /\ listed' = listed \ {a}
    /\ timer' = [timer EXCEPT ![a] = NoTimer]
    /\ UNCHANGED <<made, spiOf, inbound, out, drv, old, sup>>

-----------------------------------------------------------------------------
(* reconnect and Close, once the workers have returned.                    *)

\* Stop disarms a listed timer; a callback that already runs is not waited for.
Disarmed == [a \in SA |-> IF a \in listed /\ timer[a].st = "armed" THEN NoTimer ELSE timer[a]]

stopGraceTimers(where) ==
    /\ sup = "idle" /\ drv = "idle"
    /\ timer' = Disarmed
    /\ listed' = {}
    /\ sup' = where
    /\ UNCHANGED <<made, spiOf, inbound, out, drv, old>>

\* The redial gave a session: resetInbound.
resetInbound(x) ==
    /\ sup = "redial" /\ made < MaxSA
    /\ made' = made + 1
    /\ spiOf' = [spiOf EXCEPT ![made + 1] = x]
    /\ inbound' = [y \in SPI |-> IF y = x THEN made + 1 ELSE Nil]
    /\ sup' = "reconfigure"
    /\ UNCHANGED <<out, drv, old, timer, listed>>

\* tun.Reconfigure, then the workers start.
Reconfigure ==
    /\ sup = "reconfigure"
    /\ out' = made
    /\ sup' = "idle"
    /\ UNCHANGED <<made, spiOf, inbound, drv, old, timer, listed>>

-----------------------------------------------------------------------------
InstallStep == SwapOutbound \/ ScheduleRemoval \/ ListTimer
TimerStep(a) == TimerFires(a) \/ removeInbound(a) \/ PruneTimer(a)
RegistryNext ==
    \/ \E x \in SPI : AddInbound(x) \/ resetInbound(x)
    \/ InstallStep \/ Reconfigure
    \/ \E a \in SA : TimerStep(a)
    \/ \E where \in {"redial", "closed"} : stopGraceTimers(where)

\* Goroutines that can run are run and timers go off; rekeys, deaths and the
\* success of a redial are left open.
RegistrySpec ==
    /\ RegistryInit /\ [][RegistryNext]_registryVars
    /\ WF_registryVars(InstallStep) /\ WF_registryVars(Reconfigure)
    /\ \A a \in SA : WF_registryVars(TimerStep(a))

-----------------------------------------------------------------------------
(* Properties.                                                             *)
Registered(a) == a <= made /\ inbound[spiOf[a]] = a

\* The newest Child SA can always be received on, from before the tunnel sends
\* on it: no timer of an earlier SA, of this generation or an earlier one,
\* evicts it, not even when its random SPI was used before (removeInbound,
\* "a stale grace timer must not evict that new SA").
NewestReceives == sup \in {"idle", "reconfigure"} => Registered(made)

\* A superseded SA keeps decrypting until its own grace period is over, unless
\* its SPI was drawn again or the tunnel is rebuilt ("zero-loss rekey").
GraceKept ==
    [][\A a \in SA :
          Registered(a) /\ ~Registered(a)' =>
              \/ \E b \in SA : timer[b].st = "fired" /\ timer[b].sa = a
              \/ Registered(made)' /\ made' # made
                 /\ (spiOf'[made'] = spiOf[a] \/ sup = "redial")]_registryVars

\* A superseded SA is forgotten: its keys do not stay accepted for longer than
\* the grace period, however rekeys and SPIs interleave.  (While a reconnect is
\* under way nothing reads the registry, and resetInbound empties it.)
Forgotten ==
    \A a \in SA : Registered(a) /\ a < made ~> (~Registered(a) \/ sup # "idle")

\* graceTimers does not grow: a timer is listed only while it has work to do
\* ("so graceTimers doesn't grow without bound"); and it misses none: once the
\* timers are stopped, what still runs is a callback that had already started.
TimersAccounted ==
    /\ \A a \in listed : timer[a].st # "none"
    /\ sup # "idle" => \A a \in SA : timer[a].st # "armed"
=============================================================================
