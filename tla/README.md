# TLA+ models of go-ipsec

go-ipsec is a userspace IKEv2/ESP client: it dials a VPN gateway, keeps the IKE
and Child SAs alive, carries IP packets in ESP over UDP and, if asked to,
reconnects by itself. The command ipsec2socks puts a SOCKS server on top. The
modules here model the parts that are concurrent, stateful or easy to get subtly
wrong. TLC checks them on small instances; TLAPS proves the central safety
properties of most of them for every value of their constants.

## The system and its parts

| Part | Code | Module | State |
|---|---|---|---|
| Post-handshake driver: Message IDs, dedup, rekeys, DPD, recovery | `internal/session/{informational,rekey,protected}.go` | `Driver` on `IKEWire`, composed in `Session` | modelled, proved |
| The driver's deadlines | `internal/session/informational.go` | `DriverClock` | modelled, proved |
| The VPN gateway | not in this repository | `Gateway` | external |
| IKE_SA_INIT, IKE_AUTH, EAP-MSCHAPv2 | `internal/session/{session,ikeauth}.go`, `internal/eap` | `Handshake` | partly, proved |
| Suite negotiation and the SA payload | `internal/session/suite.go`, `internal/ikemsg/payloads_sa.go`, `config.go` (suite lists) | `Suites` | modelled |
| Anti-replay window | `internal/esp/replay.go` | `ReplayWindow`, abstract `AntiReplay` | modelled, proved |
| ESP sender: sequence numbers, SA swap | `internal/esp/esp.go`, `internal/tunnel/tunnel.go` | `ESPSender` | modelled, proved |
| ESP receiver: order of the checks, trailer | `internal/esp/esp.go`, `dataplane.go` | `ESPReceiver` on `AntiReplay` | modelled, proved |
| UDP transport: contexts, deadlines, AfterFuncs | `internal/transport/udp.go` | `UDPConn` | partly, proved |
| One session's data path, Read and SetReadDeadline, the teardown | `internal/tunnel/tunnel.go`, `ipsec.go`, `dataplane.go` | `ESPConn`, which composes the three above | partly, proved |
| Inbound registry and grace timers | `dataplane.go` | `DataPlane` | modelled, proved |
| Client lifecycle, supervisor, workers | `ipsec.go`, `reconnect.go`, `dataplane.go`, `internal/workers` | `Client` | modelled, proved |
| ipsec2socks: accept loop, handlers, splice | `cmd/ipsec2socks` | `Socks` | partly, proved |
| Rest of the codec, cryptography, certificates, configuration, secret memory | `internal/ikemsg`, `internal/ikesa`, `internal/auth`, `config.go`, `identity.go`, `resolver.go`, `internal/secretmem` | none | not modelled, see below |

"Proved" means that a module `<Module>Proofs` (`SessionProofs` and
`SessionChildProofs` for the driver, `ESPConnProofs` for all of the data path,
`ClientProofs` for the registry too) holds theorems about safety properties of
the part. `PROJECT.json` lists the
components, the lines every definition models, the hazards of the code with the
properties that would catch each one, the runs and the theorems.

The parts meet as follows. `Dial` runs the handshake and hands its session to
three workers: rx-demux, the driver and the keepalive. rx-demux reads the socket,
decrypts ESP through the inbound registry and the replay window, and passes IKE
datagrams to the driver. The driver installs rekeyed Child SAs in the registry and
swaps the SA the tunnel sends on. Driver, keepalive and the tunnel's Writes share
one socket. When the driver declares the peer dead the supervisor tears this
generation down, dials again and starts the next.

## How the modules correspond to the code

**Driver.** The driver is one goroutine and the only writer of the session, so a
handler is atomic and is written as a function from the session record to the next
one. The functions keep the names of the methods and call each other the same way;
`handleInbound` is one datagram, `housekeeping` one tick. Every early return and
error path is there: a step gets an input record with a fresh nonce, a random SPI
and what goes wrong in it (no randomness or encoding, a failed send, an answer that
cannot be encoded). A failed send of an answer is a lost datagram. Keys are
symbolic: `IKEWire` keeps the SA, nonces and DH group they are derived from, which
is what the two ends can disagree about, and a message opens only under its SA.
Endpoint migration, traffic selectors, configuration payloads and logging are left
out; no decision of the driver depends on them.

**Session** composes the driver with `Gateway` and the network. A datagram stays in
`net` for ever and may be delivered any number of times, in any order, or never.
Which deadlines have passed at a tick is left open. The gateway follows RFC 7296
with a window of one, including the cases in which it declines a rekey. It deletes
a Child SA it created for the client only after a later request of the client.

**DriverClock** runs the same functions under countdown clocks, one tick per
`driverTick`, against a gateway that answers nothing. A deadline that coincides
with a tick may or may not count as passed. A clock that is `Off` does not run, and
one that is `Passed` is found at every tick until something re-arms it. The retry
interval is assumed to be longer than one tick, as `rekeyRetryInterval` is.

**Handshake** follows `exchange`, `recvMatching`, `IKESAInit` and `IKEAuth`. The
gateway may cross its cookie threshold at any time, insist on another group, lack
the secret or the certificate, and send EAP packets in any order. NAT detection and
the first Child SA's parameters are left out.

**Suites** is the pure negotiation code over proposals in their wire form: the
configured list is validated, an offer is marshalled, and what arrives is parsed
before it is matched. A transform carries a sequence of attributes, of which the
parser keeps the key length; absent, zero and present are told apart, as in the
code. The tables for ESP and IKE differ only in their extra transform, so one layer
is run.

**ReplayWindow** is `Accept` and its shift, word by word. `AntiReplay` is what it
promises: a set of numbers accepted, and a verdict.

**ESPSender** has one process per `Write`, with the load, the compare-and-swap, the
sealing and the send as separate steps. **ESPReceiver** keeps the order of the
checks of `Decrypt`: the frame, integrity, the window, and only then the trailer.
The lengths of padding and trailer are computed as `fillTrailer` does. Whether the
ICV or tag is right is an input.

**UDPConn** has the steps of a `Send` or `Recv`: set or clear the socket's deadline,
register the `AfterFunc`, block in the socket, stop the `AfterFunc`, clear the
deadline. The deadline is the socket's, one per direction; the context is the
call's. An `AfterFunc` that has been started runs at any later time, the end of its
call included. Two history variables say which calls another one met (`overlap`)
and which began with an `AfterFunc` of an earlier call still to run (`stray`).

**ESPConn** lets the Writes of `ESPSender`, the driver, the keepalive and rx-demux
use one `UDPConn`; what the socket takes arrives at `ESPReceiver` any number of
times and in any order. The netstack's `Read` loads the deadline, waits, and is
woken by `SetReadDeadline`, which stores and wakes in two steps. `Close` cancels the
workers and waits for them, the driver's goodbye included, then closes the tunnel
and then the socket.

**DataPlane** interleaves `InstallChildSA`, the `AfterFunc` callbacks and the reset
on reconnect at the grain of the locks they take. **Client** interleaves `Dial`, the
supervisor, the workers of every generation, callers of `Close` and the first
caller of `netstack`, one step per lock, channel operation or wait.

**Socks** is the server from accept to splice: the accept loop and its slots, the
handlers with their deadlines through greeting and request, the dial through the
tunnel, the two pumps with their half-closes, the idle watchdog, and the
cancellation, which closes the listener. The octets of the protocol are left out.

The operators marked *Fault* are plausible bugs. Each property has one that it
refutes; they play no part in the specifications.

## Runs

| Run | Bounds | Shows |
|---|---|---|
| `replay_window` | words of 3 bits, a window of 7 rounded up to words, numbers to 13 | the verdict is exactly "new and not too old", and `AntiReplay` is implemented |
| `esp_conn` | 8 casts; 2 writers with 2 writes each, 2 SAs, counter to 3, window 2, 3 arrivals, 2 Reads, 2 deadlines | no sequence number twice, no datagram delivered twice and none refused that is fresh, cancellation reaches blocked calls, calls fail for a cause of their own, no wake-up is lost; Write, Read and Close end |
| `session` | 6 environments, 2 requests of the gateway, 2 tries, Message IDs to 3 per SA, to 4 in one environment | one request per Message ID, one answer per request, both ends hold the same IKE and Child keys, lost Child SAs are recovered, exchanges end only answered, spent or superseded, teardown only for cause |
| `driver_clock` | 4 tries, delays 1 to 4, idle interval 5, retry interval 11 | a silent gateway is declared dead in bounded time, and in three short waits after a wake |
| `client` | 3 generations, 1 panic, Close from one caller and from onDead | teardown order, no leftovers, every Close returns, every death is handled |
| `data_plane` | 3 SPIs, 5 SAs | the newest SA receives, superseded ones last for their grace and are then forgotten, timers are accounted for |
| `handshake` | 4 settings, 5 EAP rounds, 2 half-open SAs | answers match requests, AUTH only after proof, no spurious failure, it ends |
| `suites` | lists of 3 ids, 2 transforms per type, 2 proposals | selections are accepted exactly when they narrow the offer; our answers are the best narrowing |
| `socks` | 5 scenes: one connection in detail, three that compete for two slots, two for one | slots are exact and reclaimed, each direction is relayed to its end, the server returns |
| `esp_conn_crossed` | one cast | violated: see Findings |
| `session_rejected` | one environment | violated: see Findings |
| `clock_rekey_due` | as `driver_clock` | violated: see Findings |

An environment (`MCSession`), a setting (`MCHandshake`), a cast (`ESPConn.cfg`) or a
scene (`MCSocks`) says what may happen in a behaviour and is chosen in the initial
state. Several small ones reach further than one in which everything may happen at
once.

Why the bounds are enough. Two requests of the gateway and two cutovers give every
pair of overlapping rekeys, a request repeated under a superseded SA, and Message
IDs that coincide across SAs. The replay instance crosses word boundaries with odd
and whole-word shifts. The casts of `esp_conn` let two Writes meet, a Write and a
Send of a worker, two workers, and the handshake's Recv and rx-demux's. With two
writers the counter runs out while one of them holds a number, and three arrivals at
a window of two push a packet out. Three SPIs with five SAs force an SPI to be drawn
again with its timer armed. Three generations let a death of the second fall into
the reconnect of the first. In the clock an exchange lasts 1+2+4+4 = 11 ticks, the
retry interval, as 2+4+8+16+30 = 60 seconds do with the default configuration. In
`handshake` a request and its retransmission may open one of the two SAs each. The
proposals of `suites` hold every encoding of a key length: absent, zero, wrong,
right and after another attribute. Three connections for two slots let one wait
while the others come and go.

Deadlock is checked in `replay_window` only: conns and clients are closed, sessions
end and negotiations are over, and then nothing is left to do.

## Fairness

* `ESPConn` and `Socks`: some goroutine or timer that can run is run. This is less
  than what a scheduler that is fair to each of them does, and enough because each
  takes finitely many steps. The socket may stay blocked, nobody has to call
  `Close`, and the peers of the proxy may do nothing for ever.
* `DriverClock`: the ticker fires. Nothing is assumed about messages.
* `Client`: a goroutine that can run does. Whether a dial succeeds, a worker fails
  or the application calls anything is open. `DeathHandled` assumes in addition
  that a gateway which can be reached again answers some dial. A driver whose
  rx-demux has returned is taken to declare its peer dead, which is what
  `DeadInTime` shows as long as no rekey is due.
* `DataPlane`: an armed timer fires and its callback runs, and an install or a
  reconfiguration that has begun goes on. A further rekey or reconnect is not
  assumed.
* `Handshake`: every wait has a deadline. Nothing is assumed about the network.

## Proofs

Each list gives the theorems and the invariant that is inductive. The assumptions
are those on the constants, named in the component's module.

`ReplayWindowProofs`, for every word width, window size and number space:

* `TypeCorrect` and `BitmapExact`: `[]TypeOK` and `[]WindowExact`. The invariant
  adds that nothing above `last` was accepted (`LastIsHighest`), without which a
  number that is about to enter the window could be marked already. The step that
  needs work is the shift, where a bit of the new bitmap comes from one of two
  adjacent words.
* `NeverReplays` (`VerdictExact`) from the same invariant, and `Refinement`: the
  specification implements `AntiReplay`.

`ESPConnProofs` has four parts. The sender, for every set of writers, number of SAs
and end of the counter:

* `SeqNeverReused`: `[]UniqueSeq`. The strengthening says that every number used or
  held by a writer is at most the counter of its SA (`Below`), and that a number
  held was neither used nor is held by another writer (`Apart`).
* `SenderTypeCorrect`: `[]TypeOK`.

The transport, for every set of callers and contexts:

* `CancelReaches` (`Interrupted`) and `TimeoutHasCause` (`FailsForCause`). `UDPInv`
  says whose deadline the socket has (`Owned`), that calls in one direction at one
  time know of each other (`Met`), that a blocked call has an `AfterFunc` waiting,
  running or done (`Hooked`), and that during a call which meets no other only its
  own `AfterFunc` moves the deadline into the past (`Caused`). Both properties
  except calls that cross another one; `esp_conn_crossed` shows why they must.

The composition and the receiver, for every set of writers and casts, any window and
any bounds:

* `ImplementsSender` and `ImplementsTransport`: every step of the composition is a
  step or a stutter of `ESPSender` (fairness apart) and of `UDPConn`. Hence
  `ConnSeqNeverReused`, `ConnCancelReaches` and `ConnTimeoutHasCause`.
* `TrailerReadsBack`: for every suite and length, what `fillTrailer` writes passes
  the checks of `Decrypt` and gives the datagram back.
* `NeverDeliveredTwice` (`DeliveredOnce`) and `FreshNeverRefused`
  (`FreshDelivered`). `RcvInv` says that the window of an SA has taken exactly the
  numbers of the packets delivered; it rests on `TrailerReadsBack`, as a packet
  that failed behind the window would have used its number up, and on
  `UniqueSeq`, as two datagrams with one number could not both be delivered.
* `ReadIsWoken` (`NoLostWake`). `ReadInv` extends it to a Read that has loaded the
  deadline and does not wait yet.

`SessionProofs`, for the driver, the gateway and the network together, in every
environment: any requests of the gateway with any groups and offers, any losses,
repetitions and reorderings, any number of rekeys, refusals and local failures:

* `SessionCorrect`: `[]SessionInv`. On the client's side the invariant says that
  nonces are new (`Drawn`, `Novel`), that what was asked under the IKE SA in use is
  numbered below `messageID` and a Message ID names one request (`Numbered`,
  `InFlight`), that each dedup slot holds the last answer sent under its SA and
  nothing later was answered (`Slot`, `Answered`), and when the client says goodbye
  to an IKE SA (`Goodbyes`). On the gateway's side it says that a request
  outstanding was sent (`Windows`), that its nonces name its messages
  (`GatewayNonces`), and that an answer with an SA answers a request for one
  (`Granted`). Between the two, the IKE SA is one the gateway has held or will derive
  (`Agreed`), and every Child SA comes from the handshake or from one request and
  its answer (`Pedigree`). The handlers are nested functions, so the
  invariant is stated for a session in the middle of a step (`Mid`, `Holds`,
  `Reaches`), and each handler has a lemma.
* From it `OneRequestPerIDHolds`, `OneAnswerPerRequestHolds`, `IKEKeysAgreeHolds` and
  `ChildKeysAgreeHolds`, and the action properties `ExchangeEndsAnsweredHolds` and
  `NoFalseTeardownHolds`.

`SessionChildProofs`, about the Child SA in use, goes through the handlers and the
steps of the gateway again and rests on `SessionInv`:

* `NoBlackHoleHolds`: `NoBlackHole`, under one condition on the environment: a gateway
  that deletes Child SAs of its own accord does not turn a re-establishment down
  (`HonoursRecovery`: it does not rekey IKE SAs itself, declines nothing it could grant
  and answers with the groups it was asked for). All environments of the `session` run
  meet it; a gateway that deletes IKE SAs, or rekeys and declines as it likes but
  deletes no Child SA, meets it too. It cannot be dropped: `session_rejected` violates
  `NoBlackHole` without it. `HoleInv` says that the client never deletes the Child SA
  it uses or asks for (`Spared`); that the gateway holds what it granted to the request
  in flight and does not delete it before the client has read the answer (`Promised`);
  that the Child SA in use is held, or will be when the gateway reads an answer, or its
  DELETE is not heard of yet, or a re-establishment is queued or in flight (`Backed`),
  and that such a re-establishment is granted (`Apt`), unless the gateway has closed
  the IKE SA (`Doomed`). The rest is about which IKE SA the two ends are on: the client
  deletes one only after a rekey of its own (`Parted`), by when everything the gateway
  said of Child SAs under it has an answer (`Moved`), and a client that is up has
  agreed to the end of no IKE SA but one it has left (`Quit`, `Turned`). `Ordered` and
  `Closing` are what the windows and the gateway's own requests add to that.

`DriverClockProofs`, for every number of tries, all delays and all intervals:

* `SilentGatewayDies` (`DeadInTime`) and `WakeFindsOut` (`DeadSoonAfterWake`).
  `ClockInv` adds up, for the exchange in flight, the time that has passed, the time
  left on its clock and what the remaining attempts take. Without a wake the sum
  stays below the bound because at most one re-establishment comes between the idle
  interval and the probe: once abandoned it is throttled for more than a tick, and
  the probe goes first (`Undisturbed`). After a wake everything under way is fast
  and the fast probe is in flight or queued (`Woken`).
* `BackoffExact`: the loop of `retransBackoff` gives the base delay times a power of
  two, capped, for every attempt. This is an induction over the attempts. The
  library's induction theorems cannot be used, so the module proves that a set of
  numbers has a least one (`LeastNat`), and induction over sets and the existence of
  recursive functions from that (`Induction`, `Recursion`).

`ClientProofs` has two parts. The registry (`RegistrySpec`), for every set of SPIs and
any number of SAs:

* `NewestAlwaysReceives`, `TimersAlwaysAccounted` and `GraceAlwaysKept`.
  `RegistryInv` adds that what an installation or a timer has captured is older
  than the newest SA, whatever its SPI (`Older`), and that an armed timer is in the
  list or about to be appended, by an installation that excludes a reconnect
  (`InList`).

The lifecycle, for any number of callers of Close, generations and panics:

* `SocketsOutliveWorkers`, `GenerationsApart` and `CloseLeavesNothing`. `ClientInv`
  follows the supervisor through a reconnect (`Generations`), says that only the
  current Manager has workers and only the current session and the one just dialed
  are open (`Workers`, `Sessions`), and what each stage of a Close has achieved
  (`Closing`).

`HandshakeProofs`, for every setting:

* `AnswersMatch` (`AuthAnswersRequest`) and `AuthOnlyAfterProof` (`AuthAfterProof`).
  `HandshakeInv` says that every request in the network is an earlier one or the
  one under way, that after IKE_SA_INIT an answer answers the request of its own
  Message ID, that the answers the gateway keeps are of this kind too, and what
  each stage tells about the gateway (`Gated`).
* `ServedUnlessLate` (`NoSpuriousFailure`). `ServedInv` says that, where a request is
  sent once and the gateway keeps one cookie secret, one datagram is under way at a
  time (`OneDatagram`), it is right for the request it answers and for the stage the
  client is in (`Right`, `StageOK`), and the gateway has opened SAs in the group it
  wants only (`HalvesOK`).

`SocksProofs`, for every number of connections and every limit:

* `SlotsAlwaysExact`: `[]SlotsExact`. `SlotInv` adds that the connection which waits
  for a slot is not handled yet.
* `RelayedToTheEnd` (`Relayed`). `LinkInv` says that the watchdog measures the time in
  which nothing was read, that a splice with both sinks reading is not torn down
  while it runs, and that a pump is done only when its source has ended and its sink
  has everything.

Model-checked only:

* all liveness (`CloseEnds` and the like), which is beyond the prover as ENABLED is;
* `Suites`. Its operators fold over sequences of proposals and transforms of any
  length, and what they compute would need an induction over sequences in every one
  of them. `SelectionExact` also depends on transforms with at most one Key Length
  attribute that is read (see below).

`ReplayWindow`'s `TypeOK` and `WindowExact` and `ESPSender`'s `TypeOK` are proved and
have no run of their own.

## Findings

* **A rejected re-establishment is not retried** (`session_rejected`,
  `internal/session/informational.go:439`). The gateway deletes the Child SA, the
  client asks for a new one while the gateway rekeys the IKE SA, and the answer is
  TEMPORARY_FAILURE. The flag was cleared when the request was sent, so nothing
  tries again and data stops behind an IKE SA that stays alive.
* **Rekeys that are due keep dead peer detection from running** (`clock_rekey_due`,
  `internal/session/informational.go:463`). They come before the idle probe, are
  not fatal when abandoned and are due again by then.
* **A Write may undo the cancellation of the driver's Send** (`esp_conn_crossed`,
  `internal/transport/udp.go:75`). Both use the write deadline of one socket. The
  `AfterFunc` of the cancelled Send moves it into the past, a Write that begins or
  ends at that moment resets it, and the driver stays in `WriteTo` for as long as
  the socket takes nothing. `Close` waits for the driver.

Also seen while modelling, without a run of their own:

* one death may lead to two reconnects although `reconnect.go:34-36` says that
  duplicate notifications are coalesced: if the supervisor takes the first token
  before the second is sent, it later replaces the healthy generation as well;
* an `AfterFunc` of an earlier `Recv` that runs after the next one has reset the
  deadline makes that one fail (`internal/transport/udp.go:93-97`); this is what
  `FailsForCause` excepts as `stray`. If it is rx-demux's, rx-demux returns;
* two concurrent `Read`s share one wake-up, so a new deadline reaches one of them;
* `OnRekey` callbacks are fired after Child SA rekeys and reconnects, not after an
  IKE SA rekey, though `ipsec.go:256` says "after each successful IKE/Child SA rekey";
* of two Key Length attributes in one transform the last one counts;
* every round of IKE_SA_INIT has Message ID 0, so after a retransmission a late
  answer to one round is taken for the answer to the next; `NoSpuriousFailure` is
  therefore stated for one try, without duplicates, and for one cookie secret;
* `clearOldIKEDelete` compares the Message ID only, and the slot may hold the
  DELETE of an SA older than the one superseded last;
* `handleChildRekeyRequest` does not clear `childReestablish`, so a queued
  re-establishment may replace a Child SA the gateway has just made;
* `swapIKE` may drop a Child SA DELETE that the gateway has not seen;
* without AutoReconnect, `Close` may shut the Manager down while `Dial` is still
  starting workers, so that `Go` returns false.

## Not modelled, and why

* Cryptography, certificate verification, secret memory and the codec apart from
  the SA payload are stateless or invisible in a behaviour; the models use their
  verdicts.
* NAT detection and the change of port: no later decision depends on them, and
  `Recv` takes datagrams of either port.
* Configuration apart from the suite lists, identities and the resolver have no
  state that changes. The in-memory transport is used by tests only.
* `OnReconfigure` and `OnRekey` hooks are code of the netstack and the application.
  One that calls `Close` is listed as a hazard.
* The flags and signals of ipsec2socks and its choice of a name server. The second
  signal, or a grace timeout, ends the process, under which any claim that the
  server returns is empty.
* The inbox of the driver is covered as loss. A wall clock that is stepped, and a
  DELETE that overtakes the response which creates its SA, are listed as hazards.
