# edgeplant-telemetry-go in TLA+

`cmd/telemetry` is the program of an in-vehicle telemetry unit.  It reads CAN
frames and GPS fixes, latches the newest values, publishes a JSON snapshot of
them at a fixed interval over MQTT or RabbitMQ, and turns control JSON it
receives from the same broker into CAN frames.  `cmd/gamepadweb` is a companion
that turns gamepad input into such control JSON.

This directory holds a TLA+ model of both programs: what the goroutines and
channels do under every interleaving, failure and shutdown, and what becomes of
the data between a configuration file or a stick and the bits on the bus.  The runs of
TLC are listed in `PROJECT.json`; the proofs are checked with TLAPS.  Source paths
below are relative to the repository (the Go code lives in its `src/`).

## 1. The system

### Components, their state and operations

| component | code | state | operations |
|---|---|---|---|
| process | `cmd/telemetry/main.go` | `ctx`, `interruptCh` (1), `wg`, three channels | start-up, signal, cancel, close, join |
| SocketCAN handler, one per interface | `internal/canhandler/handler.go` | socket, DBC store | `New`, `StartListening` (goroutine), `ParseFrame`, `SendFrame`, `MakeFrame`, `Close` |
| DBC parser | `internal/canhandler/parser.go` | map of message definitions | `ParseDbcFile` |
| GPS handler | `internal/gps/handler.go` | current gpsd session | `Start` (goroutine), TPV filter (in the watcher goroutine of the client) |
| aggregator | `internal/dispatcher/telemetry.go` | `gpsData`, `vehicle[bus][signal]` | `UpdateGPS`, `UpdateCAN`, `MarshalSnapshot` |
| publisher worker | `main.go:167-204` | ticker | select over ctx, both receive channels and the ticker |
| command callback and TX worker | `main.go:122-164`, `internal/mq/command_parser.go` | `canTxCh` (100) | parse, enqueue, encode, transmit |
| MQTT handler | `internal/mq/mqtt_handler.go`, `broker.go` | paho client | `New`, `Subscribe`, `Publish`, `Close` |
| RabbitMQ handler | `internal/mq/rabbit_handler.go` | AMQP connection and channel | `NewRabbit`, `Subscribe`, `Publish`, `Close` |
| configuration, topics, logger | `internal/cfg`, `internal/mq/topic.go`, `internal/logger` | none after start-up | `LoadConfig`, `BuildTopic`, `New` |
| gamepad mapper | `internal/gamepad` | none | `ToCommandMaps`, mapping YAML |
| gamepad web server, browser client | `cmd/gamepadweb` | MQTT client; WebSocket, timers | `handleWS`, `handleAPI`, `publishState` |

### How they interact

    SocketCAN --listener goroutine per bus--> canRxCh (200) --\
                                                              publisher --> broker
    gpsd --watcher, TPV filter--> gpsRxCh (100) --------------/  (latch, ticker)

    broker --callback goroutine--> canTxCh (100) --> TX worker --> SocketCAN

Everything crosses goroutines by bounded channels.  The publisher alone touches
the aggregator.  `Publish` runs inside the publisher's select loop: while it
blocks, nothing is taken from the receive channels, and the backpressure reaches
the listeners and the watcher.  `ctx` reaches the listeners (only while they
send), the GPS handler (not while it dials or sleeps, not in the filter), the
callback, the TX worker and the publisher.

### What is hard, and what correctness means

* **Interleaving.**  The select of the publisher picks at random among ready
  cases; snapshots must nevertheless be consistent and never go back in time,
  and backpressure must lose nothing.
* **Shutdown.**  Listeners block in `Receive` or on a full channel, the callback
  on a full `canTxCh`, the GPS handler sleeps: a signal must end the process
  from every such place, and `wg.Wait` must join everything before `broker.Close`.
  One place has no way out: `gpsd.Dial` takes neither the context nor a deadline, so
  a shutdown waits for it as long as it blocks.
* **Failure.**  gpsd, the broker, or a CAN transmit may fail at any moment.  The
  handlers must retry where they promise it, release what they opened, and never
  let one bad command stop the ones behind it.
* **Ordering.**  Commands must reach the bus in the order they were received;
  a reconnecting GPS session must not overlap with the old one.
* **Numbers.**  A stick goes through a dead zone, two roundings, JSON, a saturating
  and truncating encoder and a byte order before a receiver decodes it; each of
  them is right by itself long before all of them are right together.
* **Settings.**  A setting has up to five sources, and two programs that must meet
  on one topic each build it from settings of their own.

`PROJECT.json` lists these hazards one by one, at their source lines.

## 2. Modules

| module | models | checked by |
|---|---|---|
| `LatchView` | abstract: what a reader of the snapshots may rely on | refined by `Uplink` |
| `Uplink` (`MCUplink`) | listeners, gpsd watcher, channels, aggregator, publisher | runs `uplink_safety`, `uplink_live` |
| `Lifecycle` | the whole process from `main` to exit, control only | `lifecycle`, `lifecycle_startup` |
| `CommandPath` | abstract: what a sender of commands may rely on | refined by `Downlink` |
| `Downlink` (`MCDownlink`) | callback, `ParseControlCommand`, `canTxCh`, TX worker, `MakeFrame` | `downlink` |
| `MqttHandler` | connection, `Subscribe` with deadline and retries, `Publish` | `mqtt`, `mqtt_resume` |
| `RabbitHandler` (`MCRabbitHandler`) | `NewRabbit`, `Subscribe`, the consumer goroutine, `Publish`, `Close` | `rabbit`, `rabbit_resume` |
| `GpsHandler` | `Start` over many sessions, with their watchers | `gps` |
| `GamepadMapper` | pure: `UnmarshalJSON`, `ToSignals`, `ToCommandMaps`, mapping file and flags | through `ControlPath` and `GamepadWeb` |
| `GamepadWeb` (`MCGamepadWeb`) | browser tabs, `handleWS`, `handleAPI`, `publishState`; extends `GamepadMapper` | `gamepad` |
| `Config` | pure: `LoadConfig`'s normalisation, environment, `BuildTopic` | through `ControlPath` |
| `DbcCodec` | pure: `ParseDbcFile`, `MakeFrame`, `ParseFrame` down to the bits | through `ControlPath` |
| `ControlPath` (`MCControlPath`) | start-up and one command from a stick to the bus; composes the three pure modules | `control_path` |
| `UplinkProofs`, `DownlinkProofs`, `LifecycleProofs`, `GpsProofs`, `RabbitProofs`, `MqttProofs`, `GamepadProofs`, `ControlPathProofs` | theorems about the module of the same name; `ControlPathProofs` also about `Config` and `DbcCodec` | TLAPS |

Operators whose comment calls them a *faulty variant* are not part of the
specification.  Each is a definition changed the way a plausible mistake in the
code would change it; substituting it for the definition makes the property it
is paired with in `PROJECT.json` fail, which shows that the property depends on
that piece of code.

### LatchView and Uplink

Values are represented by where they come from.  The value of a signal is the
number of the frame it was decoded from, the value of a position is the number
of the fix, 0 stands for a key that is absent from the map.  So "which value
does the snapshot show" and "how old is it" are the same question, and the
physical values, which no control depends on, disappear.

State: `log[b]` is the history of the frames read from bus `b`; `listener[b]` is
the place of its goroutine in `StartListening` (in `Receive`, or in the select on
`rxCh`); `canRxCh` and `gpsRxCh` are the channels; `latch` and `gpsData` are the
fields of `Aggregator`; `publisher`, `payload` and `tick` are the publisher's
place, the snapshot it built before it entered `Publish`, and the one-place channel of
its ticker; `delivered` is the last snapshot the broker took; `taken[b]` is the
history of what the publisher took.

Actions, in source order: `Receive`, `Send`, `StopSend`, `ReceiveEnds`
(`StartListening`); `Report`, `SendFix` (the TPV filter); `TakeCan` (whitelist and
`UpdateCAN`), `TakeGps` (`UpdateGPS`), `TakeTick` (`MarshalSnapshot` and the call of
`Publish`), `PublishOK`, `PublishLost`, `PubStop` (publisher); `Tick`; `Cancel`.
`Decodes[b][id]` is the set of signal sets that `ParseFrame` may return for a frame:
more than one for multiplexed messages, the empty set for an unknown identifier
or a bus without a DBC file.

`LatchView` says what the published snapshots mean with no channel, goroutine or
latch in it: at every moment each bus has an absorbed prefix of its frames, and
what is shown is, under each signal name, the value of the newest whitelisted
frame of a prefix that carries the name.  `Uplink` implements it under the
mapping `seen <- taken`, `seenFix <- gpsData`, `shown <- delivered`.

### Lifecycle

`main` moves through the phases `config`, `connect`, `openCan`, `subscribe`, `spawn`, `run`,
`close`, `join`, `disconnect` to `exited`, or to `fatal` (`log.Fatalf`, without defers).
Each goroutine is its place in the source; a channel is its number of items;
`wg` is the counter of the `WaitGroup`, which counts the listeners, the GPS handler, the
TX worker and the publisher, but neither the watcher nor the callback.  `Start` is in
`dial` from the call of `gpsd.Dial` until that returns a session (`GpsDialed`) or an error
(`GpsDialFails`), which nothing forces it to do.  The two brokers differ in one place: paho
retries the first connection for ever (`SetConnectRetry`), `amqp.Dial` tries once.
Traffic never ends unless the environment wants it to.

### Downlink

A payload is what `ParseControlCommand` distinguishes in it: whether it is JSON,
its `bus_id`, its `frame_id` (blank, malformed, or a number), and per signal whether
the value is absent, boolean, a number or something else.  The signals of a
transmitted frame hold the number of the payload that set them, 0 where the bits
stayed zero.  Bits and values are the business of `DbcCodec`.

`CommandPath` is what is left when the callback, the channel, the worker and the
shutdown are taken away: executable commands arrive, the oldest is executed, and one
may get lost.  `Downlink` implements it with `pending` the executable commands
that are in the callback, in `canTxCh` or with the worker, and `executed` the numbers
on the wire.  The refinement holds the abstract path to two things
that invariants of single variables miss: no command overtakes an older one that
is still on its way, and a command disappears only where `Lose` is
(a failed transmit, the shutdown).

### MqttHandler and RabbitHandler

The client libraries and brokers are external, modelled from the options and
calls of the handlers.  Time in `MqttHandler.Subscribe` is `left`, the number of 100 ms polls
that fit before the deadline: it falls with every sleep and may fall at any other
time too, and `attempts` counts the SUBSCRIBEs asked of the client.  paho answers
`IsConnected` with true while it is reconnecting, so `Attempt` may be made on a
connection that is down.  A drop completes the pending token with a text that line 129
recognises (`lost`) or, when it hits the SUBSCRIBE being written, with the raw network
error, which it does not (`other`): then `Subscribe` gives up and the program ends, as
`docs/gamepad-runbook.md:121-124` tells its readers.  In `RabbitHandler` the set-up is
a sequence of calls, each of which may fail.  The connection may break at any moment;
the channel alone may be closed by the broker once the set-up is complete.  Either takes
the exclusive, auto-delete queue with it.

### GpsHandler

The loop of `Start` over successive sessions.  A watcher of an old session goes on
existing until it has offered its end on its unbuffered `done` channel; the
question is whether two can ever feed `gpsRxCh`.  As in `Lifecycle`, a call of `gpsd.Dial`
is a place of its own, `dial`, which `Dialed` or `DialFails` leaves.

### GamepadMapper and GamepadWeb

`GamepadMapper` turns the state of a gamepad into command maps.  An axis or a button
moves in steps of 1/510, physical values are counted in thousandths; on this
grid every rounding of the code (`math.Round`, half away from zero) is a
division of integers.  What a button's JSON may be (boolean, number, object, `null`, or
text, which makes the state unreadable) is modelled, as are the mapping file with its
default names, the flags, and the rule for the default frame 0x2.

`GamepadWeb` models tabs, WebSockets, requests and calls of `publishState`.  A gamepad
state is its number in its tab, a frame its place among the frames `ToCommandMaps` makes
of a state, which the module takes from `GamepadMapper`.  `calls` holds the calls of
`publishState` in progress; that a connection has at most one is a consequence of
`handleWS`, not of the representation.  A publish ends in one of three ways: written,
accepted and discarded (paho does this while it reconnects, at QoS 0), or with an error.
Senders interleave freely on the topic, so it is recorded per source, and `InOrder` is
about one connection: across a reconnect an old connection's goroutine may publish an
old state after a newer one.

### Config, DbcCodec and ControlPath

`Config` has one record field per key of the configuration file.  `Fallbacks`,
`Defaults` and the environment are applied in the order of `normalize`.  Topics are
sequences of slashes and names, so `BuildTopic`'s trimming is what it is in the code.

`DbcCodec` represents the data of a frame by the set of its bits that are one.
`SetBits` and `GetBits` are the two's-complement conversions of both byte orders;
`FromPhysical` and `ToPhysical` saturate, scale and truncate as the can library
does.  Where the library computes a quotient in floating point that is an
integer in exact arithmetic, the result may be one too low: with a fractional scale, and
also with a whole one when the offset is fractional, as the subtraction is inexact too
(4.35 - 0.35).  `MayBeLow` says which signals are concerned; `MakeFrame` has a parameter
`lows`, the signals for which it is, and `ControlPath` chooses it freely.  (Of the 881
values of one decimal between -44 and 44 that a signal with factor 0.1 can be given, 307 do
arrive one step low.)

`ControlPath` runs through one life of the two programs: `LoadConfig`, `NewBroker`, `OpenCan`
per interface, `Subscribe`, then one state of a gamepad or one command of another
client, published, parsed and encoded.  Between loading and serving the interval becomes a
`Duration`: milliseconds times 10^6 in 64 bits signed, which wraps, and `time.NewTicker`
panics on what is not positive (`NewTickerPanics`).  The factor and half the range of the
type are the constants `Millisecond` and `Wrap`.  A `Scenario` is what such a run starts from.
The properties look from the far end: `EndToEnd` decodes the frame as a receiver with the same DBC
file would and compares with what was commanded; `RightGroup` is about
multiplexing and about identifiers defined twice; `StickOnBus` and `ButtonsOnBus` compare the
decoded signals with the sticks and buttons themselves.

## 3. Runs

All runs use `CHECK_DEADLOCK FALSE`: the program may stop (shutdown, `Fatalf`), and
the inputs of each instance are finite.  `TypeOK` is a run's invariant where it
bounds a channel or a counter.

| run | bounds | what it shows |
|---|---|---|
| `uplink_safety` | 2 buses, 2 identifiers, 2 signals, 2 frames per bus, 1 fix, `canRxCh` 2, `gpsRxCh` 1 | nothing lost (`Lossless`), no torn snapshot (`SnapshotFaithful`), no value withdrawn (`NeverOlder`), refinement of `LatchView` |
| `uplink_live` | 2 buses with a whitelisted signal on one of them, 2 frames per bus, 2 fixes, capacities 1 | every whitelisted value, or a newer one, reaches the broker, whatever the other bus and gpsd send meanwhile (`Fresh`; over MQTT) |
| `lifecycle` | 1 bus, RabbitMQ, capacities 1 | shutdown completes from everywhere and a signal counts in every phase, if a `gpsd.Dial` under way returns; the join is complete; no sender waits for ever |
| `lifecycle_startup` | the same with MQTT | violated: see findings |
| `downlink` | 10 kinds of payload, 4 arrivals, `canTxCh` 2 | fidelity of the frames on the wire (`WireFaithful`), progress past bad commands (`Executed`), refinement of `CommandPath` |
| `control_path` | over 500 scenarios: a standard deployment varied in one respect at a time | precedence of settings, an interval that is positive and reaches the ticker unless its nanoseconds overflow, the two programs meet on a topic, every sent frame decodes to what was commanded, sticks and buttons arrive |
| `mqtt` | 4 polls before the deadline | `Subscribe` returns and tries at most once per poll (`AttemptsPaced`); publishing recovers |
| `mqtt_resume` | 2 polls | violated: see findings |
| `rabbit` | 2 topics, 4 commands | the set-up is all or nothing (no leak, no topic left out), order kept, the consumer ends |
| `rabbit_resume` | 1 command | violated: see findings |
| `gps` | 3 sessions, 5 fixes, `gpsRxCh` 2 | one session at a time, fixes complete and in order, reconnect if gpsd answers, stop if `Dial` returns |
| `gamepad` | 1 tab, 2 WebSockets, 2 states of 2 frames, 1 HTTP request | order per sender, truthful replies, one WebSocket and one interval per tab, connections survive publish errors, reconnect, everything received is served |

Why the bounds suffice.  Full channels are where the interesting things happen,
so capacities are 1 or 2 and the inputs exceed them.  Two frames per bus are
the least with which a value can be replaced, and the identifiers of the
instance cover a multiplexed message, two messages sharing a signal name of
which one is not whitelisted, and one without a definition.  Four commands fill
`canTxCh`, the TX worker and the callback, the three places a command can be.  Three sessions
make an old watcher, the current one and a successor.  In `uplink_live` the frames of the bus
without a whitelisted signal and two fixes compete with the frames that matter for
the select and for the one place of `canRxCh`.  Two WebSockets of a tab, two
states and two frames give an old and a new connection and a state that fails
half-way.  Most safety properties do not depend on these bounds at all: they are proved without
them (section 4).

`control_path` has no concurrency to bound, but data.  Its DBC files are the
repository's `can0.dbc` and `gamepad_all_inputs.dbc`, one for the mapper's other frames
(`gamepad_mapping.yaml` configures frames 0x3 to 0x5, which `can0.dbc` does not define),
and one with what DBC files may hold besides: big-endian, multiplexed, offset,
narrow and unbounded signals, and one number as a standard and as an extended
identifier.  Scenarios leave the standard deployment in one respect at a time, since
its parts meet only at the topic, the bus and the frame.  `MaxID` is 10^8, as TLC's
integers have 32 bits signed; it stands for 2^32 - 1, and frame identifiers on both
sides of it are among the commands.  For the same reason `Millisecond` is 1000 and `Wrap` is
2^20 in place of 10^6 and 2^63; the intervals include the last that fits, one that wraps to a
negative duration and one that wraps to another positive one.  Five properties have hypotheses.  `TopicsMeet` lets no
other device be commanded when neither device name has a slash inside it (`a` with
the prefix `b/c` and `a/b` with the prefix `c` have one topic); names are names, so a device
or prefix that is an MQTT wildcard is not considered.  `EndToEnd` leaves out signals
that share bits with another commanded one, and signals of one bit that have a scale, an offset
or a sign, since the library returns 0 or 1 for a single bit whatever its definition says.
`RightGroup` leaves out messages with two multiplexer switches or with one that has a sign,
a scale, an offset or a range: the code compares the physical value (`Part` of message 9 shows
it is then the wrong group).  `StickOnBus` and `ButtonsOnBus` are about frames with the default signal
names, and about signals that hold the values of the mapper, in steps of one for the sticks and
buttons and of a tenth or less for the percentages, and share no bits with another commanded one.

Fairness.  Go's select picks uniformly among ready cases, and senders blocked on
a channel queue up in order; hence strong fairness of the cases of a select and
of blocked sends.  Other code of a goroutine has weak fairness.  About the
environment, the following is assumed, and only where a liveness property needs it:
a publish succeeds again and again (`Uplink`, `PublishOK`), which the MQTT client gives when its
broker is reachable again and again, and the RabbitMQ handler does not after a break (see
`rabbit_resume`), so `Fresh` is a statement about MQTT; `Publish` and
`TransmitFrame` return (`Lifecycle`); paho keeps reconnecting, and not every snapshot written to a
connection that is up is lost (`MqttHandler`); publishes return and the browser's
timers fire (`GamepadWeb`).  Signals, frames, reports and
commands need never come.

Nothing is assumed by fairness of `gpsd.Dial`.  That it returns (`DialReturns`) is the
premise of `ShutdownCompletes`, `SigtermHonoured` and `Stops`, and that gpsd moreover answers a handler
that dials again and again (`GpsdAnswers`) the premise of `Reconnects`.  Without its premise each of
the first three is false: a `Dial` that hangs keeps `wg.Wait` (`main.go:213`) from returning.

### Findings

Three runs show a document of the repository contradicted by the code.

* `mqtt_resume`: after a lost MQTT connection the client reconnects with a clean
  session and without its subscription (`OnConnect` only logs); commands never
  arrive again.  `docs/spec.md:9` asks for a retry after a disconnection.
* `rabbit_resume`: RabbitMQ is dialled once; after a lost connection every publish
  fails.  `README.md:56` promises automatic reconnection for both brokers.
* `lifecycle_startup`: between `signal.Notify` and the end of `NewBroker` a SIGTERM
  is stored and ignored for as long as the MQTT broker is unreachable.
  `docs/spec.md:15` asks for a safe stop on SIGTERM.

Documents also disagree with each other or with the code in places where no run is
needed to see it.

* A command whose signal names do not match the DBC file is sent as an all-zero frame
  (`handler.go:222` skips unknown names), where `docs/gamepad-mqtt-can-flow.md:116-119`
  describes a mismatch as producing no frame.  `WireFaithful` states what the code does.
* About queued items at shutdown `README.md:358` asks to flush them,
  `docs/development-rules.md:20` to stop processing.  The code does the latter: what is left in
  `canRxCh` and `gpsRxCh` when the publisher stops is never shown.  `Lossless` counts it as on its way.
* The example frame of `docs/gamepad-runbook.md:88` begins with `01 FE 00 FF`.  For the axes posted
  at `:77` (0.25, -1, 0.5, 1) the code gives 32, -128, 64 and 127, as in the example of
  `docs/gamepad-mqtt-can-flow.md:113`, so `20 80 40 7F`.
* `docs/spec.md:9` asks for a retry after a disconnection; `docs/gamepad-runbook.md:121-124`
  documents that a drop at the moment of subscribing ends the program.  The model has the exit (token
  `other`), and no property forbids it.
* An `interval_ms` above 9223372036854 overflows at `main.go:169`; the ticker panics or runs at
  another pace.  `Runnable` says that nothing smaller does.

## 4. Proofs

The theorems hold for all values of the constants that satisfy the assumption of the
module (`UplinkAssumption`, `DownlinkAssumption`, ...), which asks no more than
positive capacities, finite sets of interfaces and inputs of the right type.
`ControlPathAssumption` says what a scenario is made of, that a configuration has the keys of
`AppCfg` (`IsConfig`), that the axes of a gamepad are numbers and its buttons written in one of the
formats `ButtonState` knows or in none (`IsPad`), and what a DBC file holds (`IsDbc`, `IsSignal`): in a message the signals have
names of their own, each lies within the 64 bits of the frame, is at most 32 bits wide, and has a
factor greater than zero and a minimum not above its maximum.  The number of messages,
signals, prefixes and scenarios is arbitrary, as are commands and ranges; a factor is any positive
whole number of thousandths.

| module | theorem | establishes |
|---|---|---|
| `UplinkProofs` | `TypeCorrect`, `NothingLost`, `NoTornSnapshot`, `NoValueWithdrawn`, `Refinement` | `TypeOK`, `Lossless`, `SnapshotFaithful`, `NeverOlder`, `ImplementsLatchView` |
| `DownlinkProofs` | `TypeCorrect`, `FramesFaithful`, `Refinement` | `TypeOK`, `WireFaithful`, `ImplementsCommandPath` |
| `LifecycleProofs` | `TypeCorrect`, `JoinIsComplete` | `TypeOK`, `NothingRunsAtDisconnect` |
| `GpsProofs` | `TypeCorrect`, `SessionsExclusive`, `NoFixLost` | `TypeOK`, `OneSession`, `FixesInOrder` |
| `RabbitProofs` | `SetupIsAtomic`, `CommandsOrdered` | `SetupAllOrNothing`, `HandledInOrder` |
| `MqttProofs` | `RetriesArePaced` | `AttemptsPaced` |
| `GamepadProofs` | `TypeCorrect`, `FramesInOrder`, `RepliesAreHonest`, `SocketsSucceed`, `StopIsFinal` | `TypeOK`, `InOrder`, `RepliesHonest`, `OneSocket`, `StopStops` |
| `ControlPathProofs` | `SettingsPrecede`, `AlwaysRunnable`, `ProgramsMeet`, `CommandsArrive`, `GroupsAreDecoded`, `SticksArrive`, `ButtonsArrive` | `Precedence`, `Runnable`, `TopicsMeet`, `EndToEnd`, `RightGroup`, `StickOnBus`, `ButtonsOnBus` |

Hardly any of these properties is inductive by itself.  Each proof module begins with
the invariant `IInv` that is, a conjunction of named parts.

**Uplink.**

* `QueueOK`: a message in `canRxCh` is a frame of the log of its bus, newer than
  what was taken from that bus, and the messages of one bus stand in order;
* `HeldOK`: the message a listener holds is newer than all queued ones of its
  bus.  With `CanLossless` this gives `NoFrameSkipped`: when the publisher takes the
  head of the channel, every frame between the last one taken and this one
  carried no signal;
* `FixOK`, the same for `gpsRxCh`;
* `LatchOK`: the latch is the view of the prefix taken.  Taking the head keeps it,
  by `NoFrameSkipped` and because `UpdateCAN` merges;
* `PublishedOK`: while the publisher is in `Publish` its payload equals the latch
  (the publisher alone updates the latch, and it is blocked), and what the broker
  holds is the view of some prefix of what was taken.

`NeverOlder` follows because views of longer prefixes are newer (`ViewMonotone`), the
refinement because the latch is the view that `LatchView` computes
(`LatchIsView`), with one case per action in `AbsStep`.

**Downlink.**  The wire, the worker, `canTxCh` and the callback hold, in this order,
commands in the order of their arrival.  So the command the worker transmits is older
than every other one on its way, which is what `Execute` of `CommandPath` asks.

**Lifecycle.**  `Counted` says that `wg` is the number of goroutines that run, by
cardinality of the set of running listeners; `PhaseOK` that each phase of `main` has
started what the phases before it start, and that the sockets are closed from `join` on.  Without the
second, `wg = 0` would say nothing: it holds before anything is started.  The theorem is about what the
`WaitGroup` counts and about the sockets; a watcher may still hold a fix, and the callback
may still put a command into `canTxCh`.  The run has one interface, the proof any finite set.

**GpsHandler.**  All watchers before the current one have ended, and the fixes taken, those
in `gpsRxCh` and the one held by the watcher are numbered through.  When `Start` dials
again it has received from `done`, which a watcher offers only past its last send.

**RabbitHandler.**  `SetupOK` follows the set-up call by call on a channel that lives;
`OrderOK` numbers the commands handled and queued through, and survives a channel
that goes because what is left of its deliveries is a prefix.

**MqttHandler.**  `Paid` adds that at the top of the loop the next attempt is already paid for, by the
sleep that led there; without it two attempts could share a poll.

**GamepadWeb.**  The states of a connection stand in order from the topic through the call
of `publishState` and the inbox to the next to be sent (`InboxOK`, `CallsOK`,
`TopicOK`), which needs that a goroutine is in at most one call (`ServerOK`), and that an
upgraded socket had none before.  Sockets of a tab live one after the other
(`SocketOK`).

`RepliesHonest` compares a reply with what became of each frame of its state.  `AcceptedOK` says
that what a source has had accepted belongs to states that are behind it or in its present call,
`PublishedOK` that a call in progress has had exactly the frames before its next one
accepted, `AnsweredOK` that the states with a reply are behind the one in the call.  `TypeOK` is part of
the argument: the number of frames of a state (`FramesPerState`) is the size of a finite set that is not
empty, whatever the mapping configures.

**ControlPath.**  The invariant says little: the configuration is what `normalize` made of the file
(`ConfigOK`), the topics are those of its prefixes (`TopicsOK`), the program panics only on a duration
that is not positive (`PanicOK`), a bus that is open has a DBC file
that can be read or none (`OpenedOK`), and a frame that was sent is the one its command makes
(`LastOK`).  The rest is about what the functions compute.

* *Settings.*  `Normalized` gives each key of the result as nested choices, which `First` reads in the
  order of precedence.  An interval whose nanoseconds fit is not wrapped (`Unwrapped`), so it cannot be
  the one that panics.
* *Topics.*  `Trimmed` describes `Trim` by what it leaves out at both ends.  Where two topics are equal, the
  device of neither can be the longer one: it would have a slash where the other ends
  (`NotShorter`, `SamePrefix`, `TopicParts`).
* *Numbers.*  `Induction` and `Recursion` are the two principles over the natural numbers, for sets and
  functions in place of predicates and operators.  They are proved from the fact that a set of
  numbers has a least element (`Least`), and that from the library's theorem about finite sets.  With them
  `Power2`, `Word` and the loop of `MakeFrame` have the values their equations ask for.
* *Bits.*  A frame `Spells` a number in a signal when bit i of the signal is bit i of the number.
  A write spells its number and touches no other bit (`WriteSpells`, which needs that the
  places of a signal's bits are different ones in both byte orders, `PlacesDiffer`), what is spelt
  is read (`WordSpelt`, and `ReadsBack` for the sign), and it stays spelt while signals without a
  common bit are written (`FrameSpells`).
* *Values.*  `RawIsNear`: what is cut towards zero, or ends one lower where a quotient may, is in the
  range of the signal, within a step and on the side of zero.  `SignalArrives` puts that through
  `ToPhysical`, including ranges that lie beyond what the bits can hold.
* *The gamepad.*  A second invariant, `PadOK`, says that what is in the outbox and what was sent
  comes from the frames that `ToCommandMaps` makes of a state that can be read.  A default name
  occurs in the frames of one group only, so it tells which frame was sent and which input its value
  comes from (`GroupsDiffer`, `FrameValues`, `PadFrame`).  `PercentIsNear`, `StickInSteps` and
  `ButtonRead` say what the mapper makes of an input; a multiple of the signal's step arrives
  exactly (`WholeArrives`), any other value within a step (`FineOnBus`).

Only model-checked, because out of the prover's reach, are the liveness properties:
`Fresh`, `ShutdownCompletes`, `NoSenderStuck`, `SigtermHonoured`, `Executed`, `SubscribeReturns`,
`PublishResumes`, `ConsumerFinishes`, `Reconnects`, `Stops` and `Served`.

## 5. Not modelled

* Endpoint and URL normalisation of the brokers and the TLS set-up (in `Lifecycle` a
  step that may fail), the reading of YAML and JSON.
* The timestamp of a command: it is parsed and never compared with the clock.
* The logger.
* In the gamepad programs, serving the page, the origin check and rendering.
* Bringing up a CAN interface (`New` in `handler.go`) is one step that may fail.
* Test scripts, the DBC and YAML files themselves (those of the repository are inputs of
  `MCControlPath`), CI.

Six hazards have no property: a `gpsd.Dial` that hangs (a premise instead), an error text of
`Subscribe` that is not recognised, a listener that ends for good after a receive error, the
age of commands, the order across two connections of one tab, and that no neutral state
is sent when the sender stops.  The models have the behaviour, or the code does not
look at the data; no document says what should happen.

## 6. Plan

The order followed the importance of the behaviour.

1. *(done)* `Uplink` and `LatchView` with proofs; `Lifecycle`; `Downlink`; the two
   broker handlers; `GpsHandler`; `GamepadWeb`.
2. *(done)* The pure parts, `GamepadMapper`, `Config` and `DbcCodec`, and `ControlPath`, which
   composes them from the configuration file and the stick to the bits on the bus.
3. *(done)* `CommandPath`, and `Downlink` shown to implement it.
4. *(done)* Proofs of the safety properties of `Downlink`, `Lifecycle`, `GpsHandler`,
   `RabbitHandler`, `MqttHandler` and `GamepadWeb`.
5. *(done)* Proofs of the remaining safety properties of `GamepadWeb` and of
   `ControlPath`, from the configuration and the stick to the bits on the bus.
6. Left: the normalisation of endpoints and URLs, should a property about them be wanted.
