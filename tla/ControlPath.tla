----------------------------- MODULE ControlPath -----------------------------
(***************************************************************************)
(* From a stick to the bits on the bus: cmd/telemetry starts with a        *)
(* configuration (Config), opens its buses and subscribes; cmd/gamepadweb  *)
(* maps the state of a gamepad (GamepadMapper), or another client posts a  *)
(* command, and the TX worker encodes it with the DBC file of its bus      *)
(* (DbcCodec).  Downlink and GamepadWeb model the queues, goroutines and   *)
(* failures on this path; here it is about its data.                       *)
(***************************************************************************)
EXTENDS Config, DbcCodec, GamepadMapper

CONSTANTS
    Scenario,  \* what a run of the two programs starts from, see below
    DbcFile,   \* path -> message definitions of the DBC files that can be read
    MaxID,     \* bound: largest frame identifier (2^32 - 1 in ParseUint)
    Millisecond,  \* time.Millisecond (10^6 ns)
    Wrap          \* what an int64 Duration cannot hold any more (2^63 ns)

\* A DBC file, in which the signals of a message have names of their own.
IsDbc(defs) ==
    /\ IsSeq(defs)
    /\ \A i \in DOMAIN defs :
         LET sigs == defs[i].signals IN
         /\ IsSeq(sigs) /\ \A j \in DOMAIN sigs : IsSignal(sigs[j])
         /\ \A j, k \in DOMAIN sigs : sigs[j].name = sigs[k].name => j = k

\* file: what LoadConfig finds, env: the environment variables, iface: whether an
\* interface is "up", "down" or "missing", device: the -device of telemetry, web:
\* the options of gamepadweb, input: one state of a gamepad or one command of
\* another client.
ASSUME ControlPathAssumption ==
    /\ MaxID \in Nat
    /\ Millisecond \in Nat \ {0} /\ Wrap \in Nat \ {0}
    /\ \A path \in DOMAIN DbcFile : IsDbc(DbcFile[path])
    /\ \A s \in Scenario :
         /\ DOMAIN s = {"file", "env", "iface", "device", "web", "input"}
         /\ DOMAIN s.file = {"readable", "ext", "parses", "config"} /\ IsConfig(s.file.config)
         /\ DOMAIN s.env = Overridable
         /\ DOMAIN s.web = {"device", "prefix", "bus", "map", "flags"}
         /\ IsSeq(s.device) /\ IsSeq(s.web.device) /\ IsSeq(s.web.prefix)
         /\ s.input.kind \in {"pad", "command"} /\ (s.input.kind = "pad" => IsPad(s.input))

VARIABLES
    sc,      \* the scenario of this run
    phase,   \* telemetry: "load", "connect", "open", "serve", "panic" or "fatal"
    config,  \* what LoadConfig returned
    opened,  \* the buses with a handler
    topics,  \* the topics telemetry has subscribed to
    web,     \* gamepadweb: "idle" or "done"
    outbox,  \* commands on their way to telemetry
    last     \* the last command executed, what became of it, its frame

vars == <<sc, phase, config, opened, topics, web, outbox, last>>

NoFrame == [ID |-> 0, IsExtended |-> FALSE, Data |-> {}]

Init ==
    /\ sc \in Scenario
    /\ phase = "load" /\ config = <<>> /\ opened = {} /\ topics = {}
    /\ web = "idle" /\ outbox = <<>>
    /\ last = [payload |-> <<>>, result |-> "none", frame |-> NoFrame]

-----------------------------------------------------------------------------
(* Start-up of cmd/telemetry                                               *)

LoadConfig ==
    /\ phase = "load" /\ Loads(sc.file)
    /\ config' = normalize(sc.file.config, sc.env)
    /\ phase' = "connect"
    /\ UNCHANGED <<sc, opened, topics, web, outbox, last>>

LoadFails ==
    /\ phase = "load" /\ ~Loads(sc.file)
    /\ phase' = "fatal"
    /\ UNCHANGED <<sc, config, opened, topics, web, outbox, last>>

\* Broker types are compared in lower case and without blanks.
Mqtt   == config.brokerType \in {"", " ", "mqtt", "MQTT", "mosquitto"}
Rabbit == config.brokerType \in {"rabbitmq", "amqp", "RabbitMQ"}

NewBroker ==
    /\ phase = "connect" /\ (Mqtt \/ Rabbit)
    /\ phase' = "open"
    /\ UNCHANGED <<sc, config, opened, topics, web, outbox, last>>

Stores == [path \in DOMAIN DbcFile |-> ParseDbcFile(DbcFile[path])]

\* The DBC store of a handler.
Store(b) == IF config.dbcPath[b] = "" THEN NoDbc ELSE Stores[config.dbcPath[b]]

\* canhandler.New: an interface that is down is brought up; without a path no DBC
\* file is read.
OpenCan(b) ==
    /\ phase = "open" /\ b \in DOMAIN config.dbcPath \ opened
    /\ sc.iface[b] # "missing" /\ config.dbcPath[b] \in DOMAIN DbcFile \cup {""}
    /\ opened' = opened \cup {b}
    /\ UNCHANGED <<sc, phase, config, topics, web, outbox, last>>

\* Fatalf: an unknown broker type, a missing interface or DBC file, or a
\* connection, a system call or Subscribe that fails.
StartFails ==
    /\ phase \in {"connect", "open"} /\ phase' = "fatal"
    /\ UNCHANGED <<sc, config, opened, topics, web, outbox, last>>

Subscribe ==
    /\ phase = "open" /\ opened = DOMAIN config.dbcPath
    /\ topics' = {BuildTopic(<<"rx">>, sc.device, p) : p \in ToSet(config.prefixes)}
    /\ phase' = "serve"
    /\ UNCHANGED <<sc, config, opened, web, outbox, last>>

\* time.Duration(IntervalMs) * time.Millisecond, an int64 product that wraps.
Duration(ms) == ((ms * Millisecond + Wrap) % (2 * Wrap)) - Wrap

\* time.NewTicker, which main calls after Subscribe and the start of the TX worker,
\* panics on an interval that is not positive; no goroutine survives that.
NewTickerPanics ==
    /\ phase = "serve" /\ Duration(config.interval) <= 0
    /\ phase' = "panic"
    /\ UNCHANGED <<sc, config, opened, topics, web, outbox, last>>

-----------------------------------------------------------------------------
(* cmd/gamepadweb, and other clients                                       *)

WebTopic == BuildTopic(<<"rx">>, sc.web.device, sc.web.prefix)

\* publishState: a payload per frame; a state that does not parse is refused.
Payloads ==
    IF sc.input.kind = "command" THEN <<sc.input.payload>>
    ELSE IF ~Readable(sc.input) THEN <<>>
    ELSE LET maps == ToCommandMaps(State(sc.input), MapOptions(sc.web.map, sc.web.flags))
         IN  [i \in DOMAIN maps |-> [json |-> TRUE, bus |-> sc.web.bus,
                                     frame |-> maps[i].FrameID, signals |-> maps[i].Signals]]

\* The broker forwards to the subscribers a topic has (QoS 0, not retained);
\* gamepadweb knows MQTT only.
Publish ==
    /\ web = "idle" /\ web' = "done"
    /\ outbox' = IF WebTopic \in topics /\ (sc.input.kind = "pad" => Mqtt) THEN Payloads ELSE <<>>
    /\ UNCHANGED <<sc, phase, config, opened, topics, last>>

-----------------------------------------------------------------------------
(* mq.ParseControlCommand                                                  *)

Base(id) == IF id.hex THEN 16 ELSE 10

\* strconv.ParseUint; what exceeds MaxID stays there.
Number32(id) ==
    FoldLeft(LAMBDA n, d : IF n > MaxID THEN n ELSE n * Base(id) + d, 0, id.digits)

ParsesFrameID(id) ==
    /\ id.digits # <<>> /\ \A i \in DOMAIN id.digits : id.digits[i] < Base(id)
    /\ Number32(id) <= MaxID

Parses(p) ==
    /\ p.json /\ p.bus \notin {"", " "} /\ ParsesFrameID(p.frame)
    /\ \A n \in DOMAIN p.signals : p.signals[n] \in ({"bool"} \X BOOLEAN) \cup ({"number"} \X Int)

SignalToFloat64(v) == IF v[1] = "bool" THEN IF v[2] THEN 1000 ELSE 0 ELSE v[2]

\* The DecodeMsg; its bus_id keeps the blanks around it.
Command(p) ==
    [BusID |-> p.bus, FrameID |-> Number32(p.frame),
     Signals |-> [n \in DOMAIN p.signals |-> SignalToFloat64(p.signals[n])]]

-----------------------------------------------------------------------------
(* The subscription callback and the TX worker                             *)

Executes(p, result, frame) ==
    /\ last' = [payload |-> p, result |-> result, frame |-> frame]
    /\ outbox' = Tail(outbox)
    /\ UNCHANGED <<sc, phase, config, opened, topics, web>>

\* Logged and dropped: a payload that does not parse, a bus without a handler, a
\* frame that cannot be made.
Drop ==
    /\ phase = "serve" /\ outbox # <<>>
    /\ LET p == Head(outbox)  m == Command(p) IN
         \/ ~Parses(p) /\ Executes(p, "invalid", NoFrame)
         \/ Parses(p) /\ m.BusID \notin opened /\ Executes(p, "no handler", NoFrame)
         \/ /\ Parses(p) /\ m.BusID \in opened /\ ~Makes(Store(m.BusID), m)
            /\ Executes(p, "no frame", NoFrame)

SendFrame ==
    /\ phase = "serve" /\ outbox # <<>>
    /\ LET p == Head(outbox)  m == Command(p) IN
         /\ Parses(p) /\ m.BusID \in opened /\ Makes(Store(m.BusID), m)
         /\ LET inexact == {sig \in ToSet(Store(m.BusID).msgs[m.FrameID].signals) :
                              sig.name \in DOMAIN m.Signals /\ MayBeLow(sig, m.Signals[sig.name])}
            IN  \E lows \in SUBSET {sig.name : sig \in inexact} :
                  Executes(p, "sent", MakeFrame(Store(m.BusID), m, lows))

-----------------------------------------------------------------------------
Next ==
    \/ LoadConfig \/ LoadFails \/ NewBroker \/ StartFails \/ Subscribe \/ NewTickerPanics
    \/ \E b \in DOMAIN sc.iface : OpenCan(b)
    \/ Publish \/ Drop \/ SendFrame

Spec == Init /\ [][Next]_vars

-----------------------------------------------------------------------------
(* Properties: the configuration                                           *)

Loaded == phase \in {"connect", "open", "serve", "panic"}

\* The first of some settings that is given, or the last.
First(settings, absent) ==
    settings[Min({i \in DOMAIN settings : settings[i] # absent} \cup {Len(settings)})]

\* Each setting comes from the environment, else from its modern key, else from
\* its legacy or misspelt one, else it is the default: no default hides a key and
\* no blank variable clears a setting.
Precedence ==
    Loaded =>
    LET c == sc.file.config
        Env(v) == IF v = " " THEN "" ELSE v
        From(settings) == First(settings, "")
    IN  /\ config.brokerType = From(<<Env(sc.env.brokerType), c.brokerType, "mqtt">>)
        /\ config.exchange = From(<<Env(sc.env.exchange), c.exchange, "amq.topic">>)
        /\ config.mqttEndpoint = From(<<Env(sc.env.mqttEndpoint), c.mqttEndpoint>>)
        /\ config.rabbitUrl = From(<<Env(sc.env.rabbitUrl), c.rabbitUrl>>)
        /\ \A f \in {"mqttUser", "mqttPassword", "rabbitUser", "rabbitPassword"} :
             config[f] = From(<<sc.env[f], c[f]>>)
        /\ config.certPath = From(<<c.certPath, c.certFile>>)
        /\ config.gpsd = From(<<c.gpsd, c.gpsdaemon>>)
        /\ \A b \in DOMAIN c.dbcPath : config.dbcPath[b] = From(<<c.dbcPath[b], c.dbcPathLegacy[b]>>)
        /\ config.prefixes = First(<<c.prefixes, c.prefixesTypo, << <<"ctrl">> >> >>, <<>>)
        /\ config.topicPrefix = First(<<c.topicPrefix, <<"state">> >>, <<>>)

\* An interval whose nanoseconds a Duration can hold.
Representable(ms) == ms * Millisecond < Wrap

\* The configured interval is positive, the one of the file when it has one, and
\* unless its nanoseconds exceed an int64 it is what time.NewTicker gets, without
\* a panic: no absent, zero, negative or misspelt key ends the program.  (An
\* interval beyond that may: 9223372036855 ms wraps to a negative Duration.)  A
\* telemetry that serves has subscribed to a topic.
Runnable ==
    /\ Loaded => LET given == First(<<sc.file.config.interval, sc.file.config.intervalTypo>>, 0) IN
                 /\ config.interval > 0 /\ (given > 0 => config.interval = given)
                 /\ Representable(config.interval) =>
                      Duration(config.interval) = config.interval * Millisecond
    /\ phase = "panic" => ~Representable(config.interval)
    /\ phase = "serve" => topics # {}

Plain(device) == "/" \notin ToSet(Trim(device))

\* The two programs meet on a topic when device and prefix are the same but for
\* slashes around them, however each side writes them, and only then: no other
\* device is commanded.  (A device with a slash inside can meet the topic of
\* another one: that half is about names without.)
TopicsMeet ==
    phase = "serve" =>
    LET Same == /\ Trim(sc.device) = Trim(sc.web.device)
                /\ \E p \in ToSet(config.prefixes) : Trim(p) = Trim(sc.web.prefix)
    IN  /\ Same => WebTopic \in topics
        /\ WebTopic \in topics /\ Plain(sc.device) /\ Plain(sc.web.device) => Same

-----------------------------------------------------------------------------
(* Properties: the bus                                                     *)

Sent     == last.result = "sent"
Def      == Store(last.payload.bus).msgs[last.frame.ID]
Commanded == Command(last.payload).Signals

\* What a receiver with the same DBC file decodes.
Decoded  == ParseFrame(Store(last.payload.bus), last.frame)

Given(sig) == sig.name \in DOMAIN Commanded

\* Another commanded signal has some of the same bits.
Shared(sig) == \E o \in ToSet(Def.signals) : o # sig /\ Given(o) /\ Bits(o) \cap Bits(sig) # {}

\* The physical value of a raw one; the first and the last are what a signal can hold.
Limit(sig, raw) == InRange(sig, raw * sig.scale + sig.offset)

\* What becomes of a single bit, whatever its scale, offset and range.
IsFlag(sig) ==
    /\ ~sig.signed /\ sig.scale = 1000 /\ sig.offset = 0
    /\ \A bit \in 0 .. 1 : InRange(sig, 1000 * bit) = 1000 * bit

\* A receiver decodes what was commanded: a value its signal can hold comes back
\* within one step, on the side of zero; one it cannot hold comes back as the
\* nearest it can, never wrapped; what the command leaves out is raw zero, and no
\* bit is written outside the 64 of the frame.
\* (Left out: signals that share bits with another commanded one, and single bits
\* that are no flags.)
EndToEnd ==
    Sent =>
    last.frame.Data \subseteq 0 .. 63 /\
    \A sig \in ToSet(Def.signals) :
        LET want == Between(Limit(sig, MinRaw(sig)), Commanded[sig.name], Limit(sig, MaxRaw(sig)))
            got  == Decoded[sig.name]
        IN  sig.name \in DOMAIN Decoded /\ ~Shared(sig) /\ (sig.length = 1 => IsFlag(sig)) =>
                IF Given(sig) THEN /\ Abs(want - got) <= sig.scale
                                   /\ Abs(got - sig.offset) <= Abs(want - sig.offset)
                              ELSE got = Limit(sig, 0)

\* A frame has the format of the last definition its identifier has in the file,
\* and the receiver decodes all signals of that one but the groups whose number
\* is not the raw value of the multiplexer switch.  (The physical value of the
\* first switch is compared: a message with a second one, or with one that has a
\* sign, a scale, an offset or a range, is left out.)
RightGroup ==
    Sent =>
    LET defs   == DbcFile[config.dbcPath[last.payload.bus]]
        sigs   == ToSet(Def.signals)
        switch == {s \in sigs : s.switch}
        Plainly(s) == ~s.signed /\ s.scale = 1000 /\ s.offset = 0 /\ s.min = 0 /\ s.max = 0
    IN  /\ \E i \in DOMAIN defs :
             /\ defs[i] = Def /\ last.frame.IsExtended = defs[i].extended
             /\ \A j \in i + 1 .. Len(defs) : defs[j].id # last.frame.ID
        /\ (\A s, t \in switch : s = t /\ Plainly(s)) =>
             DOMAIN Decoded = {s.name : s \in {x \in sigs :
                 x.muxed => \E y \in switch : x.group = GetBits(last.frame.Data, y)}}

-----------------------------------------------------------------------------
(* Properties: the gamepad                                                 *)

PadSent == Sent /\ sc.input.kind = "pad"
           /\ \A r \in DOMAIN DefaultName : sc.web.map.names[r] \in {"", " ", DefaultName[r]}

Stick(i) == Axis(State(sc.input), i)

\* The frame commands some of the signals.
Carries(names) == names \cap DOMAIN Commanded # {}

\* A signal holds lo .. hi, and is a flag when it is a single bit.
Holds(sig, lo, hi) ==
    /\ sig.offset = 0 /\ Limit(sig, MinRaw(sig)) <= lo /\ hi <= Limit(sig, MaxRaw(sig))
    /\ sig.length = 1 => IsFlag(sig)

\* The values of one or a tenth and less.
Whole(sig, lo, hi) == Holds(sig, lo, hi) /\ sig.scale = 1000
Fine(sig, lo, hi)  == Holds(sig, lo, hi) /\ sig.scale <= 100

\* P holds of the decoded value of a signal that fits.
On(name, Fits(_), P(_)) ==
    \A sig \in ToSet(Def.signals) :
        sig.name = name /\ name \in DOMAIN Decoded /\ ~Shared(sig) /\ Fits(sig) => P(Decoded[name])

\* A stick arrives as the nearest of 127 steps up or 128 steps down, the throttle
\* and the steering within 0.15 % of their deflection and never on its other
\* side; in the dead zone, or with a stick that is not there, they are 0.
\* (In signals that hold these values, with the default names.)
StickOnBus ==
    PadSent =>
    LET Percent(name, v) ==
            On(name, LAMBDA sig : Fine(sig, -100000, 100000), LAMBDA got :
               IF 100 * Abs(v) < 12 * U THEN got = 0
               ELSE Abs(got * U - v * 100000) <= 150 * U /\ Sign(got) = Sign(v))
    IN  /\ Carries(ToSet(StickName)) => \A i \in 0 .. 3 :
             On(StickName[i + 1], LAMBDA sig : Whole(sig, -128000, 127000), LAMBDA got :
                2 * Abs(got * U - 1000 * Stick(i) * IF Stick(i) < 0 THEN 128 ELSE 127) <= 1000 * U)
        /\ Carries({"ControlCommand", "ControlValue"}) => Percent("ControlValue", -Stick(1))
        /\ Carries({"SteeringCommand", "SteeringEnable"}) => Percent("SteeringCommand", Stick(0))

\* A button is held: pressed, or an analog value of more than one half.
Held(i) ==
    LET pad == sc.input.buttons IN
    /\ i + 1 \in DOMAIN pad
    /\ \/ pad[i + 1].json \in {"bool", "object"} /\ pad[i + 1].pressed
       \/ pad[i + 1].json \in {"number", "object"} /\ 2 * pad[i + 1].value > U

Analog(i) ==
    LET pad == sc.input.buttons IN
    IF i + 1 \in DOMAIN pad /\ pad[i + 1].json \in {"number", "object"}
    THEN Clamp(pad[i + 1].value, 0, U) ELSE 0

Down(name, i) ==
    On(name, LAMBDA sig : Whole(sig, 0, 1000), LAMBDA got : got = IF Held(i) THEN 1000 ELSE 0)

Pulled(name, i) ==
    On(name, LAMBDA sig : Fine(sig, 0, 100000), LAMBDA got :
       \/ Abs(got * U - 100000 * Analog(i)) <= 150 * U
       \/ Held(i) /\ Analog(i) = 0 /\ Abs(got * U - 100000 * U) <= 150 * U)

\* A button is down on the bus exactly when its state says so, in any of its
\* formats, and a trigger arrives within 0.15 % of its value; one without an analog
\* value that is held counts as fully pulled.
\* (In signals that hold these values, with the default names.)
ButtonsOnBus ==
    PadSent =>
    /\ Carries(ToSet(PressedName)) => \A i \in 0 .. 15 : Down(PressedName[i + 1], i)
    /\ Carries({"ControlCommand", "ControlValue"}) => Down("ControlCommand", 0)
    /\ Carries({"SteeringCommand", "SteeringEnable"}) => Down("SteeringEnable", 2)
    /\ Carries({"HornCommand", "LightToggle", "ModeNext", "ModePrevious"}) =>
         /\ Down("HornCommand", 1) /\ Down("LightToggle", 3)
         /\ Down("ModeNext", 4) /\ Down("ModePrevious", 5)
    /\ Carries({"BrakeCommand", "ThrottleCommand"}) =>
         Pulled("BrakeCommand", 6) /\ Pulled("ThrottleCommand", 7)
=============================================================================
