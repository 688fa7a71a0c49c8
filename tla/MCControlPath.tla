---------------------------- MODULE MCControlPath ----------------------------
(***************************************************************************)
(* Instance of ControlPath: a standard deployment, varied in one respect   *)
(* at a time: its configuration, the state of the gamepad, or the command. *)
(* The DBC files are the repository's (can0.dbc, gamepad_all_inputs.dbc),  *)
(* one for the other frames of the mapper, and one with what DBC files may *)
(* hold besides: big-endian, multiplexed, offset, narrow and unbounded     *)
(* signals, and one number as a standard and as an extended identifier.    *)
(***************************************************************************)
EXTENDS ControlPath

\* Signals: start bit, length, scale, offset and range.
Unsigned(name, start, length, scale, offset, min, max) ==
    [name |-> name, big |-> FALSE, signed |-> FALSE, switch |-> FALSE, muxed |-> FALSE, group |-> 0,
     start |-> start, length |-> length, scale |-> scale, offset |-> offset, min |-> min, max |-> max]
Signed(name, start, length, scale, min, max) ==
    [Unsigned(name, start, length, scale, 0, min, max) EXCEPT !.signed = TRUE]
Flag(name, start) == Unsigned(name, start, 1, 1000, 0, 0, 1000)
Big(sig)      == [sig EXCEPT !.big = TRUE]
Group(sig, g) == [sig EXCEPT !.muxed = TRUE, !.group = g]
Switch(sig)   == [sig EXCEPT !.switch = TRUE]
Message(id, signals) == [id |-> id, extended |-> FALSE, signals |-> signals]

Tenths(name, start) == Signed(name, start, 16, 100, -3276800, 3276700)

Can0 == << Message(1, << Unsigned("speed", 0, 16, 10, 0, 0, 655350), Flag("left_turn", 16), Flag("right_turn", 17),
                         Tenths("steering_deg", 24), Unsigned("brake", 40, 8, 400, 0, 0, 100000) >>),
           Message(2, << Flag("ControlCommand", 0), Tenths("ControlValue", 8) >>) >>

AllInputs == << Message(528, [i \in 1 .. 4 |-> Signed(StickName[i], 8 * (i - 1), 8, 1000, -128000, 127000)]
                             \o [i \in 1 .. 16 |-> Flag(PressedName[i], 31 + i)]) >>

Frames == << Message(2, Can0[2].signals),
             Message(3, << Tenths("SteeringCommand", 0), Flag("SteeringEnable", 16) >>),
             Message(4, << Unsigned("BrakeCommand", 0, 10, 100, 0, 0, 100000),
                           Unsigned("ThrottleCommand", 16, 10, 100, 0, 0, 100000) >>),
             Message(5, << Flag("HornCommand", 0), Flag("LightToggle", 1), Flag("ModeNext", 2),
                           Flag("ModePrevious", 3) >>),
             Message(512, [i \in 1 .. 4 |-> Signed(AxisName[i], 16 * (i - 1), 16, 1, -1000, 1000)]),
             Message(514, [i \in 1 .. 16 |-> Flag(PressedName[i], i - 1)]),
             Message(515, [i \in 1 .. 8 |-> Unsigned(ValueName[i], 8 * (i - 1), 8, 4, 0, 0, 1000)]) >>

Mixed == << Message(7, << Unsigned("Old", 0, 8, 1000, 0, 0, 0) >>),
            [Message(7, << Big(Unsigned("Torque", 7, 12, 500, 0, 0, 0)),
                           Big(Signed("Angle", 19, 12, 100, 0, 0)),
                           Unsigned("Temp", 32, 8, 500, -40000, -40000, 87500),
                           Unsigned("Nibble", 40, 4, 1000, 0, 0, 0),
                           Signed("Trim", 44, 4, 1000, -5000, 5000),
                           Flag("Go", 48),
                           Unsigned("Level", 56, 8, 1000, 350, 0, 0) >>) EXCEPT !.extended = TRUE],
            Message(8, << Switch(Unsigned("Mode", 0, 4, 1000, 0, 0, 0)),
                          Group(Signed("Slow", 8, 8, 1000, 0, 0), 1),
                          Group(Unsigned("Fast", 8, 16, 10, 0, 0, 0), 2),
                          Unsigned("Count", 56, 8, 1000, 0, 0, 0) >>),
            Message(9, << Switch(Unsigned("Coarse", 0, 4, 2000, 0, 0, 0)),
                          Group(Unsigned("Part", 8, 8, 1000, 0, 0, 0), 2) >>),
            Message(10, << Group(Unsigned("Orphan", 8, 8, 1000, 0, 0, 0), 0), Flag("Set", 0) >>) >>

-----------------------------------------------------------------------------
(* The standard deployment                                                 *)

Config0 ==
    [brokerType |-> "mqtt", mqttEndpoint |-> "m", mqttUser |-> "", mqttPassword |-> "", certPath |-> "",
     certFile |-> "", rabbitUrl |-> "r", rabbitUser |-> "guest", rabbitPassword |-> "guest",
     exchange |-> "amq.topic", gpsd |-> "g", gpsdaemon |-> "", topicPrefix |-> <<"state">>,
     interval |-> 100, intervalTypo |-> 0, prefixes |-> << <<"ctrl">> >>, prefixesTypo |-> <<>>,
     dbcPath |-> [can0 |-> "all.dbc", can1 |-> "mixed.dbc"],
     dbcPathLegacy |-> [can0 |-> "", can1 |-> ""]]

NoEnv == [v \in {"brokerType", "mqttEndpoint", "mqttUser", "mqttPassword", "rabbitUrl", "rabbitUser",
                 "rabbitPassword", "exchange"} |-> ""]

NoMap == [ids |-> [k \in FrameKinds |-> NoId], names |-> [r \in DOMAIN DefaultName |-> ""]]
MapIds(ids) == [NoMap EXCEPT !.ids = ids @@ @]
Hex210 == FrameId(TRUE, <<2, 1, 0>>)
Blanks == [NoId EXCEPT !.blanks = TRUE]
AllInputsMap == MapIds([gamepadMsg |-> Hex210])

\* gamepad_mapping.yaml and flags for the frames it has no key for; one name is
\* blank in the file.
FramesMap ==
    [MapIds([base |-> FrameId(TRUE, <<2>>), steer |-> [FrameId(TRUE, <<3>>) EXCEPT !.blanks = TRUE],
             trigger |-> FrameId(FALSE, <<4>>), axes0 |-> FrameId(TRUE, <<2, 0, 0>>),
             axes1 |-> FrameId(TRUE, <<2, 0, 1>>), buttonsPressed |-> FrameId(TRUE, <<2, 0, 2>>),
             buttonsValue0 |-> FrameId(TRUE, <<2, 0, 3>>), buttonsValue1 |-> Blanks])
       EXCEPT !.names.steeringEnable = " ", !.names.hornCommand = "HornCommand"]
NoFlags == [k \in Flagged |-> NoId]

Rest == [kind |-> "pad", axes |-> <<0, 0>>, buttons |-> <<>>]

Standard ==
    [file |-> [readable |-> TRUE, ext |-> "yaml", parses |-> TRUE, config |-> Config0], env |-> NoEnv,
     iface |-> [can0 |-> "down", can1 |-> "up"],
     device |-> <<"vcan-e2e">>,
     web |-> [device |-> <<"vcan-e2e">>, prefix |-> <<"ctrl">>, bus |-> "can0", map |-> AllInputsMap,
              flags |-> NoFlags],
     input |-> Rest]

-----------------------------------------------------------------------------
(* Its variations                                                          *)

WithConfig(c, env) == [Standard EXCEPT !.file.config = c, !.env = env]

\* Modern and legacy keys: absent, given, or given twice; intervals that
\* are none, and some at and beyond the largest that a Duration can hold.
Configs ==
    { [Config0 EXCEPT !.brokerType = b, !.exchange = IF b = "" THEN "" ELSE "x",
                      !.certPath = cp, !.certFile = "f", !.gpsd = cp, !.gpsdaemon = "d"]
        : b \in {"", " ", "rabbitmq", "nats"}, cp \in {"", "p"} }
    \cup { [Config0 EXCEPT !.interval = i, !.intervalTypo = j] : i \in {-5, 0, 20}, j \in {-1, 0, 50} }
    \cup { [Config0 EXCEPT !.interval = i] : i \in {1048, 1049, 2000, 2098} }
    \cup { [Config0 EXCEPT !.prefixes = p, !.prefixesTypo = q, !.topicPrefix = t]
             : p \in {<<>>, << <<"a">>, <<"/", "ctrl", "/">> >>, << <<>> >>},
               q \in {<<>>, << <<"ctrl">> >>, << <<"b">> >>}, t \in {<<>>, <<"tele">>} }
    \cup { [Config0 EXCEPT !.dbcPath = [can0 |-> p, can1 |-> ""], !.dbcPathLegacy = [can0 |-> q, can1 |-> "mixed.dbc"]]
             : p \in {"", "all.dbc"}, q \in {"", "can0.dbc", "gone.dbc"} }

Envs == { [v \in DOMAIN NoEnv |-> x] : x \in {"", " ", "e"} }

StartScenarios ==
    { WithConfig(c, env) : c \in Configs, env \in Envs }
    \cup { [Standard EXCEPT !.file.readable = FALSE], [Standard EXCEPT !.file.ext = "toml"],
           [Standard EXCEPT !.file.parses = FALSE], [Standard EXCEPT !.iface.can1 = "missing"] }
    \cup { [Standard EXCEPT !.web.prefix = p, !.web.device = d, !.file.config.prefixes = << q >>]
             : p, q \in {<<>>, <<"ctrl">>, <<"ctrl", "/">>, <<"a", "/", "b">>},
               d \in {<<"vcan-e2e">>, <<"/", "vcan-e2e">>, <<"other">>} }

Button(json, pressed, value) == [json |-> json, pressed |-> pressed, value |-> value]
Buttons ==
    { Button("bool", TRUE, 0), Button("bool", FALSE, 0), Button("null", FALSE, 0), Button("text", FALSE, 0),
      Button("number", FALSE, 255), Button("number", FALSE, 256), Button("number", FALSE, -3),
      Button("number", FALSE, 900), Button("object", TRUE, 0), Button("object", FALSE, 400),
      Button("object", TRUE, 100), Button("object", FALSE, 0) }
Axes == {-600, -510, -509, -386, -256, -255, -62, -61, -3, -2, 0, 1, 2, 3, 61, 62, 63, 128, 255, 256, 508, 510, 600}

Pad(axes, buttons) == [kind |-> "pad", axes |-> axes, buttons |-> buttons]
Pads == { Pad(<<a, -a, a>>, <<>>) : a \in Axes }
        \cup { Pad(<<>>, [i \in 1 .. 9 |-> IF i % 2 = 1 THEN b ELSE c]) :
                 b \in Buttons, c \in {Button("bool", TRUE, 0), Button("object", FALSE, 333)} }

PadScenarios ==
    { [Standard EXCEPT !.input = p] : p \in Pads }
    \cup { [Standard EXCEPT !.input = p, !.file.config.dbcPath.can0 = "frames.dbc", !.web.map = FramesMap,
                            !.web.flags.buttons = FrameId(FALSE, <<5>>)] : p \in Pads }
    \cup { [Standard EXCEPT !.file.config.dbcPath.can0 = "can0.dbc", !.web.map = NoMap, !.web.bus = b,
                            !.input = Pad(<<0, 300>>, <<Button("bool", TRUE, 0)>>)] : b \in {"can0", "can1", "can9"} }

Posted(bus, id, signals) ==
    [kind |-> "command", payload |-> [json |-> TRUE, bus |-> bus, frame |-> id, signals |-> signals]]
Values == {-700000, -32768000, -2048000, -40000, -12300, -5100, -8000, -300, -1, 0, 300, 700, 1700, 2000, 4350, 4999,
           7300, 15999, 16000, 87600, 123450, 655350, 1000000}
Dec(n) == FrameId(FALSE, <<n>>)

Commands ==
    { Posted("can1", Dec(7), n :> Number(v)) : n \in {"Torque", "Angle", "Temp", "Nibble", "Trim", "Go", "Old", "Level"}, v \in Values }
    \cup { Posted("can1", Dec(7), "Torque" :> Number(v) @@ "Angle" :> Number(-v) @@ "Trim" :> Number(v))
             : v \in {-300, 300, 123450, 2000000} }
    \cup { Posted("can1", Dec(8), "Mode" :> Number(1000 * g) @@ "Slow" :> Number(-7000) @@ "Count" :> Number(3000))
             : g \in 0 .. 3 }
    \cup { Posted("can1", Dec(8), "Mode" :> Number(2000) @@ "Fast" :> Number(v)) : v \in Values }
    \cup { Posted("can1", Dec(8), "Fast" :> Number(300) @@ "Slow" :> Number(1000)),
           Posted("can1", Dec(9), "Coarse" :> Number(2000) @@ "Part" :> Number(1000)),
           Posted("can1", Dec(7), "Go" :> Bool(TRUE)), Posted("can1", Dec(7), "Go" :> <<"other", 0>>),
           Posted("can1", FrameId(FALSE, <<1, 0>>), "Orphan" :> Number(1000) @@ "Set" :> Number(1000)),
           Posted(" ", Dec(7), "Go" :> Bool(TRUE)), Posted(" can1", Dec(7), "Go" :> Bool(TRUE)),
           Posted("can1", Dec(6), "Go" :> Bool(TRUE)), Posted("can1", NoId, "Go" :> Bool(TRUE)),
           Posted("can0", Hex210, "StickLX" :> Number(5000)), Posted("can0", FrameId(FALSE, <<2, 1, 0>>), "StickLX" :> Number(5000)),
           Posted("can1", FrameId(FALSE, <<1, 15>>), "Go" :> Bool(TRUE)),
           Posted("can1", FrameId(TRUE, [i \in 1 .. 9 |-> 7]), "Go" :> Bool(TRUE)),
           [Posted("", NoId, <<>>) EXCEPT !.payload.json = FALSE] }

CommandScenarios ==
    { [Standard EXCEPT !.input = c] : c \in Commands }
    \cup { [Standard EXCEPT !.input = Posted("can0", Dec(1), n :> Number(v)), !.file.config.dbcPath.can0 = "can0.dbc"]
             : n \in {"speed", "steering_deg", "brake"}, v \in Values }

MCDbcFile == "can0.dbc" :> Can0 @@ "all.dbc" :> AllInputs @@ "frames.dbc" :> Frames @@ "mixed.dbc" :> Mixed

MCScenario == StartScenarios \cup PadScenarios \cup CommandScenarios
=============================================================================
