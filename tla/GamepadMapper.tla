---------------------------- MODULE GamepadMapper ----------------------------
(***************************************************************************)
(* internal/gamepad and the frame options of cmd/gamepadweb: which frames  *)
(* the state of a gamepad becomes, and the values of their signals.        *)
(*                                                                         *)
(* An axis or a button moves in steps of 1/U; physical values are counted  *)
(* in thousandths.  U = 510 is the grid of a stick with 255 positions and  *)
(* contains one half; none of its points but one half lies midway between  *)
(* two results of a rounding, so that rounding by integers and by floats   *)
(* agree.  A signal value is a pair: its JSON type and the value.  Of a    *)
(* string only "", " " (blanks) and its identity matter.                   *)
(***************************************************************************)
EXTENDS Integers, Sequences

U == 510

\* The order in which ToCommandMaps appends the frames.
Order == <<"base", "steer", "trigger", "buttons", "gamepadMsg", "axes0", "axes1",
           "buttonsPressed", "buttonsValue0", "buttonsValue1">>

FrameKinds == {Order[i] : i \in DOMAIN Order}
Flagged    == {"base", "steer", "trigger", "buttons"}

\* Without one of the frames that carry the main input, the base frame is sent
\* (as 0x2), also when an optional one is configured.
WithDefault(given) ==
    IF given \subseteq {"steer", "trigger", "buttons"} THEN given \cup {"base"} ELSE given

DefaultName ==
    [controlCommand |-> "ControlCommand", controlValue |-> "ControlValue",
     steeringCommand |-> "SteeringCommand", steeringEnable |-> "SteeringEnable",
     brakeCommand |-> "BrakeCommand", throttleCommand |-> "ThrottleCommand",
     hornCommand |-> "HornCommand", lightToggle |-> "LightToggle",
     modeNext |-> "ModeNext", modePrevious |-> "ModePrevious"]

\* A frame identifier as it is written: blanks around it, 0x, digits.
FrameId(hex, digits) == [blanks |-> FALSE, hex |-> hex, digits |-> digits]
NoId == FrameId(FALSE, <<>>)
Empty(id) == id = NoId

-----------------------------------------------------------------------------
(* Numbers                                                                 *)

Abs(n)  == IF n < 0 THEN -n ELSE n
Sign(n) == IF n < 0 THEN -1 ELSE 1
Clamp(v, lo, hi) == IF v < lo THEN lo ELSE IF v > hi THEN hi ELSE v

\* Faulty variant: the fraction is cut off.
Truncate(a, b) == Sign(a) * (Abs(a) \div b)

\* math.Round(a / b): half away from zero.
Round(a, b) == Sign(a) * ((2 * Abs(a) + b) \div (2 * b))

\* roundTo(v / U * max, digits), in thousandths; a step is 10 ^ (3 - digits) of them.
RoundTo(v, max, step) == step * Round(v * max * 1000, U * step)

-----------------------------------------------------------------------------
(* The state of a gamepad                                                  *)

\* Faulty variant: an object's analog value never counts as pressed.
UnmarshalDigital(b) ==
    CASE b.json = "bool"   -> [Pressed |-> b.pressed, Value |-> IF b.pressed THEN U ELSE 0]
      [] b.json = "null"   -> [Pressed |-> FALSE, Value |-> 0]
      [] b.json = "number" -> [Pressed |-> 2 * b.value > U, Value |-> Clamp(b.value, 0, U)]
      [] b.json = "object" -> [Pressed |-> b.pressed, Value |-> Clamp(b.value, 0, U)]

\* ButtonState.UnmarshalJSON: a boolean (null is taken for false), a number or an
\* object; any other value makes the state unreadable.
UnmarshalJSON(b) ==
    LET v == Clamp(b.value, 0, U) IN
    CASE b.json = "bool"   -> [Pressed |-> b.pressed, Value |-> IF b.pressed THEN U ELSE 0]
      [] b.json = "null"   -> [Pressed |-> FALSE, Value |-> 0]
      [] b.json = "number" -> [Pressed |-> 2 * v > U, Value |-> v]
      [] b.json = "object" -> [Pressed |-> b.pressed \/ 2 * v > U,
                               Value   |-> IF v = 0 /\ b.pressed THEN U ELSE v]

\* The state of a gamepad as it is written.
IsPad(pad) ==
    /\ \A i \in DOMAIN pad.axes : pad.axes[i] \in Int
    /\ \A i \in DOMAIN pad.buttons :
         LET b == pad.buttons[i] IN
         b.json \in {"bool", "null", "number", "object", "text"} /\ b.pressed \in BOOLEAN /\ b.value \in Int

Readable(pad) == \A i \in DOMAIN pad.buttons : pad.buttons[i].json # "text"

State(pad) ==
    [Axes    |-> pad.axes,
     Buttons |-> [i \in DOMAIN pad.buttons |-> UnmarshalJSON(pad.buttons[i])]]

\* Axes and buttons are numbered from 0; one that is missing is at rest.
Axis(s, i)          == IF i + 1 \in DOMAIN s.Axes THEN Clamp(s.Axes[i + 1], -U, U) ELSE 0
ButtonPressed(s, i) == i + 1 \in DOMAIN s.Buttons /\ s.Buttons[i + 1].Pressed
ButtonValue(s, i)   == IF i + 1 \in DOMAIN s.Buttons THEN s.Buttons[i + 1].Value ELSE 0

-----------------------------------------------------------------------------
(* Mapper                                                                  *)

\* NewMapper: DeadZone 0.12, MaxValue 100.
Deflection(v) == IF 100 * Abs(v) >= 12 * U THEN v ELSE 0
MaxValue == 100

Bool(b)   == <<"bool", b>>
Number(n) == <<"number", n>>

AxisToInt8Physical(s, i) ==
    LET v == Axis(s, i) IN
    1000 * IF v >= 0 THEN Clamp(Round(v * 127, U), 0, 127) ELSE Clamp(Round(v * 128, U), -128, 0)

AxisName    == <<"Axis00", "Axis01", "Axis02", "Axis03", "Axis04", "Axis05", "Axis06", "Axis07">>
StickName   == <<"StickLX", "StickLY", "StickRX", "StickRY">>
PressedName == <<"Btn00_P", "Btn01_P", "Btn02_P", "Btn03_P", "Btn04_P", "Btn05_P", "Btn06_P", "Btn07_P",
                 "Btn08_P", "Btn09_P", "Btn10_P", "Btn11_P", "Btn12_P", "Btn13_P", "Btn14_P", "Btn15_P">>
ValueName   == <<"Btn00_V", "Btn01_V", "Btn02_V", "Btn03_V", "Btn04_V", "Btn05_V", "Btn06_V", "Btn07_V",
                 "Btn08_V", "Btn09_V", "Btn10_V", "Btn11_V", "Btn12_V", "Btn13_V", "Btn14_V", "Btn15_V">>

\* The signals of the inputs in the domain of values.
Signals(Name, values) ==
    [n \in {Name[i + 1] : i \in DOMAIN values} |-> values[CHOOSE i \in DOMAIN values : Name[i + 1] = n]]

Both(f, g) == [n \in DOMAIN f \cup DOMAIN g |-> IF n \in DOMAIN f THEN f[n] ELSE g[n]]

\* Signals named by roles.  Of two roles with one name the later key of the Go map
\* literal wins.
Named(opts, roles, values) ==
    LET Name(i) == IF opts.names[roles[i]] = "" THEN DefaultName[roles[i]] ELSE opts.names[roles[i]]
        Last(n) == CHOOSE i \in DOMAIN roles :
                      Name(i) = n /\ \A j \in DOMAIN roles : Name(j) = n => j <= i
    IN  [n \in {Name(i) : i \in DOMAIN roles} |-> values[Last(n)]]

\* The signals of a frame.
FrameSignals(s, opts, kind) ==
    LET Pressed(i) == Bool(ButtonPressed(s, i))
        Value(i)   == Number(RoundTo(ButtonValue(s, i), 1, 1))
        Position(i) == Number(RoundTo(Axis(s, i), 1, 1))
        Int8(i)    == Number(AxisToInt8Physical(s, i))
        Percent(v) == Number(RoundTo(v, MaxValue, 100))
    IN  CASE kind = "base" ->
               Named(opts, <<"controlCommand", "controlValue">>,
                     <<Pressed(0), Percent(-Deflection(Axis(s, 1)))>>)
          [] kind = "steer" ->
               Named(opts, <<"steeringCommand", "steeringEnable">>,
                     <<Percent(Deflection(Axis(s, 0))), Pressed(2)>>)
          [] kind = "trigger" ->
               Named(opts, <<"brakeCommand", "throttleCommand">>,
                     <<Percent(ButtonValue(s, 6)), Percent(ButtonValue(s, 7))>>)
          [] kind = "buttons" ->
               Named(opts, <<"hornCommand", "lightToggle", "modeNext", "modePrevious">>,
                     <<Pressed(1), Pressed(3), Pressed(4), Pressed(5)>>)
          [] kind = "gamepadMsg" ->
               Both(Signals(StickName, [i \in 0 .. 3 |-> Int8(i)]), Signals(PressedName, [i \in 0 .. 15 |-> Pressed(i)]))
          [] kind = "axes0" -> Signals(AxisName, [i \in 0 .. 3 |-> Position(i)])
          [] kind = "axes1" -> Signals(AxisName, [i \in 4 .. 7 |-> Position(i)])
          [] kind = "buttonsPressed" -> Signals(PressedName, [i \in 0 .. 15 |-> Pressed(i)])
          [] kind = "buttonsValue0" -> Signals(ValueName, [i \in 0 .. 7 |-> Value(i)])
          [] kind = "buttonsValue1" -> Signals(ValueName, [i \in 8 .. 15 |-> Value(i)])

\* A frame of each kind with an identifier.
ToCommandMaps(s, opts) ==
    LET Map(k) == [FrameID |-> opts.ids[k], Signals |-> FrameSignals(s, opts, k)]
        maps[n \in 0 .. Len(Order)] ==
            IF n = 0 THEN <<>>
            ELSE IF Empty(opts.ids[Order[n]]) THEN maps[n - 1] ELSE Append(maps[n - 1], Map(Order[n]))
    IN  maps[Len(Order)]

-----------------------------------------------------------------------------
(* Options                                                                 *)

TrimName(n) == IF n = " " THEN "" ELSE n

LoadMultiMapOptionsFromYAML(file) ==
    [ids   |-> [k \in FrameKinds |-> [file.ids[k] EXCEPT !.blanks = FALSE]],
     names |-> [r \in DOMAIN DefaultName |-> TrimName(file.names[r])]]

\* main of cmd/gamepadweb: a flag that is not "" replaces the identifier of the
\* mapping file.
MapOptions(file, flags) ==
    LET loaded == LoadMultiMapOptionsFromYAML(file)
        Id(k)  == IF k \in Flagged /\ ~Empty(flags[k]) THEN flags[k] ELSE loaded.ids[k]
        given  == {k \in FrameKinds : ~Empty(Id(k))}
    IN  [loaded EXCEPT !.ids = [k \in FrameKinds |->
            IF k = "base" /\ Empty(Id(k)) /\ k \in WithDefault(given)
            THEN FrameId(TRUE, <<2>>) ELSE Id(k)]]
=============================================================================
