----------------------------- MODULE MCDownlink -----------------------------
(* Instances of Downlink for TLC.                                          *)
EXTENDS Downlink, TLC

\* can0 defines frame 0x210 with two signals; can1 has no DBC file.
MCDbc == "can0" :> ("0x210" :> {"Speed", "Gear"}) @@ "can1" :> <<>>

Named(v, w, u) == "Speed" :> v @@ "Gear" :> w @@ "Typo" :> u
Cmd(bus, id, values) == [json |-> TRUE, bus |-> bus, frame |-> id, values |-> values]

MCPayload ==
    { Cmd("can0", "0x210", Named("number", "bool", "absent")),
      Cmd("can0", "0x210", Named("number", "absent", "absent")),
      Cmd("can0", "0x210", Named("number", "other", "absent")),
      Cmd("can0", "0x210", Named("absent", "absent", "number")),
      Cmd("can0", "0x211", Named("number", "bool", "absent")),
      Cmd("can0", "bad",   Named("number", "bool", "absent")),
      Cmd("can1", "0x210", Named("number", "bool", "absent")),
      Cmd("can9", "0x210", Named("number", "bool", "absent")),
      Cmd("",     "0x210", Named("number", "bool", "absent")),
      [Cmd("", "", Named("absent", "absent", "absent")) EXCEPT !.json = FALSE] }
=============================================================================
