-------------------------------- MODULE Config --------------------------------
(***************************************************************************)
(* internal/cfg and mq.BuildTopic: what cmd/telemetry runs with, from a    *)
(* configuration file with modern, legacy and misspelt keys, defaults and  *)
(* environment variables.                                                  *)
(*                                                                         *)
(* A configuration is a record with one field per key; dbcPath and its     *)
(* legacy key have an entry per interface.  Of a string only "", " "       *)
(* (blanks) and its identity matter, except that topics are sequences of   *)
(* slashes and names.                                                      *)
(***************************************************************************)
EXTENDS Integers, Sequences, FiniteSetsExt

Overridable == {"brokerType", "mqttEndpoint", "mqttUser", "mqttPassword", "rabbitUrl", "rabbitUser",
                "rabbitPassword", "exchange"}

IsSeq(s) == s \in Seq({s[i] : i \in DOMAIN s})

\* The keys of AppCfg.
IsConfig(c) ==
    /\ DOMAIN c = Overridable \cup {"certPath", "certFile", "gpsd", "gpsdaemon", "topicPrefix", "interval",
                                    "intervalTypo", "prefixes", "prefixesTypo", "dbcPath", "dbcPathLegacy"}
    /\ {c.interval, c.intervalTypo} \subseteq Int
    /\ \A s \in {c.prefixes, c.prefixesTypo} : IsSeq(s) /\ \A i \in DOMAIN s : IsSeq(s[i])

\* if x == "" { x = y }
Or(x, y) == IF x = "" THEN y ELSE x

\* An environment variable replaces a setting unless it is blank, or, for names
\* and passwords, empty.
Override(v, x)   == IF v \in {"", " "} THEN x ELSE v
OverrideRaw(v, x) == IF v = "" THEN x ELSE v

\* The legacy and misspelt keys stand in for the modern ones.
Fallbacks(c) ==
    [c EXCEPT !.dbcPath  = [b \in DOMAIN @ |-> Or(@[b], c.dbcPathLegacy[b])],
              !.certPath = Or(@, c.certFile),
              !.gpsd     = Or(@, c.gpsdaemon),
              !.interval = IF @ = 0 THEN c.intervalTypo ELSE @,
              !.prefixes = IF @ = <<>> THEN c.prefixesTypo ELSE @]

\* Faulty variant: only an interval that is absent gets the default.
DefaultsLax(c) ==
    [c EXCEPT !.interval    = IF @ = 0 THEN 100 ELSE @,
              !.prefixes    = IF @ = <<>> THEN << <<"ctrl">> >> ELSE @,
              !.topicPrefix = IF @ = <<>> THEN <<"state">> ELSE @,
              !.brokerType  = Or(@, "mqtt"),
              !.exchange    = Or(@, "amq.topic")]

Defaults(c) ==
    [c EXCEPT !.interval    = IF @ <= 0 THEN 100 ELSE @,
              !.prefixes    = IF @ = <<>> THEN << <<"ctrl">> >> ELSE @,
              !.topicPrefix = IF @ = <<>> THEN <<"state">> ELSE @,
              !.brokerType  = Or(@, "mqtt"),
              !.exchange    = Or(@, "amq.topic")]

applyEnvOverrides(c, env) ==
    [c EXCEPT !.brokerType   = Override(env.brokerType, @),
              !.mqttEndpoint = Override(env.mqttEndpoint, @),
              !.mqttUser     = OverrideRaw(env.mqttUser, @),
              !.mqttPassword = OverrideRaw(env.mqttPassword, @),
              !.rabbitUrl    = Override(env.rabbitUrl, @),
              !.rabbitUser   = OverrideRaw(env.rabbitUser, @),
              !.rabbitPassword = OverrideRaw(env.rabbitPassword, @),
              !.exchange     = Override(env.exchange, @)]

\* Faulty variant: the defaults are filled in first and hide the legacy keys.
normalizeLate(c, env) == applyEnvOverrides(Fallbacks(Defaults(c)), env)

normalize(c, env) == applyEnvOverrides(Defaults(Fallbacks(c)), env)

\* LoadConfig succeeds: the file can be read, its extension is known, and it parses.
Loads(file) == file.readable /\ file.ext \in {"yaml", "yml", "json"} /\ file.parses

-----------------------------------------------------------------------------
(* Topics                                                                  *)

\* strings.Trim(s, "/")
Trim(s) ==
    LET names == {i \in DOMAIN s : s[i] # "/"} IN
    IF names = {} THEN <<>> ELSE SubSeq(s, Min(names), Max(names))

\* Faulty variant: the parts are joined as they are.
BuildTopicUntrimmed(direction, device, prefix) ==
    <<"/">> \o direction \o <<"/">> \o device \o
    IF prefix = <<>> THEN <<>> ELSE <<"/">> \o prefix

BuildTopic(direction, device, prefix) ==
    LET p == Trim(prefix) IN
    <<"/">> \o Trim(direction) \o <<"/">> \o Trim(device) \o
    IF p = <<>> THEN <<>> ELSE <<"/">> \o p
=============================================================================
