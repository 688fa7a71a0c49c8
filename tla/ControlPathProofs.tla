-------------------------- MODULE ControlPathProofs --------------------------
(***************************************************************************)
(* Theorems of module ControlPath, for any scenarios and DBC files.        *)
(***************************************************************************)
EXTENDS ControlPath, SequenceTheorems, FiniteSetTheorems, WellFoundedInduction, TLAPS

\* Since LoadConfig the configuration is the one it returned, and a telemetry that
\* serves has subscribed to a topic per prefix.
ConfigOK == Loaded => config = normalize(sc.file.config, sc.env)

TopicsOK ==
    phase = "serve" =>
        topics = {BuildTopic(<<"rx">>, sc.device, p) : p \in ToSet(config.prefixes)}

\* main panics on nothing but the interval it computes.
PanicOK == phase = "panic" => Duration(config.interval) <= 0

\* A bus is opened once the configuration is there, with a DBC file that can be
\* read or without one.
OpenedOK ==
    /\ phase = "load" => opened = {}
    /\ \A b \in opened : b \in DOMAIN config.dbcPath /\ config.dbcPath[b] \in DOMAIN DbcFile \cup {""}

\* A frame that was sent is the one its command makes, with signals that end low
\* only where a quotient may.
LastOK ==
    last.result = "sent" =>
    LET m == Command(last.payload)  store == Store(m.BusID) IN
    /\ phase \in {"serve", "panic"} /\ Parses(last.payload) /\ m.BusID \in opened /\ Makes(store, m)
    /\ \E lows : /\ last.frame = MakeFrame(store, m, lows)
                 /\ \A n \in lows : \E sig \in ToSet(store.msgs[m.FrameID].signals) :
                      sig.name = n /\ n \in DOMAIN m.Signals /\ MayBeLow(sig, m.Signals[n])

IInv == sc \in Scenario /\ ConfigOK /\ TopicsOK /\ PanicOK /\ OpenedOK /\ LastOK

LEMMA Invariance == Spec => []IInv
<1>1. Init => IInv
  BY DEF Init, IInv, ConfigOK, TopicsOK, PanicOK, OpenedOK, LastOK, Loaded
<1>2. IInv /\ [Next]_vars => IInv'
  <2> SUFFICES ASSUME IInv, [Next]_vars PROVE IInv'
    OBVIOUS
  <2> DEFINE Settled == sc \in Scenario /\ ConfigOK /\ TopicsOK /\ PanicOK /\ OpenedOK
\* Before the programs serve nothing has been sent.
  <2>1. ASSUME phase \notin {"serve", "panic"}, last' = last PROVE LastOK'
    BY <2>1 DEF IInv, LastOK
\* What is left as it is.
  <2>2. ASSUME UNCHANGED <<sc, phase, config, opened, topics>> PROVE Settled'
    BY <2>2 DEF IInv, ConfigOK, TopicsOK, PanicOK, OpenedOK, Loaded
  <2>3. ASSUME UNCHANGED <<phase, config, opened, last>> PROVE LastOK'
    BY <2>3 DEF IInv, LastOK, Store
  <2>4. CASE LoadConfig
    <3>1. Settled'
      BY <2>4 DEF LoadConfig, IInv, ConfigOK, TopicsOK, PanicOK, OpenedOK, Loaded
    <3> QED
      BY <2>1, <2>4, <3>1 DEF LoadConfig, IInv
  <2>5. CASE LoadFails
    <3>1. Settled'
      BY <2>5 DEF LoadFails, IInv, ConfigOK, TopicsOK, PanicOK, OpenedOK, Loaded
    <3> QED
      BY <2>1, <2>5, <3>1 DEF LoadFails, IInv
  <2>6. CASE NewBroker
    <3>1. Settled'
      BY <2>6 DEF NewBroker, IInv, ConfigOK, TopicsOK, PanicOK, OpenedOK, Loaded
    <3> QED
      BY <2>1, <2>6, <3>1 DEF NewBroker, IInv
  <2>7. CASE StartFails
    <3>1. Settled'
      BY <2>7 DEF StartFails, IInv, ConfigOK, TopicsOK, PanicOK, OpenedOK, Loaded
    <3> QED
      BY <2>1, <2>7, <3>1 DEF StartFails, IInv
  <2>8. CASE Subscribe
    <3>1. Settled'
      BY <2>8 DEF Subscribe, IInv, ConfigOK, TopicsOK, PanicOK, OpenedOK, Loaded
    <3> QED
      BY <2>1, <2>8, <3>1 DEF Subscribe, IInv
  <2>9. ASSUME NEW b, OpenCan(b) PROVE IInv'
    <3>1. Settled'
      BY <2>9 DEF OpenCan, IInv, ConfigOK, TopicsOK, PanicOK, OpenedOK, Loaded
    <3> QED
      BY <2>1, <2>9, <3>1 DEF OpenCan, IInv
  <2>10. CASE Publish
    BY <2>2, <2>3, <2>10 DEF Publish, IInv
  <2>11. CASE Drop
    <3>1. UNCHANGED <<sc, phase, config, opened, topics>>
      BY <2>11 DEF Drop, Executes
    <3>2. last'.result # "sent"
      <4>1. \E r \in {"invalid", "no handler", "no frame"} : Executes(Head(outbox), r, NoFrame)
        BY <2>11 DEF Drop
      <4>2. PICK r \in {"invalid", "no handler", "no frame"} : Executes(Head(outbox), r, NoFrame)
        BY <4>1
      <4>3. last'.result = r
        BY <4>2 DEF Executes
      <4> QED
        BY <4>3
    <3> QED
      BY <2>2, <3>1, <3>2 DEF IInv, LastOK
  <2>12. CASE SendFrame
    <3> DEFINE p == Head(outbox)
               m == Command(p)
               store == Store(m.BusID)
               sigs  == ToSet(store.msgs[m.FrameID].signals)
               inexact == {sig \in sigs : sig.name \in DOMAIN m.Signals /\ MayBeLow(sig, m.Signals[sig.name])}
    <3>1. PICK lows \in SUBSET {sig.name : sig \in inexact} :
            Executes(p, "sent", MakeFrame(store, m, lows))
      BY <2>12 DEF SendFrame
    <3>2. phase = "serve" /\ Parses(p) /\ m.BusID \in opened /\ Makes(store, m)
      BY <2>12 DEF SendFrame
    <3>3. /\ UNCHANGED <<sc, phase, config, opened, topics>>
          /\ last'.payload = p /\ last'.frame = MakeFrame(store, m, lows)
      BY <3>1 DEF Executes
    <3>4. \A n \in lows : \E sig \in sigs : sig.name = n /\ n \in DOMAIN m.Signals /\ MayBeLow(sig, m.Signals[n])
      OBVIOUS
    <3> HIDE DEF p, store, inexact, sigs
    <3>5. \E lws : /\ last'.frame = MakeFrame(store, m, lws)
                   /\ \A n \in lws : \E sig \in sigs :
                        sig.name = n /\ n \in DOMAIN m.Signals /\ MayBeLow(sig, m.Signals[n])
      BY <3>3, <3>4
    <3>6. LastOK'
      BY <3>2, <3>3, <3>5 DEF LastOK, Store, store, sigs
    <3> QED
      BY <2>2, <3>3, <3>6 DEF IInv
  <2>13. CASE NewTickerPanics
    <3>1. Settled'
      BY <2>13 DEF NewTickerPanics, IInv, ConfigOK, TopicsOK, PanicOK, OpenedOK, Loaded
    <3>2. LastOK'
      BY <2>13 DEF NewTickerPanics, IInv, LastOK, Store
    <3> QED
      BY <3>1, <3>2 DEF IInv
  <2>14. CASE UNCHANGED vars
    BY <2>2, <2>3, <2>14 DEF vars, IInv
  <2> QED
    BY <2>4, <2>5, <2>6, <2>7, <2>8, <2>9, <2>10, <2>11, <2>12, <2>13, <2>14 DEF Next
<1> QED
  BY <1>1, <1>2, PTL DEF Spec

-----------------------------------------------------------------------------
(* The configuration                                                       *)

\* The first given of two or three settings.
LEMMA FirstOfTwo == \A a, b, x : First(<<a, b>>, x) = IF a # x THEN a ELSE b
<1> TAKE a, b, x
<1>1. DOMAIN <<a, b>> = {1, 2} /\ Len(<<a, b>>) = 2
  OBVIOUS
<1>2. Min({1, 2}) = 1 /\ Min({2}) = 2
  BY DEF Min
<1> QED
  BY <1>1, <1>2 DEF First

LEMMA FirstOfThree ==
    \A a, b, c, x : First(<<a, b, c>>, x) = IF a # x THEN a ELSE IF b # x THEN b ELSE c
<1> TAKE a, b, c, x
<1>1. DOMAIN <<a, b, c>> = {1, 2, 3} /\ Len(<<a, b, c>>) = 3
  OBVIOUS
<1>2. Min({1, 2, 3}) = 1 /\ Min({1, 3}) = 1 /\ Min({2, 3}) = 2 /\ Min({3}) = 3
  BY DEF Min
<1>3. CASE a # x
  <2>1. {i \in {1, 2, 3} : <<a, b, c>>[i] # x} \cup {3} \in {{1, 2, 3}, {1, 3}}
    BY <1>3
  <2> QED
    BY <1>1, <1>2, <1>3, <2>1 DEF First
<1>4. CASE a = x /\ b # x
  <2>1. {i \in {1, 2, 3} : <<a, b, c>>[i] # x} \cup {3} = {2, 3}
    BY <1>4
  <2> QED
    BY <1>1, <1>2, <1>4, <2>1 DEF First
<1>5. CASE a = x /\ b = x
  <2>1. {i \in {1, 2, 3} : <<a, b, c>>[i] # x} \cup {3} = {3}
    BY <1>5
  <2> QED
    BY <1>1, <1>2, <1>5, <2>1 DEF First
<1> QED
  BY <1>3, <1>4, <1>5

\* A setting that comes from the environment, from its keys or its default.
LEMMA FromEnvironment ==
    ASSUME NEW v, NEW x
    PROVE  Override(v, x) = First(<<IF v = " " THEN "" ELSE v, x>>, "")
<1> DEFINE none == ""
           Env  == IF v = " " THEN "" ELSE v
<1>1. Override(v, x) = IF Env # none THEN Env ELSE x
  BY DEF Override
<1> HIDE DEF Env, none
<1>2. Override(v, x) = First(<<Env, x>>, none)
  BY <1>1, FirstOfTwo
<1> QED
  BY <1>2 DEF Env, none

LEMMA FromDefault ==
    ASSUME NEW v, NEW x, NEW y
    PROVE  Override(v, Or(x, y)) = First(<<IF v = " " THEN "" ELSE v, x, y>>, "")
<1> DEFINE none == ""
           Env  == IF v = " " THEN "" ELSE v
<1>1. Override(v, Or(x, y)) = IF Env # none THEN Env ELSE IF x # none THEN x ELSE y
  BY DEF Override, Or
<1> HIDE DEF Env, none
<1>2. Override(v, Or(x, y)) = First(<<Env, x, y>>, none)
  BY <1>1, FirstOfThree
<1> QED
  BY <1>2 DEF Env, none

LEMMA FromKeys ==
    ASSUME NEW v, NEW x
    PROVE  OverrideRaw(v, x) = First(<<v, x>>, "") /\ Or(v, x) = First(<<v, x>>, "")
<1> DEFINE none == ""
<1>1. OverrideRaw(v, x) = (IF v # none THEN v ELSE x) /\ Or(v, x) = IF v # none THEN v ELSE x
  BY DEF OverrideRaw, Or
<1> HIDE DEF none
<1>2. OverrideRaw(v, x) = First(<<v, x>>, none) /\ Or(v, x) = First(<<v, x>>, none)
  BY <1>1, FirstOfTwo
<1> QED
  BY <1>2 DEF none

\* What normalize makes of each key.
LEMMA Normalized ==
    ASSUME NEW c, IsConfig(c), NEW env
    PROVE  LET n == normalize(c, env) IN
           /\ n.brokerType = Override(env.brokerType, Or(c.brokerType, "mqtt"))
           /\ n.exchange = Override(env.exchange, Or(c.exchange, "amq.topic"))
           /\ n.mqttEndpoint = Override(env.mqttEndpoint, c.mqttEndpoint)
           /\ n.rabbitUrl = Override(env.rabbitUrl, c.rabbitUrl)
           /\ n.mqttUser = OverrideRaw(env.mqttUser, c.mqttUser)
           /\ n.mqttPassword = OverrideRaw(env.mqttPassword, c.mqttPassword)
           /\ n.rabbitUser = OverrideRaw(env.rabbitUser, c.rabbitUser)
           /\ n.rabbitPassword = OverrideRaw(env.rabbitPassword, c.rabbitPassword)
           /\ n.certPath = Or(c.certPath, c.certFile)
           /\ n.gpsd = Or(c.gpsd, c.gpsdaemon)
           /\ n.dbcPath = [b \in DOMAIN c.dbcPath |-> Or(c.dbcPath[b], c.dbcPathLegacy[b])]
           /\ n.interval = LET i == IF c.interval = 0 THEN c.intervalTypo ELSE c.interval
                           IN  IF i <= 0 THEN 100 ELSE i
           /\ n.prefixes = LET p == IF c.prefixes = <<>> THEN c.prefixesTypo ELSE c.prefixes
                           IN  IF p = <<>> THEN << <<"ctrl">> >> ELSE p
           /\ n.topicPrefix = IF c.topicPrefix = <<>> THEN <<"state">> ELSE c.topicPrefix
<1> DEFINE f == Fallbacks(c)
           d == Defaults(f)
<1>1. /\ DOMAIN f = DOMAIN c
      /\ \A k \in DOMAIN c \ {"dbcPath", "certPath", "gpsd", "interval", "prefixes"} : f[k] = c[k]
      /\ f.certPath = Or(c.certPath, c.certFile) /\ f.gpsd = Or(c.gpsd, c.gpsdaemon)
      /\ f.interval = IF c.interval = 0 THEN c.intervalTypo ELSE c.interval
      /\ f.prefixes = IF c.prefixes = <<>> THEN c.prefixesTypo ELSE c.prefixes
      /\ f.dbcPath = [b \in DOMAIN c.dbcPath |-> Or(c.dbcPath[b], c.dbcPathLegacy[b])]
  BY DEF Fallbacks, IsConfig, Overridable
<1> HIDE DEF f
<1>2. /\ DOMAIN d = DOMAIN c
      /\ \A k \in DOMAIN c \ {"interval", "prefixes", "topicPrefix", "brokerType", "exchange"} : d[k] = f[k]
      /\ d.interval = (IF f.interval <= 0 THEN 100 ELSE f.interval)
      /\ d.prefixes = (IF f.prefixes = <<>> THEN << <<"ctrl">> >> ELSE f.prefixes)
      /\ d.topicPrefix = (IF f.topicPrefix = <<>> THEN <<"state">> ELSE f.topicPrefix)
      /\ d.brokerType = Or(f.brokerType, "mqtt") /\ d.exchange = Or(f.exchange, "amq.topic")
  BY <1>1 DEF Defaults, IsConfig, Overridable
<1> HIDE DEF d
<1>3. LET n == applyEnvOverrides(d, env) IN
      /\ \A k \in DOMAIN c \ Overridable : n[k] = d[k]
      /\ n.brokerType = Override(env.brokerType, d.brokerType)
      /\ n.exchange = Override(env.exchange, d.exchange)
      /\ n.mqttEndpoint = Override(env.mqttEndpoint, d.mqttEndpoint)
      /\ n.rabbitUrl = Override(env.rabbitUrl, d.rabbitUrl)
      /\ n.mqttUser = OverrideRaw(env.mqttUser, d.mqttUser)
      /\ n.mqttPassword = OverrideRaw(env.mqttPassword, d.mqttPassword)
      /\ n.rabbitUser = OverrideRaw(env.rabbitUser, d.rabbitUser)
      /\ n.rabbitPassword = OverrideRaw(env.rabbitPassword, d.rabbitPassword)
  BY <1>2 DEF applyEnvOverrides, IsConfig, Overridable
<1>4. normalize(c, env) = applyEnvOverrides(d, env)
  BY DEF normalize, d, f
<1>5. /\ d.brokerType = Or(c.brokerType, "mqtt") /\ d.exchange = Or(c.exchange, "amq.topic")
      /\ \A k \in Overridable \ {"brokerType", "exchange"} : d[k] = c[k]
  BY <1>1, <1>2 DEF IsConfig, Overridable
<1>6. /\ d.certPath = f.certPath /\ d.gpsd = f.gpsd /\ d.dbcPath = f.dbcPath
      /\ d.interval = (IF f.interval <= 0 THEN 100 ELSE f.interval)
      /\ d.prefixes = (IF f.prefixes = <<>> THEN << <<"ctrl">> >> ELSE f.prefixes)
      /\ d.topicPrefix = (IF c.topicPrefix = <<>> THEN <<"state">> ELSE c.topicPrefix)
  BY <1>1, <1>2 DEF IsConfig, Overridable
<1> DEFINE n == applyEnvOverrides(d, env)
<1> HIDE DEF n
<1>7. /\ n.certPath = d.certPath /\ n.gpsd = d.gpsd /\ n.dbcPath = d.dbcPath /\ n.interval = d.interval
      /\ n.prefixes = d.prefixes /\ n.topicPrefix = d.topicPrefix
  BY <1>3 DEF n, IsConfig, Overridable
<1>8. /\ n.brokerType = Override(env.brokerType, d.brokerType)
      /\ n.exchange = Override(env.exchange, d.exchange)
      /\ n.mqttEndpoint = Override(env.mqttEndpoint, c.mqttEndpoint)
      /\ n.rabbitUrl = Override(env.rabbitUrl, c.rabbitUrl)
      /\ n.mqttUser = OverrideRaw(env.mqttUser, c.mqttUser)
      /\ n.mqttPassword = OverrideRaw(env.mqttPassword, c.mqttPassword)
      /\ n.rabbitUser = OverrideRaw(env.rabbitUser, c.rabbitUser)
      /\ n.rabbitPassword = OverrideRaw(env.rabbitPassword, c.rabbitPassword)
  BY <1>3, <1>5 DEF n, Overridable
<1>9. normalize(c, env) = n
  BY <1>4 DEF n
<1> QED
  BY <1>1, <1>5, <1>6, <1>7, <1>8, <1>9

LEMMA ScenarioParts ==
    ASSUME IInv
    PROVE  /\ IsConfig(sc.file.config)
           /\ Loaded => config = normalize(sc.file.config, sc.env)
  BY ControlPathAssumption DEF ControlPathAssumption, IInv, ConfigOK

\* Each setting comes from where it should, in every file and environment.
THEOREM SettingsPrecede == Spec => []Precedence
<1>1. IInv => Precedence
  <2> SUFFICES ASSUME IInv, Loaded PROVE Precedence
    BY DEF Precedence
  <2> DEFINE c == sc.file.config
             env == sc.env
             n == normalize(c, env)
  <2>1. IsConfig(c) /\ config = n
    BY ScenarioParts
  <2> HIDE DEF c, env
  <2>2. /\ n.brokerType = Override(env.brokerType, Or(c.brokerType, "mqtt"))
        /\ n.exchange = Override(env.exchange, Or(c.exchange, "amq.topic"))
        /\ n.mqttEndpoint = Override(env.mqttEndpoint, c.mqttEndpoint)
        /\ n.rabbitUrl = Override(env.rabbitUrl, c.rabbitUrl)
        /\ n.mqttUser = OverrideRaw(env.mqttUser, c.mqttUser)
        /\ n.mqttPassword = OverrideRaw(env.mqttPassword, c.mqttPassword)
        /\ n.rabbitUser = OverrideRaw(env.rabbitUser, c.rabbitUser)
        /\ n.rabbitPassword = OverrideRaw(env.rabbitPassword, c.rabbitPassword)
        /\ n.certPath = Or(c.certPath, c.certFile)
        /\ n.gpsd = Or(c.gpsd, c.gpsdaemon)
        /\ n.dbcPath = [b \in DOMAIN c.dbcPath |-> Or(c.dbcPath[b], c.dbcPathLegacy[b])]
        /\ n.prefixes = LET p == IF c.prefixes = <<>> THEN c.prefixesTypo ELSE c.prefixes
                        IN  IF p = <<>> THEN << <<"ctrl">> >> ELSE p
        /\ n.topicPrefix = IF c.topicPrefix = <<>> THEN <<"state">> ELSE c.topicPrefix
    BY <2>1, Normalized
  <2> HIDE DEF n
  <2> DEFINE Env(v) == IF v = " " THEN "" ELSE v
             From(settings) == First(settings, "")
  <2>3. n.brokerType = From(<<Env(env.brokerType), c.brokerType, "mqtt">>)
    <3>1. n.brokerType = Override(env.brokerType, Or(c.brokerType, "mqtt"))
      BY <2>2
    <3>2. Override(env.brokerType, Or(c.brokerType, "mqtt")) = From(<<Env(env.brokerType), c.brokerType, "mqtt">>)
      BY FromDefault, Zenon
    <3> QED
      BY <3>1, <3>2, Zenon
  <2>a. n.exchange = From(<<Env(env.exchange), c.exchange, "amq.topic">>)
    <3>1. n.exchange = Override(env.exchange, Or(c.exchange, "amq.topic"))
      BY <2>2
    <3>2. Override(env.exchange, Or(c.exchange, "amq.topic")) = From(<<Env(env.exchange), c.exchange, "amq.topic">>)
      BY FromDefault, Zenon
    <3> QED
      BY <3>1, <3>2, Zenon
  <2>4. n.mqttEndpoint = From(<<Env(env.mqttEndpoint), c.mqttEndpoint>>)
    BY <2>2, FromEnvironment
  <2>b. n.rabbitUrl = From(<<Env(env.rabbitUrl), c.rabbitUrl>>)
    BY <2>2, FromEnvironment
  <2>5. \A k \in {"mqttUser", "mqttPassword", "rabbitUser", "rabbitPassword"} : n[k] = From(<<env[k], c[k]>>)
    <3>1. n.mqttUser = From(<<env.mqttUser, c.mqttUser>>)
      BY <2>2, FromKeys
    <3>2. n.mqttPassword = From(<<env.mqttPassword, c.mqttPassword>>)
      BY <2>2, FromKeys
    <3>3. n.rabbitUser = From(<<env.rabbitUser, c.rabbitUser>>)
      BY <2>2, FromKeys
    <3>4. n.rabbitPassword = From(<<env.rabbitPassword, c.rabbitPassword>>)
      BY <2>2, FromKeys
    <3> HIDE DEF From
    <3> QED
      BY <3>1, <3>2, <3>3, <3>4
  <2>6. n.certPath = From(<<c.certPath, c.certFile>>)
    BY <2>2, FromKeys
  <2>c. n.gpsd = From(<<c.gpsd, c.gpsdaemon>>)
    BY <2>2, FromKeys
  <2>d. ASSUME NEW b \in DOMAIN c.dbcPath
        PROVE  n.dbcPath[b] = From(<<c.dbcPath[b], c.dbcPathLegacy[b]>>)
    <3>1. n.dbcPath[b] = Or(c.dbcPath[b], c.dbcPathLegacy[b])
      BY <2>2
    <3> QED
      BY <3>1, FromKeys
  <2>7. /\ n.prefixes = First(<<c.prefixes, c.prefixesTypo, << <<"ctrl">> >> >>, <<>>)
        /\ n.topicPrefix = First(<<c.topicPrefix, <<"state">> >>, <<>>)
    BY <2>2, FirstOfTwo, FirstOfThree
  <2> QED
    BY <2>1, <2>3, <2>4, <2>5, <2>6, <2>7, <2>a, <2>b, <2>c, <2>d DEF Precedence, c, env
<1> QED
  BY <1>1, Invariance, PTL

\* What fits does not wrap.
LEMMA Unwrapped == ASSUME NEW w \in Nat \ {0}, NEW k \in Nat, k < w PROVE ((k + w) % (2 * w)) - w = k
<1> DEFINE a == k + w
           b == 2 * w
<1>1. a \in Nat /\ b \in Nat \ {0} /\ a < b
  OBVIOUS
<1>2. \A c \in Nat, d \in Nat \ {0} : c < d => c % d = c
  OBVIOUS
<1>3. a % b = a
  <2> HIDE DEF a, b
  <2> QED
    BY <1>1, <1>2
<1> QED
  BY <1>3

\* Whatever the file holds, the aggregation interval is positive, arrives at the
\* ticker as it is unless a Duration cannot hold it, and there is a topic to take
\* commands from.
THEOREM AlwaysRunnable == Spec => []Runnable
<1>1. IInv => Runnable
  <2> SUFFICES ASSUME IInv PROVE Runnable
    OBVIOUS
  <2> DEFINE c == sc.file.config
  <2>1. IsConfig(c) /\ (Loaded => config = normalize(c, sc.env))
    BY ScenarioParts
  <2>2. c.interval \in Int /\ c.intervalTypo \in Int /\ IsSeq(c.prefixes) /\ IsSeq(c.prefixesTypo)
    BY <2>1 DEF IsConfig
  <2> HIDE DEF c
  <2>3. ASSUME Loaded
        PROVE  LET given == First(<<c.interval, c.intervalTypo>>, 0) IN
               /\ config.interval > 0 /\ (given > 0 => config.interval = given)
               /\ config.interval \in Nat
    <3> DEFINE n == normalize(c, sc.env)
    <3>0. n.interval = LET i == IF c.interval = 0 THEN c.intervalTypo ELSE c.interval
                       IN  IF i <= 0 THEN 100 ELSE i
      BY <2>1, Normalized
    <3>1. config.interval = LET i == IF c.interval = 0 THEN c.intervalTypo ELSE c.interval
                            IN  IF i <= 0 THEN 100 ELSE i
      BY <2>1, <2>3, <3>0
    <3>2. First(<<c.interval, c.intervalTypo>>, 0) = IF c.interval # 0 THEN c.interval ELSE c.intervalTypo
      BY FirstOfTwo
    <3> QED
      BY <2>2, <3>1, <3>2
  <2>4. ASSUME phase = "serve" PROVE topics # {}
    <3>1. Loaded
      BY <2>4 DEF Loaded
    <3> DEFINE n == normalize(c, sc.env)
    <3>0. n.prefixes = LET p == IF c.prefixes = <<>> THEN c.prefixesTypo ELSE c.prefixes
                       IN  IF p = <<>> THEN << <<"ctrl">> >> ELSE p
      BY <2>1, Normalized
    <3>2. config.prefixes = LET p == IF c.prefixes = <<>> THEN c.prefixesTypo ELSE c.prefixes
                            IN  IF p = <<>> THEN << <<"ctrl">> >> ELSE p
      BY <2>1, <3>0, <3>1
    <3>3. 1 \in DOMAIN config.prefixes
      <4>1. \A s : IsSeq(s) /\ s # <<>> => 1 \in DOMAIN s
        BY LenProperties, EmptySeq DEF IsSeq
      <4>2. 1 \in DOMAIN << <<"ctrl">> >>
        OBVIOUS
      <4> QED
        BY <2>2, <3>2, <4>1, <4>2
    <3>5. config.prefixes[1] \in ToSet(config.prefixes)
      BY <3>3 DEF ToSet
    <3> QED
      BY <2>4, <3>5 DEF IInv, TopicsOK
  <2>5. ASSUME Loaded, Representable(config.interval)
        PROVE  /\ Duration(config.interval) = config.interval * Millisecond
               /\ Duration(config.interval) > 0
    <3> DEFINE k == config.interval * Millisecond
    <3>1. config.interval \in Nat \ {0} /\ Millisecond \in Nat \ {0} /\ Wrap \in Nat \ {0}
      BY <2>3, <2>5, ControlPathAssumption DEF ControlPathAssumption
    <3>2. k \in Nat /\ k > 0
      <4>1. \A a, b \in Nat \ {0} : a * b \in Nat /\ a * b > 0
        OBVIOUS
      <4> QED
        BY <3>1, <4>1
    <3>3. k < Wrap /\ Duration(config.interval) = ((k + Wrap) % (2 * Wrap)) - Wrap
      BY <2>5 DEF Representable, Duration
    <3> HIDE DEF k
    <3>4. Duration(config.interval) = k
      BY <3>1, <3>2, <3>3, Unwrapped
    <3> QED
      BY <3>2, <3>4 DEF k
  <2>6. ASSUME phase = "panic" PROVE ~Representable(config.interval)
    <3>1. Loaded /\ Duration(config.interval) <= 0
      BY <2>6 DEF Loaded, IInv, PanicOK
    <3>2. ASSUME Representable(config.interval) PROVE FALSE
      <4>1. Duration(config.interval) = config.interval * Millisecond /\ Duration(config.interval) > 0
        BY <2>5, <3>1, <3>2
      <4>2. config.interval \in Nat /\ Millisecond \in Nat
        BY <2>3, <3>1, ControlPathAssumption DEF ControlPathAssumption
      <4> DEFINE d == Duration(config.interval)
      <4>3. d \in Int
        BY <4>1, <4>2
      <4> HIDE DEF d
      <4> QED
        BY <3>1, <4>1, <4>3 DEF d
    <3> QED
      BY <3>2
  <2> QED
    BY <2>3, <2>4, <2>5, <2>6 DEF Runnable, c
<1> QED
  BY <1>1, Invariance, PTL

-----------------------------------------------------------------------------
(* Least and greatest elements: a set of numbers is well founded, which    *)
(* the library says of the finite sets 0 .. n under inclusion.             *)

LEMMA Least ==
    ASSUME NEW S \in SUBSET Nat, S # {}
    PROVE  \E m \in S : \A n \in S : m <= n
<1> DEFINE R == StrictSubsetOrdering(Nat)
           T == {0 .. n : n \in S}
<1>1. IsWellFoundedOn(R, FiniteSubsetsOf(Nat))
  BY FS_StrictSubsetOrderingWellFounded
<1>2. T \subseteq FiniteSubsetsOf(Nat) /\ T # {}
  <2>1. \A n \in Nat : IsFiniteSet(0 .. n) /\ 0 .. n \in SUBSET Nat
    BY FS_Interval
  <2> QED
    BY <2>1 DEF FiniteSubsetsOf
<1> HIDE DEF T, R
<1>3. \E x \in T : \A y \in T : <<y, x>> \notin R
  BY <1>1, <1>2, WFMin
<1>4. PICK m \in S : \A n \in S : <<0 .. n, 0 .. m>> \notin R
  BY <1>3 DEF T
<1>5. ASSUME NEW n \in S, ~(m <= n) PROVE FALSE
  <2>1. /\ 0 .. n \in SUBSET Nat /\ 0 .. m \in SUBSET Nat
        /\ 0 .. n \subseteq 0 .. m /\ m \in 0 .. m /\ m \notin 0 .. n
    BY <1>5
  <2>2. <<0 .. n, 0 .. m>> \in R
    BY <2>1 DEF R, StrictSubsetOrdering
  <2> QED
    BY <2>2, <1>4
<1> QED
  BY <1>5

\* Induction and recursion on the natural numbers, for sets and functions.
LEMMA Induction ==
    ASSUME NEW S, 0 \in S, \A n \in Nat : n \in S => n + 1 \in S
    PROVE  Nat \subseteq S
<1> SUFFICES ASSUME Nat \ S # {} PROVE FALSE
  OBVIOUS
<1> DEFINE T == Nat \ S
<1>1. PICK m \in T : \A n \in T : m <= n
  <2>1. T \in SUBSET Nat /\ T # {}
    OBVIOUS
  <2> HIDE DEF T
  <2> QED
    BY <2>1, Least
<1>2. m # 0 /\ m - 1 \in Nat
  OBVIOUS
<1>3. m - 1 \in S
  BY <1>1, <1>2
<1> QED
  BY <1>2, <1>3

\* f[0] is a, and each value of f is made from the one before.
Follows(f, a, g) == f[0] = a /\ \A n \in Nat : f[n + 1] = g[n][f[n]]

LEMMA Recursion ==
    ASSUME NEW X, NEW a \in X, NEW g \in [Nat -> [X -> X]]
    PROVE  \E f \in [Nat -> X] : Follows(f, a, g)
<1> DEFINE Begins(n) == {f \in [0 .. n -> X] : f[0] = a /\ \A i \in Nat : i < n => f[i + 1] = g[i][f[i]]}
           S == {n \in Nat : Begins(n) # {}}
           Unique(k) == \A m, n \in Nat : \A e \in Begins(m), f \in Begins(n) :
                          k <= m /\ k <= n => e[k] = f[k]
           Agree == {k \in Nat : Unique(k)}
<1>1. Nat \subseteq S
  <2>1. 0 \in S
    <3>1. [i \in 0 .. 0 |-> a] \in Begins(0)
      OBVIOUS
    <3> QED
      BY <3>1
  <2>2. ASSUME NEW n \in Nat, n \in S PROVE n + 1 \in S
    <3>1. PICK f \in [0 .. n -> X] : f[0] = a /\ \A i \in Nat : i < n => f[i + 1] = g[i][f[i]]
      BY <2>2
    <3> DEFINE h == [i \in 0 .. n + 1 |-> IF i <= n THEN f[i] ELSE g[n][f[n]]]
    <3>2. f[n] \in X /\ g[n][f[n]] \in X
      BY <3>1
    <3>3. h \in [0 .. n + 1 -> X]
      BY <3>1, <3>2
    <3>4. h[0] = a
      BY <3>1
    <3>5. ASSUME NEW i \in Nat, i < n + 1 PROVE h[i + 1] = g[i][h[i]]
      <4>1. h[i] = f[i]
        BY <3>5
      <4>2. CASE i < n
        <5>1. h[i + 1] = f[i + 1]
          BY <4>2
        <5> QED
          BY <3>1, <4>1, <4>2, <5>1
      <4>3. CASE i = n
        <5>1. h[n + 1] = g[n][f[n]]
          OBVIOUS
        <5> QED
          BY <4>1, <4>3, <5>1
      <4> QED
        BY <3>5, <4>2, <4>3
    <3> HIDE DEF h
    <3>6. h \in Begins(n + 1)
      BY <3>3, <3>4, <3>5
    <3> HIDE DEF Begins
    <3> QED
      BY <3>6
  <2> HIDE DEF S
  <2> QED
    BY <2>1, <2>2, Induction
<1>2. Nat \subseteq Agree
  <2>1. 0 \in Agree
    OBVIOUS
  <2>2. ASSUME NEW k \in Nat, k \in Agree PROVE k + 1 \in Agree
    <3>1. ASSUME NEW m \in Nat, NEW n \in Nat, NEW e \in Begins(m), NEW f \in Begins(n),
                 k + 1 <= m, k + 1 <= n
          PROVE  e[k + 1] = f[k + 1]
      <4>1. e[k + 1] = g[k][e[k]] /\ f[k + 1] = g[k][f[k]]
        BY <3>1
      <4>2. Unique(k)
        BY <2>2
      <4> HIDE DEF Begins
      <4>3. e[k] = f[k]
        BY <3>1, <4>2
      <4> QED
        BY <4>1, <4>3
    <3> HIDE DEF Begins
    <3>2. Unique(k + 1)
      BY <3>1
    <3> HIDE DEF Unique
    <3> QED
      BY <3>2
  <2> HIDE DEF Agree
  <2> QED
    BY <2>1, <2>2, Induction
<1> DEFINE Of(n) == CHOOSE f : f \in Begins(n)
           F == [n \in Nat |-> Of(n)[n]]
<1>3. \A n \in Nat : Of(n) \in Begins(n)
  BY <1>1
<1> HIDE DEF Of
<1>4. ASSUME NEW n \in Nat PROVE F[n] \in X /\ F[n + 1] = g[n][F[n]]
  <2>1. Of(n) \in Begins(n) /\ Of(n + 1) \in Begins(n + 1)
    BY <1>3
  <2>2. Of(n)[n] \in X
    BY <2>1
  <2>3. Of(n + 1)[n + 1] = g[n][Of(n + 1)[n]]
    BY <2>1
  <2>4. Of(n + 1)[n] = Of(n)[n]
    <3>1. Unique(n)
      BY <1>2
    <3> HIDE DEF Begins
    <3> QED
      BY <2>1, <3>1
  <2> QED
    BY <2>2, <2>3, <2>4
<1>5. F[0] = a
  BY <1>3
<1>6. F \in [Nat -> X]
  BY <1>4
<1>7. Follows(F, a, g)
  BY <1>4, <1>5 DEF Follows
<1> QED
  BY <1>6, <1>7

LEMMA MinIsLeast ==
    ASSUME NEW S \in SUBSET Nat, S # {}
    PROVE  Min(S) \in S /\ \A n \in S : Min(S) <= n
  BY Least DEF Min

LEMMA MaxIsGreatest ==
    ASSUME NEW k \in Nat, NEW S \in SUBSET (0 .. k), S # {}
    PROVE  Max(S) \in S /\ \A n \in S : n <= Max(S)
<1> DEFINE T == {k - n : n \in S}
<1>1. T \in SUBSET Nat /\ T # {}
  <2>1. \A n \in S : k - n \in Nat
    OBVIOUS
  <2> QED
    BY <2>1
<1>2. PICK m \in T : \A n \in T : m <= n
  <2> HIDE DEF T
  <2> QED
    BY <1>1, Least
<1>3. PICK x \in S : m = k - x
  BY DEF T
<1>4. \A n \in S : x >= n
  <2> TAKE n \in S
  <2>1. m <= k - n
    BY <1>2
  <2> QED
    BY <2>1, <1>3
<1> QED
  BY <1>4 DEF Max

-----------------------------------------------------------------------------
(* Topics                                                                  *)

\* Trim keeps a sequence of the same names.
LEMMA Trimmed ==
    ASSUME NEW S, NEW s \in Seq(S)
    PROVE  Trim(s) \in Seq(S)
<1> DEFINE names == {i \in DOMAIN s : s[i] # "/"}
<1>1. DOMAIN s = 1 .. Len(s) /\ Len(s) \in Nat /\ \A i \in 1 .. Len(s) : s[i] \in S
  BY LenProperties, ElementOfSeq
<1>2. CASE names = {}
  BY <1>2, EmptySeq DEF Trim
<1>3. CASE names # {}
  <2>1. names \in SUBSET (0 .. Len(s)) /\ names \in SUBSET Nat /\ names \subseteq 1 .. Len(s)
    BY <1>1
  <2>2. Trim(s) = SubSeq(s, Min(names), Max(names))
    BY <1>3 DEF Trim
  <2> HIDE DEF names
  <2>3. Min(names) \in names /\ Max(names) \in names
    BY <1>1, <1>3, <2>1, MinIsLeast, MaxIsGreatest
  <2>4. Min(names) \in 1 .. Len(s) /\ Max(names) \in 1 .. Len(s)
    BY <2>1, <2>3
  <2>5. \A i \in Min(names) .. Max(names) : s[i] \in S
    BY <1>1, <2>4
  <2> QED
    BY <2>2, <2>4, <2>5, SubSeqProperties
<1> QED
  BY <1>2, <1>3

\* A topic ends with its prefix, after a slash, unless that is empty.
Rest(p) == IF p = <<>> THEN <<>> ELSE <<"/">> \o p

\* Of two equal topics the part before the prefix is not the shorter one when
\* the other does not go on with a slash.
LEMMA NotShorter ==
    ASSUME NEW S, "/" \in S, NEW d \in Seq(S), NEW e \in Seq(S), NEW p \in Seq(S), NEW q \in Seq(S),
           Len(d) < Len(e) => e[Len(d) + 1] # "/", d \o Rest(p) = e \o Rest(q)
    PROVE  Len(e) <= Len(d)
<1> DEFINE slash == "/"
           u == Rest(p)
           v == Rest(q)
<1>1. /\ slash \in S /\ (Len(d) < Len(e) => e[Len(d) + 1] # slash)
      /\ u = (IF p = <<>> THEN <<>> ELSE <<slash>> \o p) /\ v = (IF q = <<>> THEN <<>> ELSE <<slash>> \o q)
      /\ d \o u = e \o v
  BY DEF Rest
<1> HIDE DEF slash, u, v
<1>2. <<slash>> \in Seq(S) /\ Len(<<slash>>) = 1 /\ <<slash>>[1] = slash
  BY <1>1
<1>3. <<slash>> \o p \in Seq(S) /\ (<<slash>> \o p)[1] = slash /\ <<slash>> \o q \in Seq(S)
  <2>1. Len(p) \in Nat
    BY LenProperties
  <2> QED
    BY <1>2, <2>1, ConcatProperties
<1>4. u \in Seq(S) /\ v \in Seq(S) /\ (u # <<>> => u[1] = slash)
  BY <1>1, <1>3, EmptySeq
<1>5. Len(d) \in Nat /\ Len(e) \in Nat /\ Len(u) \in Nat /\ Len(v) \in Nat
  BY <1>4, LenProperties
<1>6. /\ Len(d \o u) = Len(d) + Len(u)
      /\ \A i \in 1 .. Len(d) + Len(u) : (d \o u)[i] = IF i <= Len(d) THEN d[i] ELSE u[i - Len(d)]
  BY <1>4, ConcatProperties
<1>7. /\ Len(e \o v) = Len(e) + Len(v)
      /\ \A i \in 1 .. Len(e) + Len(v) : (e \o v)[i] = IF i <= Len(e) THEN e[i] ELSE v[i - Len(e)]
  BY <1>4, ConcatProperties
<1>8. Len(d) + Len(u) = Len(e) + Len(v)
  BY <1>1, <1>6, <1>7
<1>9. ASSUME Len(d) < Len(e) PROVE FALSE
  <2> DEFINE i == Len(d) + 1
  <2>1. i \in 1 .. Len(e) /\ i \in 1 .. Len(d) + Len(u) /\ Len(u) # 0 /\ i - Len(d) = 1 /\ ~(i <= Len(d))
    BY <1>5, <1>8, <1>9
  <2>2. (d \o u)[i] = u[1] /\ (e \o v)[i] = e[i]
    BY <1>5, <1>6, <1>7, <1>8, <2>1
  <2>3. u # <<>>
    BY <2>1, EmptySeq
  <2> QED
    BY <1>1, <1>4, <1>9, <2>2, <2>3
<1> QED
  BY <1>5, <1>9

LEMMA SamePrefix ==
    ASSUME NEW S, "/" \in S, NEW a \in Seq(S), NEW b \in Seq(S), NEW p \in Seq(S), NEW q \in Seq(S),
           Len(a) < Len(b) => b[Len(a) + 1] # "/", Len(b) < Len(a) => a[Len(b) + 1] # "/",
           a \o Rest(p) = b \o Rest(q)
    PROVE  a = b /\ p = q
<1> DEFINE u == Rest(p)
           v == Rest(q)
<1>1. <<"/">> \in Seq(S) /\ <<"/">> # <<>>
  OBVIOUS
<1>2. u \in Seq(S) /\ v \in Seq(S)
  BY <1>1, ConcatProperties, EmptySeq DEF Rest
<1>3. Len(b) <= Len(a) /\ Len(a) <= Len(b)
  BY NotShorter
<1>4. u = v => p = q
  <2>1. /\ <<"/">> \o p = <<"/">> \o q => p = q
        /\ <<"/">> \o p # <<>> /\ <<"/">> \o q # <<>>
    BY <1>1, ConcatSimplifications
  <2> QED
    BY <2>1, Zenon DEF Rest
<1>5. a \o u = b \o v
  OBVIOUS
<1> HIDE DEF u, v
<1>6. Len(a) \in Nat /\ Len(a) = Len(b) /\ Len(u) \in Nat /\ Len(v) \in Nat
  BY <1>2, <1>3, LenProperties
<1>7. \A i \in 1 .. Len(a) : (a \o u)[i] = a[i]
  BY <1>2, <1>6, ConcatProperties
<1>8. \A i \in 1 .. Len(a) : (b \o v)[i] = b[i]
  BY <1>2, <1>6, ConcatProperties
<1>9. a = b
  BY <1>5, <1>6, <1>7, <1>8, SeqEqual
<1>10. u = v
  BY <1>2, <1>5, <1>9, ConcatSimplifications
<1> QED
  BY <1>4, <1>9, <1>10

\* Topics with the same direction and devices without a slash are equal only when
\* the devices and the prefixes are.
LEMMA TopicParts ==
    ASSUME NEW S, "/" \in S, NEW h \in Seq(S), NEW d \in Seq(S), NEW e \in Seq(S),
           NEW p \in Seq(S), NEW q \in Seq(S), "/" \notin ToSet(d), "/" \notin ToSet(e)
    PROVE  (h \o d) \o Rest(p) = (h \o e) \o Rest(q) => d = e /\ p = q
<1> DEFINE a == h \o d
           b == h \o e
<1>1. /\ a \in Seq(S) /\ Len(a) = Len(h) + Len(d)
      /\ \A i \in 1 .. Len(h) + Len(d) : a[i] = IF i <= Len(h) THEN h[i] ELSE d[i - Len(h)]
  BY ConcatProperties
<1>2. /\ b \in Seq(S) /\ Len(b) = Len(h) + Len(e)
      /\ \A i \in 1 .. Len(h) + Len(e) : b[i] = IF i <= Len(h) THEN h[i] ELSE e[i - Len(h)]
  BY ConcatProperties
<1>3. a = b => d = e
  BY ConcatSimplifications
<1> HIDE DEF a, b
<1>4. Len(h) \in Nat /\ Len(d) \in Nat /\ Len(e) \in Nat /\ DOMAIN d = 1 .. Len(d) /\ DOMAIN e = 1 .. Len(e)
  BY LenProperties
<1>5. \A i \in 1 .. Len(d) : d[i] # "/"
  BY <1>4 DEF ToSet
<1>6. \A i \in 1 .. Len(e) : e[i] # "/"
  BY <1>4 DEF ToSet
<1>7. ASSUME Len(a) < Len(b) PROVE b[Len(a) + 1] # "/"
  <2> DEFINE i == Len(a) + 1
             k == i - Len(h)
  <2>1. i \in 1 .. Len(h) + Len(e) /\ ~(i <= Len(h)) /\ k \in 1 .. Len(e)
    BY <1>1, <1>2, <1>4, <1>7
  <2>2. b[i] = e[k]
    BY <1>2, <2>1
  <2> HIDE DEF k
  <2> QED
    BY <1>6, <2>1, <2>2
<1>8. ASSUME Len(b) < Len(a) PROVE a[Len(b) + 1] # "/"
  <2> DEFINE i == Len(b) + 1
             k == i - Len(h)
  <2>1. i \in 1 .. Len(h) + Len(d) /\ ~(i <= Len(h)) /\ k \in 1 .. Len(d)
    BY <1>1, <1>2, <1>4, <1>8
  <2>2. a[i] = d[k]
    BY <1>1, <2>1
  <2> HIDE DEF k
  <2> QED
    BY <1>5, <2>1, <2>2
<1>9. ASSUME a \o Rest(p) = b \o Rest(q) PROVE a = b /\ p = q
  <2>1. a \in Seq(S) /\ b \in Seq(S)
    BY <1>1, <1>2
  <2> QED
    BY <1>7, <1>8, <1>9, <2>1, SamePrefix
<1> QED
  BY <1>3, <1>9 DEF a, b

LEMMA InAlphabet ==
    ASSUME NEW s, IsSeq(s), NEW S, ToSet(s) \subseteq S
    PROVE  s \in Seq(S)
<1> DEFINE T == {s[i] : i \in DOMAIN s}
<1>1. s \in Seq(T) /\ T \subseteq S
  BY DEF IsSeq, ToSet
<1> HIDE DEF T
<1> QED
  BY <1>1, SeqMonotonic

LEMMA TopicAsPath ==
    ASSUME NEW device, NEW prefix
    PROVE  BuildTopic(<<"rx">>, device, prefix)
             = ((<<"/">> \o Trim(<<"rx">>) \o <<"/">>) \o Trim(device)) \o Rest(Trim(prefix))
  BY DEF BuildTopic, Rest

LEMMA PrefixesAreSeqs ==
    ASSUME IInv, Loaded
    PROVE  \A p \in ToSet(config.prefixes) : IsSeq(p)
<1> DEFINE c == sc.file.config
           n == normalize(c, sc.env)
<1>1. IsConfig(c) /\ config = n
  BY ScenarioParts
<1>2. /\ \A i \in DOMAIN c.prefixes : IsSeq(c.prefixes[i])
      /\ \A i \in DOMAIN c.prefixesTypo : IsSeq(c.prefixesTypo[i])
  BY <1>1 DEF IsConfig
<1> HIDE DEF c
<1>3. n.prefixes = LET p == IF c.prefixes = <<>> THEN c.prefixesTypo ELSE c.prefixes
                   IN  IF p = <<>> THEN << <<"ctrl">> >> ELSE p
  BY <1>1, Normalized
<1> HIDE DEF n
<1>4. config.prefixes \in {c.prefixes, c.prefixesTypo, << <<"ctrl">> >>}
  BY <1>1, <1>3
<1>5. \A i \in DOMAIN << <<"ctrl">> >> : IsSeq(<< <<"ctrl">> >>[i])
  <2>1. IsSeq(<<"ctrl">>)
    BY DEF IsSeq
  <2> QED
    BY <2>1
<1>6. \A i \in DOMAIN config.prefixes : IsSeq(config.prefixes[i])
  BY <1>2, <1>4, <1>5
<1> QED
  BY <1>6 DEF ToSet

\* Telemetry and gamepadweb meet on a topic when they are given one device and one
\* prefix, and a command never reaches another device.
THEOREM ProgramsMeet == Spec => []TopicsMeet
<1>1. IInv => TopicsMeet
  <2> DEFINE Same == /\ Trim(sc.device) = Trim(sc.web.device)
                     /\ \E p \in ToSet(config.prefixes) : Trim(p) = Trim(sc.web.prefix)
  <2> SUFFICES ASSUME IInv, phase = "serve"
               PROVE  /\ Same => WebTopic \in topics
                      /\ WebTopic \in topics /\ Plain(sc.device) /\ Plain(sc.web.device) => Same
    BY DEF TopicsMeet
  <2>1. /\ IsSeq(sc.device) /\ IsSeq(sc.web.device) /\ IsSeq(sc.web.prefix)
        /\ topics = {BuildTopic(<<"rx">>, sc.device, p) : p \in ToSet(config.prefixes)}
        /\ \A p \in ToSet(config.prefixes) : IsSeq(p)
    BY ControlPathAssumption, PrefixesAreSeqs DEF ControlPathAssumption, IInv, TopicsOK, Loaded
  <2>2. ASSUME Same PROVE WebTopic \in topics
    <3>1. PICK p \in ToSet(config.prefixes) : Trim(p) = Trim(sc.web.prefix)
      BY <2>2
    <3>2. WebTopic = BuildTopic(<<"rx">>, sc.device, p)
      BY <2>2, <3>1, TopicAsPath DEF WebTopic
    <3> QED
      BY <2>1, <3>2
  <2>3. ASSUME WebTopic \in topics, Plain(sc.device), Plain(sc.web.device) PROVE Same
    <3>1. PICK p \in ToSet(config.prefixes) : WebTopic = BuildTopic(<<"rx">>, sc.device, p)
      BY <2>1, <2>3
    <3> DEFINE S == {"/", "rx"} \cup ToSet(sc.device) \cup ToSet(sc.web.device)
                      \cup ToSet(sc.web.prefix) \cup ToSet(p)
               h == <<"/">> \o Trim(<<"rx">>) \o <<"/">>
    <3>2. /\ sc.device \in Seq(S) /\ sc.web.device \in Seq(S) /\ sc.web.prefix \in Seq(S) /\ p \in Seq(S)
          /\ <<"rx">> \in Seq(S) /\ <<"/">> \in Seq(S) /\ "/" \in S
      <4>1. S = S /\ {"/", "rx"} \subseteq S /\ ToSet(sc.device) \subseteq S /\ ToSet(sc.web.device) \subseteq S
            /\ ToSet(sc.web.prefix) \subseteq S /\ ToSet(p) \subseteq S
        OBVIOUS
      <4> HIDE DEF S
      <4> QED
        BY <2>1, <4>1, InAlphabet
    <3> HIDE DEF S
    <3>3. /\ Trim(sc.device) \in Seq(S) /\ Trim(sc.web.device) \in Seq(S)
          /\ Trim(sc.web.prefix) \in Seq(S) /\ Trim(p) \in Seq(S)
      BY <3>2, Trimmed
    <3>4. h \in Seq(S)
      BY <3>2, Trimmed, ConcatProperties
    <3>5. (h \o Trim(sc.device)) \o Rest(Trim(p)) = (h \o Trim(sc.web.device)) \o Rest(Trim(sc.web.prefix))
      BY <3>1, TopicAsPath DEF WebTopic
    <3> HIDE DEF h
    <3> DEFINE d == Trim(sc.device)
               e == Trim(sc.web.device)
               q == Trim(sc.web.prefix)
               r == Trim(p)
    <3>6. "/" \notin ToSet(d) /\ "/" \notin ToSet(e)
      BY <2>3 DEF Plain
    <3>7. d \in Seq(S) /\ e \in Seq(S) /\ q \in Seq(S) /\ r \in Seq(S) /\ "/" \in S
      BY <3>2, <3>3
    <3>8. (h \o d) \o Rest(r) = (h \o e) \o Rest(q)
      BY <3>5
    <3> HIDE DEF d, e, q, r
    <3>9. (h \o d) \o Rest(r) = (h \o e) \o Rest(q) => d = e /\ r = q
      BY <3>4, <3>6, <3>7, TopicParts
    <3>10. d = e /\ r = q
      BY <3>8, <3>9
    <3> QED
      BY <3>10 DEF d, e, q, r
  <2> QED
    BY <2>2, <2>3
<1> QED
  BY <1>1, Invariance, PTL

-----------------------------------------------------------------------------
(* Bits and numbers                                                        *)

LEMMA PowersOfTwo ==
    Power2[0] = 1 /\ \A n \in Nat : Power2[n] \in Nat \ {0} /\ Power2[n + 1] = 2 * Power2[n]
<1> DEFINE Positive == Nat \ {0}
           g == [n \in Nat |-> [p \in Positive |-> 2 * p]]
<1>1. g \in [Nat -> [Positive -> Positive]] /\ \A n \in Nat, p \in Positive : g[n][p] = 2 * p
  OBVIOUS
<1> HIDE DEF g
<1>2. PICK f \in [Nat -> Positive] : Follows(f, 1, g)
  <2>1. 1 \in Positive
    OBVIOUS
  <2> HIDE DEF Positive
  <2> QED
    BY <1>1, <2>1, Recursion
<1>3. f[0] = 1 /\ \A n \in Nat : f[n + 1] = 2 * f[n]
  BY <1>1, <1>2 DEF Follows
<1>4. f = [n \in Nat |-> IF n = 0 THEN 1 ELSE 2 * f[n - 1]]
  <2>1. ASSUME NEW n \in Nat PROVE f[n] = IF n = 0 THEN 1 ELSE 2 * f[n - 1]
    <3>1. CASE n = 0
      BY <1>3, <3>1
    <3>2. CASE n # 0
      <4>1. n - 1 \in Nat /\ n - 1 + 1 = n
        BY <3>2
      <4> QED
        BY <1>3, <3>2, <4>1
    <3> QED
      BY <3>1, <3>2
  <2> QED
    BY <2>1
<1>5. Power2 = [n \in Nat |-> IF n = 0 THEN 1 ELSE 2 * Power2[n - 1]]
  <2>1. \E h : h = [n \in Nat |-> IF n = 0 THEN 1 ELSE 2 * h[n - 1]]
    BY <1>4
  <2> QED
    BY <2>1 DEF Power2
<1>6. \A n \in Nat : Power2[n + 1] = 2 * Power2[n]
  <2> TAKE n \in Nat
  <2>1. n + 1 \in Nat /\ n + 1 # 0 /\ n + 1 - 1 = n
    OBVIOUS
  <2> QED
    BY <1>5, <2>1
<1>7. Power2[0] = 1
  BY <1>5
<1> DEFINE S == {n \in Nat : Power2[n] \in Nat \ {0}}
<1>8. Nat \subseteq S
  <2>1. 0 \in S /\ \A n \in Nat : n \in S => n + 1 \in S
    BY <1>6, <1>7
  <2> HIDE DEF S
  <2> QED
    BY <2>1, Induction
<1> QED
  BY <1>6, <1>7, <1>8

\* The value of one bit of a word.
Place(data, sig, n) == IF Bit(sig, n) \in data THEN Power2[n] ELSE 0

LEMMA WordsBitByBit ==
    ASSUME NEW data, NEW sig
    PROVE  /\ Word(data, sig, 0) = 0
           /\ \A n \in Nat : /\ Word(data, sig, n) \in Nat
                             /\ Word(data, sig, n + 1) = Word(data, sig, n) + Place(data, sig, n)
<1> DEFINE P == [n \in Nat |-> Place(data, sig, n)]
           g == [n \in Nat |-> [w \in Nat |-> w + P[n]]]
<1>1. P \in [Nat -> Nat] /\ \A n \in Nat : P[n] = Place(data, sig, n)
  BY PowersOfTwo DEF Place
<1> HIDE DEF P
<1>2. g \in [Nat -> [Nat -> Nat]] /\ \A n, w \in Nat : g[n][w] = w + P[n]
  BY <1>1
<1> HIDE DEF g
<1>3. PICK f \in [Nat -> Nat] : Follows(f, 0, g)
  <2>1. 0 \in Nat
    OBVIOUS
  <2> QED
    BY <1>2, <2>1, Recursion
<1>4. f[0] = 0 /\ \A n \in Nat : f[n + 1] = f[n] + P[n]
  BY <1>2, <1>3 DEF Follows
<1> DEFINE Body(h) == [n \in Nat |-> IF n = 0 THEN 0
                                     ELSE h[n - 1] + IF Bit(sig, n - 1) \in data THEN Power2[n - 1] ELSE 0]
           low == CHOOSE h : h = Body(h)
<1>5. f = Body(f)
  <2>1. ASSUME NEW n \in Nat PROVE f[n] = IF n = 0 THEN 0
                                     ELSE f[n - 1] + IF Bit(sig, n - 1) \in data THEN Power2[n - 1] ELSE 0
    <3>1. CASE n = 0
      BY <1>4, <3>1
    <3>2. CASE n # 0
      <4>1. n - 1 \in Nat /\ n - 1 + 1 = n
        BY <3>2
      <4>2. f[n] = f[n - 1] + P[n - 1]
        BY <1>4, <4>1
      <4> QED
        BY <1>1, <3>2, <4>1, <4>2 DEF Place
    <3> QED
      BY <3>1, <3>2
  <2> QED
    BY <2>1
<1>6. low = Body(low)
  <2> HIDE DEF Body
  <2> QED
    BY <1>5
<1>7. \A n \in Nat : Word(data, sig, n) = low[n]
  BY DEF Word
<1> HIDE DEF low
<1>8. low[0] = 0 /\ \A n \in Nat : low[n + 1] = low[n] + P[n]
  <2>1. low[0] = 0
    BY <1>6
  <2>2. ASSUME NEW n \in Nat PROVE low[n + 1] = low[n] + P[n]
    <3>1. n + 1 \in Nat /\ n + 1 # 0 /\ n + 1 - 1 = n
      OBVIOUS
    <3>2. low[n + 1] = low[n] + IF Bit(sig, n) \in data THEN Power2[n] ELSE 0
      BY <1>6, <3>1
    <3> QED
      BY <1>1, <3>2 DEF Place
  <2> QED
    BY <2>1, <2>2
<1> DEFINE S == {n \in Nat : low[n] \in Nat}
<1>9. Nat \subseteq S
  <2>1. 0 \in S /\ \A n \in Nat : n \in S => n + 1 \in S
    BY <1>1, <1>8
  <2> HIDE DEF S
  <2> QED
    BY <2>1, Induction
<1> QED
  BY <1>1, <1>7, <1>8, <1>9

\* The places of the bits of a signal are different ones.
LEMMA PlacesDiffer ==
    ASSUME NEW sig, IsSignal(sig)
    PROVE  /\ \A i, j \in 0 .. sig.length - 1 : Bit(sig, i) = Bit(sig, j) => i = j
           /\ sig.length = 1 => Bit(sig, 0) = sig.start
<1> DEFINE len == sig.length
           start == sig.start
<1>1. /\ len \in 1 .. 32 /\ start \in 0 .. 63 /\ sig.big \in BOOLEAN
      /\ \A i : Bit(sig, i) = IF sig.big THEN InvertEndian(InvertEndian(start) - len + 1 + i) ELSE start + i
  BY DEF IsSignal, Bit
<1> HIDE DEF len, start
<1>2. \A p \in Int : InvertEndian(p) \in Int
  BY DEF InvertEndian
<1>3. \A p, q \in Int : InvertEndian(p) = InvertEndian(q) => p = q
  <2> TAKE p, q \in Int
  <2>1. PICK a \in Int : \E b \in 0 .. 7 : p = 8 * a + b /\ InvertEndian(p) = 8 * (7 - a) + b
    BY DEF InvertEndian
  <2>2. PICK c \in Int : \E d \in 0 .. 7 : q = 8 * c + d /\ InvertEndian(q) = 8 * (7 - c) + d
    BY DEF InvertEndian
  <2> QED
    BY <2>1, <2>2
<1>4. InvertEndian(start) \in Int /\ InvertEndian(InvertEndian(start)) = start
  BY <1>1 DEF InvertEndian
<1>5. ASSUME NEW i \in 0 .. len - 1, NEW j \in 0 .. len - 1, Bit(sig, i) = Bit(sig, j) PROVE i = j
  <2>1. CASE sig.big
    <3>1. /\ InvertEndian(start) - len + 1 + i \in Int /\ InvertEndian(start) - len + 1 + j \in Int
          /\ InvertEndian(InvertEndian(start) - len + 1 + i) = InvertEndian(InvertEndian(start) - len + 1 + j)
      BY <1>1, <1>4, <1>5, <2>1
    <3>2. InvertEndian(start) - len + 1 + i = InvertEndian(start) - len + 1 + j
      BY <1>3, <3>1
    <3> QED
      BY <1>1, <1>4, <3>2
  <2>2. CASE ~sig.big
    BY <1>1, <1>5, <2>2
  <2> QED
    BY <2>1, <2>2
<1>6. ASSUME len = 1 PROVE Bit(sig, 0) = start
  <2>1. InvertEndian(start) - len + 1 + 0 = InvertEndian(start)
    BY <1>4, <1>6
  <2> QED
    BY <1>1, <1>4, <2>1
<1> QED
  BY <1>5, <1>6 DEF len, start

\* One more bit of a number.
LEMMA BitByBit ==
    ASSUME NEW w \in Nat, NEW P \in Nat \ {0}
    PROVE  w % (2 * P) = (w % P) + IF (w \div P) % 2 = 1 THEN P ELSE 0
<1> DEFINE q == w \div P
           r == w % P
           h == q \div 2
           b == q % 2
<1>1. q \in Nat /\ r \in 0 .. P - 1 /\ w = q * P + r
  OBVIOUS
<1> HIDE DEF q, r
<1>2. h \in Nat /\ b \in 0 .. 1 /\ q = 2 * h + b
  BY <1>1
<1> HIDE DEF h, b
<1>3. w = h * (2 * P) + (b * P + r)
  <2>1. q * P = h * (2 * P) + b * P
    BY <1>2
  <2> QED
    BY <1>1, <1>2, <2>1
<1>4. b * P + r \in 0 .. 2 * P - 1
  <2>1. CASE b = 0
    BY <1>1, <2>1
  <2>2. CASE b = 1
    BY <1>1, <2>2
  <2> QED
    BY <1>2, <2>1, <2>2
<1>5. \A Q \in Nat \ {0} : \A k \in Nat, s \in 0 .. Q - 1 : (k * Q + s) % Q = s
  OBVIOUS
<1>6. w % (2 * P) = b * P + r
  <2> DEFINE Q == 2 * P
             s == b * P + r
  <2>1. Q \in Nat \ {0} /\ s \in 0 .. Q - 1 /\ w = h * Q + s
    BY <1>3, <1>4
  <2> HIDE DEF Q, s
  <2>2. w % Q = s
    BY <1>2, <1>5, <2>1
  <2> QED
    BY <2>2 DEF Q, s
<1>7. b * P = IF b = 1 THEN P ELSE 0
  BY <1>2
<1>8. w % (2 * P) = r + IF b = 1 THEN P ELSE 0
  BY <1>1, <1>6, <1>7
<1> QED
  BY <1>8 DEF q, r, b

\* A signal whose bits are those of a number has the number as its word.
Spells(data, sig, w) ==
    \A i \in 0 .. sig.length - 1 : Bit(sig, i) \in data <=> (w \div Power2[i]) % 2 = 1

LEMMA WordSpelt ==
    ASSUME NEW data, NEW sig, sig.length \in Nat, NEW w \in Nat, w < Power2[sig.length], Spells(data, sig, w)
    PROVE  Word(data, sig, sig.length) = w
<1> DEFINE len == sig.length
           S == {k \in Nat : k <= len => Word(data, sig, k) = w % Power2[k]}
<1>1. \A i \in 0 .. len - 1 : Bit(sig, i) \in data <=> (w \div Power2[i]) % 2 = 1
  BY DEF Spells
<1>2. 0 \in S
  BY PowersOfTwo, WordsBitByBit
<1>3. ASSUME NEW k \in Nat, k \in S PROVE k + 1 \in S
  <2> SUFFICES ASSUME k + 1 <= len PROVE Word(data, sig, k + 1) = w % Power2[k + 1]
    OBVIOUS
  <2>1. k \in 0 .. len - 1 /\ Word(data, sig, k) = w % Power2[k]
    BY <1>3
  <2>2. Word(data, sig, k + 1) = Word(data, sig, k) + Place(data, sig, k)
    BY WordsBitByBit
  <2>3. Place(data, sig, k) = IF (w \div Power2[k]) % 2 = 1 THEN Power2[k] ELSE 0
    BY <1>1, <2>1 DEF Place
  <2>4. w % Power2[k + 1] = (w % Power2[k]) + IF (w \div Power2[k]) % 2 = 1 THEN Power2[k] ELSE 0
    <3>1. Power2[k] \in Nat \ {0} /\ Power2[k + 1] = 2 * Power2[k]
      BY PowersOfTwo
    <3> QED
      BY <3>1, BitByBit
  <2> QED
    BY <2>1, <2>2, <2>3, <2>4
<1> HIDE DEF S
<1>4. len \in S
  BY <1>2, <1>3, Induction
<1>5. Word(data, sig, len) = w % Power2[len]
  BY <1>4 DEF S
<1>6. Power2[len] \in Nat \ {0}
  BY PowersOfTwo
<1> HIDE DEF len
<1>7. w % Power2[len] = w
  BY <1>6 DEF len
<1> QED
  BY <1>5, <1>7 DEF len

\* Data that agree on the bits of a signal have the same word there.
LEMMA WordOfItsBits ==
    ASSUME NEW data, NEW other, NEW sig, sig.length \in Nat, data \cap Bits(sig) = other \cap Bits(sig)
    PROVE  /\ Word(data, sig, sig.length) = Word(other, sig, sig.length)
           /\ \A i \in 0 .. sig.length - 1 : Bit(sig, i) \in data <=> Bit(sig, i) \in other
<1>1. \A i \in 0 .. sig.length - 1 : Bit(sig, i) \in data <=> Bit(sig, i) \in other
  BY DEF Bits
<1> DEFINE S == {k \in Nat : k <= sig.length => Word(data, sig, k) = Word(other, sig, k)}
<1>2. 0 \in S
  BY WordsBitByBit
<1>3. ASSUME NEW k \in Nat, k \in S PROVE k + 1 \in S
  <2> SUFFICES ASSUME k + 1 <= sig.length PROVE Word(data, sig, k + 1) = Word(other, sig, k + 1)
    OBVIOUS
  <2>1. k \in 0 .. sig.length - 1 /\ Word(data, sig, k) = Word(other, sig, k)
    BY <1>3
  <2>2. Place(data, sig, k) = Place(other, sig, k)
    BY <1>1, <2>1 DEF Place
  <2>3. /\ Word(data, sig, k + 1) = Word(data, sig, k) + Place(data, sig, k)
        /\ Word(other, sig, k + 1) = Word(other, sig, k) + Place(other, sig, k)
    BY WordsBitByBit
  <2> QED
    BY <2>1, <2>2, <2>3
<1> HIDE DEF S
<1>4. sig.length \in S
  BY <1>2, <1>3, Induction
<1> QED
  BY <1>1, <1>4 DEF S

LEMMA EmptyWord ==
    ASSUME NEW data, NEW sig, sig.length \in Nat, data \cap Bits(sig) = {}
    PROVE  Word(data, sig, sig.length) = 0
<1>1. \A i \in 0 .. sig.length - 1 : Bit(sig, i) \notin data
  BY DEF Bits
<1> DEFINE S == {k \in Nat : k <= sig.length => Word(data, sig, k) = 0}
<1>2. 0 \in S
  BY WordsBitByBit
<1>3. ASSUME NEW k \in Nat, k \in S PROVE k + 1 \in S
  <2> SUFFICES ASSUME k + 1 <= sig.length PROVE Word(data, sig, k + 1) = 0
    OBVIOUS
  <2>1. k \in 0 .. sig.length - 1 /\ Word(data, sig, k) = 0
    BY <1>3
  <2>2. Place(data, sig, k) = 0
    BY <1>1, <2>1 DEF Place
  <2>3. Word(data, sig, k + 1) = Word(data, sig, k) + Place(data, sig, k)
    BY WordsBitByBit
  <2> QED
    BY <2>1, <2>2, <2>3
<1> HIDE DEF S
<1>4. sig.length \in S
  BY <1>2, <1>3, Induction
<1> QED
  BY <1>4 DEF S

\* What is written into a signal is what is read from it.
LEMMA ReadsBack ==
    ASSUME NEW sig, IsSignal(sig), NEW raw \in Int, MinRaw(sig) <= raw, raw <= MaxRaw(sig),
           NEW data, Spells(data, sig, raw % Power2[sig.length])
    PROVE  GetBits(data, sig) = raw
<1> DEFINE len == sig.length
           P   == Power2[len]
           H   == Power2[len - 1]
           w   == raw % P
<1>1. len \in Nat /\ len - 1 \in Nat /\ sig.signed \in BOOLEAN
  BY DEF IsSignal
<1>2. P = 2 * H /\ H \in Nat \ {0} /\ P \in Nat \ {0}
  <2>1. len - 1 + 1 = len
    BY <1>1
  <2> QED
    BY <1>1, <2>1, PowersOfTwo
<1>3. w \in Nat /\ w < P
  <2> HIDE DEF P
  <2> QED
    BY <1>2
<1>4. Word(data, sig, len) = w
  BY <1>1, <1>3, WordSpelt
<1>5. Bit(sig, len - 1) \in data <=> (w \div H) % 2 = 1
  <2>1. len - 1 \in 0 .. len - 1
    BY <1>1
  <2> QED
    BY <2>1 DEF Spells
<1>6. /\ sig.signed => -H <= raw /\ raw <= H - 1
      /\ ~sig.signed => 0 <= raw /\ raw <= P - 1
  BY <1>1 DEF MinRaw, MaxRaw
<1>7. GetBits(data, sig) = IF sig.signed /\ Bit(sig, len - 1) \in data THEN w - P ELSE w
  BY <1>4 DEF GetBits
<1> HIDE DEF len, P, H
<1>8. w = IF raw < 0 THEN raw + P ELSE raw
  <2>1. CASE raw < 0
    <3>1. raw + P \in 0 .. P - 1 /\ raw = -1 * P + (raw + P)
      BY <1>2, <1>6, <2>1, <1>1
    <3> QED
      BY <1>2, <2>1, <3>1
  <2>2. CASE ~(raw < 0)
    <3>1. raw \in 0 .. P - 1
      BY <1>2, <1>6, <2>2, <1>1
    <3> QED
      BY <1>2, <2>2, <3>1
  <2> QED
    BY <2>1, <2>2
<1> HIDE DEF w
<1>9. (w \div H) % 2 = 1 <=> w >= H
  <2>1. CASE w < H
    <3>1. w \div H = 0
      BY <1>2, <1>3, <2>1
    <3> QED
      BY <2>1, <3>1, <1>2, <1>3
  <2>2. CASE ~(w < H)
    <3>1. w = 1 * H + (w - H) /\ w - H \in 0 .. H - 1
      BY <1>2, <1>3, <2>2
    <3>2. w \div H = 1
      BY <1>2, <1>3, <3>1
    <3> QED
      BY <2>2, <3>2, <1>2, <1>3
  <2> QED
    BY <2>1, <2>2
<1>10. CASE sig.signed
  <2>1. CASE raw < 0
    <3>1. w >= H
      BY <1>2, <1>6, <1>8, <1>10, <2>1
    <3> QED
      BY <1>2, <1>5, <1>7, <1>8, <1>9, <1>10, <2>1, <3>1
  <2>2. CASE ~(raw < 0)
    <3>1. ~(w >= H)
      BY <1>2, <1>6, <1>8, <1>10, <2>2
    <3> QED
      BY <1>5, <1>7, <1>8, <1>9, <1>10, <2>2, <3>1
  <2> QED
    BY <2>1, <2>2
<1>11. CASE ~sig.signed
  BY <1>2, <1>6, <1>7, <1>8, <1>11
<1> QED
  BY <1>1, <1>10, <1>11

\* A write spells its number and leaves the other bits alone.
LEMMA WriteSpells ==
    ASSUME NEW sig, IsSignal(sig), NEW raw, NEW data, data \subseteq 0 .. 63
    PROVE  /\ SetBits(data, sig, raw) \subseteq 0 .. 63
           /\ Spells(SetBits(data, sig, raw), sig, raw % Power2[sig.length])
           /\ SetBits(data, sig, raw) \ Bits(sig) = data \ Bits(sig)
<1> DEFINE word == raw % Power2[sig.length]
           ones == {j \in 0 .. sig.length - 1 : (word \div Power2[j]) % 2 = 1}
           set  == {Bit(sig, i) : i \in ones}
<1>1. SetBits(data, sig, raw) = (data \ Bits(sig)) \cup set
  BY DEF SetBits
<1>2. Bits(sig) \subseteq 0 .. 63
  BY DEF IsSignal
<1>3. set \subseteq Bits(sig)
  BY DEF Bits
<1>4. ASSUME NEW i \in 0 .. sig.length - 1
      PROVE  Bit(sig, i) \in SetBits(data, sig, raw) <=> (word \div Power2[i]) % 2 = 1
  <2>1. Bit(sig, i) \in Bits(sig)
    BY DEF Bits
  <2>2. Bit(sig, i) \in set <=> i \in ones
    <3>1. ASSUME Bit(sig, i) \in set PROVE i \in ones
      <4>1. PICK j \in ones : Bit(sig, i) = Bit(sig, j)
        BY <3>1
      <4> QED
        BY <4>1, PlacesDiffer
    <3> QED
      BY <3>1
  <2> QED
    BY <1>1, <2>1, <2>2
<1> HIDE DEF word
<1>5. Spells(SetBits(data, sig, raw), sig, word)
  BY <1>4 DEF Spells
<1> HIDE DEF set
<1> QED
  BY <1>1, <1>2, <1>3, <1>5 DEF word

-----------------------------------------------------------------------------
(* Raw and physical values                                                 *)

\* Quotient and remainder of any integer.
LEMMA Divided ==
    ASSUME NEW a \in Int, NEW b \in Nat \ {0}
    PROVE  a \div b \in Int /\ a = (a \div b) * b + (a % b)
  OBVIOUS

LEMMA NegatedMultiple ==
    ASSUME NEW a \in Int, NEW b \in Nat \ {0}, a % b = 0
    PROVE  (-a) % b = 0
<1> DEFINE q == a \div b
<1>1. q \in Int /\ a = q * b
  BY Divided
<1> HIDE DEF q
<1>2. -a = (-q) * b + 0 /\ -q \in Int
  BY <1>1
<1>3. \A k \in Int, s \in 0 .. b - 1 : (k * b + s) % b = s
  OBVIOUS
<1>4. \A c \in Int : c = (-q) * b + 0 => c % b = 0
  BY <1>2, <1>3
<1> QED
  BY <1>2, <1>4

LEMMA Clamped ==
    ASSUME NEW lo \in Int, NEW x \in Int, NEW hi \in Int, lo <= hi
    PROVE  Between(lo, x, hi) = IF x < lo THEN lo ELSE IF x > hi THEN hi ELSE x
<1>1. \A a, b \in Int : Min({a, b}) = (IF a <= b THEN a ELSE b) /\ Max({a, b}) = IF a <= b THEN b ELSE a
  BY DEF Min, Max
<1> QED
  BY <1>1 DEF Between

\* The range of a signal as a clamp.
LEMMA RangeClamps ==
    ASSUME NEW sig, IsSignal(sig), NEW x \in Int
    PROVE  /\ InRange(sig, x) \in Int
           /\ InRange(sig, x) = IF sig.min = 0 /\ sig.max = 0 THEN x
                                ELSE IF x < sig.min THEN sig.min ELSE IF x > sig.max THEN sig.max ELSE x
<1>1. sig.min \in Int /\ sig.max \in Int /\ sig.min <= sig.max
  BY DEF IsSignal
<1> QED
  BY <1>1, Clamped DEF InRange

LEMMA RawLimits ==
    ASSUME NEW sig, IsSignal(sig)
    PROVE  /\ MinRaw(sig) \in Int /\ MaxRaw(sig) \in Int /\ MinRaw(sig) <= 0 /\ 0 <= MaxRaw(sig)
           /\ MinRaw(sig) * sig.scale \in Int /\ MaxRaw(sig) * sig.scale \in Int
           /\ MinRaw(sig) * sig.scale <= 0 /\ 0 <= MaxRaw(sig) * sig.scale
<1>1. sig.length \in Nat /\ sig.length - 1 \in Nat /\ sig.scale \in Nat \ {0}
  BY DEF IsSignal
<1>2. Power2[sig.length] \in Nat \ {0} /\ Power2[sig.length - 1] \in Nat \ {0}
  BY <1>1, PowersOfTwo
<1>3. MinRaw(sig) \in Int /\ MaxRaw(sig) \in Int /\ MinRaw(sig) <= 0 /\ 0 <= MaxRaw(sig)
  BY <1>2 DEF MinRaw, MaxRaw
<1>4. \A a \in Int, s \in Nat : a * s \in Int /\ (a <= 0 => a * s <= 0) /\ (0 <= a => 0 <= a * s)
  OBVIOUS
<1> QED
  BY <1>1, <1>3, <1>4

\* A value is cut to a raw number that is in range, on the side of zero and within
\* a step.
LEMMA RawIsNear ==
    ASSUME NEW sig, IsSignal(sig), NEW x \in Int, NEW low \in BOOLEAN, low => MayBeLow(sig, x)
    PROVE  LET r == Raw(sig, x, low)
               y == FromPhysical(sig, x)
           IN  /\ r \in Int /\ r * sig.scale \in Int /\ MinRaw(sig) <= r /\ r <= MaxRaw(sig)
               /\ y \in Int /\ MinRaw(sig) * sig.scale <= y /\ y <= MaxRaw(sig) * sig.scale
               /\ y >= 0 => 0 <= r * sig.scale /\ r * sig.scale <= y /\ y - r * sig.scale <= sig.scale
               /\ y < 0 => y <= r * sig.scale /\ r * sig.scale <= 0 /\ r * sig.scale - y <= sig.scale
<1> DEFINE r  == Raw(sig, x, low)
           y  == FromPhysical(sig, x)
           s  == sig.scale
           lo == MinRaw(sig)
           hi == MaxRaw(sig)
           t  == InRange(sig, x) - sig.offset
           less == IF low THEN 1 ELSE 0
<1>1. /\ s \in Nat \ {0} /\ lo \in Int /\ hi \in Int /\ lo <= 0 /\ 0 <= hi
      /\ lo * s \in Int /\ hi * s \in Int /\ lo * s <= 0 /\ 0 <= hi * s /\ t \in Int
  BY RawLimits, RangeClamps DEF IsSignal
<1>2. y = IF t < lo * s THEN lo * s ELSE IF t > hi * s THEN hi * s ELSE t
  <2>1. y = Between(lo * s, t, hi * s)
    BY DEF FromPhysical
  <2> HIDE DEF t, lo, hi, s
  <2> QED
    BY <1>1, <2>1, Clamped
<1>3. r = IF y < 0 THEN -((-y) \div s - less) ELSE y \div s - less
  BY DEF Raw
<1>4. low => t % s = 0 /\ t # 0 /\ y = t
  <2>1. low => t % s = 0 /\ t # 0 /\ t \in lo * s .. hi * s
    BY DEF MayBeLow
  <2> HIDE DEF t, lo, hi, s, y
  <2> QED
    BY <1>1, <1>2, <2>1
<1> SUFFICES /\ r \in Int /\ r * s \in Int /\ lo <= r /\ r <= hi
             /\ y \in Int /\ lo * s <= y /\ y <= hi * s
             /\ y >= 0 => 0 <= r * s /\ r * s <= y /\ y - r * s <= s
             /\ y < 0 => y <= r * s /\ r * s <= 0 /\ r * s - y <= s
  OBVIOUS
<1>5. less \in 0 .. 1 /\ (low <=> less = 1)
  OBVIOUS
<1> HIDE DEF r, y, s, lo, hi, t, less
<1>6. y \in Int /\ lo * s <= y /\ y <= hi * s
  BY <1>1, <1>2
\* Where the quotient of a number that is not negative lies.
<1>7. ASSUME NEW u \in Nat, low => u % s = 0 /\ u # 0
      PROVE  LET k == u \div s - less IN
             k \in Nat /\ k * s \in Nat /\ k * s <= u /\ u - k * s <= s
  <2> DEFINE q == u \div s
             v == u % s
  <2>1. q \in Nat /\ v \in 0 .. s - 1 /\ u = q * s + v
    BY <1>1
  <2>2. less = 1 => v = 0 /\ q >= 1
    <3>1. less = 1 => v = 0 /\ u # 0
      BY <1>5, <1>7
    <3> HIDE DEF q, v
    <3>2. q = 0 => q * s = 0
      BY <1>1
    <3> QED
      BY <2>1, <3>1, <3>2
  <2> HIDE DEF q, v
  <2>3. (q - less) * s = q * s - less * s /\ q * s \in Nat
    BY <1>1, <1>5, <2>1
  <2>4. less * s = IF less = 1 THEN s ELSE 0
    BY <1>1, <1>5
  <2>5. q - less \in Nat /\ (q - less) * s \in Nat /\ (q - less) * s <= u /\ u - (q - less) * s <= s
    <3>1. CASE less = 1
      <4>1. q * s >= s
        BY <1>1, <2>1, <2>2, <3>1
      <4> QED
        BY <1>1, <2>1, <2>2, <2>3, <2>4, <3>1, <4>1
    <3>2. CASE less = 0
      BY <1>1, <2>1, <2>3, <2>4, <3>2
    <3> QED
      BY <1>5, <3>1, <3>2
  <2> QED
    BY <2>5 DEF q
<1>8. \A a, b \in Int : a * s <= b * s => a <= b
  BY <1>1
<1>9. CASE y >= 0
  <2>1. low => y % s = 0 /\ y # 0
    BY <1>4
  <2>2. r = y \div s - less
    BY <1>3, <1>6, <1>9
  <2>3. r \in Nat /\ r * s \in Nat /\ r * s <= y /\ y - r * s <= s
    BY <1>6, <1>7, <1>9, <2>1, <2>2
  <2>4. r * s <= hi * s
    BY <1>1, <1>6, <2>3
  <2>5. r <= hi
    BY <1>1, <1>8, <2>3, <2>4
  <2> QED
    BY <1>1, <1>6, <1>9, <2>3, <2>5
<1>10. CASE y < 0
  <2> DEFINE k == (-y) \div s - less
  <2>1. low => (-y) % s = 0 /\ -y # 0
    <3>1. y % s = 0 => (-y) % s = 0
      BY <1>1, <1>6, NegatedMultiple
    <3> QED
      BY <1>4, <1>6, <3>1
  <2>2. r = -k
    BY <1>3, <1>10
  <2>3. k \in Nat /\ k * s \in Nat /\ k * s <= -y /\ -y - k * s <= s
    <3>1. -y \in Nat
      BY <1>6, <1>10
    <3> QED
      BY <1>7, <2>1, <3>1
  <2> HIDE DEF k
  <2>4. r * s = -(k * s) /\ r \in Int /\ r * s \in Int
    BY <1>1, <2>2, <2>3
  <2>5. lo * s <= r * s
    BY <1>1, <1>6, <2>3, <2>4
  <2>6. lo <= r
    BY <1>1, <1>8, <2>4, <2>5
  <2> QED
    BY <1>1, <1>6, <1>10, <2>2, <2>3, <2>4, <2>6
<1> QED
  BY <1>6, <1>9, <1>10


\* The bit of a signal of one.
LEMMA SingleBit ==
    ASSUME NEW sig, IsSignal(sig), sig.length = 1, NEW data
    PROVE  Word(data, sig, sig.length) = IF sig.start \in data THEN 1 ELSE 0
<1>1. Word(data, sig, 0 + 1) = Word(data, sig, 0) + Place(data, sig, 0) /\ Word(data, sig, 0) = 0 /\ 0 + 1 = 1
  BY WordsBitByBit
<1>2. Place(data, sig, 0) = IF sig.start \in data THEN 1 ELSE 0
  BY PowersOfTwo, PlacesDiffer DEF Place
<1> QED
  BY <1>1, <1>2

\* A flag is 0 or 1.
LEMMA FlagArrives ==
    ASSUME NEW sig, IsSignal(sig), sig.length = 1, IsFlag(sig), NEW data, NEW raw \in Int,
           MinRaw(sig) <= raw, raw <= MaxRaw(sig), GetBits(data, sig) = raw
    PROVE  UnmarshalPhysical(sig, data) = ToPhysical(sig, raw)
<1>1. Power2[1] = 2 /\ Power2[0] = 1
  <2>1. 0 + 1 = 1
    OBVIOUS
  <2> QED
    BY <2>1, PowersOfTwo
<1>2. raw \in 0 .. 1
  BY <1>1 DEF MinRaw, MaxRaw, IsFlag
<1>3. Word(data, sig, 1) = IF sig.start \in data THEN 1 ELSE 0
  BY SingleBit
<1>4. GetBits(data, sig) = Word(data, sig, 1)
  BY DEF GetBits, IsFlag
<1>5. UnmarshalPhysical(sig, data) = 1000 * raw
  BY <1>3, <1>4 DEF UnmarshalPhysical
<1>6. InRange(sig, 1000 * raw) = 1000 * raw
  BY <1>2 DEF IsFlag
<1>7. raw * sig.scale + sig.offset = 1000 * raw
  BY <1>2 DEF IsFlag
<1> QED
  BY <1>5, <1>6, <1>7 DEF ToPhysical

\* What is read where the raw value of x is spelt.
LEMMA RawIsRead ==
    ASSUME NEW sig, IsSignal(sig), sig.length = 1 => IsFlag(sig), NEW x \in Int, NEW low \in BOOLEAN,
           low => MayBeLow(sig, x), NEW data, Spells(data, sig, Raw(sig, x, low) % Power2[sig.length])
    PROVE  UnmarshalPhysical(sig, data) = InRange(sig, Raw(sig, x, low) * sig.scale + sig.offset)
<1> DEFINE r == Raw(sig, x, low)
<1>1. r \in Int /\ MinRaw(sig) <= r /\ r <= MaxRaw(sig)
  BY RawIsNear
<1> SUFFICES UnmarshalPhysical(sig, data) = InRange(sig, r * sig.scale + sig.offset)
  OBVIOUS
<1> HIDE DEF r
<1>2. GetBits(data, sig) = r
  BY <1>1, ReadsBack DEF r
<1>3. CASE sig.length = 1
  BY <1>1, <1>2, <1>3, FlagArrives DEF ToPhysical
<1>4. CASE sig.length # 1
  BY <1>2, <1>4 DEF UnmarshalPhysical, ToPhysical
<1> QED
  BY <1>3, <1>4

\* It is near what was commanded.
LEMMA SignalArrives ==
    ASSUME NEW sig, IsSignal(sig), sig.length = 1 => IsFlag(sig), NEW x \in Int, NEW low \in BOOLEAN,
           low => MayBeLow(sig, x), NEW data, Spells(data, sig, Raw(sig, x, low) % Power2[sig.length])
    PROVE  LET want == Between(Limit(sig, MinRaw(sig)), x, Limit(sig, MaxRaw(sig)))
               got  == UnmarshalPhysical(sig, data)
           IN  /\ Abs(want - got) <= sig.scale
               /\ Abs(got - sig.offset) <= Abs(want - sig.offset)
<1> DEFINE r == Raw(sig, x, low)
           y == FromPhysical(sig, x)
           s == sig.scale
           o == sig.offset
           a == sig.min
           b == sig.max
           m == MinRaw(sig) * s
           M == MaxRaw(sig) * s
           R == r * s
           none == sig.min = 0 /\ sig.max = 0
           Cut(lo, v, hi) == IF v < lo THEN lo ELSE IF v > hi THEN hi ELSE v
           In(v) == IF none THEN v ELSE Cut(a, v, b)
           want == Between(InRange(sig, m + o), x, InRange(sig, M + o))
           got  == UnmarshalPhysical(sig, data)
<1>1. /\ r \in Int /\ R \in Int /\ MinRaw(sig) <= r /\ r <= MaxRaw(sig)
      /\ y \in Int
      /\ y >= 0 => 0 <= R /\ R <= y /\ y - R <= s
      /\ y < 0 => y <= R /\ R <= 0 /\ R - y <= s
  BY RawIsNear
<1>2. /\ s \in Nat /\ o \in Int /\ a \in Int /\ b \in Int /\ a <= b
      /\ m \in Int /\ M \in Int /\ m <= 0 /\ 0 <= M
  BY RawLimits DEF IsSignal
<1>3. got = InRange(sig, R + o)
  BY RawIsRead
<1>4. \A v \in Int : InRange(sig, v) \in Int /\ InRange(sig, v) = In(v)
  BY RangeClamps
<1>5. y = Between(m, InRange(sig, x) - o, M)
  BY DEF FromPhysical
<1> SUFFICES /\ Abs(want - got) <= s
             /\ Abs(got - o) <= Abs(want - o)
  BY DEF Limit
<1> HIDE DEF r, y, s, o, a, b, m, M, R, none, got
<1>6. y = Cut(m, In(x) - o, M)
  <2> DEFINE v == InRange(sig, x) - o
  <2>1. v = In(x) - o /\ v \in Int /\ y = Between(m, v, M)
    BY <1>2, <1>4, <1>5
  <2> HIDE DEF v
  <2>2. m <= M
    BY <1>2
  <2>3. Between(m, v, M) = Cut(m, v, M)
    BY <1>2, <2>1, <2>2, Clamped
  <2> QED
    BY <2>1, <2>3
<1>7. want = Cut(In(m + o), x, In(M + o))
  <2>1. m + o \in Int /\ M + o \in Int /\ m + o <= M + o
    BY <1>2
  <2>2. In(m + o) <= In(M + o) /\ In(m + o) \in Int /\ In(M + o) \in Int
    BY <1>2, <2>1
  <2>3. InRange(sig, m + o) = In(m + o) /\ InRange(sig, M + o) = In(M + o)
    BY <1>4, <2>1
  <2> DEFINE l == In(m + o)
             h == In(M + o)
  <2> HIDE DEF l, h
  <2>4. Between(l, x, h) = Cut(l, x, h)
    BY <2>2, Clamped DEF l, h
  <2> QED
    BY <2>3, <2>4 DEF l, h
<1>8. got = In(R + o)
  <2>1. R + o \in Int
    BY <1>1, <1>2
  <2> QED
    BY <1>3, <1>4, <2>1
<1>9. none \in BOOLEAN
  BY DEF none
\* Two cuts keep what is near near.
<1>10. CASE none
  BY <1>1, <1>2, <1>6, <1>7, <1>8, <1>10 DEF Abs
<1>11. CASE ~none
  BY <1>1, <1>2, <1>6, <1>7, <1>8, <1>11 DEF Abs
<1> QED
  BY <1>9, <1>10, <1>11

\* In a signal that counts by one, a whole number that it holds arrives as it is.
LEMMA WholeArrives ==
    ASSUME NEW sig, IsSignal(sig), sig.length = 1 => IsFlag(sig), sig.scale = 1000, sig.offset = 0,
           NEW k \in Int, Limit(sig, MinRaw(sig)) <= 1000 * k, 1000 * k <= Limit(sig, MaxRaw(sig)),
           NEW low \in BOOLEAN, low => MayBeLow(sig, 1000 * k),
           NEW data, Spells(data, sig, Raw(sig, 1000 * k, low) % Power2[sig.length])
    PROVE  UnmarshalPhysical(sig, data) = 1000 * k
<1> DEFINE x  == 1000 * k
           r  == Raw(sig, x, low)
           y  == FromPhysical(sig, x)
           lo == MinRaw(sig)
           hi == MaxRaw(sig)
           a  == sig.min
           b  == sig.max
           none == sig.min = 0 /\ sig.max = 0
           Cut(l, v, h) == IF v < l THEN l ELSE IF v > h THEN h ELSE v
           In(v) == IF none THEN v ELSE Cut(a, v, b)
<1>1. lo \in Int /\ hi \in Int /\ lo <= 0 /\ 0 <= hi /\ a \in Int /\ b \in Int /\ a <= b /\ x \in Int
  BY RawLimits DEF IsSignal
<1>2. \A v \in Int : InRange(sig, v) \in Int /\ InRange(sig, v) = In(v)
  BY RangeClamps
<1>3. ~low
  BY DEF MayBeLow
<1>4. r = IF y < 0 THEN -((-y) \div 1000 - 0) ELSE y \div 1000 - 0
  BY <1>3 DEF Raw
<1>5. y = Between(lo * 1000, InRange(sig, x) - 0, hi * 1000)
  BY DEF FromPhysical
<1>6. In(lo * 1000) <= x /\ x <= In(hi * 1000)
  <2>1. Limit(sig, lo) <= x /\ x <= Limit(sig, hi)
    OBVIOUS
  <2>2. Limit(sig, lo) = InRange(sig, lo * 1000 + 0) /\ Limit(sig, hi) = InRange(sig, hi * 1000 + 0)
    BY DEF Limit
  <2>3. lo * 1000 + 0 = lo * 1000 /\ hi * 1000 + 0 = hi * 1000 /\ lo * 1000 \in Int /\ hi * 1000 \in Int
    BY <1>1
  <2> HIDE DEF lo, hi, In, x
  <2> QED
    BY <1>2, <2>1, <2>2, <2>3
<1>7. UnmarshalPhysical(sig, data) = InRange(sig, r * 1000 + 0)
  BY RawIsRead
<1> HIDE DEF r, y, lo, hi, a, b, none
<1>8. y = Cut(lo * 1000, In(x), hi * 1000)
  <2> DEFINE v == InRange(sig, x) - 0
             m == lo * 1000
             M == hi * 1000
  <2>1. v = In(x) /\ v \in Int /\ y = Between(m, v, M) /\ m \in Int /\ M \in Int /\ m <= M
    BY <1>1, <1>2, <1>5
  <2> HIDE DEF v, m, M
  <2>2. Between(m, v, M) = Cut(m, v, M)
    BY <2>1, Clamped
  <2> QED
    BY <2>1, <2>2 DEF m, M
<1>9. none \in BOOLEAN
  BY DEF none
\* What is left is a multiple of the scale.
<1>10. \E j \in Int : y = 1000 * j /\ In(1000 * j) = x
  <2>1. In(x) = x
    <3>1. CASE none
      BY <3>1
    <3>2. CASE ~none
      BY <1>1, <1>6, <3>2
    <3> HIDE DEF In
    <3> QED
      BY <1>9, <3>1, <3>2
  <2>2. y \in {1000 * lo, 1000 * k, 1000 * hi}
    BY <1>1, <1>8, <2>1
  <2>3. In(y) = x
    <3>1. CASE none
      BY <1>1, <1>6, <1>8, <2>1, <3>1
    <3>2. CASE ~none
      BY <1>1, <1>6, <1>8, <2>1, <3>2
    <3> QED
      BY <1>9, <3>1, <3>2
  <2> HIDE DEF In
  <2> QED
    BY <1>1, <2>2, <2>3
<1> HIDE DEF In
<1>11. PICK j \in Int : y = 1000 * j /\ In(1000 * j) = x
  BY <1>10
<1>12. r = j
  <2>1. \A n \in Nat : (1000 * n) \div 1000 = n
    OBVIOUS
  <2>2. CASE j >= 0
    <3>1. y >= 0 /\ r = y \div 1000
      BY <1>4, <1>11, <2>2
    <3> QED
      BY <1>11, <2>1, <2>2, <3>1
  <2>3. CASE j < 0
    <3>1. -y = 1000 * (-j) /\ -j \in Nat /\ r = -((-y) \div 1000 - 0)
      BY <1>4, <1>11, <2>3
    <3>2. (-y) \div 1000 = -j
      BY <2>1, <3>1
    <3> QED
      BY <3>1, <3>2
  <2> QED
    BY <2>2, <2>3
<1>13. InRange(sig, r * 1000 + 0) = x
  <2>1. r * 1000 + 0 = 1000 * j /\ 1000 * j \in Int
    BY <1>12
  <2> QED
    BY <1>2, <1>11, <2>1
<1> QED
  BY <1>7, <1>13

LEMMA SilenceArrives ==
    ASSUME NEW sig, IsSignal(sig), sig.length = 1 => IsFlag(sig), NEW data, data \cap Bits(sig) = {}
    PROVE  UnmarshalPhysical(sig, data) = InRange(sig, 0 * sig.scale + sig.offset)
<1>1. sig.length \in Nat /\ sig.length - 1 \in 0 .. sig.length - 1
  BY DEF IsSignal
<1>2. Word(data, sig, sig.length) = 0
  BY <1>1, EmptyWord
<1>3. \A i \in 0 .. sig.length - 1 : Bit(sig, i) \notin data
  BY DEF Bits
<1>4. GetBits(data, sig) = 0
  BY <1>1, <1>2, <1>3 DEF GetBits
<1>5. CASE sig.length = 1
  <2>1. sig.start \notin data
    BY <1>3, <1>5, PlacesDiffer
  <2>2. InRange(sig, 1000 * 0) = 1000 * 0 /\ sig.scale = 1000 /\ sig.offset = 0
    BY <1>5 DEF IsFlag
  <2> QED
    BY <1>5, <2>1, <2>2 DEF UnmarshalPhysical
<1>6. CASE sig.length # 1
  BY <1>4, <1>6 DEF UnmarshalPhysical, ToPhysical
<1> QED
  BY <1>5, <1>6

-----------------------------------------------------------------------------
(* Frames                                                                  *)

LEMMA SpeltOnItsBits ==
    ASSUME NEW data, NEW other, NEW sig, data \cap Bits(sig) = other \cap Bits(sig), NEW w, Spells(data, sig, w)
    PROVE  Spells(other, sig, w)
<1>1. \A i \in 0 .. sig.length - 1 : Bit(sig, i) \in data <=> Bit(sig, i) \in other
  BY DEF Bits
<1> QED
  BY <1>1 DEF Spells

\* The signals of one message of a DBC file.
IsLayout(sigs) ==
    /\ IsSeq(sigs) /\ \A j \in DOMAIN sigs : IsSignal(sigs[j])
    /\ \A j, k \in DOMAIN sigs : sigs[j].name = sigs[k].name => j = k

\* Data spells what the command gives to the signals, and nothing where it gives nothing.
SpellsCommand(data, sigs, m, lows) ==
    LET Sets(sig) == sig.name \in DOMAIN m.Signals
        Value(sig) == Raw(sig, m.Signals[sig.name], sig.name \in lows) % Power2[sig.length]
    IN  /\ data \subseteq 0 .. 63
        /\ \A j \in DOMAIN sigs :
             (\A o \in DOMAIN sigs : o # j /\ Sets(sigs[o]) => Bits(sigs[o]) \cap Bits(sigs[j]) = {})
             => IF Sets(sigs[j]) THEN Spells(data, sigs[j], Value(sigs[j])) ELSE data \cap Bits(sigs[j]) = {}

LEMMA FrameSpells ==
    ASSUME NEW store, NEW m, NEW lows, NEW sigs, IsLayout(sigs), sigs = store.msgs[m.FrameID].signals
    PROVE  SpellsCommand(MakeFrame(store, m, lows).Data, sigs, m, lows)
<1> DEFINE Sets(sig) == sig.name \in DOMAIN m.Signals
           Real(sig)  == Raw(sig, m.Signals[sig.name], sig.name \in lows)
           Value(sig) == Real(sig) % Power2[sig.length]
           Write(data, sig) == IF Sets(sig) THEN SetBits(data, sig, Real(sig)) ELSE data
           Data == SUBSET (0 .. 63)
           len  == Len(sigs)
           Body(h) == [k \in 0 .. len |-> IF k = 0 THEN {} ELSE Write(h[k - 1], sigs[k])]
           written == CHOOSE h : h = Body(h)
           g == [n \in Nat |-> [d \in Data |-> IF n < len THEN Write(d, sigs[n + 1]) ELSE d]]
<1>1. len \in Nat /\ DOMAIN sigs = 1 .. len
  BY LenProperties DEF IsLayout, IsSeq
<1>2. \A j \in 1 .. len : IsSignal(sigs[j])
  BY <1>1 DEF IsLayout
<1>3. MakeFrame(store, m, lows).Data = written[len]
  BY DEF MakeFrame
<1> HIDE DEF len
<1>4. \A j \in 1 .. len : \A d \in Data :
         /\ Write(d, sigs[j]) \in Data
         /\ Sets(sigs[j]) => /\ Spells(Write(d, sigs[j]), sigs[j], Value(sigs[j]))
                              /\ Write(d, sigs[j]) \ Bits(sigs[j]) = d \ Bits(sigs[j])
         /\ ~Sets(sigs[j]) => Write(d, sigs[j]) = d
  <2> SUFFICES ASSUME NEW j \in 1 .. len, NEW d \in Data
               PROVE  /\ Write(d, sigs[j]) \in Data
                      /\ Sets(sigs[j]) => /\ Spells(Write(d, sigs[j]), sigs[j], Value(sigs[j]))
                                           /\ Write(d, sigs[j]) \ Bits(sigs[j]) = d \ Bits(sigs[j])
                      /\ ~Sets(sigs[j]) => Write(d, sigs[j]) = d
    OBVIOUS
  <2> DEFINE sig == sigs[j]
             raw == Real(sig)
  <2>1. IsSignal(sig) /\ d \subseteq 0 .. 63
    BY <1>2
  <2> HIDE DEF sig, raw
  <2>2. /\ SetBits(d, sig, raw) \subseteq 0 .. 63
        /\ Spells(SetBits(d, sig, raw), sig, raw % Power2[sig.length])
        /\ SetBits(d, sig, raw) \ Bits(sig) = d \ Bits(sig)
    BY <2>1, WriteSpells
  <2> QED
    BY <2>2 DEF sig, raw
<1> HIDE DEF Write
<1>5. g \in [Nat -> [Data -> Data]] /\ \A n \in Nat, d \in Data : g[n][d] = IF n < len THEN Write(d, sigs[n + 1]) ELSE d
  <2>1. ASSUME NEW n \in Nat, NEW d \in Data PROVE (IF n < len THEN Write(d, sigs[n + 1]) ELSE d) \in Data
    <3>1. n < len => n + 1 \in 1 .. len
      BY <1>1
    <3> HIDE DEF Data
    <3> QED
      BY <1>4, <3>1
  <2> HIDE DEF Data
  <2> QED
    BY <2>1
<1> HIDE DEF g
<1>6. PICK f \in [Nat -> Data] : Follows(f, {}, g)
  <2>1. {} \in Data
    OBVIOUS
  <2> HIDE DEF Data
  <2> QED
    BY <1>5, <2>1, Recursion
<1>7. f[0] = {} /\ \A n \in Nat : n < len => f[n + 1] = Write(f[n], sigs[n + 1])
  <2> HIDE DEF Data
  <2> QED
    BY <1>5, <1>6 DEF Follows
<1>8. \E h : h = Body(h)
  <2> DEFINE h == [k \in 0 .. len |-> f[k]]
  <2>1. ASSUME NEW k \in 0 .. len PROVE h[k] = IF k = 0 THEN {} ELSE Write(h[k - 1], sigs[k])
    <3>1. CASE k = 0
      BY <1>7, <3>1
    <3>2. CASE k # 0
      <4>1. k - 1 \in Nat /\ k - 1 < len /\ k - 1 + 1 = k /\ k - 1 \in 0 .. len
        BY <1>1, <3>2
      <4> QED
        BY <1>7, <3>2, <4>1
    <3> QED
      BY <3>1, <3>2
  <2>2. h = Body(h)
    BY <2>1
  <2> HIDE DEF h, Body
  <2> QED
    BY <2>2
<1>9. written = Body(written)
  <2> HIDE DEF Body
  <2> QED
    BY <1>8
<1> HIDE DEF written
<1>10. /\ written[0] = {}
       /\ \A k \in Nat : k < len => written[k + 1] = Write(written[k], sigs[k + 1])
  <2>0. \A k \in 0 .. len : written[k] = IF k = 0 THEN {} ELSE Write(written[k - 1], sigs[k])
    BY <1>9
  <2>1. written[0] = {}
    BY <1>1, <2>0
  <2>2. ASSUME NEW k \in Nat, k < len PROVE written[k + 1] = Write(written[k], sigs[k + 1])
    <3>1. k + 1 \in 0 .. len /\ k + 1 # 0 /\ k + 1 - 1 = k
      BY <1>1, <2>2
    <3>2. written[k + 1] = Write(written[k + 1 - 1], sigs[k + 1])
      BY <2>0, <3>1
    <3> QED
      BY <3>1, <3>2
  <2> QED
    BY <2>1, <2>2
<1> HIDE DEF Data
<1> DEFINE S == {k \in Nat : k <= len => written[k] \in Data}
<1>11. \A k \in Nat : k <= len => written[k] \in Data
  <2>1. 0 \in S
    BY <1>10 DEF Data
  <2>2. ASSUME NEW k \in Nat, k \in S PROVE k + 1 \in S
    <3> SUFFICES ASSUME k + 1 <= len PROVE written[k + 1] \in Data
      OBVIOUS
    <3>1. k < len /\ k + 1 \in 1 .. len /\ written[k] \in Data
      BY <1>1, <2>2
    <3>2. written[k + 1] = Write(written[k], sigs[k + 1])
      BY <1>10, <3>1
    <3> QED
      BY <1>4, <3>1, <3>2
  <2> HIDE DEF S
  <2>3. Nat \subseteq S
    BY <2>1, <2>2, Induction
  <2> QED
    BY <2>3 DEF S
<1> HIDE DEF S
<1>12. ASSUME NEW j \in 1 .. len,
              \A o \in 1 .. len : o # j /\ Sets(sigs[o]) => Bits(sigs[o]) \cap Bits(sigs[j]) = {}
       PROVE  IF Sets(sigs[j]) THEN Spells(written[len], sigs[j], Value(sigs[j]))
                                ELSE written[len] \cap Bits(sigs[j]) = {}
  <2> DEFINE Done(k) == /\ Sets(sigs[j]) /\ j <= k => Spells(written[k], sigs[j], Value(sigs[j]))
                        /\ ~(Sets(sigs[j]) /\ j <= k) => written[k] \cap Bits(sigs[j]) = {}
             T == {k \in Nat : k <= len => Done(k)}
  <2> HIDE DEF Done
  <2>1. 0 \in T
    <3>1. written[0] = {} /\ ~(j <= 0)
      BY <1>1, <1>10
    <3>2. Done(0)
      BY <3>1 DEF Done
    <3> QED
      BY <3>2
  <2>2. ASSUME NEW k \in Nat, k \in T PROVE k + 1 \in T
    <3> SUFFICES ASSUME k + 1 <= len PROVE Done(k + 1)
      OBVIOUS
    <3> DEFINE d == written[k]
               o == k + 1
    <3>1. k < len /\ o \in 1 .. len /\ d \in Data /\ Done(k) /\ written[o] = Write(d, sigs[o])
      BY <1>1, <1>10, <1>11, <2>2
    <3>2. CASE o = j /\ Sets(sigs[j])
      <4>1. Spells(Write(d, sigs[j]), sigs[j], Value(sigs[j]))
        BY <1>4, <3>1, <3>2
      <4>2. j <= k + 1
        BY <3>2
      <4> HIDE DEF Value, Sets
      <4> QED
        BY <3>1, <3>2, <4>1, <4>2 DEF Done
    <3>3. CASE o = j /\ ~Sets(sigs[j])
      <4>1. Write(d, sigs[j]) = d
        BY <1>4, <3>1, <3>3
      <4> HIDE DEF Value, Sets
      <4> QED
        BY <3>1, <3>3, <4>1 DEF Done
    <3>4. CASE o # j
      <4>1. written[o] \cap Bits(sigs[j]) = d \cap Bits(sigs[j])
        <5>1. CASE Sets(sigs[o])
          <6>1. Bits(sigs[o]) \cap Bits(sigs[j]) = {}
            BY <1>12, <3>1, <3>4, <5>1
          <6>2. Write(d, sigs[o]) \ Bits(sigs[o]) = d \ Bits(sigs[o])
            BY <1>4, <3>1, <5>1
          <6> QED
            BY <3>1, <6>1, <6>2
        <5>2. CASE ~Sets(sigs[o])
          <6>1. Write(d, sigs[o]) = d
            BY <1>4, <3>1, <5>2
          <6> QED
            BY <3>1, <6>1
        <5> QED
          BY <5>1, <5>2
      <4>2. j <= o <=> j <= k
        BY <1>1, <3>4
      <4> HIDE DEF Value, Sets
      <4>3. CASE Sets(sigs[j]) /\ j <= k
        <5>1. Spells(d, sigs[j], Value(sigs[j]))
          BY <3>1, <4>3 DEF Done
        <5>2. Spells(written[o], sigs[j], Value(sigs[j]))
          BY <4>1, <5>1, SpeltOnItsBits
        <5> QED
          BY <4>2, <4>3, <5>2 DEF Done
      <4>4. CASE ~(Sets(sigs[j]) /\ j <= k)
        BY <3>1, <4>1, <4>2, <4>4 DEF Done
      <4> QED
        BY <4>3, <4>4
    <3> QED
      BY <3>2, <3>3, <3>4
  <2> HIDE DEF T
  <2>3. len \in T
    BY <1>1, <2>1, <2>2, Induction
  <2>4. Done(len)
    BY <1>1, <2>3 DEF T
  <2>5. j <= len
    BY <1>1
  <2> HIDE DEF Value, Sets
  <2> QED
    BY <2>4, <2>5 DEF Done
<1>13. written[len] \subseteq 0 .. 63
  <2>1. written[len] \in Data
    BY <1>1, <1>11
  <2> QED
    BY <2>1 DEF Data
<1> HIDE DEF Data
<1>14. SpellsCommand(written[len], sigs, m, lows)
  BY <1>1, <1>12, <1>13 DEF SpellsCommand
<1> QED
  BY <1>3, <1>14

-----------------------------------------------------------------------------
(* What has been sent                                                      *)

LEMMA LastDefinition ==
    ASSUME NEW defs, IsDbc(defs), NEW id \in DOMAIN ParseDbcFile(defs).msgs
    PROVE  \E i \in DOMAIN defs : /\ ParseDbcFile(defs).msgs[id] = defs[i] /\ defs[i].id = id
                                  /\ \A j \in i + 1 .. Len(defs) : defs[j].id # id
<1> DEFINE is == {i \in DOMAIN defs : defs[i].id = id}
<1>1. DOMAIN defs = 1 .. Len(defs) /\ Len(defs) \in Nat
  BY LenProperties DEF IsDbc, IsSeq
<1>2. is \subseteq 1 .. Len(defs) /\ is # {} /\ ParseDbcFile(defs).msgs[id] = defs[Max(is)]
  BY <1>1 DEF ParseDbcFile
<1>3. Max(is) \in is /\ \A j \in is : j <= Max(is)
  <2>1. is \in SUBSET (0 .. Len(defs)) /\ is # {}
    BY <1>1, <1>2
  <2> HIDE DEF is
  <2> QED
    BY <1>1, <2>1, MaxIsGreatest
<1>4. \A j \in Max(is) + 1 .. Len(defs) : defs[j].id # id
  <2> SUFFICES ASSUME NEW j \in Max(is) + 1 .. Len(defs), defs[j].id = id PROVE FALSE
    OBVIOUS
  <2>1. Max(is) \in 1 .. Len(defs)
    BY <1>2, <1>3
  <2>2. j \in 1 .. Len(defs) /\ ~(j <= Max(is))
    BY <1>1, <2>1
  <2>3. j \in is
    BY <1>1, <2>2
  <2> QED
    BY <1>3, <2>2, <2>3
<1> QED
  BY <1>2, <1>3, <1>4

\* The bus of a frame that was sent has a DBC file, which defines the frame.
LEMMA WhatWasSent ==
    ASSUME IInv, Sent
    PROVE  LET defs  == DbcFile[config.dbcPath[last.payload.bus]]
               store == Store(last.payload.bus)
               m     == Command(last.payload)
           IN  /\ store.loaded /\ last.frame.ID \in DOMAIN store.msgs
               /\ last.frame.ID = m.FrameID /\ last.frame.IsExtended = Def.extended
               /\ \E i \in DOMAIN defs : /\ defs[i] = Def
                                         /\ \A j \in i + 1 .. Len(defs) : defs[j].id # last.frame.ID
               /\ IsLayout(Def.signals)
               /\ \A n \in DOMAIN Commanded : Commanded[n] \in Int
               /\ \E lows : /\ last.frame = MakeFrame(store, m, lows)
                            /\ \A n \in lows : \E sig \in ToSet(Def.signals) :
                                 sig.name = n /\ n \in DOMAIN Commanded /\ MayBeLow(sig, Commanded[n])
<1> DEFINE path  == config.dbcPath[last.payload.bus]
           defs  == DbcFile[path]
           store == Store(last.payload.bus)
           m     == Command(last.payload)
<1>1. m.BusID = last.payload.bus /\ Commanded = m.Signals
  BY DEF Command, Commanded
<1>2. /\ phase \in {"serve", "panic"} /\ Parses(last.payload) /\ last.payload.bus \in opened /\ Makes(store, m)
      /\ \E lows : /\ last.frame = MakeFrame(store, m, lows)
                   /\ \A n \in lows : \E sig \in ToSet(store.msgs[m.FrameID].signals) :
                        sig.name = n /\ n \in DOMAIN m.Signals /\ MayBeLow(sig, m.Signals[n])
  BY <1>1, Zenon DEF IInv, LastOK, Sent
<1>3. last.frame.ID = m.FrameID /\ last.frame.IsExtended = store.msgs[m.FrameID].extended
  <2>1. \A lows : /\ MakeFrame(store, m, lows).ID = m.FrameID
                  /\ MakeFrame(store, m, lows).IsExtended = store.msgs[m.FrameID].extended
    <3> HIDE DEF store, m
    <3> QED
      BY DEF MakeFrame
  <2> HIDE DEF store, m
  <2> QED
    BY <1>2, <2>1
<1>4. Def = store.msgs[m.FrameID]
  BY <1>3 DEF Def
<1>5. store.loaded /\ m.FrameID \in DOMAIN store.msgs
  BY <1>2 DEF Makes
<1>6. path # "" /\ path \in DOMAIN DbcFile
  <2>1. path # ""
    BY <1>5 DEF Store, NoDbc
  <2>2. path \in DOMAIN DbcFile \cup {""}
    BY <1>2 DEF IInv, OpenedOK
  <2> QED
    BY <2>1, <2>2
<1>7. store = ParseDbcFile(defs) /\ IsDbc(defs)
  BY <1>6, ControlPathAssumption DEF ControlPathAssumption, Store, Stores
<1> HIDE DEF store, defs, m
<1>8. PICK i \in DOMAIN defs : /\ store.msgs[m.FrameID] = defs[i] /\ defs[i].id = m.FrameID
                               /\ \A j \in i + 1 .. Len(defs) : defs[j].id # m.FrameID
  BY <1>5, <1>7, LastDefinition
<1>9. IsLayout(Def.signals)
  <2>1. Def = defs[i]
    BY <1>4, <1>8
  <2> QED
    BY <1>7, <2>1 DEF IsDbc, IsLayout
<1>10. \A n \in DOMAIN Commanded : Commanded[n] \in Int
  <2>1. \A n \in DOMAIN last.payload.signals :
          last.payload.signals[n] \in ({"bool"} \X BOOLEAN) \cup ({"number"} \X Int)
    BY <1>2 DEF Parses
  <2>2. \A v \in ({"bool"} \X BOOLEAN) \cup ({"number"} \X Int) : SignalToFloat64(v) \in Int
    BY DEF SignalToFloat64
  <2>3. Commanded = [n \in DOMAIN last.payload.signals |-> SignalToFloat64(last.payload.signals[n])]
    BY DEF Commanded, Command
  <2> QED
    BY <2>1, <2>2, <2>3
<1> QED
  BY <1>1, <1>2, <1>3, <1>4, <1>5, <1>8, <1>9, <1>10, ZenonT(40) DEF store, defs, m

LEMMA OneSignalPerName ==
    ASSUME NEW sigs, IsLayout(sigs)
    PROVE  \A s, t \in ToSet(sigs) : s.name = t.name => s = t
<1>1. \A s \in ToSet(sigs) : \E j \in DOMAIN sigs : s = sigs[j]
  BY DEF ToSet
<1> QED
  BY <1>1 DEF IsLayout

\* The names of the signals that are decoded.
DecodedNames(def, data) == {s.name : s \in {s \in ToSet(def.signals) : Decodes(def, s, data)}}

\* A receiver that knows a frame reads each signal it decodes from its bits.
LEMMA DecodedByName ==
    ASSUME NEW store, NEW f, store.loaded, f.ID \in DOMAIN store.msgs,
           NEW def, def = store.msgs[f.ID], IsLayout(def.signals)
    PROVE  /\ DOMAIN ParseFrame(store, f) = DecodedNames(def, f.Data)
           /\ \A sig \in ToSet(def.signals) :
                sig.name \in DOMAIN ParseFrame(store, f)
                => ParseFrame(store, f)[sig.name] = UnmarshalPhysical(sig, f.Data)
<1> DEFINE sigs == {s \in ToSet(def.signals) : Decodes(def, s, f.Data)}
           P    == ParseFrame(store, f)
<1>1. P = [n \in {s.name : s \in sigs} |-> UnmarshalPhysical(CHOOSE s \in sigs : s.name = n, f.Data)]
  BY DEF ParseFrame
<1>2. \A s, t \in ToSet(def.signals) : s.name = t.name => s = t
  BY OneSignalPerName
<1> HIDE DEF P
<1>3. ASSUME NEW sig \in ToSet(def.signals), sig.name \in DOMAIN P
      PROVE  P[sig.name] = UnmarshalPhysical(sig, f.Data)
  <2>1. sig \in sigs
    BY <1>1, <1>2, <1>3
  <2>2. (CHOOSE s \in sigs : s.name = sig.name) = sig
    BY <1>2, <2>1
  <2> QED
    BY <1>1, <2>1, <2>2
<1>4. DOMAIN P = DecodedNames(def, f.Data)
  BY <1>1 DEF DecodedNames
<1> QED
  BY <1>3, <1>4 DEF P

\* What stands in the bits of a signal that a receiver decodes.
LEMMA OnTheBus ==
    ASSUME IInv, Sent
    PROVE  /\ last.frame.Data \subseteq 0 .. 63
           /\ \A sig \in ToSet(Def.signals) :
                sig.name \in DOMAIN Decoded /\ ~Shared(sig) =>
                  /\ IsSignal(sig) /\ Decoded[sig.name] = UnmarshalPhysical(sig, last.frame.Data)
                  /\ ~Given(sig) => last.frame.Data \cap Bits(sig) = {}
                  /\ Given(sig) => \E low \in BOOLEAN :
                       /\ low => MayBeLow(sig, Commanded[sig.name])
                       /\ Commanded[sig.name] \in Int
                       /\ Spells(last.frame.Data, sig, Raw(sig, Commanded[sig.name], low) % Power2[sig.length])
<1> DEFINE store == Store(last.payload.bus)
           m     == Command(last.payload)
           data  == last.frame.Data
           sigs  == Def.signals
<1>1. /\ store.loaded /\ last.frame.ID \in DOMAIN store.msgs /\ last.frame.ID = m.FrameID
      /\ IsLayout(sigs) /\ Def = store.msgs[last.frame.ID] /\ m.Signals = Commanded
      /\ \A n \in DOMAIN Commanded : Commanded[n] \in Int
  BY WhatWasSent DEF Def, Commanded
<1>2. PICK lows : /\ last.frame = MakeFrame(store, m, lows)
                  /\ \A n \in lows : \E sig \in ToSet(sigs) :
                       sig.name = n /\ n \in DOMAIN Commanded /\ MayBeLow(sig, Commanded[n])
  BY WhatWasSent
<1> DEFINE Low(s)   == s.name \in lows
           Value(s) == Raw(s, Commanded[s.name], Low(s)) % Power2[s.length]
<1>3. /\ data \subseteq 0 .. 63
      /\ \A j \in DOMAIN sigs :
           (\A o \in DOMAIN sigs : o # j /\ Given(sigs[o]) => Bits(sigs[o]) \cap Bits(sigs[j]) = {})
           => IF Given(sigs[j]) THEN Spells(data, sigs[j], Value(sigs[j])) ELSE data \cap Bits(sigs[j]) = {}
  <2> HIDE DEF store, m, sigs
  <2>1. sigs = store.msgs[m.FrameID].signals /\ data = MakeFrame(store, m, lows).Data
    BY <1>1, <1>2 DEF sigs
  <2> HIDE DEF data
  <2>2. SpellsCommand(data, sigs, m, lows)
    BY <1>1, <2>1, FrameSpells
  <2> DEFINE Sets(s)  == s.name \in DOMAIN m.Signals
             Raws(s) == Raw(s, m.Signals[s.name], s.name \in lows) % Power2[s.length]
  <2>3. \A s : (Given(s) <=> Sets(s)) /\ Value(s) = Raws(s)
    BY <1>1 DEF Given
  <2>4. /\ data \subseteq 0 .. 63
        /\ \A j \in DOMAIN sigs :
             (\A o \in DOMAIN sigs : o # j /\ Sets(sigs[o]) => Bits(sigs[o]) \cap Bits(sigs[j]) = {})
             => IF Sets(sigs[j]) THEN Spells(data, sigs[j], Raws(sigs[j])) ELSE data \cap Bits(sigs[j]) = {}
    BY <2>2 DEF SpellsCommand
  <2> HIDE DEF Sets, Raws, Value
  <2> QED
    BY <2>3, <2>4
<1>4. \A sig \in ToSet(sigs) : sig.name \in DOMAIN Decoded => Decoded[sig.name] = UnmarshalPhysical(sig, data)
  <2> DEFINE f == last.frame
             d == Def
  <2>1. Decoded = ParseFrame(store, f)
    BY DEF Decoded
  <2>2. store.loaded /\ f.ID \in DOMAIN store.msgs /\ d = store.msgs[f.ID] /\ IsLayout(d.signals)
    BY <1>1
  <2> HIDE DEF store, f, d
  <2>3. \A sig \in ToSet(d.signals) : sig.name \in DOMAIN ParseFrame(store, f)
          => ParseFrame(store, f)[sig.name] = UnmarshalPhysical(sig, f.Data)
    BY <2>2, DecodedByName
  <2> QED
    BY <2>1, <2>3 DEF f, d
<1> DEFINE Clear(sig) == \A o \in ToSet(sigs) : o # sig /\ Given(o) => Bits(o) \cap Bits(sig) = {}
<1>5. \A sig : ~Shared(sig) => Clear(sig)
  BY DEF Shared
<1> HIDE DEF store, m, data, sigs
<1>6. ASSUME NEW sig \in ToSet(sigs), sig.name \in DOMAIN Decoded, Clear(sig)
      PROVE  /\ IsSignal(sig) /\ Decoded[sig.name] = UnmarshalPhysical(sig, data)
             /\ ~Given(sig) => data \cap Bits(sig) = {}
             /\ Given(sig) => \E low \in BOOLEAN :
                  /\ low => MayBeLow(sig, Commanded[sig.name])
                  /\ Commanded[sig.name] \in Int
                  /\ Spells(data, sig, Raw(sig, Commanded[sig.name], low) % Power2[sig.length])
  <2>1. PICK j \in DOMAIN sigs : sig = sigs[j]
    BY DEF ToSet
  <2>2. IsSignal(sig)
    BY <1>1, <2>1 DEF IsLayout
  <2>3. ASSUME NEW o \in DOMAIN sigs, o # j, Given(sigs[o]) PROVE Bits(sigs[o]) \cap Bits(sig) = {}
    <3>1. sigs[o] \in ToSet(sigs)
      BY DEF ToSet
    <3>2. sigs[o] # sig
      BY <1>1, <2>1, <2>3 DEF IsLayout
    <3> QED
      BY <1>6, <2>3, <3>1, <3>2
  <2>4. IF Given(sig) THEN Spells(data, sig, Value(sig)) ELSE data \cap Bits(sig) = {}
    <3> HIDE DEF Value
    <3> QED
      BY <1>3, <2>1, <2>3
  <2>5. Decoded[sig.name] = UnmarshalPhysical(sig, data)
    BY <1>4, <1>6
  <2>6. ASSUME Given(sig)
        PROVE  \E low \in BOOLEAN :
                 /\ low => MayBeLow(sig, Commanded[sig.name])
                 /\ Commanded[sig.name] \in Int
                 /\ Spells(data, sig, Raw(sig, Commanded[sig.name], low) % Power2[sig.length])
    <3> DEFINE low == Low(sig)
    <3>1. Commanded[sig.name] \in Int /\ low \in BOOLEAN
      BY <1>1, <2>6 DEF Given
    <3>2. low => MayBeLow(sig, Commanded[sig.name])
      <4> SUFFICES ASSUME sig.name \in lows PROVE MayBeLow(sig, Commanded[sig.name])
        OBVIOUS
      <4>1. PICK s \in ToSet(sigs) : s.name = sig.name /\ MayBeLow(s, Commanded[sig.name])
        BY <1>2
      <4>2. s = sig
        BY <1>1, <4>1, OneSignalPerName
      <4> QED
        BY <4>1, <4>2
    <3>3. Spells(data, sig, Raw(sig, Commanded[sig.name], low) % Power2[sig.length])
      BY <2>4, <2>6
    <3> HIDE DEF low
    <3> QED
      BY <3>1, <3>2, <3>3
  <2> QED
    BY <2>2, <2>4, <2>5, <2>6
<1> HIDE DEF Clear
<1> QED
  BY <1>3, <1>5, <1>6 DEF data, sigs

\* A receiver decodes what was commanded, within a step of each signal, saturated
\* and never wrapped, whatever the DBC file, the command and the other signals.
THEOREM CommandsArrive == Spec => []EndToEnd
<1>1. IInv => EndToEnd
  <2> DEFINE data == last.frame.Data
             want(s) == Between(Limit(s, MinRaw(s)), Commanded[s.name], Limit(s, MaxRaw(s)))
             got(s)  == Decoded[s.name]
  <2> SUFFICES ASSUME IInv, Sent
               PROVE  /\ data \subseteq 0 .. 63
                      /\ \A sig \in ToSet(Def.signals) :
                           sig.name \in DOMAIN Decoded /\ ~Shared(sig) /\ (sig.length = 1 => IsFlag(sig)) =>
                             IF Given(sig) THEN /\ Abs(want(sig) - got(sig)) <= sig.scale
                                                /\ Abs(got(sig) - sig.offset) <= Abs(want(sig) - sig.offset)
                                           ELSE got(sig) = Limit(sig, 0)
    BY DEF EndToEnd
  <2>1. data \subseteq 0 .. 63
    BY OnTheBus
  <2>2. ASSUME NEW sig \in ToSet(Def.signals), sig.name \in DOMAIN Decoded, ~Shared(sig),
               sig.length = 1 => IsFlag(sig)
        PROVE  IF Given(sig) THEN /\ Abs(want(sig) - got(sig)) <= sig.scale
                                  /\ Abs(got(sig) - sig.offset) <= Abs(want(sig) - sig.offset)
                             ELSE got(sig) = Limit(sig, 0)
    <3>1. IsSignal(sig) /\ got(sig) = UnmarshalPhysical(sig, data)
      BY <2>2, OnTheBus
    <3>2. CASE Given(sig)
      <4>1. PICK low \in BOOLEAN : /\ low => MayBeLow(sig, Commanded[sig.name])
                                   /\ Commanded[sig.name] \in Int
                                   /\ Spells(data, sig, Raw(sig, Commanded[sig.name], low) % Power2[sig.length])
        BY <2>2, <3>2, OnTheBus
      <4> DEFINE x == Commanded[sig.name]
      <4>2. /\ low => MayBeLow(sig, x)
            /\ x \in Int
            /\ Spells(data, sig, Raw(sig, x, low) % Power2[sig.length])
        BY <4>1
      <4> HIDE DEF x
      <4>3. LET w == Between(Limit(sig, MinRaw(sig)), x, Limit(sig, MaxRaw(sig)))
                g == UnmarshalPhysical(sig, data)
            IN  /\ Abs(w - g) <= sig.scale
                /\ Abs(g - sig.offset) <= Abs(w - sig.offset)
        BY <2>2, <3>1, <4>2, SignalArrives
      <4> QED
        BY <3>1, <3>2, <4>3 DEF x
    <3>3. CASE ~Given(sig)
      <4>1. data \cap Bits(sig) = {}
        BY <2>2, <3>3, OnTheBus
      <4>2. UnmarshalPhysical(sig, data) = Limit(sig, 0)
        BY <2>2, <3>1, <4>1, SilenceArrives DEF Limit
      <4> QED
        BY <3>1, <3>3, <4>2
    <3> QED
      BY <3>2, <3>3
  <2> QED
    BY <2>1, <2>2
<1> QED
  BY <1>1, Invariance, PTL

\* The physical value of a plain switch is the raw one.
LEMMA SwitchIsRaw ==
    ASSUME NEW sig, IsSignal(sig), NEW data,
           ~sig.signed, sig.scale = 1000, sig.offset = 0, sig.min = 0, sig.max = 0
    PROVE  UnmarshalPhysical(sig, data) \div 1000 = GetBits(data, sig)
<1>1. GetBits(data, sig) = Word(data, sig, sig.length)
  BY DEF GetBits
<1>2. sig.length \in Nat
  BY DEF IsSignal
<1>3. Word(data, sig, sig.length) \in Nat
  BY <1>2, WordsBitByBit, ZenonT(40)
<1>4. CASE sig.length = 1
  BY <1>1, <1>4, SingleBit DEF UnmarshalPhysical
<1>5. CASE sig.length # 1
  <2>1. UnmarshalPhysical(sig, data) = GetBits(data, sig) * 1000 + 0
    BY <1>5 DEF UnmarshalPhysical, ToPhysical, InRange
  <2>2. \A n \in Nat : (n * 1000 + 0) \div 1000 = n
    OBVIOUS
  <2> QED
    BY <1>1, <1>3, <2>1, <2>2
<1> QED
  BY <1>4, <1>5

\* A frame has the format of the last definition of its identifier, and a receiver
\* decodes the group that the multiplexer switch names and no other.
THEOREM GroupsAreDecoded == Spec => []RightGroup
<1>1. IInv => RightGroup
  <2> DEFINE store == Store(last.payload.bus)
             f     == last.frame
             d     == Def
             defs  == DbcFile[config.dbcPath[last.payload.bus]]
             sigs   == ToSet(d.signals)
             switch == {s \in sigs : s.switch}
             Plainly(s) == ~s.signed /\ s.scale = 1000 /\ s.offset = 0 /\ s.min = 0 /\ s.max = 0
             Chosen(x) == x.muxed => \E y \in switch : x.group = GetBits(f.Data, y)
  <2> SUFFICES ASSUME IInv, Sent
               PROVE  /\ \E i \in DOMAIN defs :
                           /\ defs[i] = d /\ f.IsExtended = defs[i].extended
                           /\ \A j \in i + 1 .. Len(defs) : defs[j].id # f.ID
                      /\ (\A s, t \in switch : s = t /\ Plainly(s)) =>
                           DOMAIN Decoded = {s.name : s \in {x \in sigs : Chosen(x)}}
    BY DEF RightGroup
  <2>1. \E i \in DOMAIN defs : /\ defs[i] = d /\ f.IsExtended = defs[i].extended
                               /\ \A j \in i + 1 .. Len(defs) : defs[j].id # f.ID
    <3>1. /\ f.IsExtended = d.extended
          /\ \E i \in DOMAIN defs : defs[i] = d /\ \A j \in i + 1 .. Len(defs) : defs[j].id # f.ID
      BY WhatWasSent
    <3> HIDE DEF f, d, defs
    <3> QED
      BY <3>1
  <2>2. ASSUME \A s, t \in switch : s = t /\ Plainly(s)
        PROVE  DOMAIN Decoded = {s.name : s \in {x \in sigs : Chosen(x)}}
    <3>1. store.loaded /\ f.ID \in DOMAIN store.msgs /\ d = store.msgs[f.ID] /\ IsLayout(d.signals)
      BY WhatWasSent DEF Def
    <3>2. Decoded = ParseFrame(store, f)
      BY DEF Decoded
    <3> HIDE DEF store, f, d
    <3>3. DOMAIN Decoded = {s.name : s \in {x \in sigs : Decodes(d, x, f.Data)}}
      <4>1. DOMAIN ParseFrame(store, f) = DecodedNames(d, f.Data)
        BY <3>1, DecodedByName
      <4> QED
        BY <3>2, <4>1 DEF DecodedNames
    <3> DEFINE places == {i \in DOMAIN d.signals : d.signals[i].switch}
               first  == d.signals[Min(places)]
    <3>4. places # {} => first \in switch
      <4>1. DOMAIN d.signals = 1 .. Len(d.signals) /\ Len(d.signals) \in Nat
        BY <3>1, LenProperties DEF IsLayout, IsSeq
      <4>2. places \in SUBSET Nat
        BY <4>1
      <4>3. places # {} => Min(places) \in places
        <5> HIDE DEF places
        <5> QED
          BY <4>2, MinIsLeast
      <4> QED
        BY <4>3 DEF ToSet
    <3>5. switch # {} => places # {}
      BY DEF ToSet
    <3>6. ASSUME NEW s \in switch PROVE UnmarshalPhysical(s, f.Data) \div 1000 = GetBits(f.Data, s)
      <4>1. IsSignal(s)
        BY <3>1 DEF IsLayout, ToSet
      <4>2. Plainly(s)
        BY <2>2
      <4> QED
        BY <4>1, <4>2, SwitchIsRaw
    <3>7. ASSUME NEW x \in sigs PROVE Decodes(d, x, f.Data) <=> Chosen(x)
      <4>1. Decodes(d, x, f.Data) <=>
              (~x.muxed \/ (places # {} /\ UnmarshalPhysical(first, f.Data) \div 1000 = x.group))
        BY DEF Decodes
      <4> HIDE DEF places, first
      <4>2. CASE switch = {}
        BY <3>4, <4>1, <4>2
      <4>3. CASE switch # {}
        <5>1. places # {} /\ first \in switch
          BY <3>4, <3>5, <4>3
        <5>2. UnmarshalPhysical(first, f.Data) \div 1000 = GetBits(f.Data, first)
          BY <3>6, <5>1
        <5>3. \A y \in switch : y = first
          BY <2>2, <5>1
        <5> QED
          BY <4>1, <5>1, <5>2, <5>3
      <4> QED
        BY <4>2, <4>3
    <3> HIDE DEF sigs, Chosen
    <3> QED
      BY <3>3, <3>7
  <2> QED
    BY <2>1, <2>2
<1> QED
  BY <1>1, Invariance, PTL

-----------------------------------------------------------------------------
(* What gamepadweb publishes                                               *)

\* The frames that a state of a gamepad can become.
PadMaps(s, opts) == {[FrameID |-> opts.ids[k], Signals |-> FrameSignals(s, opts, k)] : k \in FrameKinds}

LEMMA CommandMaps == \A s, opts : ToCommandMaps(s, opts) \in Seq(PadMaps(s, opts))
<1> SUFFICES ASSUME NEW s, NEW opts PROVE ToCommandMaps(s, opts) \in Seq(PadMaps(s, opts))
  OBVIOUS
<1> DEFINE X      == Seq(PadMaps(s, opts))
           Map(k) == [FrameID |-> opts.ids[k], Signals |-> FrameSignals(s, opts, k)]
           len    == Len(Order)
           Add(q, k) == IF Empty(opts.ids[k]) THEN q ELSE Append(q, Map(k))
           Body(h) == [n \in 0 .. len |-> IF n = 0 THEN <<>>
                                          ELSE IF Empty(opts.ids[Order[n]]) THEN h[n - 1]
                                          ELSE Append(h[n - 1], Map(Order[n]))]
           maps == CHOOSE h : h = Body(h)
           g == [n \in Nat |-> [q \in X |-> IF n < len THEN Add(q, Order[n + 1]) ELSE q]]
<1>1. len \in Nat /\ \A n \in 1 .. len : Order[n] \in FrameKinds
  BY DEF Order, FrameKinds
<1>2. ToCommandMaps(s, opts) = maps[len]
  BY DEF ToCommandMaps
<1> HIDE DEF len
<1>3. \A k \in FrameKinds : Map(k) \in PadMaps(s, opts)
  BY DEF PadMaps
<1>4. \A k \in FrameKinds, q \in X : Add(q, k) \in X
  <2> HIDE DEF Map
  <2> QED
    BY <1>3
<1> HIDE DEF Map
<1>5. g \in [Nat -> [X -> X]] /\ \A n \in Nat, q \in X : g[n][q] = IF n < len THEN Add(q, Order[n + 1]) ELSE q
  <2>1. ASSUME NEW n \in Nat, NEW q \in X PROVE (IF n < len THEN Add(q, Order[n + 1]) ELSE q) \in X
    <3>1. n < len => n + 1 \in 1 .. len
      BY <1>1
    <3> HIDE DEF X, Add
    <3> QED
      BY <1>1, <1>4, <3>1
  <2> HIDE DEF X, Add
  <2> QED
    BY <2>1
<1> HIDE DEF g
<1>6. PICK f \in [Nat -> X] : Follows(f, <<>>, g)
  <2>1. <<>> \in X
    OBVIOUS
  <2> HIDE DEF X
  <2> QED
    BY <1>5, <2>1, Recursion
<1>7. f[0] = <<>> /\ \A n \in Nat : n < len => f[n + 1] = Add(f[n], Order[n + 1])
  <2> HIDE DEF X, Add
  <2> QED
    BY <1>5, <1>6 DEF Follows
<1>8. \E h : h = Body(h)
  <2> DEFINE h == [n \in 0 .. len |-> f[n]]
  <2>1. ASSUME NEW n \in 0 .. len
        PROVE  h[n] = IF n = 0 THEN <<>> ELSE IF Empty(opts.ids[Order[n]]) THEN h[n - 1]
                                        ELSE Append(h[n - 1], Map(Order[n]))
    <3>1. CASE n = 0
      BY <1>7, <3>1
    <3>2. CASE n # 0
      <4>1. n - 1 \in Nat /\ n - 1 < len /\ n - 1 + 1 = n /\ n - 1 \in 0 .. len
        BY <1>1, <3>2
      <4> QED
        BY <1>7, <3>2, <4>1
    <3> QED
      BY <3>1, <3>2
  <2>2. h = Body(h)
    BY <2>1
  <2> HIDE DEF h, Body
  <2> QED
    BY <2>2
<1>9. maps = Body(maps)
  <2> HIDE DEF Body
  <2> QED
    BY <1>8
<1> HIDE DEF maps
<1>10. \A n \in 0 .. len : maps[n] = IF n = 0 THEN <<>> ELSE Add(maps[n - 1], Order[n])
  BY <1>9
<1> DEFINE S == {n \in Nat : n <= len => maps[n] \in X}
<1>11. Nat \subseteq S
  <2>1. 0 \in S
    <3>1. maps[0] = <<>>
      BY <1>1, <1>10
    <3>2. <<>> \in X
      OBVIOUS
    <3> HIDE DEF X
    <3> QED
      BY <3>1, <3>2
  <2>2. ASSUME NEW n \in Nat, n \in S PROVE n + 1 \in S
    <3> SUFFICES ASSUME n + 1 <= len PROVE maps[n + 1] \in X
      OBVIOUS
    <3>1. n + 1 \in 1 .. len /\ n + 1 \in 0 .. len /\ n + 1 # 0 /\ n + 1 - 1 = n /\ n <= len
      BY <1>1
    <3>2. maps[n] \in X
      BY <2>2, <3>1
    <3> HIDE DEF X, Add
    <3>3. maps[n + 1] = Add(maps[n], Order[n + 1])
      BY <1>10, <3>1
    <3> QED
      BY <1>1, <1>4, <3>1, <3>2, <3>3
  <2> HIDE DEF S
  <2> QED
    BY <2>1, <2>2, Induction
<1> HIDE DEF X
<1>12. maps[len] \in X
  BY <1>1, <1>11
<1> QED
  BY <1>2, <1>12 DEF X

\* The payloads that gamepadweb can publish.
PadOptions  == MapOptions(sc.web.map, sc.web.flags)
PadPayloads == {[json |-> TRUE, bus |-> sc.web.bus, frame |-> PadOptions.ids[k],
                 signals |-> FrameSignals(State(sc.input), PadOptions, k)] : k \in FrameKinds}

\* What gamepadweb publishes, and the last command, come from a readable state.
PadOK ==
    sc.input.kind = "pad" =>
    /\ outbox # <<>> => Readable(sc.input) /\ outbox \in Seq(PadPayloads)
    /\ Sent => Readable(sc.input) /\ last.payload \in PadPayloads

LEMMA PayloadsOfPad ==
    ASSUME sc.input.kind = "pad"
    PROVE  Payloads \in Seq(PadPayloads) /\ (Payloads # <<>> => Readable(sc.input))
<1>1. CASE ~Readable(sc.input)
  BY <1>1 DEF Payloads
<1>2. CASE Readable(sc.input)
  <2> DEFINE s    == State(sc.input)
             opts == PadOptions
             maps == ToCommandMaps(s, opts)
  <2>1. maps \in Seq(PadMaps(s, opts))
    BY CommandMaps
  <2>2. Payloads = [i \in DOMAIN maps |-> [json |-> TRUE, bus |-> sc.web.bus,
                                           frame |-> maps[i].FrameID, signals |-> maps[i].Signals]]
    BY <1>2 DEF Payloads, PadOptions
  <2> HIDE DEF maps, s, opts
  <2>3. DOMAIN maps = 1 .. Len(maps) /\ Len(maps) \in Nat /\ \A i \in 1 .. Len(maps) : maps[i] \in PadMaps(s, opts)
    BY <2>1
  <2>4. ASSUME NEW i \in 1 .. Len(maps) PROVE Payloads[i] \in PadPayloads
    <3>1. PICK k \in FrameKinds : maps[i] = [FrameID |-> opts.ids[k], Signals |-> FrameSignals(s, opts, k)]
      BY <2>3 DEF PadMaps
    <3>2. Payloads[i] = [json |-> TRUE, bus |-> sc.web.bus, frame |-> opts.ids[k],
                         signals |-> FrameSignals(s, opts, k)]
      <4>1. maps[i].FrameID = opts.ids[k] /\ maps[i].Signals = FrameSignals(s, opts, k)
        BY <3>1
      <4>2. i \in DOMAIN maps
        BY <2>3
      <4> QED
        BY <2>2, <4>1, <4>2
    <3> QED
      BY <3>2 DEF PadPayloads, s, opts
  <2>5. DOMAIN Payloads = 1 .. Len(maps)
    BY <2>2, <2>3
  <2>6. Payloads \in [1 .. Len(maps) -> PadPayloads]
    <3>1. Payloads = [i \in 1 .. Len(maps) |-> Payloads[i]]
      BY <2>2, <2>3
    <3> HIDE DEF Payloads, PadPayloads
    <3> QED
      BY <2>4, <3>1
  <2> QED
    BY <1>2, <2>3, <2>6
<1> QED
  BY <1>1, <1>2

LEMMA PadInvariance == Spec => []PadOK
<1>1. Init => PadOK
  BY DEF Init, PadOK, Sent
<1>2. PadOK /\ [Next]_vars => PadOK'
  <2> SUFFICES ASSUME PadOK, [Next]_vars PROVE PadOK'
    OBVIOUS
  <2>1. ASSUME UNCHANGED <<sc, outbox, last>> PROVE PadOK'
    BY <2>1 DEF PadOK, PadPayloads, PadOptions, Sent
  <2>2. ASSUME UNCHANGED sc PROVE PadPayloads' = PadPayloads
    BY <2>2 DEF PadPayloads, PadOptions
  <2>3. CASE Publish
    <3>1. UNCHANGED <<sc, last>> /\ outbox' \in {Payloads, <<>>}
      BY <2>3 DEF Publish
    <3>2. PadPayloads' = PadPayloads
      BY <2>2, <3>1
    <3> HIDE DEF PadPayloads
    <3>3. ASSUME sc.input.kind = "pad"
          PROVE  outbox' # <<>> => Readable(sc.input) /\ outbox' \in Seq(PadPayloads)
      <4>1. CASE outbox' = <<>>
        BY <4>1
      <4>2. CASE outbox' = Payloads
        <5>1. Payloads \in Seq(PadPayloads) /\ (Payloads # <<>> => Readable(sc.input))
          BY <3>3, PayloadsOfPad
        <5> HIDE DEF Payloads
        <5> QED
          BY <4>2, <5>1
      <4> QED
        BY <3>1, <4>1, <4>2
    <3> QED
      BY <3>1, <3>2, <3>3 DEF PadOK, Sent
  <2>4. ASSUME NEW p, NEW r, NEW frame, p = Head(outbox), outbox # <<>>, Executes(p, r, frame) PROVE PadOK'
    <3>1. UNCHANGED sc /\ outbox' = Tail(outbox) /\ last' = [payload |-> p, result |-> r, frame |-> frame]
      BY <2>4 DEF Executes
    <3>2. PadPayloads' = PadPayloads
      BY <2>2, <3>1
    <3>3. ASSUME sc.input.kind = "pad"
          PROVE  Tail(outbox) \in Seq(PadPayloads) /\ p \in PadPayloads /\ Readable(sc.input)
      BY <2>4, <3>3 DEF PadOK
    <3> QED
      BY <3>1, <3>2, <3>3 DEF PadOK, Sent
  <2>5. CASE Drop
    <3>1. outbox # <<>> /\ \E r \in {"invalid", "no handler", "no frame"} : Executes(Head(outbox), r, NoFrame)
      BY <2>5 DEF Drop
    <3> QED
      BY <2>4, <3>1
  <2>6. CASE SendFrame
    <3>1. outbox # <<>> /\ \E frame : Executes(Head(outbox), "sent", frame)
      BY <2>6 DEF SendFrame
    <3> QED
      BY <2>4, <3>1
  <2>7. CASE UNCHANGED vars
    BY <2>1, <2>7 DEF vars
  <2> QED
    BY <2>1, <2>3, <2>5, <2>6, <2>7
       DEF Next, LoadConfig, LoadFails, NewBroker, StartFails, Subscribe, NewTickerPanics, OpenCan
<1> QED
  BY <1>1, <1>2, PTL DEF Spec

-----------------------------------------------------------------------------
(* The signals of a frame of the gamepad                                   *)

\* No role has a name of its own.
DefaultNames(opts) == \A r \in DOMAIN DefaultName : opts.names[r] \in {"", DefaultName[r]}

\* Signals named by roles whose default names differ: one for each, with its value.
LEMMA NamedByDefault ==
    ASSUME NEW opts, DefaultNames(opts), NEW roles,
           \A i \in DOMAIN roles : roles[i] \in DOMAIN DefaultName,
           \A i, j \in DOMAIN roles : DefaultName[roles[i]] = DefaultName[roles[j]] => i = j,
           NEW values
    PROVE  /\ \A m : m \in DOMAIN Named(opts, roles, values) <=> \E i \in DOMAIN roles : m = DefaultName[roles[i]]
           /\ \A i \in DOMAIN roles : Named(opts, roles, values)[DefaultName[roles[i]]] = values[i]
<1> DEFINE Name(i) == IF opts.names[roles[i]] = "" THEN DefaultName[roles[i]] ELSE opts.names[roles[i]]
           Role(m) == CHOOSE i \in DOMAIN roles : Name(i) = m /\ \A j \in DOMAIN roles : Name(j) = m => j <= i
           N == Named(opts, roles, values)
<1>1. \A i \in DOMAIN roles : Name(i) = DefaultName[roles[i]]
  BY DEF DefaultNames
<1>2. N = [m \in {Name(i) : i \in DOMAIN roles} |-> values[Role(m)]]
  BY DEF Named
<1> HIDE DEF N, Name
<1>3. ASSUME NEW i \in DOMAIN roles PROVE Role(Name(i)) = i
  BY <1>1
<1> HIDE DEF Role
<1>4. ASSUME NEW i \in DOMAIN roles PROVE N[DefaultName[roles[i]]] = values[i]
  BY <1>1, <1>2, <1>3
<1>5. \A m : m \in DOMAIN N <=> \E i \in DOMAIN roles : m = DefaultName[roles[i]]
  BY <1>1, <1>2
<1> QED
  BY <1>4, <1>5 DEF N

LEMMA NamedPair ==
    ASSUME NEW opts, DefaultNames(opts), NEW r \in DOMAIN DefaultName, NEW t \in DOMAIN DefaultName,
           DefaultName[r] # DefaultName[t], NEW v, NEW w
    PROVE  LET N == Named(opts, <<r, t>>, <<v, w>>) IN
           DOMAIN N = {DefaultName[r], DefaultName[t]} /\ N[DefaultName[r]] = v /\ N[DefaultName[t]] = w
<1> DEFINE roles == <<r, t>>
           values == <<v, w>>
           N == Named(opts, roles, values)
<1>1. /\ DOMAIN roles = 1 .. 2 /\ roles[1] = r /\ roles[2] = t /\ values[1] = v /\ values[2] = w
      /\ 1 \in 1 .. 2 /\ 2 \in 1 .. 2 /\ \A i \in 1 .. 2 : i = 1 \/ i = 2
  OBVIOUS
<1> HIDE DEF roles, values
<1>2. /\ \A m : m \in DOMAIN N <=> \E i \in DOMAIN roles : m = DefaultName[roles[i]]
      /\ \A i \in DOMAIN roles : N[DefaultName[roles[i]]] = values[i]
  <2>1. /\ \A i \in DOMAIN roles : roles[i] \in DOMAIN DefaultName
        /\ \A i, j \in DOMAIN roles : DefaultName[roles[i]] = DefaultName[roles[j]] => i = j
    BY <1>1
  <2> QED
    BY <2>1, NamedByDefault
<1> HIDE DEF N
<1>3. N[DefaultName[r]] = v /\ N[DefaultName[t]] = w
  BY <1>1, <1>2
<1>4. DOMAIN N = {DefaultName[r], DefaultName[t]}
  BY <1>1, <1>2
<1> QED
  BY <1>3, <1>4 DEF N, roles, values

\* The signals of inputs whose names differ.
LEMMA SignalsByName ==
    ASSUME NEW Name, NEW values, \A i, j \in DOMAIN values : Name[i + 1] = Name[j + 1] => i = j
    PROVE  /\ \A n : n \in DOMAIN Signals(Name, values) <=> \E i \in DOMAIN values : n = Name[i + 1]
           /\ \A i \in DOMAIN values : Signals(Name, values)[Name[i + 1]] = values[i]
<1> DEFINE Index(n) == CHOOSE i \in DOMAIN values : Name[i + 1] = n
<1>1. Signals(Name, values) = [n \in {Name[i + 1] : i \in DOMAIN values} |-> values[Index(n)]]
  BY DEF Signals
<1>2. ASSUME NEW i \in DOMAIN values PROVE Index(Name[i + 1]) = i
  OBVIOUS
<1> HIDE DEF Index
<1> QED
  BY <1>1, <1>2

ButtonNames == {PressedName[i + 1] : i \in 0 .. 15}
StickNames  == {StickName[i + 1] : i \in 0 .. 3}

LEMMA NamesDiffer ==
    /\ \A i, j \in 0 .. 3 : StickName[i + 1] = StickName[j + 1] => i = j
    /\ \A i, j \in 0 .. 7 : AxisName[i + 1] = AxisName[j + 1] => i = j
    /\ \A i, j \in 0 .. 15 : PressedName[i + 1] = PressedName[j + 1] => i = j
    /\ \A i, j \in 0 .. 15 : ValueName[i + 1] = ValueName[j + 1] => i = j
<1>1. \A i, j \in 0 .. 3 : StickName[i + 1] = StickName[j + 1] => i = j
  BY DEF StickName
<1>2. \A i, j \in 0 .. 7 : AxisName[i + 1] = AxisName[j + 1] => i = j
  BY DEF AxisName
<1>3. \A i, j \in 0 .. 15 : PressedName[i + 1] = PressedName[j + 1] => i = j
  BY DEF PressedName
<1>4. \A i, j \in 0 .. 15 : ValueName[i + 1] = ValueName[j + 1] => i = j
  BY DEF ValueName
<1> QED
  BY <1>1, <1>2, <1>3, <1>4

\* The names of the gamepad's signals, by group.
AxisNames   == {AxisName[i + 1] : i \in 0 .. 7}
ValueNames  == {ValueName[i + 1] : i \in 0 .. 15}
BaseNames    == {"ControlCommand", "ControlValue"}
SteerNames   == {"SteeringCommand", "SteeringEnable"}
TriggerNames == {"BrakeCommand", "ThrottleCommand"}
HornNames    == {"HornCommand", "LightToggle", "ModeNext", "ModePrevious"}

LEMMA GroupsDiffer ==
    /\ StickNames = ToSet(StickName) /\ ButtonNames = ToSet(PressedName)
    /\ StickNames \cap (ButtonNames \cup AxisNames \cup ValueNames) = {}
    /\ ButtonNames \cap (AxisNames \cup ValueNames) = {}
    /\ (BaseNames \cup SteerNames \cup TriggerNames \cup HornNames)
         \cap (StickNames \cup ButtonNames \cup AxisNames \cup ValueNames) = {}
<1>1. StickNames = {"StickLX", "StickLY", "StickRX", "StickRY"}
  BY DEF StickNames, StickName
<1>2. \A n \in ButtonNames : n \in {"Btn00_P", "Btn01_P", "Btn02_P", "Btn03_P", "Btn04_P", "Btn05_P", "Btn06_P",
        "Btn07_P", "Btn08_P", "Btn09_P", "Btn10_P", "Btn11_P", "Btn12_P", "Btn13_P", "Btn14_P", "Btn15_P"}
  BY DEF ButtonNames, PressedName
<1>3. \A n \in ValueNames : n \in {"Btn00_V", "Btn01_V", "Btn02_V", "Btn03_V", "Btn04_V", "Btn05_V", "Btn06_V",
        "Btn07_V", "Btn08_V", "Btn09_V", "Btn10_V", "Btn11_V", "Btn12_V", "Btn13_V", "Btn14_V", "Btn15_V"}
  BY DEF ValueNames, ValueName
<1>4. \A n \in AxisNames : n \in {"Axis00", "Axis01", "Axis02", "Axis03", "Axis04", "Axis05", "Axis06", "Axis07"}
  BY DEF AxisNames, AxisName
<1>5. StickNames = ToSet(StickName)
  <2>1. DOMAIN StickName = 1 .. 4
    BY DEF StickName
  <2>2. \A i \in 1 .. 4 : i - 1 \in 0 .. 3 /\ StickName[i - 1 + 1] = StickName[i]
    OBVIOUS
  <2> QED
    BY <2>1, <2>2 DEF StickNames, ToSet
<1>6. ButtonNames = ToSet(PressedName)
  <2>1. DOMAIN PressedName = 1 .. 16
    BY DEF PressedName
  <2>2. \A i \in 1 .. 16 : i - 1 \in 0 .. 15 /\ PressedName[i - 1 + 1] = PressedName[i]
    OBVIOUS
  <2> QED
    BY <2>1, <2>2 DEF ButtonNames, ToSet
<1>7. StickNames \cap (ButtonNames \cup AxisNames \cup ValueNames) = {}
  BY <1>1, <1>2, <1>3, <1>4
<1>8. ButtonNames \cap (AxisNames \cup ValueNames) = {}
  <2>1. ButtonNames \cap AxisNames = {}
    BY <1>2, <1>4
  <2>2. ButtonNames \cap ValueNames = {}
    BY <1>2, <1>3
  <2> QED
    BY <2>1, <2>2
<1>9. (BaseNames \cup SteerNames \cup TriggerNames \cup HornNames)
         \cap (StickNames \cup ButtonNames \cup AxisNames \cup ValueNames) = {}
  <2>1. \A n \in BaseNames \cup SteerNames \cup TriggerNames \cup HornNames :
           n \notin StickNames /\ n \notin ButtonNames /\ n \notin AxisNames /\ n \notin ValueNames
    BY <1>1, <1>2, <1>3, <1>4 DEF BaseNames, SteerNames, TriggerNames, HornNames
  <2> QED
    BY <2>1
<1> QED
  BY <1>5, <1>6, <1>7, <1>8, <1>9

\* The signals of each frame and, of the frames a driver steers with, their values.
LEMMA FrameValues ==
    ASSUME NEW s, NEW opts, DefaultNames(opts)
    PROVE  LET S(kind)    == FrameSignals(s, opts, kind)
               Pressed(i) == Bool(ButtonPressed(s, i))
               Percent(v) == Number(RoundTo(v, MaxValue, 100))
           IN  /\ DOMAIN S("base") = BaseNames
               /\ S("base")["ControlCommand"] = Pressed(0)
               /\ S("base")["ControlValue"] = Percent(-Deflection(Axis(s, 1)))
               /\ DOMAIN S("steer") = SteerNames
               /\ S("steer")["SteeringCommand"] = Percent(Deflection(Axis(s, 0)))
               /\ S("steer")["SteeringEnable"] = Pressed(2)
               /\ DOMAIN S("trigger") = TriggerNames
               /\ S("trigger")["BrakeCommand"] = Percent(ButtonValue(s, 6))
               /\ S("trigger")["ThrottleCommand"] = Percent(ButtonValue(s, 7))
               /\ DOMAIN S("buttons") = HornNames
               /\ S("buttons")["HornCommand"] = Pressed(1) /\ S("buttons")["LightToggle"] = Pressed(3)
               /\ S("buttons")["ModeNext"] = Pressed(4) /\ S("buttons")["ModePrevious"] = Pressed(5)
               /\ DOMAIN S("gamepadMsg") = StickNames \cup ButtonNames
               /\ \A i \in 0 .. 3 : S("gamepadMsg")[StickName[i + 1]] = Number(AxisToInt8Physical(s, i))
               /\ \A i \in 0 .. 15 : S("gamepadMsg")[PressedName[i + 1]] = Pressed(i)
               /\ DOMAIN S("buttonsPressed") = ButtonNames
               /\ \A i \in 0 .. 15 : S("buttonsPressed")[PressedName[i + 1]] = Pressed(i)
               /\ DOMAIN S("axes0") \subseteq AxisNames /\ DOMAIN S("axes1") \subseteq AxisNames
               /\ DOMAIN S("buttonsValue0") \subseteq ValueNames /\ DOMAIN S("buttonsValue1") \subseteq ValueNames
<1> DEFINE S(kind)    == FrameSignals(s, opts, kind)
           Pressed(i) == Bool(ButtonPressed(s, i))
           Percent(v) == Number(RoundTo(v, MaxValue, 100))
           Value(i)   == Number(RoundTo(ButtonValue(s, i), 1, 1))
           Position(i) == Number(RoundTo(Axis(s, i), 1, 1))
           Int8(i)    == Number(AxisToInt8Physical(s, i))
\* The frames whose signals have roles.
<1>1. /\ DOMAIN S("base") = BaseNames
      /\ S("base")["ControlCommand"] = Pressed(0)
      /\ S("base")["ControlValue"] = Percent(-Deflection(Axis(s, 1)))
  <2> DEFINE v == Pressed(0)
             w == Percent(-Deflection(Axis(s, 1)))
             N == Named(opts, <<"controlCommand", "controlValue">>, <<v, w>>)
  <2>1. S("base") = N
    BY DEF FrameSignals
  <2> HIDE DEF v, w
  <2>2. DOMAIN N = {"ControlCommand", "ControlValue"} /\ N["ControlCommand"] = v /\ N["ControlValue"] = w
    <3>1. /\ DefaultName["controlCommand"] = "ControlCommand" /\ DefaultName["controlValue"] = "ControlValue"
          /\ "controlCommand" \in DOMAIN DefaultName /\ "controlValue" \in DOMAIN DefaultName
          /\ "ControlCommand" # "ControlValue"
      BY DEF DefaultName
    <3> QED
      BY <3>1, NamedPair
  <2> HIDE DEF N, S
  <2> QED
    BY <2>1, <2>2 DEF BaseNames, v, w
<1>2. /\ DOMAIN S("steer") = SteerNames
      /\ S("steer")["SteeringCommand"] = Percent(Deflection(Axis(s, 0)))
      /\ S("steer")["SteeringEnable"] = Pressed(2)
  <2> DEFINE v == Percent(Deflection(Axis(s, 0)))
             w == Pressed(2)
             N == Named(opts, <<"steeringCommand", "steeringEnable">>, <<v, w>>)
  <2>1. S("steer") = N
    BY DEF FrameSignals
  <2> HIDE DEF v, w
  <2>2. DOMAIN N = {"SteeringCommand", "SteeringEnable"} /\ N["SteeringCommand"] = v /\ N["SteeringEnable"] = w
    <3>1. /\ DefaultName["steeringCommand"] = "SteeringCommand" /\ DefaultName["steeringEnable"] = "SteeringEnable"
          /\ "steeringCommand" \in DOMAIN DefaultName /\ "steeringEnable" \in DOMAIN DefaultName
          /\ "SteeringCommand" # "SteeringEnable"
      BY DEF DefaultName
    <3> QED
      BY <3>1, NamedPair
  <2> HIDE DEF N, S
  <2> QED
    BY <2>1, <2>2 DEF SteerNames, v, w
<1>3. /\ DOMAIN S("trigger") = TriggerNames
      /\ S("trigger")["BrakeCommand"] = Percent(ButtonValue(s, 6))
      /\ S("trigger")["ThrottleCommand"] = Percent(ButtonValue(s, 7))
  <2> DEFINE v == Percent(ButtonValue(s, 6))
             w == Percent(ButtonValue(s, 7))
             N == Named(opts, <<"brakeCommand", "throttleCommand">>, <<v, w>>)
  <2>1. S("trigger") = N
    BY DEF FrameSignals
  <2> HIDE DEF v, w
  <2>2. DOMAIN N = {"BrakeCommand", "ThrottleCommand"} /\ N["BrakeCommand"] = v /\ N["ThrottleCommand"] = w
    <3>1. /\ DefaultName["brakeCommand"] = "BrakeCommand" /\ DefaultName["throttleCommand"] = "ThrottleCommand"
          /\ "brakeCommand" \in DOMAIN DefaultName /\ "throttleCommand" \in DOMAIN DefaultName
          /\ "BrakeCommand" # "ThrottleCommand"
      BY DEF DefaultName
    <3> QED
      BY <3>1, NamedPair
  <2> HIDE DEF N, S
  <2> QED
    BY <2>1, <2>2 DEF TriggerNames, v, w
<1>4. /\ DOMAIN S("buttons") = HornNames
      /\ S("buttons")["HornCommand"] = Pressed(1) /\ S("buttons")["LightToggle"] = Pressed(3)
      /\ S("buttons")["ModeNext"] = Pressed(4) /\ S("buttons")["ModePrevious"] = Pressed(5)
  <2> DEFINE roles  == <<"hornCommand", "lightToggle", "modeNext", "modePrevious">>
             values == <<Pressed(1), Pressed(3), Pressed(4), Pressed(5)>>
             N == Named(opts, roles, values)
  <2>1. S("buttons") = N
    BY DEF FrameSignals
  <2>2. /\ DOMAIN roles = 1 .. 4 /\ \A i \in 1 .. 4 : i \in {1, 2, 3, 4}
        /\ 1 \in 1 .. 4 /\ 2 \in 1 .. 4 /\ 3 \in 1 .. 4 /\ 4 \in 1 .. 4
        /\ values[1] = Pressed(1) /\ values[2] = Pressed(3) /\ values[3] = Pressed(4) /\ values[4] = Pressed(5)
    OBVIOUS
  <2>3. /\ DefaultName[roles[1]] = "HornCommand" /\ DefaultName[roles[2]] = "LightToggle"
        /\ DefaultName[roles[3]] = "ModeNext" /\ DefaultName[roles[4]] = "ModePrevious"
        /\ roles[1] \in DOMAIN DefaultName /\ roles[2] \in DOMAIN DefaultName
        /\ roles[3] \in DOMAIN DefaultName /\ roles[4] \in DOMAIN DefaultName
    BY DEF DefaultName
  <2> HIDE DEF roles, values
  <2>4. /\ \A m : m \in DOMAIN N <=> \E i \in DOMAIN roles : m = DefaultName[roles[i]]
        /\ \A i \in DOMAIN roles : N[DefaultName[roles[i]]] = values[i]
    <3>1. /\ \A i \in DOMAIN roles : roles[i] \in DOMAIN DefaultName
          /\ \A i, j \in DOMAIN roles : DefaultName[roles[i]] = DefaultName[roles[j]] => i = j
      BY <2>2, <2>3
    <3> QED
      BY <3>1, NamedByDefault
  <2> HIDE DEF N, S, Pressed
  <2>5. DOMAIN N = {"HornCommand", "LightToggle", "ModeNext", "ModePrevious"}
    BY <2>2, <2>3, <2>4
  <2>6. /\ N["HornCommand"] = Pressed(1) /\ N["LightToggle"] = Pressed(3)
        /\ N["ModeNext"] = Pressed(4) /\ N["ModePrevious"] = Pressed(5)
    BY <2>2, <2>3, <2>4
  <2> QED
    BY <2>1, <2>5, <2>6 DEF HornNames
\* The frames whose signals are numbered.
<1>5. /\ DOMAIN S("gamepadMsg") = StickNames \cup ButtonNames
      /\ \A i \in 0 .. 3 : S("gamepadMsg")[StickName[i + 1]] = Int8(i)
      /\ \A i \in 0 .. 15 : S("gamepadMsg")[PressedName[i + 1]] = Pressed(i)
  <2> DEFINE sticks  == [i \in 0 .. 3 |-> Int8(i)]
             buttons == [i \in 0 .. 15 |-> Pressed(i)]
             F == Signals(StickName, sticks)
             G == Signals(PressedName, buttons)
  <2>1. S("gamepadMsg") = Both(F, G)
    BY DEF FrameSignals
  <2>2. DOMAIN sticks = 0 .. 3 /\ \A i \in 0 .. 3 : sticks[i] = Int8(i)
    OBVIOUS
  <2>3. DOMAIN buttons = 0 .. 15 /\ \A i \in 0 .. 15 : buttons[i] = Pressed(i)
    OBVIOUS
  <2> HIDE DEF sticks, buttons, S, Int8, Pressed
  <2>4. /\ \A n : n \in DOMAIN F <=> \E i \in 0 .. 3 : n = StickName[i + 1]
        /\ \A i \in 0 .. 3 : F[StickName[i + 1]] = Int8(i)
    BY <2>2, NamesDiffer, SignalsByName
  <2>5. /\ \A n : n \in DOMAIN G <=> \E i \in 0 .. 15 : n = PressedName[i + 1]
        /\ \A i \in 0 .. 15 : G[PressedName[i + 1]] = Pressed(i)
    BY <2>3, NamesDiffer, SignalsByName
  <2> HIDE DEF F, G
  <2>6. DOMAIN F = StickNames /\ DOMAIN G = ButtonNames
    BY <2>4, <2>5 DEF StickNames, ButtonNames
  <2>7. \A i \in 0 .. 15 : PressedName[i + 1] \in ButtonNames /\ PressedName[i + 1] \notin StickNames
    BY GroupsDiffer DEF ButtonNames
  <2>8. S("gamepadMsg") = [n \in StickNames \cup ButtonNames |-> IF n \in StickNames THEN F[n] ELSE G[n]]
    BY <2>1, <2>6 DEF Both
  <2>9. \A i \in 0 .. 3 : StickName[i + 1] \in StickNames
    BY DEF StickNames
  <2> QED
    BY <2>4, <2>5, <2>7, <2>8, <2>9
<1>6. /\ DOMAIN S("buttonsPressed") = ButtonNames
      /\ \A i \in 0 .. 15 : S("buttonsPressed")[PressedName[i + 1]] = Pressed(i)
  <2> DEFINE buttons == [i \in 0 .. 15 |-> Pressed(i)]
             G == Signals(PressedName, buttons)
  <2>1. S("buttonsPressed") = G
    BY DEF FrameSignals
  <2>2. DOMAIN buttons = 0 .. 15 /\ \A i \in 0 .. 15 : buttons[i] = Pressed(i)
    OBVIOUS
  <2> HIDE DEF buttons, S, Pressed
  <2>3. /\ \A n : n \in DOMAIN G <=> \E i \in 0 .. 15 : n = PressedName[i + 1]
        /\ \A i \in 0 .. 15 : G[PressedName[i + 1]] = Pressed(i)
    BY <2>2, NamesDiffer, SignalsByName
  <2> HIDE DEF G
  <2> QED
    BY <2>1, <2>3 DEF ButtonNames
<1>7. DOMAIN S("axes0") \subseteq AxisNames /\ DOMAIN S("axes1") \subseteq AxisNames
  <2>1. S("axes0") = Signals(AxisName, [i \in 0 .. 3 |-> Position(i)])
    BY DEF FrameSignals
  <2>2. S("axes1") = Signals(AxisName, [i \in 4 .. 7 |-> Position(i)])
    BY DEF FrameSignals
  <2> HIDE DEF S, Position
  <2>3. DOMAIN S("axes0") \subseteq AxisNames
    BY <2>1 DEF Signals, AxisNames
  <2>4. DOMAIN S("axes1") \subseteq AxisNames
    BY <2>2 DEF Signals, AxisNames
  <2> QED
    BY <2>3, <2>4
<1>8. DOMAIN S("buttonsValue0") \subseteq ValueNames /\ DOMAIN S("buttonsValue1") \subseteq ValueNames
  <2>1. S("buttonsValue0") = Signals(ValueName, [i \in 0 .. 7 |-> Value(i)])
    BY DEF FrameSignals
  <2>2. S("buttonsValue1") = Signals(ValueName, [i \in 8 .. 15 |-> Value(i)])
    BY DEF FrameSignals
  <2> HIDE DEF S, Value
  <2>3. DOMAIN S("buttonsValue0") \subseteq ValueNames
    BY <2>1 DEF Signals, ValueNames
  <2>4. DOMAIN S("buttonsValue1") \subseteq ValueNames
    BY <2>2 DEF Signals, ValueNames
  <2> QED
    BY <2>3, <2>4
<1> HIDE DEF S, Pressed, Percent, Int8
<1> QED
  BY <1>1, <1>2, <1>3, <1>4, <1>5, <1>6, <1>7, <1>8 DEF S, Pressed, Percent, Int8

\* The frame commands a value.
Sends(name, x) == name \in DOMAIN Commanded /\ Commanded[name] = x

LEMMA PadFrame ==
    ASSUME IInv, PadOK, PadSent
    PROVE  LET s          == State(sc.input)
               Pressed(i) == IF ButtonPressed(s, i) THEN 1000 ELSE 0
               Percent(v) == RoundTo(v, MaxValue, 100)
           IN  /\ IsPad(sc.input) /\ Readable(sc.input)
               /\ Carries(ToSet(StickName)) => \A i \in 0 .. 3 : Sends(StickName[i + 1], AxisToInt8Physical(s, i))
               /\ Carries(ToSet(PressedName)) => \A i \in 0 .. 15 : Sends(PressedName[i + 1], Pressed(i))
               /\ Carries({"ControlCommand", "ControlValue"}) =>
                    /\ Sends("ControlCommand", Pressed(0))
                    /\ Sends("ControlValue", Percent(-Deflection(Axis(s, 1))))
               /\ Carries({"SteeringCommand", "SteeringEnable"}) =>
                    /\ Sends("SteeringCommand", Percent(Deflection(Axis(s, 0))))
                    /\ Sends("SteeringEnable", Pressed(2))
               /\ Carries({"BrakeCommand", "ThrottleCommand"}) =>
                    /\ Sends("BrakeCommand", Percent(ButtonValue(s, 6)))
                    /\ Sends("ThrottleCommand", Percent(ButtonValue(s, 7)))
               /\ Carries({"HornCommand", "LightToggle", "ModeNext", "ModePrevious"}) =>
                    /\ Sends("HornCommand", Pressed(1)) /\ Sends("LightToggle", Pressed(3))
                    /\ Sends("ModeNext", Pressed(4)) /\ Sends("ModePrevious", Pressed(5))
<1> DEFINE s          == State(sc.input)
           opts       == PadOptions
           Pressed(i) == IF ButtonPressed(s, i) THEN 1000 ELSE 0
           Percent(v) == RoundTo(v, MaxValue, 100)
           S(kind)    == FrameSignals(s, opts, kind)
<1>1. Readable(sc.input) /\ last.payload \in PadPayloads
  BY DEF PadOK, PadSent
<1>2. IsPad(sc.input)
  BY ControlPathAssumption DEF ControlPathAssumption, IInv, PadSent
<1>3. DefaultNames(opts)
  <2>1. opts.names = [r \in DOMAIN DefaultName |-> TrimName(sc.web.map.names[r])]
    BY DEF PadOptions, MapOptions, LoadMultiMapOptionsFromYAML
  <2>2. \A r \in DOMAIN DefaultName : sc.web.map.names[r] \in {"", " ", DefaultName[r]}
    BY DEF PadSent
  <2> HIDE DEF opts
  <2> QED
    BY <2>1, <2>2 DEF DefaultNames, TrimName
<1>4. PICK k \in FrameKinds : last.payload.signals = S(k)
  BY <1>1 DEF PadPayloads
<1>5. k \in {"base", "steer", "trigger", "buttons", "gamepadMsg", "axes0", "axes1",
             "buttonsPressed", "buttonsValue0", "buttonsValue1"}
  BY DEF FrameKinds, Order
<1>6. Commanded = [n \in DOMAIN S(k) |-> SignalToFloat64(S(k)[n])]
  BY <1>4 DEF Commanded, Command
<1>7. \A i : SignalToFloat64(Bool(ButtonPressed(s, i))) = Pressed(i)
  BY DEF SignalToFloat64, Bool
<1>8. \A x : SignalToFloat64(Number(x)) = x
  BY DEF SignalToFloat64, Number
<1> HIDE DEF s, opts
<1>9. /\ DOMAIN S("base") = BaseNames
      /\ S("base")["ControlCommand"] = Bool(ButtonPressed(s, 0))
      /\ S("base")["ControlValue"] = Number(Percent(-Deflection(Axis(s, 1))))
      /\ DOMAIN S("steer") = SteerNames
      /\ S("steer")["SteeringCommand"] = Number(Percent(Deflection(Axis(s, 0))))
      /\ S("steer")["SteeringEnable"] = Bool(ButtonPressed(s, 2))
      /\ DOMAIN S("trigger") = TriggerNames
      /\ S("trigger")["BrakeCommand"] = Number(Percent(ButtonValue(s, 6)))
      /\ S("trigger")["ThrottleCommand"] = Number(Percent(ButtonValue(s, 7)))
  BY <1>3, FrameValues
<1>10. /\ DOMAIN S("buttons") = HornNames
       /\ S("buttons")["HornCommand"] = Bool(ButtonPressed(s, 1))
       /\ S("buttons")["LightToggle"] = Bool(ButtonPressed(s, 3))
       /\ S("buttons")["ModeNext"] = Bool(ButtonPressed(s, 4))
       /\ S("buttons")["ModePrevious"] = Bool(ButtonPressed(s, 5))
  BY <1>3, FrameValues
<1>11. /\ DOMAIN S("gamepadMsg") = StickNames \cup ButtonNames
       /\ \A i \in 0 .. 3 : S("gamepadMsg")[StickName[i + 1]] = Number(AxisToInt8Physical(s, i))
       /\ \A i \in 0 .. 15 : S("gamepadMsg")[PressedName[i + 1]] = Bool(ButtonPressed(s, i))
       /\ DOMAIN S("buttonsPressed") = ButtonNames
       /\ \A i \in 0 .. 15 : S("buttonsPressed")[PressedName[i + 1]] = Bool(ButtonPressed(s, i))
       /\ DOMAIN S("axes0") \subseteq AxisNames /\ DOMAIN S("axes1") \subseteq AxisNames
       /\ DOMAIN S("buttonsValue0") \subseteq ValueNames /\ DOMAIN S("buttonsValue1") \subseteq ValueNames
  BY <1>3, FrameValues
<1> HIDE DEF S, Pressed, Percent
\* The frame of a name.
<1>12. \A names : Carries(names) => names \cap DOMAIN S(k) # {}
  BY <1>6 DEF Carries
<1>13. ASSUME Carries(StickNames)
       PROVE  \A i \in 0 .. 3 : Sends(StickName[i + 1], AxisToInt8Physical(s, i))
  <2>1. k = "gamepadMsg"
    BY <1>5, <1>9, <1>10, <1>11, <1>12, <1>13, GroupsDiffer
  <2>2. \A i \in 0 .. 3 : StickName[i + 1] \in DOMAIN S(k)
    BY <2>1, <1>11 DEF StickNames
  <2> QED
    BY <1>6, <1>8, <1>11, <2>1, <2>2 DEF Sends
<1>14. ASSUME Carries(ButtonNames)
       PROVE  \A i \in 0 .. 15 : Sends(PressedName[i + 1], Pressed(i))
  <2>1. k = "gamepadMsg" \/ k = "buttonsPressed"
    BY <1>5, <1>9, <1>10, <1>11, <1>12, <1>14, GroupsDiffer
  <2>2. \A i \in 0 .. 15 : PressedName[i + 1] \in DOMAIN S(k)
    BY <2>1, <1>11 DEF ButtonNames
  <2> QED
    BY <1>6, <1>7, <1>11, <2>1, <2>2 DEF Sends
<1>15. ASSUME Carries({"ControlCommand", "ControlValue"})
       PROVE  Sends("ControlCommand", Pressed(0)) /\ Sends("ControlValue", Percent(-Deflection(Axis(s, 1))))
  <2>1. k = "base"
    BY <1>5, <1>9, <1>10, <1>11, <1>12, <1>15, GroupsDiffer DEF BaseNames, SteerNames, TriggerNames, HornNames
  <2> QED
    BY <1>6, <1>7, <1>8, <1>9, <2>1 DEF Sends, BaseNames
<1>16. ASSUME Carries({"SteeringCommand", "SteeringEnable"})
       PROVE  Sends("SteeringCommand", Percent(Deflection(Axis(s, 0)))) /\ Sends("SteeringEnable", Pressed(2))
  <2>1. k = "steer"
    BY <1>5, <1>9, <1>10, <1>11, <1>12, <1>16, GroupsDiffer DEF BaseNames, SteerNames, TriggerNames, HornNames
  <2> QED
    BY <1>6, <1>7, <1>8, <1>9, <2>1 DEF Sends, SteerNames
<1>17. ASSUME Carries({"BrakeCommand", "ThrottleCommand"})
       PROVE  Sends("BrakeCommand", Percent(ButtonValue(s, 6))) /\ Sends("ThrottleCommand", Percent(ButtonValue(s, 7)))
  <2>1. k = "trigger"
    BY <1>5, <1>9, <1>10, <1>11, <1>12, <1>17, GroupsDiffer DEF BaseNames, SteerNames, TriggerNames, HornNames
  <2> QED
    BY <1>6, <1>7, <1>8, <1>9, <2>1 DEF Sends, TriggerNames
<1>18. ASSUME Carries({"HornCommand", "LightToggle", "ModeNext", "ModePrevious"})
       PROVE  /\ Sends("HornCommand", Pressed(1)) /\ Sends("LightToggle", Pressed(3))
              /\ Sends("ModeNext", Pressed(4)) /\ Sends("ModePrevious", Pressed(5))
  <2>1. k = "buttons"
    BY <1>5, <1>9, <1>10, <1>11, <1>12, <1>18, GroupsDiffer DEF BaseNames, SteerNames, TriggerNames, HornNames
  <2> QED
    BY <1>6, <1>7, <1>10, <2>1 DEF Sends, HornNames
<1>19. StickNames = ToSet(StickName) /\ ButtonNames = ToSet(PressedName)
  BY GroupsDiffer
<1> QED
  BY <1>1, <1>2, <1>13, <1>14, <1>15, <1>16, <1>17, <1>18, <1>19 DEF s, Pressed, Percent

-----------------------------------------------------------------------------
(* From a stick and a button to the bus                                    *)

\* A deflection in tenths of a percent.
LEMMA PercentIsNear ==
    ASSUME NEW v \in -U .. U
    PROVE  LET x == RoundTo(v, MaxValue, 100) IN
           /\ x \in Int /\ -100000 <= x /\ x <= 100000 /\ Abs(x * U - v * 100000) <= 50 * U
           /\ v >= 0 => x >= 0
           /\ v = 0 => x = 0
           /\ 100 * Abs(v) >= 12 * U => Sign(x) = Sign(v) /\ Abs(x) > 100
<1> DEFINE n == Abs(v)
           q == (200000 * n + 51000) \div 102000
           x == RoundTo(v, MaxValue, 100)
<1>1. n \in 0 .. 510 /\ (v = n \/ v = -n) /\ v \in Int
  BY DEF Abs, U
<1>2. x = 100 * (Sign(v) * q)
  <2>1. v * 100 * 1000 = 100000 * v /\ U * 100 = 51000 /\ 2 * (U * 100) = 102000
    BY <1>1 DEF U
  <2>2. Abs(100000 * v) = 100000 * n /\ Sign(100000 * v) = Sign(v) /\ 2 * (100000 * n) = 200000 * n
    BY <1>1 DEF Abs, Sign
  <2>3. Round(100000 * v, 51000) = Sign(v) * ((200000 * n + 51000) \div 102000)
    <3>1. 2 * 51000 = 102000
      OBVIOUS
    <3> HIDE DEF n
    <3> QED
      BY <2>2, <3>1 DEF Round
  <2> QED
    BY <2>1, <2>3 DEF RoundTo, MaxValue
<1> HIDE DEF n
<1>3. q \in Nat /\ 102000 * q <= 200000 * n + 51000 /\ 200000 * n + 51000 < 102000 * q + 102000
  BY <1>1
<1> HIDE DEF q
<1>4. Sign(v) * q = IF v < 0 THEN -q ELSE q
  BY <1>3 DEF Sign
<1>5. x = IF v < 0 THEN -(100 * q) ELSE 100 * q
  BY <1>2, <1>3, <1>4
<1> SUFFICES /\ x \in Int /\ -100000 <= x /\ x <= 100000 /\ Abs(x * U - v * 100000) <= 50 * U
             /\ v >= 0 => x >= 0
             /\ v = 0 => x = 0
             /\ 100 * Abs(v) >= 12 * U => Sign(x) = Sign(v) /\ Abs(x) > 100
  OBVIOUS
<1> HIDE DEF x
<1>6. x \in Int /\ -100000 <= x /\ x <= 100000
  <2>1. q <= 1000
    BY <1>1, <1>3
  <2> QED
    BY <1>1, <1>3, <1>5, <2>1
<1>7. Abs(x * U - v * 100000) <= 50 * U
  <2>1. CASE v < 0
    <3>1. v = -n /\ x = -(100 * q) /\ x * U = -(51000 * q) /\ v * 100000 = -(100000 * n) /\ 50 * U = 25500
      BY <1>1, <1>3, <1>5, <2>1 DEF U
    <3> QED
      BY <1>1, <1>3, <3>1 DEF Abs
  <2>2. CASE v >= 0
    <3>1. v = n /\ x = 100 * q /\ x * U = 51000 * q /\ v * 100000 = 100000 * n /\ 50 * U = 25500
      BY <1>1, <1>3, <1>5, <2>2 DEF U
    <3> QED
      BY <1>1, <1>3, <3>1 DEF Abs
  <2> QED
    BY <1>1, <2>1, <2>2
<1>8. /\ v >= 0 => x >= 0
      /\ v = 0 => x = 0
  BY <1>1, <1>3, <1>5
<1>9. ASSUME 100 * Abs(v) >= 12 * U PROVE Sign(x) = Sign(v) /\ Abs(x) > 100
  <2>1. n >= 61
    BY <1>1, <1>9 DEF U, n
  <2>2. q >= 100
    BY <1>1, <1>3, <2>1
  <2> QED
    BY <1>1, <1>3, <1>5, <2>2 DEF Sign, Abs
<1> QED
  BY <1>6, <1>7, <1>8, <1>9

\* A stick in steps of one.
LEMMA StickInSteps ==
    ASSUME NEW s, NEW i, Axis(s, i) \in -U .. U
    PROVE  \E k \in -128 .. 127 :
             /\ AxisToInt8Physical(s, i) = 1000 * k
             /\ 2 * Abs(1000 * k * U - 1000 * Axis(s, i) * IF Axis(s, i) < 0 THEN 128 ELSE 127) <= 1000 * U
<1> DEFINE v == Axis(s, i)
           n == Abs(v)
           up   == (2 * (127 * n) + 510) \div 1020
           down == (2 * (128 * n) + 510) \div 1020
<1>1. n \in 0 .. 510 /\ v \in Int /\ (v < 0 => v = -n) /\ (v >= 0 => v = n)
  BY DEF Abs, U
<1>2. AxisToInt8Physical(s, i) =
        1000 * IF v >= 0 THEN Clamp(Round(v * 127, U), 0, 127) ELSE Clamp(Round(v * 128, U), -128, 0)
  BY DEF AxisToInt8Physical
<1> HIDE DEF n, v
<1>3. CASE v >= 0
  <2>1. Round(v * 127, U) = up
    <3>1. v * 127 = 127 * n /\ Abs(127 * n) = 127 * n /\ Sign(127 * n) = 1 /\ 2 * U = 1020 /\ U = 510
      BY <1>1, <1>3 DEF Abs, Sign, U
    <3>2. up \in Int /\ 1 * up = up
      BY <1>1
    <3> QED
      BY <3>1, <3>2 DEF Round
  <2>2. up \in Nat /\ 1020 * up <= 254 * n + 510 /\ 254 * n + 510 < 1020 * up + 1020
    BY <1>1
  <2> HIDE DEF up
  <2>3. up \in 0 .. 127
    BY <1>1, <2>2
  <2>4. AxisToInt8Physical(s, i) = 1000 * up
    BY <1>2, <1>3, <2>1, <2>3 DEF Clamp
  <2>5. 2 * Abs(1000 * up * U - 1000 * v * 127) <= 1000 * U
    BY <1>1, <1>3, <2>2, <2>3 DEF Abs, U
  <2>6. ~(v < 0) /\ up \in -128 .. 127
    BY <1>1, <1>3, <2>3
  <2> QED
    BY <2>4, <2>5, <2>6 DEF v
<1>4. CASE v < 0
  <2>1. Round(v * 128, U) = -down
    <3>1. v * 128 = -(128 * n) /\ Abs(-(128 * n)) = 128 * n /\ Sign(-(128 * n)) = -1 /\ 2 * U = 1020 /\ U = 510
      BY <1>1, <1>4 DEF Abs, Sign, U
    <3>2. down \in Int /\ (-1) * down = -down
      BY <1>1
    <3> QED
      BY <3>1, <3>2 DEF Round
  <2>2. down \in Nat /\ 1020 * down <= 256 * n + 510 /\ 256 * n + 510 < 1020 * down + 1020
    BY <1>1
  <2> HIDE DEF down
  <2>3. -down \in -128 .. 0
    BY <1>1, <2>2
  <2>4. AxisToInt8Physical(s, i) = 1000 * (-down)
    BY <1>1, <1>2, <1>4, <2>1, <2>3 DEF Clamp
  <2>5. 2 * Abs(1000 * (-down) * U - 1000 * v * 128) <= 1000 * U
    BY <1>1, <1>4, <2>2, <2>3 DEF Abs, U
  <2>6. -down \in -128 .. 127
    BY <2>3
  <2> QED
    BY <1>4, <2>4, <2>5, <2>6 DEF v
<1> QED
  BY <1>1, <1>3, <1>4

\* An axis of a state, and a button in each of its formats.
LEMMA AxisInRange == \A pad : IsPad(pad) => \A i \in Int : Axis(State(pad), i) \in -U .. U
  BY DEF IsPad, State, Axis, Clamp, U

LEMMA ButtonRead ==
    ASSUME NEW pad, IsPad(pad), Readable(pad), NEW i \in Nat
    PROVE  LET b    == pad.buttons[i + 1]
               held == /\ i + 1 \in DOMAIN pad.buttons
                       /\ \/ b.json \in {"bool", "object"} /\ b.pressed
                          \/ b.json \in {"number", "object"} /\ 2 * b.value > U
               analog == IF i + 1 \in DOMAIN pad.buttons /\ b.json \in {"number", "object"}
                         THEN Clamp(b.value, 0, U) ELSE 0
           IN  /\ ButtonPressed(State(pad), i) <=> held
               /\ ButtonValue(State(pad), i) \in 0 .. U
               /\ \/ ButtonValue(State(pad), i) = analog
                  \/ held /\ analog = 0 /\ ButtonValue(State(pad), i) = U
<1> DEFINE b == pad.buttons[i + 1]
           u == UnmarshalJSON(b)
           B == State(pad).Buttons
           there == i + 1 \in DOMAIN pad.buttons
           held == /\ there
                   /\ \/ b.json \in {"bool", "object"} /\ b.pressed
                      \/ b.json \in {"number", "object"} /\ 2 * b.value > U
           analog == IF there /\ b.json \in {"number", "object"} THEN Clamp(b.value, 0, U) ELSE 0
           pressed == ButtonPressed(State(pad), i)
           value   == ButtonValue(State(pad), i)
<1>1. B = [j \in DOMAIN pad.buttons |-> UnmarshalJSON(pad.buttons[j])]
  BY DEF State
<1>2. pressed <=> there /\ u.Pressed
  BY <1>1 DEF ButtonPressed
<1>3. value = IF there THEN u.Value ELSE 0
  BY <1>1 DEF ButtonValue
<1> SUFFICES (pressed <=> held) /\ value \in 0 .. U /\ (value = analog \/ (held /\ analog = 0 /\ value = U))
  OBVIOUS
<1>4. CASE ~there
  BY <1>2, <1>3, <1>4 DEF U
<1>5. CASE there
  <2>1. b.json \in {"bool", "null", "number", "object"} /\ b.pressed \in BOOLEAN /\ b.value \in Int
    BY <1>5 DEF IsPad, Readable
  <2> HIDE DEF b, pressed, value, there
  <2>2. CASE b.json = "bool"
    <3>1. u.Pressed = b.pressed /\ u.Value = IF b.pressed THEN U ELSE 0
      BY <2>2 DEF UnmarshalJSON
    <3> QED
      BY <1>2, <1>3, <1>5, <2>1, <2>2, <3>1 DEF U
  <2>3. CASE b.json = "null"
    <3>1. u.Pressed = FALSE /\ u.Value = 0
      BY <2>3 DEF UnmarshalJSON
    <3> QED
      BY <1>2, <1>3, <1>5, <2>1, <2>3, <3>1 DEF U
  <2>4. CASE b.json = "number"
    <3>1. u.Pressed = (2 * Clamp(b.value, 0, U) > U) /\ u.Value = Clamp(b.value, 0, U)
      BY <2>4 DEF UnmarshalJSON
    <3>2. (2 * Clamp(b.value, 0, U) > U <=> 2 * b.value > U) /\ Clamp(b.value, 0, U) \in 0 .. U
      BY <2>1 DEF Clamp, U
    <3> QED
      BY <1>2, <1>3, <1>5, <2>1, <2>4, <3>1, <3>2
  <2>5. CASE b.json = "object"
    <3>1. /\ u.Pressed = (b.pressed \/ 2 * Clamp(b.value, 0, U) > U)
          /\ u.Value = IF Clamp(b.value, 0, U) = 0 /\ b.pressed THEN U ELSE Clamp(b.value, 0, U)
      BY <2>5 DEF UnmarshalJSON
    <3>2. (2 * Clamp(b.value, 0, U) > U <=> 2 * b.value > U) /\ Clamp(b.value, 0, U) \in 0 .. U /\ U \in 0 .. U
      BY <2>1 DEF Clamp, U
    <3> QED
      BY <1>2, <1>3, <1>5, <2>1, <2>5, <3>1, <3>2
  <2> QED
    BY <2>1, <2>2, <2>3, <2>4, <2>5
<1> QED
  BY <1>4, <1>5

\* A whole value, and one in tenths or less, at the receiver.
LEMMA WholeOnBus ==
    ASSUME IInv, Sent, NEW sig \in ToSet(Def.signals), sig.name \in DOMAIN Decoded, ~Shared(sig),
           NEW lo \in Int, NEW hi \in Int, Whole(sig, lo, hi),
           NEW k \in Int, lo <= 1000 * k, 1000 * k <= hi, Sends(sig.name, 1000 * k)
    PROVE  Decoded[sig.name] = 1000 * k
<1> DEFINE data == last.frame.Data
           x    == Commanded[sig.name]
<1>1. Given(sig) /\ x = 1000 * k
  BY DEF Given, Sends
<1>2. IsSignal(sig) /\ Decoded[sig.name] = UnmarshalPhysical(sig, data)
  BY OnTheBus
<1>3. PICK low \in BOOLEAN : /\ low => MayBeLow(sig, x)
                             /\ Spells(data, sig, Raw(sig, x, low) % Power2[sig.length])
  BY <1>1, OnTheBus
<1> HIDE DEF x, data
<1>4. /\ low => MayBeLow(sig, 1000 * k)
      /\ Spells(data, sig, Raw(sig, 1000 * k, low) % Power2[sig.length])
  BY <1>1, <1>3
<1>5. /\ sig.length = 1 => IsFlag(sig)
      /\ sig.scale = 1000 /\ sig.offset = 0
      /\ Limit(sig, MinRaw(sig)) <= lo /\ hi <= Limit(sig, MaxRaw(sig))
  BY DEF Whole, Holds
<1>6. Limit(sig, MinRaw(sig)) \in Int /\ Limit(sig, MaxRaw(sig)) \in Int
  <2>1. MinRaw(sig) * sig.scale + sig.offset \in Int /\ MaxRaw(sig) * sig.scale + sig.offset \in Int
    BY <1>2, <1>5, RawLimits
  <2> QED
    BY <1>2, <2>1, RangeClamps DEF Limit
<1>7. Limit(sig, MinRaw(sig)) <= 1000 * k /\ 1000 * k <= Limit(sig, MaxRaw(sig))
  BY <1>5, <1>6
<1>8. UnmarshalPhysical(sig, data) = 1000 * k
  BY <1>2, <1>4, <1>5, <1>7, WholeArrives
<1> QED
  BY <1>2, <1>8

LEMMA FineOnBus ==
    ASSUME IInv, Sent, NEW sig \in ToSet(Def.signals), sig.name \in DOMAIN Decoded, ~Shared(sig),
           NEW lo \in Int, NEW hi \in Int, Fine(sig, lo, hi),
           NEW x \in Int, lo <= x, x <= hi, Sends(sig.name, x)
    PROVE  /\ Decoded[sig.name] \in Int
           /\ Abs(x - Decoded[sig.name]) <= 100 /\ Abs(Decoded[sig.name]) <= Abs(x)
<1> DEFINE data == last.frame.Data
           got  == UnmarshalPhysical(sig, data)
           l    == Limit(sig, MinRaw(sig))
           h    == Limit(sig, MaxRaw(sig))
<1>1. Given(sig) /\ Commanded[sig.name] = x
  BY DEF Given, Sends
<1>2. IsSignal(sig) /\ Decoded[sig.name] = got
  BY OnTheBus
<1>3. PICK low \in BOOLEAN : /\ low => MayBeLow(sig, x)
                             /\ Spells(data, sig, Raw(sig, x, low) % Power2[sig.length])
  BY <1>1, OnTheBus
<1>4. /\ sig.length = 1 => IsFlag(sig)
      /\ sig.scale <= 100 /\ sig.offset = 0 /\ sig.scale \in Nat
      /\ l <= lo /\ hi <= h
  BY <1>2 DEF Fine, Holds, IsSignal
<1>5. l \in Int /\ h \in Int
  <2>1. MinRaw(sig) * sig.scale + sig.offset \in Int /\ MaxRaw(sig) * sig.scale + sig.offset \in Int
    BY <1>2, <1>4, RawLimits
  <2> QED
    BY <1>2, <2>1, RangeClamps DEF Limit
<1>6. got \in Int
  <2> DEFINE r == Raw(sig, x, low)
  <2>1. r * sig.scale \in Int
    BY <1>2, <1>3, RawIsNear
  <2>2. got = InRange(sig, r * sig.scale + sig.offset)
    BY <1>2, <1>3, <1>4, RawIsRead
  <2> HIDE DEF r, got
  <2>3. r * sig.scale + sig.offset \in Int
    BY <1>4, <2>1
  <2> QED
    BY <1>2, <2>2, <2>3, RangeClamps
<1>7. Between(l, x, h) = x
  <2> HIDE DEF l, h
  <2>1. l <= h /\ ~(x < l) /\ ~(x > h)
    BY <1>4, <1>5
  <2> QED
    BY <1>5, <2>1, Clamped
<1>8. Abs(Between(l, x, h) - got) <= sig.scale /\ Abs(got - sig.offset) <= Abs(Between(l, x, h) - sig.offset)
  BY <1>2, <1>3, <1>4, SignalArrives
<1> HIDE DEF l, h, got
<1> QED
  BY <1>2, <1>4, <1>6, <1>7, <1>8 DEF Abs

\* A deflection, and a trigger, at the receiver.
LEMMA DeflectedOnBus ==
    ASSUME IInv, Sent, NEW sig \in ToSet(Def.signals), sig.name \in DOMAIN Decoded, ~Shared(sig),
           Fine(sig, -100000, 100000), NEW v \in -U .. U, Sends(sig.name, RoundTo(Deflection(v), MaxValue, 100))
    PROVE  LET got == Decoded[sig.name] IN
           IF 100 * Abs(v) < 12 * U THEN got = 0
           ELSE Abs(got * U - v * 100000) <= 150 * U /\ Sign(got) = Sign(v)
<1> DEFINE d   == Deflection(v)
           x   == RoundTo(d, MaxValue, 100)
           got == Decoded[sig.name]
<1>1. v \in Int /\ Abs(v) \in Int /\ d = (IF 100 * Abs(v) < 12 * U THEN 0 ELSE v) /\ d \in -U .. U
  BY DEF Deflection, U, Abs
<1>2. /\ x \in Int /\ -100000 <= x /\ x <= 100000 /\ Abs(x * U - d * 100000) <= 50 * U
      /\ d = 0 => x = 0
      /\ 100 * Abs(d) >= 12 * U => Sign(x) = Sign(d) /\ Abs(x) > 100
  <2> HIDE DEF d
  <2> QED
    BY <1>1, PercentIsNear
<1>3. got \in Int /\ Abs(x - got) <= 100 /\ Abs(got) <= Abs(x)
  <2>1. Sends(sig.name, x)
    OBVIOUS
  <2> HIDE DEF x
  <2>2. -100000 \in Int /\ 100000 \in Int
    OBVIOUS
  <2> QED
    BY <1>2, <2>1, <2>2, FineOnBus
<1> HIDE DEF d, x, got
<1>4. CASE 100 * Abs(v) < 12 * U
  <2>1. got = 0
    BY <1>1, <1>2, <1>3, <1>4 DEF Abs
  <2> QED
    BY <1>4, <2>1 DEF got
<1>5. CASE ~(100 * Abs(v) < 12 * U)
  <2>1. d = v /\ 100 * Abs(d) >= 12 * U
    BY <1>1, <1>5 DEF U
  <2>2. Sign(got) = Sign(v)
    BY <1>2, <1>3, <2>1 DEF Abs, Sign
  <2>3. Abs(got * U - v * 100000) <= 150 * U
    BY <1>1, <1>2, <1>3, <2>1 DEF Abs, U
  <2> QED
    BY <1>5, <2>2, <2>3 DEF got
<1> QED
  BY <1>4, <1>5

LEMMA PulledOnBus ==
    ASSUME IInv, Sent, NEW sig \in ToSet(Def.signals), sig.name \in DOMAIN Decoded, ~Shared(sig),
           Fine(sig, 0, 100000), NEW v \in 0 .. U, Sends(sig.name, RoundTo(v, MaxValue, 100))
    PROVE  LET got == Decoded[sig.name] IN
           Abs(got * U - 100000 * v) <= 150 * U
<1> DEFINE x   == RoundTo(v, MaxValue, 100)
           got == Decoded[sig.name]
<1>1. v \in -U .. U /\ v >= 0
  BY DEF U
<1>2. x \in Int /\ 0 <= x /\ x <= 100000 /\ Abs(x * U - v * 100000) <= 50 * U
  BY <1>1, PercentIsNear
<1>3. got \in Int /\ Abs(x - got) <= 100 /\ Abs(got) <= Abs(x)
  <2>1. Sends(sig.name, x)
    OBVIOUS
  <2> HIDE DEF x
  <2> DEFINE lo == 0
             hi == 100000
  <2>2. lo \in Int /\ hi \in Int /\ lo <= x /\ x <= hi /\ x \in Int /\ Fine(sig, lo, hi)
    BY <1>2
  <2> HIDE DEF lo, hi
  <2> QED
    BY <2>1, <2>2, FineOnBus
<1> HIDE DEF x
<1>4. Abs(got * U - 100000 * v) <= 150 * U
  BY <1>1, <1>2, <1>3 DEF Abs, U
<1> QED
  BY <1>4

\* Sticks arrive within half a step, the throttle and the steering within 0.15 % of
\* their deflection, for any state of a gamepad and any signals that hold the values.
THEOREM SticksArrive == Spec => []StickOnBus
<1>1. IInv /\ PadOK => StickOnBus
  <2> SUFFICES ASSUME IInv, PadOK, PadSent
      PROVE LET Percent(name, v) ==
                  On(name, LAMBDA sig : Fine(sig, -100000, 100000), LAMBDA got :
                     IF 100 * Abs(v) < 12 * U THEN got = 0
                     ELSE Abs(got * U - v * 100000) <= 150 * U /\ Sign(got) = Sign(v))
            IN  /\ Carries(ToSet(StickName)) => \A i \in 0 .. 3 :
                     On(StickName[i + 1], LAMBDA sig : Whole(sig, -128000, 127000), LAMBDA got :
                        2 * Abs(got * U - 1000 * Stick(i) * IF Stick(i) < 0 THEN 128 ELSE 127) <= 1000 * U)
                /\ Carries({"ControlCommand", "ControlValue"}) => Percent("ControlValue", -Stick(1))
                /\ Carries({"SteeringCommand", "SteeringEnable"}) => Percent("SteeringCommand", Stick(0))
    BY DEF StickOnBus
  <2> DEFINE s == State(sc.input)
             Percent(name, v) ==
                  On(name, LAMBDA sig : Fine(sig, -100000, 100000), LAMBDA got :
                     IF 100 * Abs(v) < 12 * U THEN got = 0
                     ELSE Abs(got * U - v * 100000) <= 150 * U /\ Sign(got) = Sign(v))
  <2>1. Sent
    BY DEF PadSent
  <2>2. \A i \in Int : Stick(i) \in -U .. U
    BY PadFrame, AxisInRange DEF Stick
  <2>3. ASSUME NEW name, NEW v \in -U .. U, Sends(name, RoundTo(Deflection(v), MaxValue, 100))
        PROVE  Percent(name, v)
    BY <2>1, <2>3, DeflectedOnBus DEF On
  <2> HIDE DEF Percent
  <2>4. ASSUME Carries(ToSet(StickName)), NEW i \in 0 .. 3
        PROVE  On(StickName[i + 1], LAMBDA sig : Whole(sig, -128000, 127000), LAMBDA got :
                        2 * Abs(got * U - 1000 * Stick(i) * IF Stick(i) < 0 THEN 128 ELSE 127) <= 1000 * U)
    <3>1. Sends(StickName[i + 1], AxisToInt8Physical(s, i))
      BY <2>4, PadFrame
    <3>2. PICK k \in -128 .. 127 :
             /\ AxisToInt8Physical(s, i) = 1000 * k
             /\ 2 * Abs(1000 * k * U - 1000 * Axis(s, i) * IF Axis(s, i) < 0 THEN 128 ELSE 127) <= 1000 * U
      <4>1. Axis(s, i) \in -U .. U
        BY <2>2 DEF Stick
      <4> HIDE DEF s
      <4> QED
        BY <4>1, StickInSteps
    <3> DEFINE x == 1000 * k
    <3>3. /\ 2 * Abs(x * U - 1000 * Stick(i) * IF Stick(i) < 0 THEN 128 ELSE 127) <= 1000 * U
          /\ Sends(StickName[i + 1], x)
      BY <3>1, <3>2 DEF Stick
    <3>4. ASSUME NEW sig \in ToSet(Def.signals), sig.name = StickName[i + 1], sig.name \in DOMAIN Decoded,
                 ~Shared(sig), Whole(sig, -128000, 127000)
          PROVE  Decoded[sig.name] = x
      <4>1. -128000 <= 1000 * k /\ 1000 * k <= 127000 /\ k \in Int /\ -128000 \in Int /\ 127000 \in Int
        BY <3>2
      <4> QED
        BY <2>1, <3>3, <3>4, <4>1, WholeOnBus
    <3> HIDE DEF x
    <3> QED
      BY <3>3, <3>4 DEF On
  <2>5. ASSUME Carries({"ControlCommand", "ControlValue"}) PROVE Percent("ControlValue", -Stick(1))
    <3>1. Sends("ControlValue", RoundTo(-Deflection(Stick(1)), MaxValue, 100))
      BY <2>5, PadFrame DEF Stick
    <3>2. -Deflection(Stick(1)) = Deflection(-Stick(1)) /\ -Stick(1) \in -U .. U
      <4> DEFINE a == Stick(1)
      <4>1. a \in -U .. U
        BY <2>2
      <4> HIDE DEF a
      <4>2. -Deflection(a) = Deflection(-a) /\ -a \in -U .. U
        BY <4>1 DEF Deflection, Abs, U
      <4> QED
        BY <4>2 DEF a
    <3>3. Sends("ControlValue", RoundTo(Deflection(-Stick(1)), MaxValue, 100))
      BY <3>1, <3>2
    <3> QED
      BY <2>3, <3>2, <3>3
  <2>6. ASSUME Carries({"SteeringCommand", "SteeringEnable"}) PROVE Percent("SteeringCommand", Stick(0))
    <3>1. Sends("SteeringCommand", RoundTo(Deflection(Stick(0)), MaxValue, 100))
      BY <2>6, PadFrame DEF Stick
    <3>2. Stick(0) \in -U .. U
      BY <2>2
    <3> QED
      BY <2>3, <3>1, <3>2
  <2> QED
    BY <2>4, <2>5, <2>6 DEF Percent
<1> QED
  BY <1>1, Invariance, PadInvariance, PTL

\* A button is down on the bus exactly when its state says so, in each of its
\* formats, and a trigger arrives within 0.15 % of its value.
THEOREM ButtonsArrive == Spec => []ButtonsOnBus
<1>1. IInv /\ PadOK => ButtonsOnBus
  <2> DEFINE s == State(sc.input)
  <2> SUFFICES ASSUME IInv, PadOK, PadSent
               PROVE  /\ Carries(ToSet(PressedName)) => \A i \in 0 .. 15 : Down(PressedName[i + 1], i)
                      /\ Carries({"ControlCommand", "ControlValue"}) => Down("ControlCommand", 0)
                      /\ Carries({"SteeringCommand", "SteeringEnable"}) => Down("SteeringEnable", 2)
                      /\ Carries({"HornCommand", "LightToggle", "ModeNext", "ModePrevious"}) =>
                           /\ Down("HornCommand", 1) /\ Down("LightToggle", 3)
                           /\ Down("ModeNext", 4) /\ Down("ModePrevious", 5)
                      /\ Carries({"BrakeCommand", "ThrottleCommand"}) =>
                           Pulled("BrakeCommand", 6) /\ Pulled("ThrottleCommand", 7)
    BY DEF ButtonsOnBus
  <2>1. Sent
    BY DEF PadSent
  <2>2. IsPad(sc.input) /\ Readable(sc.input)
    BY PadFrame
  <2>3. ASSUME NEW i \in Nat
        PROVE  /\ ButtonPressed(s, i) <=> Held(i)
               /\ ButtonValue(s, i) \in 0 .. U
               /\ \/ ButtonValue(s, i) = Analog(i)
                  \/ Held(i) /\ Analog(i) = 0 /\ ButtonValue(s, i) = U
    BY <2>2, ButtonRead DEF Held, Analog
  <2>4. ASSUME NEW name, NEW i \in Nat, Sends(name, IF ButtonPressed(s, i) THEN 1000 ELSE 0)
        PROVE  Down(name, i)
    <3> DEFINE k == IF Held(i) THEN 1 ELSE 0
    <3>1. Sends(name, 1000 * k) /\ k \in 0 .. 1 /\ 1000 * k = IF Held(i) THEN 1000 ELSE 0
      <4> HIDE DEF s
      <4> QED
        BY <2>3, <2>4
    <3> HIDE DEF k
    <3>2. ASSUME NEW sig \in ToSet(Def.signals), sig.name = name, sig.name \in DOMAIN Decoded,
                 ~Shared(sig), Whole(sig, 0, 1000)
          PROVE  Decoded[sig.name] = 1000 * k
      <4> DEFINE lo == 0
                 hi == 1000
      <4>1. lo \in Int /\ hi \in Int /\ lo <= 1000 * k /\ 1000 * k <= hi /\ k \in Int /\ Whole(sig, lo, hi)
        BY <3>1, <3>2
      <4> HIDE DEF lo, hi
      <4> QED
        BY <2>1, <3>1, <3>2, <4>1, WholeOnBus
    <3> QED
      BY <3>1, <3>2 DEF Down, On
  <2>5. ASSUME NEW name, NEW i \in Nat, Sends(name, RoundTo(ButtonValue(s, i), MaxValue, 100))
        PROVE  Pulled(name, i)
    <3> DEFINE v == ButtonValue(s, i)
    <3>1. v \in 0 .. U /\ \/ v = Analog(i)
                          \/ Held(i) /\ Analog(i) = 0 /\ v = U
      BY <2>3
    <3>2. Sends(name, RoundTo(v, MaxValue, 100))
      BY <2>5
    <3> HIDE DEF v
    <3>3. ASSUME NEW sig \in ToSet(Def.signals), sig.name = name, sig.name \in DOMAIN Decoded,
                 ~Shared(sig), Fine(sig, 0, 100000)
          PROVE  Abs(Decoded[sig.name] * U - 100000 * v) <= 150 * U
      BY <2>1, <3>1, <3>2, <3>3, PulledOnBus
    <3> QED
      BY <3>1, <3>3 DEF Pulled, On
  <2> HIDE DEF s
  <2>6. Carries(ToSet(PressedName)) => \A i \in 0 .. 15 : Down(PressedName[i + 1], i)
    BY <2>4, PadFrame DEF s
  <2>7. /\ Carries({"ControlCommand", "ControlValue"}) => Down("ControlCommand", 0)
        /\ Carries({"SteeringCommand", "SteeringEnable"}) => Down("SteeringEnable", 2)
    BY <2>4, PadFrame DEF s
  <2>8. Carries({"HornCommand", "LightToggle", "ModeNext", "ModePrevious"}) =>
          /\ Down("HornCommand", 1) /\ Down("LightToggle", 3)
          /\ Down("ModeNext", 4) /\ Down("ModePrevious", 5)
    BY <2>4, PadFrame DEF s
  <2>9. Carries({"BrakeCommand", "ThrottleCommand"}) =>
          Pulled("BrakeCommand", 6) /\ Pulled("ThrottleCommand", 7)
    BY <2>5, PadFrame DEF s
  <2> QED
    BY <2>6, <2>7, <2>8, <2>9
<1> QED
  BY <1>1, Invariance, PadInvariance, PTL
=============================================================================
