---------------------------- MODULE UplinkProofs ----------------------------
(***************************************************************************)
(* Theorems of module Uplink, for every value of its constants.            *)
(***************************************************************************)
EXTENDS Uplink, SequenceTheorems, TLAPS

\* The state main has set up before the goroutines run is well typed.
LEMMA TypeInit == Init => TypeOK
<1> SUFFICES ASSUME Init PROVE TypeOK
  OBVIOUS
<1>1. NoVehicle \in Vehicle /\ NoSnapshot \in Snapshot
  BY DEF NoVehicle, NoSnapshot, Vehicle, Snapshot
<1>2. log \in [Bus -> Seq(Frame)] /\ \A b \in Bus : Len(log[b]) <= MaxFrames
  BY UplinkAssumption, EmptySeq DEF Init
<1>3. /\ canRxCh \in Seq(DecodeMsg) /\ Len(canRxCh) <= CanRxCap
      /\ gpsRxCh \in Seq(Nat) /\ Len(gpsRxCh) <= GpsRxCap
  BY UplinkAssumption, EmptySeq DEF Init
<1>4. /\ listener \in [Bus -> {"receive", "send", "stopped"}]
      /\ taken \in [Bus -> Nat]
      /\ fixes \in 0 .. MaxFixes /\ watcher \in {"read", "send"}
      /\ latch \in Vehicle /\ gpsData \in Nat
  BY <1>1, UplinkAssumption DEF Init
<1>5. /\ payload \in Snapshot /\ delivered \in Snapshot
      /\ tick \in BOOLEAN /\ publisher \in {"select", "publish", "stopped"}
      /\ ctxDone \in BOOLEAN
  BY <1>1 DEF Init
<1> QED
  BY <1>2, <1>3, <1>4, <1>5 DEF TypeOK

\* StartListening keeps the types when it reads a frame.
LEMMA TypeReceive ==
    ASSUME TypeOK, NEW b \in Bus, Receive(b) PROVE TypeOK'
<1>0. PICK id \in FrameID : \E sigs \in Decodes[b][id] :
        /\ log' = [log EXCEPT ![b] = Append(@, [id |-> id, sigs |-> sigs])]
        /\ listener' = [listener EXCEPT ![b] = IF sigs = {} THEN @ ELSE "send"]
  BY DEF Receive
<1>1. PICK sigs \in Decodes[b][id] :
        /\ log' = [log EXCEPT ![b] = Append(@, [id |-> id, sigs |-> sigs])]
        /\ listener' = [listener EXCEPT ![b] = IF sigs = {} THEN @ ELSE "send"]
  BY <1>0
<1>2. sigs \in SUBSET Signal
  BY UplinkAssumption
<1>3. log[b] \in Seq(Frame) /\ [id |-> id, sigs |-> sigs] \in Frame
  BY <1>2 DEF TypeOK, Frame
<1>4. /\ Append(log[b], [id |-> id, sigs |-> sigs]) \in Seq(Frame)
      /\ Len(Append(log[b], [id |-> id, sigs |-> sigs])) = Len(log[b]) + 1
  BY <1>3, AppendProperties
<1>5. log' \in [Bus -> Seq(Frame)] /\ \A a \in Bus : Len(log'[a]) <= MaxFrames
  BY <1>1, <1>3, <1>4, UplinkAssumption, LenProperties DEF TypeOK, Receive
<1>6. listener' \in [Bus -> {"receive", "send", "stopped"}]
  BY <1>1 DEF TypeOK
<1> QED
  BY <1>5, <1>6 DEF TypeOK, Receive, gpsVars, aggVars, pubVars

\* StartListening keeps the types when rxCh takes its message; there is a
\* frame to send, which HeldOK supplies.
LEMMA TypeSend ==
    ASSUME TypeOK, NEW b \in Bus, Send(b), 0 < Len(log[b]) PROVE TypeOK'
<1>0. Len(log[b]) \in 1 .. Len(log[b]) /\ log[b] \in Seq(Frame)
  BY LenProperties DEF TypeOK
<1>1. Held(b) \in DecodeMsg
  <2>1. log[b][Len(log[b])] \in Frame
    BY <1>0, ElementOfSeq
  <2> QED
    BY <1>0, <2>1 DEF Held, DecodeMsg, Frame
<1>2. canRxCh' \in Seq(DecodeMsg) /\ Len(canRxCh') <= CanRxCap
  BY <1>1, AppendProperties, LenProperties, UplinkAssumption DEF Send, TypeOK
<1> QED
  BY <1>2 DEF TypeOK, Send, gpsVars, aggVars, pubVars

\* The publisher keeps the types when it takes and latches a message.
LEMMA TypeTakeCan ==
    ASSUME TypeOK, TakeCan PROVE TypeOK'
<1> DEFINE m == Head(canRxCh)
<1>1. m \in DecodeMsg /\ canRxCh' \in Seq(DecodeMsg) /\ Len(canRxCh') = Len(canRxCh) - 1
  BY HeadTailProperties DEF TypeOK, TakeCan
<1>2. UpdateCAN(m) \in Vehicle
  BY <1>1 DEF UpdateCAN, TypeOK, Vehicle, DecodeMsg
<1>3. latch' \in Vehicle /\ taken' \in [Bus -> Nat]
  BY <1>1, <1>2 DEF TakeCan, TypeOK, DecodeMsg
<1>4. Len(canRxCh') <= CanRxCap
  BY <1>1, UplinkAssumption, LenProperties DEF TypeOK
<1> QED
  BY <1>1, <1>3, <1>4 DEF TypeOK, TakeCan, gpsVars, pubVars

\* The steps of the gps path (filter, channel, UpdateGPS) keep the types.
LEMMA TypeGps ==
    ASSUME TypeOK, Report \/ SendFix \/ TakeGps PROVE TypeOK'
<1>1. CASE Report
  BY <1>1, UplinkAssumption DEF TypeOK, Report, canVars, aggVars, pubVars
<1>2. CASE SendFix
  <2>1. gpsRxCh' \in Seq(Nat) /\ Len(gpsRxCh') <= GpsRxCap
    BY <1>2, AppendProperties, LenProperties, UplinkAssumption DEF SendFix, TypeOK
  <2> QED
    BY <1>2, <2>1 DEF TypeOK, SendFix, canVars, aggVars, pubVars
<1>3. CASE TakeGps
  <2>1. gpsData' \in Nat /\ gpsRxCh' \in Seq(Nat) /\ Len(gpsRxCh') = Len(gpsRxCh) - 1
    BY <1>3, HeadTailProperties DEF TypeOK, TakeGps
  <2>2. Len(gpsRxCh') <= GpsRxCap
    BY <2>1, UplinkAssumption, LenProperties DEF TypeOK
  <2> QED
    BY <1>3, <2>1, <2>2 DEF TypeOK, TakeGps, canVars, pubVars
<1> QED
  BY <1>1, <1>2, <1>3

\* The steps that move no message, frame or fix.
Quiet == \/ \E b \in Bus : StopSend(b) \/ ReceiveEnds(b)
         \/ TakeTick \/ PublishOK \/ PublishLost \/ PubStop \/ Tick \/ Cancel

\* The steps that touch no sequence keep the types: the ends of the goroutines,
\* the ticker, the snapshot and its publication.
LEMMA TypeQuiet ==
    ASSUME TypeOK, Quiet PROVE TypeOK'
<1>1. CASE \E b \in Bus : StopSend(b) \/ ReceiveEnds(b)
  BY <1>1 DEF TypeOK, StopSend, ReceiveEnds, gpsVars, aggVars, pubVars
<1>2. CASE TakeTick
  BY <1>2 DEF TypeOK, TakeTick, Snapshot, canVars, gpsVars, aggVars
<1>3. CASE PublishOK \/ PublishLost \/ PubStop \/ Tick \/ Cancel
  BY <1>3 DEF TypeOK, PublishOK, PublishLost, PubStop, Tick, Cancel,
              canVars, gpsVars, aggVars, pubVars
<1> QED
  BY <1>1, <1>2, <1>3 DEF Quiet

-----------------------------------------------------------------------------
(***************************************************************************)
(* The inductive invariant.  Lossless and SnapshotFaithful speak of what   *)
(* the publisher has taken; they are kept only because the queues are      *)
(* ordered and ahead of it.                                                *)
(***************************************************************************)

\* A message is what the listener decoded from its frame.
Matches(m) ==
    /\ m.n \in 1 .. Len(log[m.BusID])
    /\ m.FrameID = log[m.BusID][m.n].id
    /\ m.Signals = log[m.BusID][m.n].sigs

\* The messages of a bus are queued in order, ahead of the last one taken.
QueueOK ==
    /\ \A i \in 1 .. Len(canRxCh) :
         Matches(canRxCh[i]) /\ taken[canRxCh[i].BusID] < canRxCh[i].n
    /\ \A i, j \in 1 .. Len(canRxCh) :
         i < j /\ canRxCh[i].BusID = canRxCh[j].BusID => canRxCh[i].n < canRxCh[j].n

\* The message a listener holds is newer than all queued ones of its bus.
HeldOK ==
    \A b \in Bus :
        /\ taken[b] <= Len(log[b])
        /\ listener[b] = "send" =>
             /\ taken[b] < Len(log[b])
             /\ \A i \in 1 .. Len(canRxCh) : canRxCh[i].BusID = b => canRxCh[i].n < Len(log[b])

\* The same for fixes.
FixOK ==
    /\ gpsData <= fixes
    /\ \A i \in 1 .. Len(gpsRxCh) : gpsRxCh[i] \in gpsData + 1 .. fixes
    /\ \A i, j \in 1 .. Len(gpsRxCh) : i < j => gpsRxCh[i] < gpsRxCh[j]
    /\ watcher = "send" =>
         gpsData < fixes /\ \A i \in 1 .. Len(gpsRxCh) : gpsRxCh[i] < fixes

\* The latch is the view of everything taken.
LatchOK ==
    \A b \in Bus, s \in Signal : Abs!IsNewest(b, s, taken[b], latch[b][s])

\* The snapshot being published is the latch, and what the broker holds is the
\* view of a prefix of what was taken.
PublishedOK ==
    /\ publisher = "publish" => payload = [vehicle |-> latch, location |-> gpsData]
    /\ delivered.location <= gpsData
    /\ \A b \in Bus : \E k \in 0 .. taken[b] :
         \A s \in Signal : Abs!IsNewest(b, s, k, delivered.vehicle[b][s])

CanInv == QueueOK /\ HeldOK /\ CanLossless
FixInv == FixOK /\ FixLossless
IInv   == TypeOK /\ CanInv /\ FixInv /\ LatchOK /\ PublishedOK

\* Every step keeps the types.
LEMMA TypeStep ==
    ASSUME TypeOK, HeldOK, [Next]_vars PROVE TypeOK'
<1>1. ASSUME NEW b \in Bus, Receive(b) PROVE TypeOK'
  BY <1>1, TypeReceive
<1>2. ASSUME NEW b \in Bus, Send(b) PROVE TypeOK'
  <2>1. 0 < Len(log[b])
    BY <1>2, LenProperties DEF Send, HeldOK, TypeOK
  <2> QED
    BY <1>2, <2>1, TypeSend
<1>3. CASE TakeCan
  BY <1>3, TypeTakeCan
<1>4. CASE Report \/ SendFix \/ TakeGps
  BY <1>4, TypeGps
<1>5. CASE Quiet
  BY <1>5, TypeQuiet
<1>6. CASE UNCHANGED vars
  BY <1>6 DEF TypeOK, vars, canVars, gpsVars, aggVars, pubVars
<1> QED
  BY <1>1, <1>2, <1>3, <1>4, <1>5, <1>6 DEF Next, Listen, Watch, Publisher, Quiet

\* The parts of the inductive invariant hold when main has set up the channels.
LEMMA InvInit == Init => CanInv /\ FixInv /\ LatchOK /\ PublishedOK
<1> SUFFICES ASSUME Init PROVE CanInv /\ FixInv /\ LatchOK /\ PublishedOK
  OBVIOUS
<1>1. CanInv
  BY DEF Init, CanInv, QueueOK, HeldOK, CanLossless
<1>2. FixInv
  BY DEF Init, FixInv, FixOK, FixLossless
<1>3. LatchOK
  BY DEF Init, LatchOK, NoVehicle, Abs!IsNewest
<1>4. PublishedOK
  BY DEF Init, PublishedOK, NoVehicle, NoSnapshot, Abs!IsNewest
<1> QED
  BY <1>1, <1>2, <1>3, <1>4

-----------------------------------------------------------------------------
(* The frames read from a bus are a history: they only grow.               *)

PrefixKept ==
    \A b \in Bus : /\ Len(log[b]) <= Len(log'[b])
                   /\ \A i \in 1 .. Len(log[b]) : log'[b][i] = log[b][i]

\* What Receive does to the log: one frame more at the end of its own bus, and a
\* frame with signals makes its listener send.
LEMMA ReceiveAppends ==
    ASSUME TypeOK, NEW b \in Bus, Receive(b)
    PROVE  /\ Len(log'[b]) = Len(log[b]) + 1
           /\ \A i \in 1 .. Len(log[b]) : log'[b][i] = log[b][i]
           /\ \A a \in Bus \ {b} : log'[a] = log[a] /\ listener'[a] = listener[a]
           /\ log'[b][Len(log[b]) + 1].sigs # {} => listener'[b] = "send"
           /\ listener'[b] # "stopped"
<1>0. PICK id \in FrameID : \E sigs \in Decodes[b][id] :
        /\ log' = [log EXCEPT ![b] = Append(@, [id |-> id, sigs |-> sigs])]
        /\ listener' = [listener EXCEPT ![b] = IF sigs = {} THEN @ ELSE "send"]
  BY DEF Receive
<1>1. PICK sigs \in Decodes[b][id] :
        /\ log' = [log EXCEPT ![b] = Append(@, [id |-> id, sigs |-> sigs])]
        /\ listener' = [listener EXCEPT ![b] = IF sigs = {} THEN @ ELSE "send"]
  BY <1>0
<1> DEFINE f == [id |-> id, sigs |-> sigs]
<1>2. log[b] \in Seq(Frame) /\ f \in Frame
  <2>1. sigs \in SUBSET Signal
    BY UplinkAssumption
  <2> QED
    BY <2>1 DEF TypeOK, Frame
<1>3. log'[b] = Append(log[b], f)
  BY <1>1 DEF TypeOK
<1>4. /\ Len(log'[b]) = Len(log[b]) + 1
      /\ \A i \in 1 .. Len(log[b]) : log'[b][i] = log[b][i]
      /\ log'[b][Len(log[b]) + 1] = f
  BY <1>2, <1>3, AppendProperties
<1>5. \A a \in Bus \ {b} : log'[a] = log[a] /\ listener'[a] = listener[a]
  BY <1>1 DEF TypeOK
<1>6. listener'[b] = IF sigs = {} THEN "receive" ELSE "send"
  BY <1>1 DEF TypeOK, Receive
<1> QED
  BY <1>4, <1>5, <1>6

\* No step rewrites a frame that was read.
LEMMA LogKept == ASSUME TypeOK, [Next]_vars PROVE PrefixKept
<1>0. \A b \in Bus : Len(log[b]) \in Nat
  BY LenProperties DEF TypeOK
<1>1. ASSUME NEW b \in Bus, Receive(b) PROVE PrefixKept
  BY <1>0, <1>1, ReceiveAppends DEF PrefixKept
<1>2. CASE log' = log
  BY <1>2, LenProperties DEF PrefixKept, TypeOK
<1> QED
  BY <1>1, <1>2 DEF Next, Listen, Watch, Publisher, Send, StopSend, ReceiveEnds, Report,
     SendFix, TakeCan, TakeGps, TakeTick, PublishOK, PublishLost, PubStop, Tick, Cancel,
     vars, canVars

\* A view of a prefix does not change when frames arrive behind it.
LEMMA ViewKept ==
    ASSUME PrefixKept, TypeOK, NEW b \in Bus, NEW s \in Signal,
           NEW k \in Nat, k <= Len(log[b]), NEW n \in Nat,
           Abs!IsNewest(b, s, k, n)
    PROVE  Abs!IsNewest(b, s, k, n)'
<1>1. \A i \in 1 .. k : log'[b][i] = log[b][i]
  BY LenProperties DEF PrefixKept, TypeOK
<1> QED
  BY <1>1 DEF Abs!IsNewest, Abs!Carries

\* Views of longer prefixes are newer.
LEMMA ViewMonotone ==
    ASSUME NEW b \in Bus, NEW s \in Signal, NEW j \in Nat, NEW k \in Nat, j <= k,
           NEW m, NEW n, Abs!IsNewest(b, s, j, m), Abs!IsNewest(b, s, k, n)
    PROVE  m <= n
  BY DEF Abs!IsNewest

-----------------------------------------------------------------------------
(* The CAN half of the invariant, action by action.                        *)

\* The part of TypeOK that the lemmas about canRxCh use.
LEMMA CanTypes ==
    ASSUME TypeOK
    PROVE  /\ \A b \in Bus : Len(log[b]) \in Nat /\ taken[b] \in Nat
           /\ Len(canRxCh) \in Nat
           /\ \A i \in 1 .. Len(canRxCh) : canRxCh[i] \in DecodeMsg
           /\ \A i \in 1 .. Len(canRxCh) : canRxCh[i].BusID \in Bus /\ canRxCh[i].n \in Nat
<1>1. \A i \in 1 .. Len(canRxCh) : canRxCh[i] \in DecodeMsg
  BY ElementOfSeq, LenProperties DEF TypeOK
<1>2. \A i \in 1 .. Len(canRxCh) : canRxCh[i].BusID \in Bus /\ canRxCh[i].n \in Nat
  BY <1>1 DEF DecodeMsg
<1> QED
  BY <1>1, <1>2, LenProperties DEF TypeOK

\* Reading a frame keeps canRxCh complete and in order.
LEMMA CanReceive ==
    ASSUME TypeOK, CanInv, NEW b \in Bus, Receive(b) PROVE CanInv'
<1>a. /\ \A a \in Bus : Len(log[a]) \in Nat /\ taken[a] \in Nat
      /\ Len(canRxCh) \in Nat
      /\ \A i \in 1 .. Len(canRxCh) : canRxCh[i].BusID \in Bus /\ canRxCh[i].n \in Nat
  BY CanTypes
<1>b. /\ Len(log'[b]) = Len(log[b]) + 1
      /\ \A i \in 1 .. Len(log[b]) : log'[b][i] = log[b][i]
      /\ \A a \in Bus \ {b} : log'[a] = log[a] /\ listener'[a] = listener[a]
      /\ log'[b][Len(log[b]) + 1].sigs # {} => listener'[b] = "send"
  BY ReceiveAppends
<1> USE <1>a, <1>b
<1>0. canRxCh' = canRxCh /\ taken' = taken /\ ctxDone' = ctxDone /\ listener[b] = "receive"
  BY DEF Receive, aggVars
<1>1. QueueOK'
  <2>1. ASSUME NEW i \in 1 .. Len(canRxCh) PROVE Matches(canRxCh[i])'
    <3>1. Matches(canRxCh[i]) /\ canRxCh[i].BusID \in Bus
      BY DEF CanInv, QueueOK
    <3>2. /\ canRxCh[i].n \in 1 .. Len(log'[canRxCh[i].BusID])
          /\ log'[canRxCh[i].BusID][canRxCh[i].n] = log[canRxCh[i].BusID][canRxCh[i].n]
      <4>1. CASE canRxCh[i].BusID = b
        BY <3>1, <4>1 DEF Matches
      <4>2. CASE canRxCh[i].BusID # b
        BY <3>1, <4>2 DEF Matches
      <4> QED
        BY <4>1, <4>2
    <3> QED
      BY <1>0, <3>1, <3>2 DEF Matches
  <2> QED
    BY <1>0, <2>1 DEF CanInv, QueueOK
<1>2. HeldOK'
  <2>1. ASSUME NEW i \in 1 .. Len(canRxCh) PROVE canRxCh[i].n <= Len(log[canRxCh[i].BusID])
    BY DEF CanInv, QueueOK, Matches
  <2> QED
    BY <1>0, <2>1 DEF CanInv, HeldOK
<1>3. CanLossless'
  <2> SUFFICES ASSUME NEW a \in Bus, NEW n \in taken[a] + 1 .. Len(log'[a]),
                      log'[a][n].sigs # {}
               PROVE  InTransit(a, n)' \/ (ctxDone /\ listener'[a] = "stopped" /\ n = Len(log'[a]))
    BY <1>0 DEF CanLossless
  <2>1. CASE a # b
    <3>1. log'[a] = log[a] /\ listener'[a] = listener[a]
      BY <2>1
    <3>2. InTransit(a, n) \/ (ctxDone /\ listener[a] = "stopped" /\ n = Len(log[a]))
      BY <3>1 DEF CanInv, CanLossless
    <3> QED
      BY <1>0, <3>1, <3>2 DEF InTransit
  <2>2. CASE a = b /\ n = Len(log[b]) + 1
    BY <1>0, <2>2 DEF InTransit
  <2>3. CASE a = b /\ n # Len(log[b]) + 1
    <3>1. n \in taken[b] + 1 .. Len(log[b]) /\ log[b][n].sigs # {}
      <4>1. n \in taken[b] + 1 .. Len(log[b]) /\ n \in 1 .. Len(log[b])
        BY <1>0, <2>3
      <4> QED
        BY <2>3, <4>1
    <3>2. \E i \in 1 .. Len(canRxCh) : canRxCh[i].BusID = b /\ canRxCh[i].n = n
      BY <1>0, <3>1 DEF CanInv, CanLossless, InTransit
    <3> QED
      BY <1>0, <2>3, <3>2 DEF InTransit
  <2> QED
    BY <2>1, <2>2, <2>3
<1> QED
  BY <1>1, <1>2, <1>3 DEF CanInv

\* A message that enters canRxCh is newer than those of its bus before it.
LEMMA CanSend ==
    ASSUME TypeOK, CanInv, NEW b \in Bus, Send(b) PROVE CanInv'
<1>a. /\ \A a \in Bus : Len(log[a]) \in Nat /\ taken[a] \in Nat
      /\ Len(canRxCh) \in Nat
      /\ \A i \in 1 .. Len(canRxCh) : canRxCh[i].BusID \in Bus /\ canRxCh[i].n \in Nat
  BY CanTypes
<1> USE <1>a
<1>0. /\ log' = log /\ taken' = taken /\ ctxDone' = ctxDone
      /\ listener[b] = "send" /\ listener' = [listener EXCEPT ![b] = "receive"]
  BY DEF Send, aggVars
<1>1. /\ Len(canRxCh') = Len(canRxCh) + 1
      /\ \A i \in 1 .. Len(canRxCh) : canRxCh'[i] = canRxCh[i]
      /\ canRxCh'[Len(canRxCh) + 1] = Held(b)
  <2>1. taken[b] < Len(log[b])
    BY <1>0 DEF CanInv, HeldOK
  <2>2. Len(log[b]) \in 1 .. Len(log[b]) /\ log[b] \in Seq(Frame)
    BY <2>1 DEF TypeOK
  <2>3. log[b][Len(log[b])] \in Frame
    BY <2>2, ElementOfSeq
  <2>4. Held(b) \in DecodeMsg
    BY <2>2, <2>3 DEF Held, DecodeMsg, Frame
  <2> QED
    BY <2>4, AppendProperties DEF Send, TypeOK
<1>2. Held(b).BusID = b /\ Held(b).n = Len(log[b]) /\ Matches(Held(b)) /\ taken[b] < Len(log[b])
  BY <1>0 DEF Held, Matches, CanInv, HeldOK
<1>3. QueueOK'
  <2>1. ASSUME NEW i \in 1 .. Len(canRxCh')
        PROVE  Matches(canRxCh'[i]) /\ taken[canRxCh'[i].BusID] < canRxCh'[i].n
    BY <1>1, <1>2 DEF CanInv, QueueOK
  <2>2. \A i \in 1 .. Len(canRxCh') : Matches(canRxCh[i])'
    BY <1>0, <2>1 DEF Matches
  <2>3. ASSUME NEW i \in 1 .. Len(canRxCh'), NEW j \in 1 .. Len(canRxCh'), i < j,
               canRxCh'[i].BusID = canRxCh'[j].BusID
        PROVE  canRxCh'[i].n < canRxCh'[j].n
    <3>1. CASE j = Len(canRxCh) + 1
      <4>1. i \in 1 .. Len(canRxCh) /\ canRxCh[i].BusID = b
        BY <1>1, <1>2, <2>3, <3>1
      <4> QED
        BY <1>0, <1>1, <1>2, <3>1, <4>1 DEF CanInv, HeldOK
    <3>2. CASE j # Len(canRxCh) + 1
      <4>1. i \in 1 .. Len(canRxCh) /\ j \in 1 .. Len(canRxCh)
        BY <1>1, <2>3, <3>2
      <4> QED
        BY <1>1, <2>3, <4>1 DEF CanInv, QueueOK
    <3> QED
      BY <3>1, <3>2
  <2> QED
    BY <1>0, <2>1, <2>2, <2>3 DEF QueueOK
<1>b. listener'[b] = "receive" /\ \A a \in Bus \ {b} : listener'[a] = listener[a]
  BY <1>0 DEF TypeOK
<1>4. HeldOK'
  <2> SUFFICES ASSUME NEW a \in Bus, listener'[a] = "send", NEW i \in 1 .. Len(canRxCh'),
                      canRxCh'[i].BusID = a
               PROVE  canRxCh'[i].n < Len(log[a])
    BY <1>0, <1>b DEF CanInv, HeldOK
  <2>1. a # b /\ i \in 1 .. Len(canRxCh)
    BY <1>b, <1>1, <1>2
  <2> QED
    BY <1>1, <1>b, <2>1 DEF CanInv, HeldOK
<1>5. CanLossless'
  <2> SUFFICES ASSUME NEW a \in Bus, NEW n \in taken[a] + 1 .. Len(log[a]), log[a][n].sigs # {}
               PROVE  InTransit(a, n)' \/ (ctxDone /\ listener'[a] = "stopped" /\ n = Len(log[a]))
    BY <1>0 DEF CanLossless
  <2>1. InTransit(a, n) \/ (ctxDone /\ listener[a] = "stopped" /\ n = Len(log[a]))
    BY DEF CanInv, CanLossless
  <2>2. CASE \E i \in 1 .. Len(canRxCh) : canRxCh[i].BusID = a /\ canRxCh[i].n = n
    BY <1>1, <2>2 DEF InTransit
  <2>3. CASE a = b /\ n = Len(log[b])
    BY <1>1, <1>2, <2>3 DEF InTransit
  <2>4. CASE a # b
    BY <1>0, <1>b, <2>1, <2>2, <2>4 DEF InTransit
  <2> QED
    BY <1>0, <2>1, <2>2, <2>3, <2>4 DEF InTransit
<1> QED
  BY <1>3, <1>4, <1>5 DEF CanInv

\* A listener gives up a message only after cancelFn, or holds none.
LEMMA CanStop ==
    ASSUME TypeOK, CanInv, NEW b \in Bus, StopSend(b) \/ ReceiveEnds(b) PROVE CanInv'
<1>0. /\ log' = log /\ taken' = taken /\ ctxDone' = ctxDone /\ canRxCh' = canRxCh
      /\ listener' = [listener EXCEPT ![b] = "stopped"]
      /\ listener[b] = "send" => ctxDone
  BY DEF StopSend, ReceiveEnds, aggVars
<1>1. QueueOK' /\ HeldOK'
  BY <1>0 DEF CanInv, QueueOK, HeldOK, Matches, TypeOK
<1>2. CanLossless'
  BY <1>0, SMTT(30) DEF CanInv, CanLossless, InTransit, TypeOK
<1> QED
  BY <1>1, <1>2 DEF CanInv

\* What the publisher finds when it takes the head of canRxCh.
LEMMA TakeCanFacts ==
    ASSUME TypeOK, QueueOK, TakeCan, NEW m, m = Head(canRxCh)
    PROVE  /\ m \in DecodeMsg /\ Matches(m) /\ taken[m.BusID] < m.n /\ m = canRxCh[1]
           /\ Len(canRxCh') = Len(canRxCh) - 1
           /\ \A i \in 1 .. Len(canRxCh') :
                 i + 1 \in 1 .. Len(canRxCh) /\ canRxCh'[i] = canRxCh[i + 1]
           /\ 1 \in 1 .. Len(canRxCh)
           /\ taken' = [taken EXCEPT ![m.BusID] = m.n]
<1>1. /\ m = canRxCh[1] /\ Len(canRxCh') = Len(canRxCh) - 1
      /\ \A i \in 1 .. Len(canRxCh') : canRxCh'[i] = canRxCh[i + 1]
      /\ 1 \in 1 .. Len(canRxCh) /\ Len(canRxCh) \in Nat
      /\ m \in DecodeMsg
  BY HeadTailProperties, LenProperties DEF TakeCan, TypeOK
<1>2. Matches(m) /\ taken[m.BusID] < m.n
  BY <1>1 DEF QueueOK
<1> QED
  BY <1>1, <1>2 DEF TakeCan

\* Every frame between the last one taken and the head carries nothing.
LEMMA NoFrameSkipped ==
    ASSUME TypeOK, CanInv, TakeCan, NEW m, m = Head(canRxCh),
           NEW n \in taken[m.BusID] + 1 .. m.n - 1
    PROVE  log[m.BusID][n].sigs = {}
<1>1. /\ m \in DecodeMsg /\ Matches(m) /\ taken[m.BusID] < m.n /\ m = canRxCh[1]
      /\ 1 \in 1 .. Len(canRxCh)
  BY TakeCanFacts DEF CanInv
<1>2. m.BusID \in Bus /\ m.n \in Nat /\ taken[m.BusID] \in Nat /\ Len(log[m.BusID]) \in Nat
  BY <1>1, CanTypes DEF DecodeMsg
<1>3. m.n <= Len(log[m.BusID]) /\ n < Len(log[m.BusID]) /\ n \in taken[m.BusID] + 1 .. Len(log[m.BusID])
  BY <1>1, <1>2 DEF Matches
<1>4. \A i \in 1 .. Len(canRxCh) : canRxCh[i].BusID = m.BusID => canRxCh[i].n # n
  <2> SUFFICES ASSUME NEW i \in 1 .. Len(canRxCh), canRxCh[i].BusID = m.BusID
               PROVE  canRxCh[i].n # n
    OBVIOUS
  <2>1. CASE i = 1
    BY <1>1, <1>2, <2>1
  <2>2. CASE i # 1
    <3>1. 1 < i /\ Len(canRxCh) \in Nat /\ canRxCh[i].n \in Nat
      BY <2>2, CanTypes
    <3>2. m.n < canRxCh[i].n
      BY <1>1, <3>1 DEF CanInv, QueueOK
    <3> QED
      BY <1>2, <3>1, <3>2
  <2> QED
    BY <2>1, <2>2
<1> QED
  BY <1>2, <1>3, <1>4, SMTT(30) DEF CanInv, CanLossless, InTransit

\* Taking the head of canRxCh skips no frame that carries a signal.
LEMMA CanTake ==
    ASSUME TypeOK, CanInv, TakeCan PROVE CanInv'
<1> DEFINE m == Head(canRxCh)
<1>0. log' = log /\ listener' = listener /\ ctxDone' = ctxDone
  BY DEF TakeCan
<1>1. /\ m \in DecodeMsg /\ Matches(m) /\ taken[m.BusID] < m.n /\ m = canRxCh[1]
      /\ Len(canRxCh') = Len(canRxCh) - 1
      /\ \A i \in 1 .. Len(canRxCh') :
            i + 1 \in 1 .. Len(canRxCh) /\ canRxCh'[i] = canRxCh[i + 1]
      /\ 1 \in 1 .. Len(canRxCh)
      /\ taken' = [taken EXCEPT ![m.BusID] = m.n]
  BY TakeCanFacts DEF CanInv
<1>2. /\ \A a \in Bus : Len(log[a]) \in Nat /\ taken[a] \in Nat
      /\ Len(canRxCh) \in Nat
      /\ \A i \in 1 .. Len(canRxCh) : canRxCh[i].BusID \in Bus /\ canRxCh[i].n \in Nat
  BY CanTypes
<1> HIDE DEF m
<1>3. m.BusID \in Bus /\ m.n \in Nat /\ m.n <= Len(log[m.BusID])
  BY <1>1, <1>2 DEF DecodeMsg, Matches
<1>4. taken'[m.BusID] = m.n /\ \A a \in Bus \ {m.BusID} : taken'[a] = taken[a]
  BY <1>1, <1>3 DEF TypeOK
<1>5. QueueOK'
  <2>1. ASSUME NEW i \in 1 .. Len(canRxCh')
        PROVE  Matches(canRxCh'[i]) /\ taken'[canRxCh'[i].BusID] < canRxCh'[i].n
    <3>1. i + 1 \in 1 .. Len(canRxCh) /\ 1 < i + 1 /\ canRxCh'[i] = canRxCh[i + 1]
      BY <1>1, <1>2
    <3>2. Matches(canRxCh[i + 1]) /\ taken[canRxCh[i + 1].BusID] < canRxCh[i + 1].n
      BY <3>1 DEF CanInv, QueueOK
    <3>3. canRxCh[i + 1].BusID = m.BusID => m.n < canRxCh[i + 1].n
      BY <1>1, <3>1 DEF CanInv, QueueOK
    <3>4. canRxCh[i + 1].BusID \in Bus
      BY <1>2, <3>1
    <3> QED
      BY <1>4, <3>1, <3>2, <3>3, <3>4
  <2>2. \A i \in 1 .. Len(canRxCh') : Matches(canRxCh[i])'
    BY <1>0, <2>1 DEF Matches
  <2>3. ASSUME NEW i \in 1 .. Len(canRxCh'), NEW j \in 1 .. Len(canRxCh'), i < j,
               canRxCh'[i].BusID = canRxCh'[j].BusID
        PROVE  canRxCh'[i].n < canRxCh'[j].n
    <3>1. /\ i + 1 \in 1 .. Len(canRxCh) /\ canRxCh'[i] = canRxCh[i + 1]
          /\ j + 1 \in 1 .. Len(canRxCh) /\ canRxCh'[j] = canRxCh[j + 1]
          /\ i + 1 < j + 1
      BY <1>1, <1>2, <2>3
    <3> QED
      BY <2>3, <3>1 DEF CanInv, QueueOK
  <2> QED
    BY <2>1, <2>2, <2>3 DEF QueueOK
<1>6. HeldOK'
  <2> SUFFICES ASSUME NEW a \in Bus
               PROVE  /\ taken'[a] <= Len(log[a])
                      /\ listener[a] = "send" =>
                           /\ taken'[a] < Len(log[a])
                           /\ \A i \in 1 .. Len(canRxCh') :
                                canRxCh'[i].BusID = a => canRxCh'[i].n < Len(log[a])
    BY <1>0 DEF HeldOK
  <2>1. taken'[a] <= Len(log[a])
    BY <1>3, <1>4 DEF CanInv, HeldOK
  <2>2. ASSUME listener[a] = "send", NEW i \in 1 .. Len(canRxCh), canRxCh[i].BusID = a
        PROVE  canRxCh[i].n < Len(log[a])
    BY <2>2 DEF CanInv, HeldOK
  <2>3. ASSUME listener[a] = "send" PROVE taken'[a] < Len(log[a])
    BY <1>1, <1>4, <2>2, <2>3 DEF CanInv, HeldOK
  <2> QED
    BY <1>1, <2>1, <2>2, <2>3
<1>7. CanLossless'
  <2> SUFFICES ASSUME NEW a \in Bus, NEW n \in taken'[a] + 1 .. Len(log[a]), log[a][n].sigs # {}
               PROVE  InTransit(a, n)' \/ (ctxDone /\ listener[a] = "stopped" /\ n = Len(log[a]))
    BY <1>0 DEF CanLossless
  <2>0. n \in taken[a] + 1 .. Len(log[a]) /\ (a = m.BusID => m.n < n)
    <3>1. CASE a = m.BusID
      BY <1>1, <1>2, <1>3, <1>4, <3>1
    <3>2. CASE a # m.BusID
      BY <1>4, <3>2
    <3> QED
      BY <3>1, <3>2
  <2>1. InTransit(a, n) \/ (ctxDone /\ listener[a] = "stopped" /\ n = Len(log[a]))
    BY <2>0 DEF CanInv, CanLossless
  <2>2. ASSUME NEW i \in 1 .. Len(canRxCh), canRxCh[i].BusID = a, canRxCh[i].n = n
        PROVE  InTransit(a, n)'
    <3>1. i # 1
      BY <1>1, <1>3, <2>0, <2>2
    <3>2. i - 1 \in 1 .. Len(canRxCh') /\ canRxCh'[i - 1] = canRxCh[i]
      <4>1. i - 1 \in 1 .. Len(canRxCh') /\ (i - 1) + 1 = i
        BY <1>1, <1>2, <3>1
      <4>2. canRxCh'[i - 1] = canRxCh[(i - 1) + 1]
        BY <1>1, <4>1
      <4> QED
        BY <4>1, <4>2
    <3> QED
      BY <2>2, <3>2 DEF InTransit
  <2> QED
    BY <1>0, <2>1, <2>2 DEF InTransit
<1> QED
  BY <1>5, <1>6, <1>7 DEF CanInv

\* Every step keeps canRxCh complete and in order.
LEMMA CanStep == ASSUME TypeOK, CanInv, [Next]_vars PROVE CanInv'
<1>1. ASSUME NEW b \in Bus, Listen(b) PROVE CanInv'
  BY <1>1, CanReceive, CanSend, CanStop DEF Listen
<1>2. CASE TakeCan
  BY <1>2, CanTake
<1>3. CASE Cancel
  <2>1. log' = log /\ listener' = listener /\ canRxCh' = canRxCh /\ taken' = taken
    BY <1>3 DEF Cancel, canVars, aggVars
  <2>2. QueueOK' /\ HeldOK'
    BY <2>1 DEF CanInv, QueueOK, HeldOK, Matches
  <2>3. CanLossless'
    BY <1>3, <2>1 DEF CanInv, CanLossless, InTransit, Cancel
  <2> QED
    BY <2>2, <2>3 DEF CanInv
<1>4. CASE UNCHANGED <<canVars, taken, ctxDone>>
  BY <1>4 DEF CanInv, QueueOK, HeldOK, CanLossless, Matches, InTransit, canVars
<1> QED
  BY <1>1, <1>2, <1>3, <1>4 DEF Next, Watch, Publisher, Report, SendFix, TakeGps, TakeTick,
     PublishOK, PublishLost, PubStop, Tick, vars, canVars, aggVars

-----------------------------------------------------------------------------
(* The gps half.                                                           *)

\* Every step keeps gpsRxCh complete and in order.
LEMMA FixStep == ASSUME TypeOK, FixInv, [Next]_vars PROVE FixInv'
<1>a. /\ gpsData \in Nat /\ fixes \in Nat /\ Len(gpsRxCh) \in Nat /\ gpsRxCh \in Seq(Nat)
      /\ \A i \in 1 .. Len(gpsRxCh) : gpsRxCh[i] \in Nat
  BY ElementOfSeq, LenProperties, UplinkAssumption DEF TypeOK
<1>1. CASE Report
  <2>1. /\ watcher = "read" /\ watcher' = "send" /\ fixes' = fixes + 1
        /\ gpsRxCh' = gpsRxCh /\ gpsData' = gpsData
    BY <1>1 DEF Report, aggVars
  <2>2. FixOK'
    BY <1>a, <2>1 DEF FixInv, FixOK
  <2>3. FixLossless'
    BY <1>a, <2>1 DEF FixInv, FixLossless, FixInTransit
  <2> QED
    BY <2>2, <2>3 DEF FixInv
<1>2. CASE SendFix
  <2>1. /\ watcher = "send" /\ watcher' = "read" /\ fixes' = fixes /\ gpsData' = gpsData
        /\ Len(gpsRxCh') = Len(gpsRxCh) + 1
        /\ \A i \in 1 .. Len(gpsRxCh) : gpsRxCh'[i] = gpsRxCh[i]
        /\ gpsRxCh'[Len(gpsRxCh) + 1] = fixes
    BY <1>2, <1>a, AppendProperties DEF SendFix, aggVars
  <2>2. FixOK'
    <3>1. ASSUME NEW i \in 1 .. Len(gpsRxCh') PROVE gpsRxCh'[i] \in gpsData + 1 .. fixes
      BY <1>a, <2>1 DEF FixInv, FixOK
    <3>2. ASSUME NEW i \in 1 .. Len(gpsRxCh'), NEW j \in 1 .. Len(gpsRxCh'), i < j
          PROVE  gpsRxCh'[i] < gpsRxCh'[j]
      <4>1. i \in 1 .. Len(gpsRxCh)
        BY <1>a, <2>1, <3>2
      <4>2. CASE j = Len(gpsRxCh) + 1
        BY <2>1, <4>1, <4>2 DEF FixInv, FixOK
      <4>3. CASE j # Len(gpsRxCh) + 1
        <5>1. j \in 1 .. Len(gpsRxCh)
          BY <1>a, <2>1, <4>3
        <5> QED
          BY <2>1, <3>2, <4>1, <5>1 DEF FixInv, FixOK
      <4> QED
        BY <4>2, <4>3
    <3> QED
      BY <1>a, <2>1, <3>1, <3>2 DEF FixInv, FixOK
  <2>3. FixLossless'
    <3> SUFFICES ASSUME NEW f \in gpsData + 1 .. fixes PROVE FixInTransit(f)'
      BY <2>1 DEF FixLossless
    <3>1. FixInTransit(f)
      BY DEF FixInv, FixLossless
    <3>2. CASE f = fixes
      BY <1>a, <2>1, <3>2 DEF FixInTransit
    <3>3. ASSUME NEW i \in 1 .. Len(gpsRxCh), gpsRxCh[i] = f PROVE FixInTransit(f)'
      BY <1>a, <2>1, <3>3 DEF FixInTransit
    <3> QED
      BY <3>1, <3>2, <3>3 DEF FixInTransit
  <2> QED
    BY <2>2, <2>3 DEF FixInv
<1>3. CASE TakeGps
  <2>1. /\ watcher' = watcher /\ fixes' = fixes
        /\ gpsData' = gpsRxCh[1] /\ 1 \in 1 .. Len(gpsRxCh)
        /\ Len(gpsRxCh') = Len(gpsRxCh) - 1
        /\ \A i \in 1 .. Len(gpsRxCh') : gpsRxCh'[i] = gpsRxCh[i + 1]
    BY <1>3, <1>a, HeadTailProperties DEF TakeGps
  <2>a. gpsData < gpsRxCh[1] /\ gpsRxCh[1] <= fixes
    BY <1>a, <2>1 DEF FixInv, FixOK
  <2>b. \A i \in 2 .. Len(gpsRxCh) : gpsRxCh[1] < gpsRxCh[i]
    BY <1>a, <2>1 DEF FixInv, FixOK
  <2>2. FixOK'
    <3>1. ASSUME NEW i \in 1 .. Len(gpsRxCh') PROVE gpsRxCh'[i] \in gpsData' + 1 .. fixes
      <4>1. i + 1 \in 2 .. Len(gpsRxCh) /\ i + 1 \in 1 .. Len(gpsRxCh)
        BY <1>a, <2>1
      <4>2. gpsRxCh[i + 1] \in gpsData + 1 .. fixes /\ gpsRxCh[1] < gpsRxCh[i + 1]
        BY <2>b, <4>1 DEF FixInv, FixOK
      <4> QED
        BY <1>a, <2>1, <4>1, <4>2
    <3>2. ASSUME NEW i \in 1 .. Len(gpsRxCh'), NEW j \in 1 .. Len(gpsRxCh'), i < j
          PROVE  gpsRxCh'[i] < gpsRxCh'[j]
      <4>1. i + 1 \in 1 .. Len(gpsRxCh) /\ j + 1 \in 1 .. Len(gpsRxCh) /\ i + 1 < j + 1
        BY <1>a, <2>1, <3>2
      <4> QED
        BY <2>1, <4>1 DEF FixInv, FixOK
    <3>3. ASSUME watcher = "send", NEW i \in 1 .. Len(gpsRxCh) PROVE gpsRxCh[i] < fixes
      BY <3>3 DEF FixInv, FixOK
    <3>4. ASSUME watcher = "send", NEW i \in 1 .. Len(gpsRxCh') PROVE gpsRxCh'[i] < fixes
      <4>1. i + 1 \in 1 .. Len(gpsRxCh)
        BY <1>a, <2>1
      <4> QED
        BY <2>1, <3>3, <3>4, <4>1
    <3> QED
      BY <1>a, <2>1, <2>a, <3>1, <3>2, <3>3, <3>4 DEF FixOK
  <2>3. FixLossless'
    <3> SUFFICES ASSUME NEW f \in gpsData' + 1 .. fixes PROVE FixInTransit(f)'
      BY <2>1 DEF FixLossless
    <3>1. f \in gpsData + 1 .. fixes /\ f # gpsRxCh[1]
      BY <1>a, <2>1, <2>a
    <3>2. ASSUME NEW i \in 1 .. Len(gpsRxCh), gpsRxCh[i] = f PROVE FixInTransit(f)'
      <4>1. i - 1 \in 1 .. Len(gpsRxCh') /\ (i - 1) + 1 = i
        BY <1>a, <2>1, <3>1, <3>2
      <4>2. gpsRxCh'[i - 1] = gpsRxCh[(i - 1) + 1]
        BY <2>1, <4>1
      <4> QED
        BY <3>2, <4>1, <4>2 DEF FixInTransit
    <3> QED
      BY <2>1, <3>1, <3>2 DEF FixInv, FixLossless, FixInTransit
  <2> QED
    BY <2>2, <2>3 DEF FixInv
<1>4. CASE UNCHANGED <<gpsVars, gpsData>>
  BY <1>4 DEF FixInv, FixOK, FixLossless, FixInTransit, gpsVars
<1> QED
  BY <1>1, <1>2, <1>3, <1>4 DEF Next, Listen, Watch, Publisher, Receive, Send, StopSend,
     ReceiveEnds, TakeCan, TakeTick, PublishOK, PublishLost, PubStop, Tick, Cancel,
     vars, aggVars, gpsVars

-----------------------------------------------------------------------------
(* The latch and what is published.                                        *)

\* UpdateCAN, behind the whitelist, makes the latch the view of one frame more.
LEMMA LatchTake ==
    ASSUME TypeOK, CanInv, LatchOK, TakeCan PROVE LatchOK'
<1>0. PICK m : m = Head(canRxCh)
  OBVIOUS
<1>1. /\ m \in DecodeMsg /\ Matches(m) /\ taken[m.BusID] < m.n
      /\ taken' = [taken EXCEPT ![m.BusID] = m.n]
  BY <1>0, TakeCanFacts DEF CanInv
<1>2. \A n \in taken[m.BusID] + 1 .. m.n - 1 : log[m.BusID][n].sigs = {}
  BY <1>0, NoFrameSkipped
<1>3. latch' = (IF Latched(m) THEN UpdateCAN(m) ELSE latch) /\ log' = log
  BY <1>0 DEF TakeCan
<1>4. m.BusID \in Bus /\ m.n \in Nat \ {0} /\ taken[m.BusID] \in Nat /\ m.Signals \in SUBSET Signal
  BY <1>1 DEF DecodeMsg, TypeOK
<1> SUFFICES ASSUME NEW b \in Bus, NEW s \in Signal
             PROVE  Abs!IsNewest(b, s, taken[b], latch[b][s])'
  BY DEF LatchOK
<1>5. Abs!IsNewest(b, s, taken[b], latch[b][s])
  BY DEF LatchOK
<1>6. CASE b # m.BusID
  <2>1. taken'[b] = taken[b] /\ latch'[b][s] = latch[b][s]
    BY <1>1, <1>3, <1>4, <1>6 DEF UpdateCAN, TypeOK, Vehicle
  <2> QED
    BY <1>3, <1>5, <2>1 DEF Abs!IsNewest, Abs!Carries
<1>7. CASE b = m.BusID /\ Latched(m) /\ s \in m.Signals
  <2>1. taken'[b] = m.n /\ latch'[b][s] = m.n
    BY <1>1, <1>3, <1>4, <1>7 DEF UpdateCAN, TypeOK, Vehicle
  <2>2. Abs!Carries(b, s, m.n)'
    BY <1>1, <1>3, <1>7 DEF Abs!Carries, Matches, Latched
  <2> QED
    BY <1>4, <2>1, <2>2 DEF Abs!IsNewest
<1>8. CASE b = m.BusID /\ ~(Latched(m) /\ s \in m.Signals)
  <2>1. taken'[b] = m.n /\ latch'[b][s] = latch[b][s]
    BY <1>1, <1>3, <1>4, <1>8 DEF UpdateCAN, TypeOK, Vehicle
  <2>2. latch[b][s] \in 0 .. m.n /\ (latch[b][s] # 0 => Abs!Carries(b, s, latch[b][s]))
    BY <1>1, <1>4, <1>5, <1>8 DEF Abs!IsNewest
  <2>3. ASSUME NEW n \in 1 .. m.n, latch[b][s] < n PROVE ~Abs!Carries(b, s, n)
    <3>1. CASE n <= taken[b]
      BY <1>4, <1>5, <1>8, <2>3, <3>1 DEF Abs!IsNewest
    <3>2. CASE n \in taken[b] + 1 .. m.n - 1
      BY <1>2, <1>8, <3>2 DEF Abs!Carries
    <3>3. CASE n = m.n
      BY <1>1, <1>8, <3>3 DEF Abs!Carries, Matches, Latched
    <3> QED
      BY <1>4, <1>8, <3>1, <3>2, <3>3
  <2> QED
    BY <1>3, <2>1, <2>2, <2>3 DEF Abs!IsNewest, Abs!Carries
<1> QED
  BY <1>6, <1>7, <1>8

\* The latch is the view of what was taken after every step.
LEMMA LatchStep ==
    ASSUME TypeOK, CanInv, LatchOK, [Next]_vars PROVE LatchOK'
<1>1. CASE TakeCan
  BY <1>1, LatchTake
<1>2. CASE UNCHANGED <<latch, taken>>
  <2> SUFFICES ASSUME NEW b \in Bus, NEW s \in Signal
               PROVE  Abs!IsNewest(b, s, taken[b], latch[b][s])'
    BY DEF LatchOK
  <2>1. /\ taken[b] \in Nat /\ taken[b] <= Len(log[b]) /\ latch[b][s] \in Nat
        /\ taken'[b] = taken[b] /\ latch'[b][s] = latch[b][s]
    BY <1>2 DEF TypeOK, Vehicle, CanInv, HeldOK
  <2>2. PrefixKept /\ Abs!IsNewest(b, s, taken[b], latch[b][s])
    BY LogKept DEF LatchOK
  <2>3. \A i \in 1 .. taken[b] : log'[b][i] = log[b][i]
    BY <2>1, <2>2, LenProperties DEF PrefixKept, TypeOK
  <2> QED
    BY <2>1, <2>2, <2>3 DEF Abs!IsNewest, Abs!Carries
<1> QED
  BY <1>1, <1>2 DEF Next, Listen, Watch, Publisher, Receive, Send, StopSend,
     ReceiveEnds, Report, SendFix, TakeGps, TakeTick, PublishOK, PublishLost, PubStop,
     Tick, Cancel, vars, aggVars

\* The publisher never takes an older frame or fix than it has taken.
LEMMA TakenGrows ==
    ASSUME TypeOK, CanInv, FixInv, [Next]_vars
    PROVE  gpsData <= gpsData' /\ \A b \in Bus : taken[b] <= taken'[b]
<1>1. CASE TakeCan
  <2>1. PICK m : m = Head(canRxCh)
    OBVIOUS
  <2>2. /\ m \in DecodeMsg /\ taken[m.BusID] < m.n
        /\ taken' = [taken EXCEPT ![m.BusID] = m.n]
    BY <1>1, <2>1, TakeCanFacts DEF CanInv
  <2> QED
    BY <1>1, <2>2 DEF TakeCan, TypeOK, DecodeMsg
<1>2. CASE TakeGps
  <2>1. gpsData' = gpsRxCh[1] /\ 1 \in 1 .. Len(gpsRxCh)
    BY <1>2, HeadTailProperties DEF TakeGps, TypeOK
  <2>2. gpsRxCh[1] \in gpsData + 1 .. fixes
    BY <2>1 DEF FixInv, FixOK
  <2> QED
    BY <1>2, <2>1, <2>2 DEF TakeGps, TypeOK
<1>3. CASE UNCHANGED <<gpsData, taken>>
  BY <1>3 DEF TypeOK
<1> QED
  BY <1>1, <1>2, <1>3 DEF Next, Listen, Watch, Publisher, Receive, Send, StopSend,
     ReceiveEnds, Report, SendFix, TakeTick, PublishOK, PublishLost, PubStop,
     Tick, Cancel, vars, aggVars

\* What Publish hands to the broker is the latch as it was when the snapshot was
\* built, and no frame was taken since (the publisher was blocked).
LEMMA PublishedStep ==
    ASSUME IInv, [Next]_vars PROVE PublishedOK'
<1> USE DEF IInv
<1>1. CASE PublishOK
  <2>1. /\ delivered' = [vehicle |-> latch, location |-> gpsData] /\ publisher' = "select"
        /\ UNCHANGED <<log, taken, gpsData>>
    BY <1>1 DEF PublishOK, PublishedOK, canVars, aggVars
  <2>2. delivered'.location <= gpsData'
    BY <2>1 DEF TypeOK
  <2>3. ASSUME NEW b \in Bus
        PROVE  \E k \in 0 .. taken'[b] : \A s \in Signal :
                  Abs!IsNewest(b, s, k, delivered.vehicle[b][s])'
    <3>1. taken'[b] \in 0 .. taken'[b] /\ taken'[b] = taken[b] /\ delivered'.vehicle = latch
      BY <2>1 DEF TypeOK
    <3>2. ASSUME NEW s \in Signal
          PROVE  Abs!IsNewest(b, s, taken[b], delivered.vehicle[b][s])'
      <4>1. Abs!IsNewest(b, s, taken[b], latch[b][s])
        BY DEF LatchOK
      <4> QED
        BY <2>1, <3>1, <4>1 DEF Abs!IsNewest, Abs!Carries
    <3>3. ASSUME NEW s \in Signal, NEW k, k = taken'[b]
          PROVE  Abs!IsNewest(b, s, k, delivered.vehicle[b][s])'
      BY <3>2, <3>3 DEF Abs!IsNewest, Abs!Carries
    <3> QED
      BY <3>1, <3>3
  <2> QED
    BY <2>1, <2>2, <2>3 DEF PublishedOK
<1>2. CASE delivered' = delivered
  <2>1. publisher' = "publish" => payload' = [vehicle |-> latch', location |-> gpsData']
    <3>1. CASE TakeTick
      BY <3>1 DEF TakeTick, aggVars
    <3>2. CASE publisher # "publish" /\ publisher' = publisher
      BY <3>2
    <3>3. CASE publisher' # "publish"
      BY <3>3
    <3>4. CASE UNCHANGED <<publisher, payload, latch, gpsData>>
      BY <3>4 DEF PublishedOK
    <3> QED
      BY <3>1, <3>2, <3>3, <3>4 DEF Next, Listen, Watch, Publisher, Receive, Send, StopSend,
         ReceiveEnds, Report, SendFix, TakeCan, TakeGps, PublishOK, PublishLost, PubStop,
         Tick, Cancel, vars, aggVars, pubVars
  <2>2. gpsData <= gpsData' /\ \A b \in Bus : taken[b] <= taken'[b]
    BY TakenGrows
  <2>3. TypeOK' => (gpsData' \in Nat /\ \A b \in Bus : taken'[b] \in Nat)
    BY DEF TypeOK
  <2>4. TypeOK'
    BY TypeStep DEF CanInv
  <2>5. delivered'.location <= gpsData'
    BY <1>2, <2>2, <2>3, <2>4 DEF PublishedOK, TypeOK, Snapshot
  <2>6. ASSUME NEW b \in Bus
        PROVE  \E k \in 0 .. taken'[b] : \A s \in Signal :
                  Abs!IsNewest(b, s, k, delivered.vehicle[b][s])'
    <3>1. PICK k \in 0 .. taken[b] : \A s \in Signal :
                  Abs!IsNewest(b, s, k, delivered.vehicle[b][s])
      BY DEF PublishedOK
    <3>2. k \in 0 .. taken'[b] /\ k \in Nat /\ k <= Len(log[b])
      BY <2>2, <2>3, <2>4, CanTypes DEF CanInv, HeldOK
    <3>3. \A i \in 1 .. k : log'[b][i] = log[b][i]
      BY <3>2, LogKept, CanTypes DEF PrefixKept
    <3>4. ASSUME NEW s \in Signal
          PROVE  Abs!IsNewest(b, s, k, delivered.vehicle[b][s])'
      BY <1>2, <3>1, <3>2, <3>3 DEF Abs!IsNewest, Abs!Carries
    <3> QED
      BY <3>2, <3>4
  <2> QED
    BY <2>1, <2>5, <2>6 DEF PublishedOK
<1> QED
  BY <1>1, <1>2 DEF Next, Listen, Watch, Publisher, Receive, Send, StopSend,
     ReceiveEnds, Report, SendFix, TakeCan, TakeGps, TakeTick, PublishLost, PubStop,
     Tick, Cancel, vars, pubVars

-----------------------------------------------------------------------------
(* Theorems                                                                *)

\* The inductive invariant holds initially.
LEMMA IInvInit == Init => IInv
  BY TypeInit, InvInit DEF IInv

\* Every step of the program keeps the inductive invariant.
LEMMA IInvStep == IInv /\ [Next]_vars => IInv'
<1> SUFFICES ASSUME IInv, [Next]_vars PROVE IInv'
  OBVIOUS
<1>1. TypeOK'
  BY TypeStep DEF IInv, CanInv
<1>2. CanInv'
  BY CanStep DEF IInv
<1>3. FixInv'
  BY FixStep DEF IInv
<1>4. LatchOK'
  BY LatchStep DEF IInv
<1>5. PublishedOK'
  BY PublishedStep
<1> QED
  BY <1>1, <1>2, <1>3, <1>4, <1>5 DEF IInv

\* The inductive invariant holds throughout.
LEMMA Invariance == Spec => []IInv
<1> QED
  BY IInvInit, IInvStep, PTL DEF Spec

\* Every variable has its type and neither channel exceeds the capacity main
\* gave it.
THEOREM TypeCorrect == Spec => []TypeOK
<1>1. IInv => TypeOK
  BY DEF IInv
<1> QED
  BY <1>1, Invariance, PTL

\* No decoded frame and no fix is lost between its reader and the publisher,
\* whatever blocks the publisher, for any capacities and any number of buses.
THEOREM NothingLost == Spec => []Lossless
<1>1. IInv => Lossless
  BY DEF IInv, CanInv, FixInv, Lossless
<1> QED
  BY <1>1, Invariance, PTL

\* Every published snapshot is the view of one prefix of each bus's frames.
THEOREM NoTornSnapshot == Spec => []SnapshotFaithful
<1>1. IInv => SnapshotFaithful
  <2> SUFFICES ASSUME IInv, NEW b \in Bus
               PROVE  \E k \in 0 .. Len(log[b]) : \A s \in Signal :
                         Abs!IsNewest(b, s, k, delivered.vehicle[b][s])
    BY DEF SnapshotFaithful
  <2>1. PICK k \in 0 .. taken[b] : \A s \in Signal :
                         Abs!IsNewest(b, s, k, delivered.vehicle[b][s])
    BY DEF IInv, PublishedOK
  <2>2. k \in 0 .. Len(log[b])
    BY <2>1, CanTypes DEF IInv, CanInv, HeldOK
  <2> QED
    BY <2>1, <2>2
<1> QED
  BY <1>1, Invariance, PTL

\* The broker's view never goes back in time.
THEOREM NoValueWithdrawn == Spec => NeverOlder
<1>1. ASSUME IInv, [Next]_vars PROVE NoOlder
  <2>1. CASE PublishOK
    <3>1. delivered' = [vehicle |-> latch, location |-> gpsData]
      BY <1>1, <2>1 DEF PublishOK, IInv, PublishedOK
    <3>2. ASSUME NEW b \in Bus, NEW s \in Signal
          PROVE  delivered.vehicle[b][s] <= latch[b][s]
      <4>1. PICK k \in 0 .. taken[b] : Abs!IsNewest(b, s, k, delivered.vehicle[b][s])
        BY <1>1 DEF IInv, PublishedOK
      <4>2. Abs!IsNewest(b, s, taken[b], latch[b][s]) /\ taken[b] \in Nat
        BY <1>1 DEF IInv, LatchOK, TypeOK
      <4> QED
        BY <4>1, <4>2, ViewMonotone
    <3> QED
      BY <1>1, <3>1, <3>2 DEF NoOlder, IInv, PublishedOK
  <2>2. CASE delivered' = delivered
    BY <1>1, <2>2 DEF NoOlder, IInv, TypeOK, Snapshot, Vehicle
  <2> QED
    BY <1>1, <2>1, <2>2 DEF Next, Listen, Watch, Publisher, Receive, Send, StopSend,
       ReceiveEnds, Report, SendFix, TakeCan, TakeGps, TakeTick, PublishLost, PubStop,
       Tick, Cancel, vars, pubVars
<1>2. IInv /\ [Next]_vars => [NoOlder]_vars
  BY <1>1
<1> QED
  BY <1>2, Invariance, PTL DEF Spec, NeverOlder

-----------------------------------------------------------------------------
(* The uplink implements LatchView: a step of a listener is Arrive, of the *)
(* watcher FixArrives, of the publisher Absorb, AbsorbFix or Show, and     *)
(* every other step is invisible.                                          *)

\* The latch is the view LatchView computes.
LEMMA LatchIsView ==
    ASSUME IInv PROVE Abs!View = [vehicle |-> latch, location |-> gpsData]
<1>1. ASSUME NEW b \in Bus, NEW s \in Signal PROVE Abs!Newest(b, s, taken[b]) = latch[b][s]
  <2>1. Abs!IsNewest(b, s, taken[b], latch[b][s]) /\ latch[b][s] \in 0 .. taken[b]
    BY DEF IInv, LatchOK, Abs!IsNewest
  <2>2. ASSUME NEW n \in 0 .. taken[b], Abs!IsNewest(b, s, taken[b], n)
        PROVE  n = latch[b][s]
    <3>1. taken[b] \in Nat
      BY DEF IInv, TypeOK
    <3>2. n <= latch[b][s] /\ latch[b][s] <= n
      BY <2>1, <2>2, <3>1, ViewMonotone
    <3> QED
      BY <2>1, <3>1, <3>2
  <2> QED
    BY <2>1, <2>2 DEF Abs!Newest
<1>2. latch = [b \in Bus |-> [s \in Signal |-> latch[b][s]]]
  BY DEF IInv, TypeOK, Vehicle
<1>3. [b \in Bus |-> [s \in Signal |-> Abs!Newest(b, s, taken[b])]] = latch
  BY <1>1, <1>2
<1> QED
  BY <1>3 DEF Abs!View

\* The program starts as LatchView does: nothing read, nothing shown.
LEMMA AbsInit == Init => Abs!Init
  BY DEF Init, Abs!Init, NoVehicle, NoSnapshot

\* Every step of the uplink is a step of LatchView or leaves its variables alone.
LEMMA AbsStep ==
    ASSUME IInv, [Next]_vars PROVE [Abs!Next]_(Abs!vars)
<1>1. ASSUME NEW b \in Bus, Receive(b) PROVE Abs!Arrive(b)
  <2>1. PICK id \in FrameID : \E sigs \in Decodes[b][id] :
          log' = [log EXCEPT ![b] = Append(@, [id |-> id, sigs |-> sigs])]
    BY <1>1 DEF Receive
  <2>2. PICK sigs \in Decodes[b][id] :
          log' = [log EXCEPT ![b] = Append(@, [id |-> id, sigs |-> sigs])]
    BY <2>1
  <2>3. sigs \in SUBSET Signal
    BY UplinkAssumption
  <2>4. [id |-> id, sigs |-> sigs] \in Abs!Frame
    BY <2>3 DEF Abs!Frame
  <2> QED
    BY <1>1, <2>2, <2>4 DEF Receive, Abs!Arrive, gpsVars, aggVars, pubVars
<1>2. ASSUME TakeCan PROVE \E b \in Bus : Abs!Absorb(b)
  <2>1. PICK m : m = Head(canRxCh)
    OBVIOUS
  <2>2. /\ m \in DecodeMsg /\ Matches(m) /\ taken[m.BusID] < m.n
        /\ taken' = [taken EXCEPT ![m.BusID] = m.n]
    BY <1>2, <2>1, TakeCanFacts DEF IInv, CanInv
  <2>3. m.BusID \in Bus /\ taken[m.BusID] \in Nat /\ m.n \in Nat /\ Len(log[m.BusID]) \in Nat
    BY <2>2, CanTypes DEF DecodeMsg, IInv
  <2>4. m.n \in taken[m.BusID] + 1 .. Len(log[m.BusID])
    BY <2>2, <2>3 DEF Matches
  <2>5. Abs!Absorb(m.BusID)
    BY <1>2, <2>2, <2>4 DEF Abs!Absorb, TakeCan, gpsVars, pubVars
  <2> QED
    BY <2>3, <2>5
<1>3. ASSUME TakeGps PROVE Abs!AbsorbFix
  <2>1. gpsData' = gpsRxCh[1] /\ 1 \in 1 .. Len(gpsRxCh)
    BY <1>3, HeadTailProperties DEF TakeGps, TypeOK, IInv
  <2>2. gpsRxCh[1] \in gpsData + 1 .. fixes
    BY <2>1 DEF IInv, FixInv, FixOK
  <2> QED
    BY <1>3, <2>1, <2>2 DEF Abs!AbsorbFix, TakeGps, canVars, pubVars
<1>4. ASSUME Report PROVE Abs!FixArrives
  BY <1>4 DEF Report, Abs!FixArrives, canVars, aggVars, pubVars
<1>5. ASSUME PublishOK PROVE Abs!Show
  <2>1. delivered' = Abs!View
    BY <1>5, LatchIsView DEF PublishOK, IInv, PublishedOK
  <2> QED
    BY <1>5, <2>1 DEF Abs!Show, PublishOK, canVars, gpsVars, aggVars
<1>6. CASE UNCHANGED <<log, fixes, aggVars, delivered>>
  BY <1>6 DEF Abs!vars, aggVars
<1> QED
  BY <1>1, <1>2, <1>3, <1>4, <1>5, <1>6 DEF Next, Listen, Watch, Publisher, Send, StopSend,
     ReceiveEnds, SendFix, TakeTick, PublishLost, PubStop, Tick, Cancel, Abs!Next,
     vars, canVars, gpsVars, aggVars, pubVars

\* Readers of the telemetry topic may rely on LatchView alone.
THEOREM Refinement == Spec => ImplementsLatchView
<1>1. IInv /\ [Next]_vars => [Abs!Next]_(Abs!vars)
  BY AbsStep
<1> QED
  BY <1>1, AbsInit, Invariance, PTL DEF Spec, ImplementsLatchView, Abs!Spec
=============================================================================
