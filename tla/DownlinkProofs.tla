--------------------------- MODULE DownlinkProofs ---------------------------
(***************************************************************************)
(* Theorems of module Downlink, for any buses, DBC files, payloads and     *)
(* capacity of canTxCh.                                                    *)
(***************************************************************************)
EXTENDS Downlink, SequenceTheorems, TLAPS

Commands == {ParseControlCommand(p, n) : p \in Payload, n \in Nat}
Frames == {MakeFrame(m) : m \in Commands}

(* Command m and frame f are those of the payload they name, in history r. *)
Queued(m, r) ==
    /\ m.n \in 1 .. Len(r)
    /\ m = ParseControlCommand(r[m.n], m.n)
    /\ Parses(r[m.n])

Made(f, r) ==
    /\ f.n \in 1 .. Len(r)
    /\ Parses(r[f.n])
    /\ Sendable(ParseControlCommand(r[f.n], f.n))
    /\ f = MakeFrame(ParseControlCommand(r[f.n], f.n))

(***************************************************************************)
(* The inductive invariant.  The wire, the TX worker, canTxCh and the      *)
(* callback hold commands in the order of their arrival, in this order: it *)
(* is what makes the worker's next command the oldest one.                 *)
(***************************************************************************)

\* Command n arrived before all that canTxCh and the callback hold.
Precedes(n) ==
    /\ \A i \in 1 .. Len(canTxCh) : n < canTxCh[i].n
    /\ callback = "send" => n < Len(received)

ReceivedOK ==
    /\ received \in Seq(Payload) /\ Len(received) <= MaxCmds
    /\ lost \subseteq 1 .. Len(received) /\ ctxDone \in BOOLEAN

QueueOK ==
    /\ canTxCh \in Seq(Commands) /\ Len(canTxCh) <= TxCap
    /\ \A i \in 1 .. Len(canTxCh) : Queued(canTxCh[i], received)
    /\ \A i, j \in 1 .. Len(canTxCh) : i < j => canTxCh[i].n < canTxCh[j].n

CallbackOK ==
    /\ callback \in {"idle", "send"}
    /\ callback = "send" =>
         /\ received # <<>> /\ Parses(received[Len(received)])
         /\ \A i \in 1 .. Len(canTxCh) : canTxCh[i].n < Len(received)

TxOK ==
    /\ tx \in {"select", "transmit", "stopped"}
    /\ tx = "transmit" => Made(frame, received) /\ Precedes(frame.n)
    /\ tx # "transmit" => frame = NoFrame

WireOK ==
    /\ wire \in Seq(Frames)
    /\ \A i \in 1 .. Len(wire) :
         /\ Made(wire[i], received) /\ Precedes(wire[i].n)
         /\ tx = "transmit" => wire[i].n < frame.n
    /\ \A i, j \in 1 .. Len(wire) : i < j => wire[i].n < wire[j].n

IInv == ReceivedOK /\ QueueOK /\ CallbackOK /\ TxOK /\ WireOK

-----------------------------------------------------------------------------
\* A command keeps its number, and so does its frame.
LEMMA Numbers ==
    /\ \A p, n : ParseControlCommand(p, n).n = n
    /\ \A m : MakeFrame(m).n = m.n
    /\ \A m \in Commands : m.n \in Nat
    /\ \A f \in Frames : f.n \in Nat
<1>1. \A p, n : ParseControlCommand(p, n).n = n
  BY DEF ParseControlCommand
<1>2. \A m : MakeFrame(m).n = m.n
  BY DEF MakeFrame
<1> QED
  BY <1>1, <1>2 DEF Commands, Frames

\* A frame goes to the bus and under the identifier the command names.
LEMMA FrameFields ==
    ASSUME NEW m
    PROVE  /\ MakeFrame(m).BusID = m.BusID /\ MakeFrame(m).ID = m.FrameID
           /\ MakeFrame(m).data =
                [s \in Dbc[m.BusID][m.FrameID] |-> IF s \in m.Signals THEN m.n ELSE 0]
  BY DEF MakeFrame

\* main starts the goroutines with empty channels.
LEMMA InvInit == Init => IInv
<1> SUFFICES ASSUME Init PROVE IInv
  OBVIOUS
<1>1. /\ received \in Seq(Payload) /\ canTxCh \in Seq(Commands) /\ wire \in Seq(Frames)
      /\ Len(received) = 0 /\ Len(canTxCh) = 0 /\ Len(wire) = 0
      /\ lost = {} /\ ctxDone = FALSE
  BY EmptySeq DEF Init
<1>2. ReceivedOK /\ QueueOK
  <2>1. MaxCmds \in Nat /\ TxCap \in Nat
    BY DownlinkAssumption
  <2>2. ReceivedOK
    <3>1. received \in Seq(Payload) /\ Len(received) <= MaxCmds
      BY <1>1, <2>1
    <3>2. lost \subseteq 1 .. Len(received)
      BY <1>1
    <3> QED
      BY <1>1, <3>1, <3>2 DEF ReceivedOK
  <2>3. QueueOK
    BY <1>1, <2>1 DEF QueueOK
  <2> QED
    BY <2>2, <2>3
<1>3. CallbackOK /\ TxOK
  BY DEF Init, CallbackOK, TxOK
<1>4. WireOK
  BY <1>1 DEF WireOK
<1> QED
  BY <1>2, <1>3, <1>4 DEF IInv

\* A payload that arrives changes nothing of the commands of the others.
LEMMA HistoryStable ==
    ASSUME ReceivedOK, NEW p \in Payload, received' = Append(received, p)
    PROVE  /\ received' \in Seq(Payload) /\ Len(received') = Len(received) + 1
           /\ Len(received) \in Nat /\ received'[Len(received) + 1] = p
           /\ \A n \in 1 .. Len(received) : received'[n] = received[n]
           /\ \A m : Queued(m, received) => Queued(m, received')
           /\ \A f : Made(f, received) => Made(f, received')
<1>1. /\ received' \in Seq(Payload) /\ Len(received') = Len(received) + 1
      /\ Len(received) \in Nat /\ received'[Len(received) + 1] = p
      /\ \A n \in 1 .. Len(received) : received'[n] = received[n]
  BY AppendProperties, LenProperties DEF ReceivedOK
<1>2. ASSUME NEW m, Queued(m, received) PROVE Queued(m, received')
  BY <1>1, <1>2 DEF Queued
<1>3. ASSUME NEW f, Made(f, received) PROVE Made(f, received')
  BY <1>1, <1>3 DEF Made
<1> QED
  BY <1>1, <1>2, <1>3

\* The callback takes a payload: it is younger than every command under way.
LEMMA InvDeliver == ASSUME IInv, Deliver PROVE IInv'
<1>1. PICK p \in Payload : received' = Append(received, p)
                           /\ callback' = IF Parses(p) THEN "send" ELSE "idle"
  BY DEF Deliver
<1>2. /\ received' \in Seq(Payload) /\ Len(received') = Len(received) + 1
      /\ Len(received) \in Nat /\ received'[Len(received) + 1] = p
      /\ \A m : Queued(m, received) => Queued(m, received')
      /\ \A f : Made(f, received) => Made(f, received')
  BY <1>1, HistoryStable DEF IInv
<1>3. UNCHANGED <<canTxCh, tx, frame, wire, lost, ctxDone>> /\ callback = "idle"
  BY DEF Deliver
<1>4. ReceivedOK'
  BY <1>2, <1>3, DownlinkAssumption DEF IInv, ReceivedOK, Deliver
<1>5. QueueOK'
  BY <1>2, <1>3 DEF IInv, QueueOK
<1>6. CallbackOK'
  <2>1. \A i \in 1 .. Len(canTxCh) : canTxCh[i].n < Len(received')
    BY <1>2 DEF IInv, QueueOK, Queued
  <2>2. received' # <<>>
    BY <1>2, EmptySeq
  <2> QED
    BY <1>1, <1>2, <1>3, <2>1, <2>2 DEF CallbackOK
<1>7. ASSUME NEW f, Made(f, received), Precedes(f.n)
      PROVE  Made(f, received') /\ Precedes(f.n)'
  BY <1>2, <1>3, <1>7 DEF Made, Precedes
<1>8. TxOK'
  BY <1>3, <1>7 DEF IInv, TxOK, Precedes
<1>9. WireOK'
  BY <1>3, <1>7 DEF IInv, WireOK, Precedes
<1> QED
  BY <1>4, <1>5, <1>6, <1>8, <1>9 DEF IInv

\* The callback's command joins canTxCh at its end, where it is the youngest.
LEMMA InvAccept == ASSUME IInv, Accept PROVE IInv'
<1> DEFINE m == Command(Len(received))
<1>1. Len(received) \in 1 .. Len(received) /\ received[Len(received)] \in Payload
  <2>1. Len(received) \in Nat \ {0}
    BY EmptySeq DEF IInv, ReceivedOK, CallbackOK, Accept
  <2> QED
    BY <2>1, ElementOfSeq DEF IInv, ReceivedOK
<1>2. m \in Commands /\ m.n = Len(received) /\ Queued(m, received)
  BY <1>1, Numbers DEF Commands, Command, Queued, IInv, CallbackOK, Accept
<1>3. /\ canTxCh' \in Seq(Commands) /\ Len(canTxCh') = Len(canTxCh) + 1
      /\ Len(canTxCh) \in Nat
      /\ \A i \in 1 .. Len(canTxCh) : canTxCh'[i] = canTxCh[i]
      /\ canTxCh'[Len(canTxCh) + 1] = m
  BY <1>2, AppendProperties, LenProperties DEF IInv, QueueOK, Accept
<1>4. QueueOK'
  <2>1. Len(canTxCh') <= TxCap
    BY <1>3, DownlinkAssumption DEF Accept
  <2>2. \A i \in 1 .. Len(canTxCh') : Queued(canTxCh'[i], received')
    BY <1>2, <1>3 DEF IInv, QueueOK, Accept
  <2>3. ASSUME NEW i \in 1 .. Len(canTxCh'), NEW j \in 1 .. Len(canTxCh'), i < j
        PROVE  canTxCh'[i].n < canTxCh'[j].n
    <3>1. i \in 1 .. Len(canTxCh) /\ (j \in 1 .. Len(canTxCh) \/ j = Len(canTxCh) + 1)
      BY <1>3, <2>3
    <3> QED
      BY <1>2, <1>3, <2>3, <3>1 DEF IInv, QueueOK, CallbackOK, Accept
  <2> QED
    BY <1>3, <2>1, <2>2, <2>3 DEF QueueOK
<1>5. ASSUME NEW n, Precedes(n) PROVE Precedes(n)'
  BY <1>2, <1>3, <1>5 DEF Precedes, Accept
<1>6. TxOK'
  BY <1>5 DEF IInv, TxOK, Accept
<1>7. WireOK'
  BY <1>5 DEF IInv, WireOK, Accept
<1> QED
  BY <1>4, <1>6, <1>7 DEF IInv, ReceivedOK, CallbackOK, Accept

\* The callback gives its command up when ctx is done.
LEMMA InvRelease == ASSUME IInv, Release PROVE IInv'
<1>1. Len(received) \in 1 .. Len(received)
  BY EmptySeq DEF IInv, ReceivedOK, CallbackOK, Release
<1> QED
  BY <1>1 DEF IInv, ReceivedOK, QueueOK, CallbackOK, TxOK, WireOK, Precedes, Release

\* What the worker takes is the head of canTxCh, ahead of the rest.
LEMMA TakeFacts ==
    ASSUME IInv, Take
    PROVE  /\ 1 \in 1 .. Len(canTxCh) /\ Head(canTxCh) = canTxCh[1]
           /\ Queued(canTxCh[1], received) /\ canTxCh[1] = Command(canTxCh[1].n)
           /\ canTxCh' \in Seq(Commands) /\ Len(canTxCh') = Len(canTxCh) - 1
           /\ Len(canTxCh) \in Nat
           /\ \A i \in 1 .. Len(canTxCh') : canTxCh'[i] = canTxCh[i + 1]
           /\ \A i \in 1 .. Len(canTxCh') : i + 1 \in 1 .. Len(canTxCh)
           /\ \A n : Precedes(n) => Precedes(n)'
<1>1. /\ Len(canTxCh) \in Nat \ {0}
      /\ Head(canTxCh) = canTxCh[1]
      /\ canTxCh' \in Seq(Commands) /\ Len(canTxCh') = Len(canTxCh) - 1
      /\ \A i \in 1 .. Len(canTxCh') : canTxCh'[i] = canTxCh[i + 1]
  BY HeadTailProperties, EmptySeq DEF IInv, QueueOK, Take
<1>2. \A i \in 1 .. Len(canTxCh') : i + 1 \in 1 .. Len(canTxCh)
  BY <1>1
<1>3. Queued(canTxCh[1], received) /\ canTxCh[1] = Command(canTxCh[1].n)
  BY <1>1 DEF IInv, QueueOK, Queued, Command
<1>4. \A n : Precedes(n) => Precedes(n)'
  BY <1>1, <1>2 DEF Precedes, Take
<1> QED
  BY <1>1, <1>2, <1>3, <1>4

LEMMA InvTake == ASSUME IInv, Take PROVE IInv'
<1>0. PICK m : m = canTxCh[1]
  OBVIOUS
<1>1. QueueOK'
  <2>1. \A i \in 1 .. Len(canTxCh') : Queued(canTxCh'[i], received')
    BY TakeFacts DEF IInv, QueueOK, Take
  <2>2. ASSUME NEW i \in 1 .. Len(canTxCh'), NEW j \in 1 .. Len(canTxCh'), i < j
        PROVE  canTxCh'[i].n < canTxCh'[j].n
    <3>1. i + 1 \in 1 .. Len(canTxCh) /\ j + 1 \in 1 .. Len(canTxCh) /\ i + 1 < j + 1
      BY <2>2, TakeFacts
    <3>2. canTxCh'[i] = canTxCh[i + 1] /\ canTxCh'[j] = canTxCh[j + 1]
      BY TakeFacts
    <3> QED
      BY <3>1, <3>2 DEF IInv, QueueOK
  <2> QED
    BY <2>1, <2>2, TakeFacts, DownlinkAssumption DEF IInv, QueueOK
<1>2. CallbackOK'
  BY TakeFacts DEF IInv, CallbackOK, Take
<1>3. Precedes(m.n)'
  <2>1. ASSUME NEW i \in 1 .. Len(canTxCh') PROVE m.n < canTxCh'[i].n
    BY <1>0, TakeFacts, SMTT(30) DEF IInv, QueueOK
  <2>2. callback' = "send" => m.n < Len(received')
    BY <1>0, TakeFacts DEF IInv, CallbackOK, Take
  <2> QED
    BY <2>1, <2>2 DEF Precedes
<1>4. TxOK'
  <2>1. CASE Sendable(m)
    <3>1. frame' = MakeFrame(m) /\ tx' = "transmit" /\ received' = received
      BY <1>0, <2>1, TakeFacts DEF Take
    <3>2. frame'.n = m.n
      BY <3>1, Numbers
    <3>3. Made(frame', received')
      BY <1>0, <2>1, <3>1, <3>2, TakeFacts DEF Made, Queued
    <3> QED
      BY <1>3, <3>1, <3>2, <3>3 DEF TxOK, Precedes
  <2>2. CASE ~Sendable(m)
    BY <1>0, <2>2, TakeFacts DEF IInv, TxOK, Take
  <2> QED
    BY <2>1, <2>2
<1>5. WireOK'
  <2>1. ASSUME NEW i \in 1 .. Len(wire)
        PROVE  Precedes(wire[i].n)' /\ (tx' = "transmit" => wire[i].n < frame'.n)
    <3>0. PICK n : n = wire[i].n
      OBVIOUS
    <3>1. Precedes(n)
      BY <3>0 DEF IInv, WireOK
    <3>2. Precedes(n)' /\ n < m.n
      BY <1>0, <3>1, TakeFacts DEF Precedes
    <3>3. tx' = "transmit" => frame'.n = m.n
      BY <1>0, TakeFacts, Numbers DEF Take, IInv, TxOK
    <3> QED
      BY <3>0, <3>2, <3>3 DEF Precedes, Take
  <2> QED
    BY <2>1 DEF IInv, WireOK, Take, Precedes
<1> QED
  BY <1>1, <1>2, <1>4, <1>5 DEF IInv, ReceivedOK, Take

\* The frame transmitted is younger than all on the wire and older than the rest.
LEMMA InvTransmit == ASSUME IInv, Transmit PROVE IInv'
<1>1. Made(frame, received) /\ Precedes(frame.n)
  BY DEF IInv, TxOK, Transmit
<1>2. frame \in Frames
  <2>1. received[frame.n] \in Payload /\ frame.n \in Nat
    BY <1>1, ElementOfSeq DEF Made, IInv, ReceivedOK
  <2> QED
    BY <1>1, <2>1 DEF Made, Frames, Commands
<1>3. /\ wire' \in Seq(Frames) /\ Len(wire') = Len(wire) + 1 /\ Len(wire) \in Nat
      /\ \A i \in 1 .. Len(wire) : wire'[i] = wire[i]
      /\ wire'[Len(wire) + 1] = frame
  BY <1>2, AppendProperties, LenProperties DEF IInv, WireOK, Transmit
<1>4. WireOK'
  <2>1. ASSUME NEW i \in 1 .. Len(wire')
        PROVE  (Made(wire[i], received) /\ Precedes(wire[i].n))'
    <3>0. PICK f : f = wire'[i]
      OBVIOUS
    <3>1. CASE i \in 1 .. Len(wire)
      <4>1. Made(f, received) /\ Precedes(f.n)
        BY <1>3, <3>0, <3>1 DEF IInv, WireOK
      <4> QED
        BY <3>0, <4>1 DEF Transmit, Precedes
    <3>2. CASE i = Len(wire) + 1
      <4>1. Made(f, received) /\ Precedes(f.n)
        BY <1>1, <1>3, <3>0, <3>2
      <4> QED
        BY <3>0, <4>1 DEF Transmit, Precedes
    <3> QED
      BY <1>3, <3>1, <3>2
  <2>2. ASSUME NEW i \in 1 .. Len(wire'), NEW j \in 1 .. Len(wire'), i < j
        PROVE  wire'[i].n < wire'[j].n
    <3>1. i \in 1 .. Len(wire) /\ (j \in 1 .. Len(wire) \/ j = Len(wire) + 1)
      BY <1>3, <2>2
    <3> QED
      BY <1>3, <2>2, <3>1 DEF IInv, WireOK, Transmit
  <2> QED
    BY <1>3, <2>1, <2>2 DEF WireOK, Precedes, Transmit
<1> QED
  BY <1>4 DEF IInv, ReceivedOK, QueueOK, CallbackOK, TxOK, Precedes, Transmit

\* A failed transmit, the end of the worker and the cancellation move nothing.
LEMMA InvQuiet == ASSUME IInv, TransmitFails \/ TxStop \/ Cancel PROVE IInv'
<1>1. CASE TransmitFails
  BY <1>1 DEF IInv, ReceivedOK, QueueOK, CallbackOK, TxOK, WireOK, Precedes, Made, TransmitFails
<1>2. CASE TxStop \/ Cancel
  BY <1>2 DEF IInv, ReceivedOK, QueueOK, CallbackOK, TxOK, WireOK, Precedes, TxStop, Cancel
<1> QED
  BY <1>1, <1>2

\* Every step keeps the invariant.
LEMMA InvStep == IInv /\ [Next]_vars => IInv'
<1> SUFFICES ASSUME IInv, [Next]_vars PROVE IInv'
  OBVIOUS
<1>1. CASE Callback
  BY <1>1, InvDeliver, InvAccept, InvRelease DEF Callback
<1>2. CASE TxWorker
  BY <1>2, InvTake, InvTransmit, InvQuiet DEF TxWorker
<1>3. CASE Cancel
  BY <1>3, InvQuiet
<1>4. CASE UNCHANGED vars
  BY <1>4 DEF vars, IInv, ReceivedOK, QueueOK, CallbackOK, TxOK, WireOK, Precedes
<1> QED
  BY <1>1, <1>2, <1>3, <1>4 DEF Next

LEMMA Invariance == Spec => []IInv
  BY InvInit, InvStep, PTL DEF Spec

-----------------------------------------------------------------------------
\* Every variable of the command path has its type, and canTxCh never exceeds
\* the capacity main gave it.
THEOREM TypeCorrect == Spec => []TypeOK
<1>1. ASSUME IInv PROVE TypeOK
  <2>1. /\ \A n \in 1 .. Len(received) : received[n] \in Payload
        /\ Len(received) \in Nat
    BY <1>1, ElementOfSeq, LenProperties DEF IInv, ReceivedOK
  <2>2. \A i \in 1 .. Len(canTxCh) : canTxCh[i] \in {Command(n) : n \in 1 .. Len(received)}
    BY <1>1 DEF IInv, QueueOK, Queued, Command
  <2>3. frame.n \in 0 .. Len(received)
    BY <1>1, <2>1 DEF IInv, TxOK, Made, NoFrame
  <2> QED
    BY <1>1, <2>1, <2>2, <2>3 DEF TypeOK, IInv, ReceivedOK, QueueOK, CallbackOK, TxOK,
       WireOK, Made
<1> QED
  BY <1>1, Invariance, PTL

\* The buses see the executable commands in the order they were received, each at
\* most once, with the values it names and every other signal of the definition
\* zero, for any DBC files.
THEOREM FramesFaithful == Spec => []WireFaithful
<1>1. ASSUME IInv PROVE WireFaithful
  <2>1. \A i, j \in 1 .. Len(wire) : i < j => wire[i].n < wire[j].n
    BY <1>1 DEF IInv, WireOK
  <2>2. ASSUME NEW i \in 1 .. Len(wire)
        PROVE  LET f == wire[i]  p == received[f.n] IN
                 /\ Executable(f.n) /\ f.BusID = p.bus /\ f.ID = p.frame
                 /\ DOMAIN f.data = Dbc[p.bus][p.frame]
                 /\ \A s \in DOMAIN f.data :
                      f.data[s] = IF p.values[s] \in {"bool", "number"} THEN f.n ELSE 0
    <3> DEFINE f == wire[i]
               p == received[f.n]
               m == ParseControlCommand(p, f.n)
    <3>1. /\ f.n \in Nat \ {0} /\ p \in Payload
          /\ Parses(p) /\ Sendable(m) /\ f = MakeFrame(m)
      BY <1>1, <2>2, ElementOfSeq, LenProperties DEF IInv, WireOK, Made, ReceivedOK
    <3>2. Executable(f.n)
      BY <3>1 DEF Executable, Command
    <3>3. /\ m.BusID = p.bus /\ m.FrameID = p.frame /\ m.n = f.n
          /\ m.Signals = {s \in Signal : p.values[s] # "absent"}
      BY DEF ParseControlCommand
    <3>4. /\ f.BusID = m.BusID /\ f.ID = m.FrameID
          /\ f.data = [s \in Dbc[m.BusID][m.FrameID] |-> IF s \in m.Signals THEN m.n ELSE 0]
      BY <3>1, FrameFields
    <3>5. ASSUME NEW s \in DOMAIN f.data
          PROVE  f.data[s] = IF p.values[s] \in {"bool", "number"} THEN f.n ELSE 0
      <4>1. s \in Dbc[m.BusID][m.FrameID] /\ s \in Signal
        BY <3>1, <3>4, DownlinkAssumption DEF Sendable, Makes
      <4>2. p.values[s] \in {"absent", "bool", "number"}
        <5>1. p.values \in [Signal -> {"absent", "bool", "number", "other"}]
          BY <3>1, DownlinkAssumption
        <5>2. p.values[s] # "other"
          BY <3>1, <4>1 DEF Parses
        <5> HIDE DEF p
        <5> QED
          BY <4>1, <5>1, <5>2
      <4>3. f.data[s] = IF p.values[s] # "absent" THEN f.n ELSE 0
        BY <3>3, <3>4, <4>1
      <4> QED
        BY <3>1, <4>2, <4>3
    <3> QED
      BY <3>2, <3>3, <3>4, <3>5
  <2> QED
    BY <2>1, <2>2 DEF WireFaithful
<1> QED
  BY <1>1, Invariance, PTL
-----------------------------------------------------------------------------
(* The command path implements CommandPath: Deliver is Arrive, Transmit is *)
(* Execute, and TransmitFails and Release lose a command, if it could be   *)
(* executed; every other step is invisible.                                *)

Pending == {n \in 1 .. Len(received) : Executable(n) /\ InFlight(n)}
Executions == [i \in 1 .. Len(wire) |-> wire[i].n]
Losses == {n \in lost : Executable(n)}

\* A command that can be executed is one whose payload is in Good.
LEMMA GoodPayloads ==
    ASSUME NEW p \in Payload, NEW n
    PROVE  Parses(p) /\ Sendable(ParseControlCommand(p, n)) <=> p \in Good
  BY DEF Good, Sendable, Makes, ParseControlCommand

\* A step that adds no payload leaves it open which commands can be executed.
LEMMA ExecutableKept ==
    ASSUME UNCHANGED received
    PROVE  \A n : Executable(n) <=> Executable(n)'
  BY DEF Executable, Command

\* The program starts with nothing received, pending, executed or lost.
LEMMA AbsInit == Init => Abstract!Init
<1> SUFFICES ASSUME Init PROVE Abstract!Init
  OBVIOUS
<1>1. Len(received) = 0 /\ Len(wire) = 0 /\ received = <<>> /\ lost = {}
  BY EmptySeq DEF Init
<1>2. Pending = {} /\ Losses = {}
  BY <1>1 DEF Pending, Losses
<1>3. Executions = <<>>
  BY <1>1 DEF Executions
<1> QED
  BY <1>1, <1>2, <1>3 DEF Abstract!Init, Pending, Losses, Executions

\* A payload becomes a pending command exactly if it is in Good.
LEMMA AbsDeliver == ASSUME IInv, Deliver PROVE Abstract!Arrive
<1>1. PICK p \in Payload : received' = Append(received, p)
                           /\ callback' = IF Parses(p) THEN "send" ELSE "idle"
  BY DEF Deliver
<1>0. PICK L : L = Len(received)
  OBVIOUS
<1>2. /\ Len(received') = L + 1 /\ L \in Nat /\ received'[L + 1] = p
      /\ \A n \in 1 .. L : received'[n] = received[n]
  BY <1>0, <1>1, HistoryStable DEF IInv
<1>3. UNCHANGED <<canTxCh, tx, frame, wire, lost, ctxDone>> /\ callback = "idle"
  BY DEF Deliver
<1>4. ASSUME NEW n \in 1 .. L
      PROVE  (Executable(n)' <=> Executable(n)) /\ (InFlight(n)' <=> InFlight(n))
  <2>1. Executable(n)' <=> Executable(n)
    BY <1>2 DEF Executable, Command
  <2>2. n # Len(received')
    BY <1>2
  <2> QED
    BY <1>3, <2>1, <2>2 DEF InFlight
<1>5. Executable(L + 1)' <=> p \in Good
  BY <1>2, GoodPayloads DEF Executable, Command
<1>6. p \in Good => InFlight(L + 1)'
  BY <1>1, <1>2 DEF InFlight, Good
<1>7. Pending' = IF p \in Good THEN Pending \cup {L + 1} ELSE Pending
  BY <1>0, <1>2, <1>4, <1>5, <1>6 DEF Pending
<1>8. Losses' = Losses
  BY <1>0, <1>2, <1>3, <1>4 DEF Losses, IInv, ReceivedOK
<1> QED
  BY <1>0, <1>1, <1>3, <1>7, <1>8 DEF Abstract!Arrive, Pending, Losses, Executions

\* Only what is in flight is pending, so a step that moves a command from one place
\* to the next is invisible.
LEMMA AbsMove ==
    ASSUME UNCHANGED <<received, wire, lost>>,
           \A n \in 1 .. Len(received) : Executable(n) => (InFlight(n)' <=> InFlight(n))
    PROVE  UNCHANGED Abstract!vars
<1>1. Pending' = Pending /\ Losses' = Losses
  BY ExecutableKept DEF Pending, Losses
<1> QED
  BY <1>1 DEF Abstract!vars, Pending, Losses

\* A command leaves the callback or the worker for good: it is lost, and pending no
\* more.
LEMMA AbsLose ==
    ASSUME IInv, NEW k \in 1 .. Len(received), InFlight(k), ~InFlight(k)',
           UNCHANGED <<received, wire>>, lost' = lost \cup {k},
           \A n \in 1 .. Len(received) : n # k => (InFlight(n)' <=> InFlight(n))
    PROVE  [Abstract!Next]_(Abstract!vars)
<1>1. CASE Executable(k)
  <2>1. k \in Pending /\ Pending' = Pending \ {k} /\ Losses' = Losses \cup {k}
    BY <1>1, ExecutableKept DEF Pending, Losses
  <2>2. Abstract!Lose
    BY <2>1 DEF Abstract!Lose, Pending, Losses
  <2> QED
    BY <2>2 DEF Abstract!Next
<1>2. CASE ~Executable(k)
  <2>1. Pending' = Pending /\ Losses' = Losses
    BY <1>2, ExecutableKept DEF Pending, Losses
  <2> QED
    BY <2>1 DEF Abstract!vars, Pending, Losses
<1> QED
  BY <1>1, <1>2

\* From the callback into canTxCh.
LEMMA AbsAccept == ASSUME IInv, Accept PROVE UNCHANGED Abstract!vars
<1> DEFINE m == Command(Len(received))
<1>1. m \in Commands /\ m.n = Len(received)
  <2>1. Len(received) \in Nat \ {0}
    BY EmptySeq DEF IInv, ReceivedOK, CallbackOK, Accept
  <2>2. received[Len(received)] \in Payload
    BY <2>1, ElementOfSeq DEF IInv, ReceivedOK
  <2> QED
    BY <2>1, <2>2, Numbers DEF Commands, Command
<1>2. /\ Len(canTxCh') = Len(canTxCh) + 1 /\ Len(canTxCh) \in Nat
      /\ \A i \in 1 .. Len(canTxCh) : canTxCh'[i] = canTxCh[i]
      /\ canTxCh'[Len(canTxCh) + 1] = m
  BY <1>1, AppendProperties, LenProperties DEF IInv, QueueOK, Accept
<1>3. ASSUME NEW n PROVE InFlight(n)' <=> InFlight(n)
  <2>1. (\E i \in 1 .. Len(canTxCh') : canTxCh'[i].n = n)
          <=> (\E i \in 1 .. Len(canTxCh) : canTxCh[i].n = n) \/ n = Len(received)
    BY <1>1, <1>2
  <2> QED
    BY <2>1 DEF InFlight, Accept
<1> QED
  BY <1>3, AbsMove DEF Accept

\* From canTxCh to the worker, which drops what cannot be executed.
LEMMA AbsTake == ASSUME IInv, Take PROVE UNCHANGED Abstract!vars
<1>0. PICK m : m = canTxCh[1]
  OBVIOUS
<1>1. ASSUME NEW n
      PROVE  (\E i \in 1 .. Len(canTxCh) : canTxCh[i].n = n)
               <=> n = m.n \/ \E i \in 1 .. Len(canTxCh') : canTxCh'[i].n = n
  <2>1. ASSUME NEW i \in 1 .. Len(canTxCh), i # 1
        PROVE  i - 1 \in 1 .. Len(canTxCh') /\ canTxCh'[i - 1] = canTxCh[i]
    <3>1. i - 1 \in 1 .. Len(canTxCh') /\ (i - 1) + 1 = i
      BY <2>1, TakeFacts
    <3> QED
      BY <3>1, TakeFacts
  <2> QED
    BY <1>0, <2>1, TakeFacts
<1>2. CASE Sendable(m)
  <2>1. /\ frame' = MakeFrame(m) /\ tx' = "transmit" /\ tx = "select"
        /\ UNCHANGED <<received, callback, wire, lost>>
    BY <1>0, <1>2, TakeFacts DEF Take
  <2>2. frame'.n = m.n
    BY <2>1, Numbers
  <2>3. \A n : InFlight(n)' <=> InFlight(n)
    BY <1>1, <2>1, <2>2 DEF InFlight
  <2> QED
    BY <2>1, <2>3, AbsMove
<1>3. CASE ~Sendable(m)
  <2>1. /\ frame' = frame /\ tx' = tx
        /\ UNCHANGED <<received, callback, wire, lost>>
    BY <1>0, <1>3, TakeFacts DEF Take
  <2>2. ~Executable(m.n)
    BY <1>0, <1>3, TakeFacts DEF Executable
  <2>3. \A n : Executable(n) => (InFlight(n)' <=> InFlight(n))
    BY <1>1, <2>1, <2>2 DEF InFlight
  <2> QED
    BY <2>1, <2>3, AbsMove
<1> QED
  BY <1>2, <1>3

\* The worker's frame is the oldest command pending.
LEMMA AbsTransmit == ASSUME IInv, Transmit PROVE Abstract!Execute
<1>0. PICK k : k = frame.n
  OBVIOUS
<1>1. /\ Made(frame, received) /\ Precedes(k) /\ k \in 1 .. Len(received) /\ Len(received) \in Nat
      /\ tx = "transmit" /\ tx' = "select" /\ UNCHANGED <<received, callback, canTxCh, lost>>
  BY <1>0, LenProperties DEF IInv, TxOK, Transmit, Made, ReceivedOK
<1>2. Executable(k) /\ InFlight(k)
  BY <1>0, <1>1 DEF Made, Executable, Command, InFlight
<1>3. ASSUME NEW n, n # k PROVE InFlight(n)' <=> InFlight(n)
  BY <1>0, <1>1, <1>3 DEF InFlight
<1>4. ~InFlight(k)'
  BY <1>1 DEF InFlight, Precedes, IInv, QueueOK, Queued
<1>5. k \in Pending /\ Pending' = Pending \ {k} /\ Losses' = Losses
  BY <1>1, <1>2, <1>3, <1>4, ExecutableKept DEF Pending, Losses
<1>6. \A n \in Pending : k <= n
  BY <1>0, <1>1 DEF Pending, InFlight, Precedes, IInv, QueueOK, Queued
<1>7. Executions' = Append(Executions, k)
  <2>1. frame \in Frames
    <3>1. received[k] \in Payload /\ k \in Nat
      BY <1>1, ElementOfSeq DEF IInv, ReceivedOK
    <3> QED
      BY <1>0, <1>1, <3>1 DEF Made, Frames, Commands
  <2>2. /\ wire' \in Seq(Frames) /\ Len(wire') = Len(wire) + 1 /\ Len(wire) \in Nat
        /\ \A i \in 1 .. Len(wire) : wire'[i] = wire[i] /\ wire[i] \in Frames
        /\ wire'[Len(wire) + 1] = frame
    BY <2>1, AppendProperties, LenProperties, ElementOfSeq DEF IInv, WireOK, Transmit
  <2>3. Executions \in Seq(Nat) /\ Len(Executions) = Len(wire)
    BY <2>2, Numbers DEF Executions
  <2>4. /\ Append(Executions, k) \in Seq(Nat) /\ Len(Append(Executions, k)) = Len(wire) + 1
        /\ \A i \in 1 .. Len(wire) : Append(Executions, k)[i] = wire[i].n
        /\ Append(Executions, k)[Len(wire) + 1] = k
    BY <1>1, <2>2, <2>3, AppendProperties DEF Executions
  <2>5. Executions' \in Seq(Nat) /\ Len(Executions') = Len(wire) + 1
    BY <1>0, <1>1, <2>2, Numbers, ElementOfSeq DEF Executions
  <2>6. \A i \in 1 .. Len(wire) + 1 : Executions'[i] = Append(Executions, k)[i]
    BY <1>0, <2>2, <2>4 DEF Executions
  <2> QED
    BY <2>4, <2>5, <2>6, SeqEqual
<1> QED
  BY <1>1, <1>5, <1>6, <1>7 DEF Abstract!Execute, Pending, Executions, Losses

\* A failed transmit, and a callback released by the shutdown.
LEMMA AbsLost ==
    ASSUME IInv, TransmitFails \/ Release PROVE [Abstract!Next]_(Abstract!vars)
<1>1. CASE TransmitFails
  <2>0. PICK k : k = frame.n
    OBVIOUS
  <2>1. k \in 1 .. Len(received) /\ Precedes(k) /\ tx = "transmit" /\ tx' = "select"
    BY <1>1, <2>0 DEF IInv, TxOK, TransmitFails, Made
  <2>2. InFlight(k) /\ \A n : n # k => (InFlight(n)' <=> InFlight(n))
    BY <1>1, <2>0, <2>1 DEF InFlight, TransmitFails
  <2>3. ~InFlight(k)'
    BY <1>1, <2>1 DEF InFlight, Precedes, TransmitFails, IInv, QueueOK, Queued
  <2> QED
    BY <1>1, <2>0, <2>1, <2>2, <2>3, AbsLose DEF TransmitFails
<1>2. CASE Release
  <2>0. PICK k : k = Len(received)
    OBVIOUS
  <2>1. k \in 1 .. Len(received) /\ callback = "send" /\ callback' = "idle"
    BY <1>2, <2>0, EmptySeq DEF IInv, ReceivedOK, CallbackOK, Release
  <2>2. InFlight(k) /\ \A n : n # k => (InFlight(n)' <=> InFlight(n))
    BY <1>2, <2>0, <2>1 DEF InFlight, Release
  <2>3. ~InFlight(k)'
    BY <1>2, <2>0, <2>1 DEF InFlight, Precedes, Release, IInv, QueueOK, Queued, CallbackOK,
       TxOK, Made
  <2> QED
    BY <1>2, <2>0, <2>1, <2>2, <2>3, AbsLose DEF Release
<1> QED
  BY <1>1, <1>2

\* Every step of the command path is a step of CommandPath or is invisible.
LEMMA AbsStep == ASSUME IInv, [Next]_vars PROVE [Abstract!Next]_(Abstract!vars)
<1>1. CASE Callback
  BY <1>1, AbsDeliver, AbsAccept, AbsLost DEF Callback, Abstract!Next
<1>2. CASE Take \/ Transmit \/ TransmitFails
  BY <1>2, AbsTake, AbsTransmit, AbsLost DEF Abstract!Next
<1>3. CASE TxStop \/ Cancel \/ UNCHANGED vars
  <2>1. UNCHANGED <<received, wire, lost>> /\ \A n : InFlight(n)' <=> InFlight(n)
    BY <1>3 DEF TxStop, Cancel, vars, InFlight
  <2> QED
    BY <2>1, AbsMove
<1> QED
  BY <1>1, <1>2, <1>3 DEF Next, TxWorker

\* Whoever sends commands may rely on CommandPath alone: in order, at most once,
\* none overtaken, and none given up but by a failed transmit or the shutdown.
THEOREM Refinement == Spec => ImplementsCommandPath
<1>1. IInv /\ [Next]_vars => [Abstract!Next]_(Abstract!vars)
  BY AbsStep
<1> QED
  BY <1>1, AbsInit, Invariance, PTL DEF Spec, ImplementsCommandPath, Abstract!Spec
=============================================================================
