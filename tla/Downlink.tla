------------------------------ MODULE Downlink ------------------------------
(***************************************************************************)
(* The command path of cmd/telemetry: the broker client calls back with a  *)
(* payload, ParseControlCommand turns it into a command, canTxCh carries   *)
(* it to the TX worker, which encodes it with the DBC definition of its    *)
(* frame and transmits it on its bus.                                      *)
(*                                                                         *)
(* Values are represented by their origin: a signal of a transmitted frame *)
(* holds the number of the payload that set it, 0 when its bits were left  *)
(* zero.                                                                   *)
(***************************************************************************)
EXTENDS Naturals, Sequences

CONSTANTS
    Bus,       \* interfaces that have a CAN handler
    Signal,    \* signal names, of the DBC files and of the payloads
    Dbc,       \* Dbc[b]: frame identifier -> its signals; {} domain: no DBC file
    Payload,   \* the payloads that may arrive, see Payloads
    TxCap,     \* capacity of canTxCh (100 in main)
    MaxCmds    \* bound: payloads that arrive

\* What ParseControlCommand distinguishes in a payload.  bus and frame are ""
\* when the field is blank or absent, frame is "bad" when it is no 32-bit
\* decimal or 0x number; "other" is a value neither boolean nor number.
ASSUME DownlinkAssumption ==
    /\ \A p \in Payload :
         /\ DOMAIN p = {"json", "bus", "frame", "values"}
         /\ p.json \in BOOLEAN
         /\ p.values \in [Signal -> {"absent", "bool", "number", "other"}]
    /\ \A b \in Bus : \A id \in DOMAIN Dbc[b] : Dbc[b][id] \subseteq Signal
    /\ TxCap \in Nat \ {0} /\ MaxCmds \in Nat

VARIABLES
    received,  \* the payloads delivered so far, oldest first
    callback,  \* "idle" or "send" (to canTxCh)
    canTxCh,   \* commands on their way to the TX worker
    tx,        \* "select", "transmit" or "stopped"
    frame,     \* the frame the TX worker transmits
    wire,      \* history: the frames transmitted, with their bus
    lost,      \* history: commands dropped by ctx.Done or a failed transmit
    ctxDone    \* main has called cancelFn

vars == <<received, callback, canTxCh, tx, frame, wire, lost, ctxDone>>

NoFrame == [n |-> 0]

Init ==
    /\ received = <<>> /\ callback = "idle" /\ canTxCh = <<>>
    /\ tx = "select" /\ frame = NoFrame
    /\ wire = <<>> /\ lost = {} /\ ctxDone = FALSE

-----------------------------------------------------------------------------
(* mq.ParseControlCommand                                                  *)

Parses(p) ==
    /\ p.json
    /\ p.bus # "" /\ p.frame \notin {"", "bad"}
    /\ \A s \in Signal : p.values[s] # "other"

\* The DecodeMsg of payload p, the n-th: booleans and numbers are converted alike.
ParseControlCommand(p, n) ==
    [BusID   |-> p.bus,
     FrameID |-> p.frame,
     Signals |-> {s \in Signal : p.values[s] # "absent"},
     n       |-> n]

Command(n) == ParseControlCommand(received[n], n)

-----------------------------------------------------------------------------
(* canhandler.Handler.MakeFrame                                            *)

\* The message is defined in the DBC file of the bus.
Makes(m) == m.FrameID \in DOMAIN Dbc[m.BusID]

\* Faulty variant: the buffer is reused, and what the command leaves out keeps the
\* bits of the last frame sent.
MakeFrameReused(m) ==
    [BusID |-> m.BusID, ID |-> m.FrameID, n |-> m.n,
     data  |-> [s \in Dbc[m.BusID][m.FrameID] |->
                  IF s \in m.Signals THEN m.n
                  ELSE IF wire = <<>> THEN 0 ELSE wire[Len(wire)].n]]

\* The bits start out zero; the signals of the definition that the command
\* names are set, names it does not know are ignored.
MakeFrame(m) ==
    [BusID |-> m.BusID, ID |-> m.FrameID, n |-> m.n,
     data  |-> [s \in Dbc[m.BusID][m.FrameID] |-> IF s \in m.Signals THEN m.n ELSE 0]]

-----------------------------------------------------------------------------
(* The subscription callback of main                                       *)

\* A payload arrives; one that does not parse is logged and forgotten.
Deliver ==
    /\ callback = "idle"
    /\ Len(received) < MaxCmds
    /\ \E p \in Payload :
         /\ received' = Append(received, p)
         /\ callback' = IF Parses(p) THEN "send" ELSE "idle"
    /\ UNCHANGED <<canTxCh, tx, frame, wire, lost, ctxDone>>

\* Faulty variants: a full channel makes the callback drop the command; the
\* room is not checked.
AcceptOrDrop ==
    /\ callback = "send"
    /\ canTxCh' = IF Len(canTxCh) < TxCap
                  THEN Append(canTxCh, Command(Len(received))) ELSE canTxCh
    /\ callback' = "idle"
    /\ UNCHANGED <<received, tx, frame, wire, lost, ctxDone>>

AcceptUnbounded ==
    /\ callback = "send"
    /\ canTxCh' = Append(canTxCh, Command(Len(received)))
    /\ callback' = "idle"
    /\ UNCHANGED <<received, tx, frame, wire, lost, ctxDone>>

Accept ==
    /\ callback = "send"
    /\ Len(canTxCh) < TxCap
    /\ canTxCh' = Append(canTxCh, Command(Len(received)))
    /\ callback' = "idle"
    /\ UNCHANGED <<received, tx, frame, wire, lost, ctxDone>>

Release ==
    /\ callback = "send"
    /\ ctxDone
    /\ lost' = lost \cup {Len(received)}
    /\ callback' = "idle"
    /\ UNCHANGED <<received, canTxCh, tx, frame, wire, ctxDone>>

-----------------------------------------------------------------------------
(* The TX worker of main and Handler.SendFrame                             *)

\* The command is dropped when no handler has its bus_id (continue) or the
\* frame cannot be made (the error of SendFrame is logged).
Sendable(m) == m.BusID \in Bus /\ Makes(m)

\* Faulty variant: the worker returns when there is no handler for the bus.
TakeReturns ==
    /\ tx = "select" /\ canTxCh # <<>>
    /\ canTxCh' = Tail(canTxCh)
    /\ LET m == Head(canTxCh) IN
         IF Sendable(m) THEN frame' = MakeFrame(m) /\ tx' = "transmit"
                        ELSE tx' = "stopped" /\ UNCHANGED frame
    /\ UNCHANGED <<received, callback, wire, lost, ctxDone>>

Take ==
    /\ tx = "select" /\ canTxCh # <<>>
    /\ canTxCh' = Tail(canTxCh)
    /\ LET m == Head(canTxCh) IN
         IF Sendable(m) THEN frame' = MakeFrame(m) /\ tx' = "transmit"
                        ELSE UNCHANGED <<frame, tx>>
    /\ UNCHANGED <<received, callback, wire, lost, ctxDone>>

Transmit ==
    /\ tx = "transmit"
    /\ wire' = Append(wire, frame)
    /\ tx' = "select" /\ frame' = NoFrame
    /\ UNCHANGED <<received, callback, canTxCh, lost, ctxDone>>

\* Faulty variant: a frame that failed is queued again, behind the others.
TransmitFailsRetry ==
    /\ tx = "transmit" /\ Len(canTxCh) < TxCap
    /\ canTxCh' = Append(canTxCh, Command(frame.n))
    /\ tx' = "select" /\ frame' = NoFrame
    /\ UNCHANGED <<received, callback, wire, lost, ctxDone>>

\* The error of TransmitFrame is logged; nothing is sent again.
TransmitFails ==
    /\ tx = "transmit"
    /\ lost' = lost \cup {frame.n}
    /\ tx' = "select" /\ frame' = NoFrame
    /\ UNCHANGED <<received, callback, canTxCh, wire, ctxDone>>

\* Commands still queued are dropped.
TxStop ==
    /\ tx = "select" /\ ctxDone
    /\ tx' = "stopped"
    /\ UNCHANGED <<received, callback, canTxCh, frame, wire, lost, ctxDone>>

Cancel ==
    /\ ~ctxDone
    /\ ctxDone' = TRUE
    /\ UNCHANGED <<received, callback, canTxCh, tx, frame, wire, lost>>

-----------------------------------------------------------------------------
Callback == Deliver \/ Accept \/ Release
TxWorker == Take \/ Transmit \/ TransmitFails \/ TxStop
Next == Callback \/ TxWorker \/ Cancel

Spec == Init /\ [][Next]_vars

\* The goroutines run; the sender blocked on a full canTxCh is served when room
\* appears again and again.
Fairness == SF_vars(Accept) /\ WF_vars(TxWorker)

FairSpec == Spec /\ Fairness

-----------------------------------------------------------------------------
(* Properties                                                              *)

\* A payload that must lead to a frame.
Executable(n) == Parses(received[n]) /\ Sendable(Command(n))

OnWire(n) == \E i \in 1 .. Len(wire) : wire[i].n = n

InFlight(n) ==
    \/ \E i \in 1 .. Len(canTxCh) : canTxCh[i].n = n
    \/ callback = "send" /\ n = Len(received)
    \/ tx = "transmit" /\ frame.n = n

\* Every variable has its type and canTxCh keeps its capacity.
TypeOK ==
    /\ Len(received) <= MaxCmds /\ \A n \in 1 .. Len(received) : received[n] \in Payload
    /\ callback \in {"idle", "send"}
    /\ Len(canTxCh) <= TxCap
    /\ \A i \in 1 .. Len(canTxCh) : canTxCh[i] \in {Command(n) : n \in 1 .. Len(received)}
    /\ tx \in {"select", "transmit", "stopped"}
    /\ frame.n \in 0 .. Len(received)
    /\ \A i \in 1 .. Len(wire) : wire[i].n \in 1 .. Len(received)
    /\ lost \subseteq 1 .. Len(received) /\ ctxDone \in BOOLEAN

\* The buses see the executable commands in the order they were received, each
\* at most once, on the bus and under the identifier it names.  A frame has the
\* signals of its definition and no others; those the command named hold its
\* values, and the rest is zero, whatever frames were sent before.  A command that
\* names none of them is sent as well, with every bit zero.
WireFaithful ==
    /\ \A i, j \in 1 .. Len(wire) : i < j => wire[i].n < wire[j].n
    /\ \A i \in 1 .. Len(wire) :
         LET f == wire[i]  p == received[f.n] IN
           /\ Executable(f.n) /\ f.BusID = p.bus /\ f.ID = p.frame
           /\ DOMAIN f.data = Dbc[p.bus][p.frame]
           /\ \A s \in DOMAIN f.data :
                f.data[s] = IF p.values[s] \in {"bool", "number"} THEN f.n ELSE 0

\* A command that cannot be executed, or fails to transmit, never stops the
\* ones behind it.
Executed ==
    \A n \in 1 .. MaxCmds :
        (n <= Len(received) /\ Executable(n)) ~> (OnWire(n) \/ n \in lost \/ ctxDone)

\* The payloads of commands that can be executed.
Good == {p \in Payload : Parses(p) /\ p.bus \in Bus /\ p.frame \in DOMAIN Dbc[p.bus]}

Abstract == INSTANCE CommandPath WITH
    pending  <- {n \in 1 .. Len(received) : Executable(n) /\ InFlight(n)},
    executed <- [i \in 1 .. Len(wire) |-> wire[i].n],
    lost     <- {n \in lost : Executable(n)}

\* The channel, the callback that may block on it, the worker and its failures
\* together are the command path of CommandPath.  So nothing is dropped: what can
\* be executed is executed, on its way, or was lost by a failed transmit or the
\* shutdown (what canTxCh holds when the worker stops counts as on its way).  And
\* nothing overtakes: only the oldest command on its way is ever executed.
ImplementsCommandPath == Abstract!Spec
=============================================================================
