------------------------------- MODULE Uplink -------------------------------
(***************************************************************************)
(* The telemetry uplink of cmd/telemetry: one listener goroutine per       *)
(* SocketCAN interface and the gpsd watcher feed two bounded channels; the *)
(* publisher goroutine latches what it takes from them and publishes a     *)
(* snapshot of the latch on every tick of its timer.                       *)
(*                                                                         *)
(* Values are represented by their origin (see LatchView): a decoded       *)
(* message carries the number n of its frame on its bus, the latch and a   *)
(* snapshot hold such numbers, 0 meaning the key is absent from the map.   *)
(***************************************************************************)
EXTENDS Naturals, Sequences

CONSTANTS
    Bus,        \* configured SocketCAN interfaces (keys of cfg.SocketCAN)
    FrameID,    \* CAN identifiers that occur on the buses
    Signal,     \* signal names
    Decodes,    \* Decodes[b][id]: the signal sets ParseFrame may return
    Latch,      \* Latch[b]: latch_frame_ids of bus b
    CanRxCap,   \* capacity of canRxCh (200 in main)
    GpsRxCap,   \* capacity of gpsRxCh (100 in main)
    MaxFrames,  \* bound: frames read per bus
    MaxFixes    \* bound: fixes reported by gpsd

ASSUME UplinkAssumption ==
    /\ Decodes \in [Bus -> [FrameID -> SUBSET SUBSET Signal]]
    /\ Latch \in [Bus -> SUBSET FrameID]
    /\ CanRxCap \in Nat \ {0} /\ GpsRxCap \in Nat \ {0}
    /\ MaxFrames \in Nat /\ MaxFixes \in Nat

VARIABLES
    log,        \* log[b]: the frames listener b has read, oldest first
    listener,   \* listener[b]: "receive", "send" (to canRxCh) or "stopped"
    canRxCh,    \* decoded messages on their way to the publisher
    fixes,      \* number of usable TPV reports read by the gpsd watcher
    watcher,    \* "read" or "send" (to gpsRxCh, in the filter callback)
    gpsRxCh,    \* fixes on their way to the publisher
    latch,      \* Aggregator.vehicle: latch[b][s]
    gpsData,    \* Aggregator.gpsData
    tick,       \* TRUE iff ticker.C (capacity 1) holds a tick
    publisher,  \* "select", "publish" or "stopped"
    payload,    \* the snapshot being published
    delivered,  \* the last snapshot the broker took
    taken,      \* history: taken[b] numbers the last frame taken from canRxCh
    ctxDone     \* main has called cancelFn

canVars == <<log, listener, canRxCh>>
gpsVars == <<fixes, watcher, gpsRxCh>>
aggVars == <<latch, gpsData, taken>>
pubVars == <<tick, publisher, payload, delivered>>
vars    == <<canVars, gpsVars, aggVars, pubVars, ctxDone>>

\* The promise to the reader of the snapshots.
Abs == INSTANCE LatchView WITH seen <- taken, seenFix <- gpsData, shown <- delivered

Frame == [id : FrameID, sigs : SUBSET Signal]
DecodeMsg == [BusID : Bus, FrameID : FrameID, Signals : SUBSET Signal, n : Nat]
Vehicle == [Bus -> [Signal -> Nat]]
Snapshot == [vehicle : Vehicle, location : Nat]

NoVehicle == [b \in Bus |-> [s \in Signal |-> 0]]
NoSnapshot == [vehicle |-> NoVehicle, location |-> 0]

Init ==
    /\ log = [b \in Bus |-> <<>>]
    /\ listener = [b \in Bus |-> "receive"]
    /\ canRxCh = <<>>
    /\ fixes = 0 /\ watcher = "read" /\ gpsRxCh = <<>>
    /\ latch = NoVehicle /\ gpsData = 0
    /\ taken = [b \in Bus |-> 0]
    /\ tick = FALSE /\ publisher = "select"
    /\ payload = NoSnapshot /\ delivered = NoSnapshot
    /\ ctxDone = FALSE

-----------------------------------------------------------------------------
(* canhandler.Handler.StartListening, one goroutine per bus                *)

\* Receive returns a frame and ParseFrame decodes it; a frame that decodes to
\* no signal is dropped at once.
Receive(b) ==
    /\ listener[b] = "receive"
    /\ Len(log[b]) < MaxFrames
    /\ \E id \in FrameID : \E sigs \in Decodes[b][id] :
         /\ log' = [log EXCEPT ![b] = Append(@, [id |-> id, sigs |-> sigs])]
         /\ listener' = [listener EXCEPT ![b] = IF sigs = {} THEN @ ELSE "send"]
    /\ UNCHANGED <<canRxCh, gpsVars, aggVars, pubVars, ctxDone>>

\* The decodeMsg the listener of bus b holds while it waits for room.
Held(b) == [BusID |-> b, FrameID |-> log[b][Len(log[b])].id,
            Signals |-> log[b][Len(log[b])].sigs, n |-> Len(log[b])]

\* Faulty variants of Send: the room is not checked; a message that finds no
\* room is dropped (a select with default); the channel is a stack.
SendUnbounded(b) ==
    /\ listener[b] = "send"
    /\ canRxCh' = Append(canRxCh, Held(b))
    /\ listener' = [listener EXCEPT ![b] = "receive"]
    /\ UNCHANGED <<log, gpsVars, aggVars, pubVars, ctxDone>>

SendOrDrop(b) ==
    /\ listener[b] = "send"
    /\ canRxCh' = IF Len(canRxCh) < CanRxCap THEN Append(canRxCh, Held(b)) ELSE canRxCh
    /\ listener' = [listener EXCEPT ![b] = "receive"]
    /\ UNCHANGED <<log, gpsVars, aggVars, pubVars, ctxDone>>

SendLifo(b) ==
    /\ listener[b] = "send"
    /\ Len(canRxCh) < CanRxCap
    /\ canRxCh' = <<Held(b)>> \o canRxCh
    /\ listener' = [listener EXCEPT ![b] = "receive"]
    /\ UNCHANGED <<log, gpsVars, aggVars, pubVars, ctxDone>>

Send(b) ==
    /\ listener[b] = "send"
    /\ Len(canRxCh) < CanRxCap
    /\ canRxCh' = Append(canRxCh, Held(b))
    /\ listener' = [listener EXCEPT ![b] = "receive"]
    /\ UNCHANGED <<log, gpsVars, aggVars, pubVars, ctxDone>>

StopSend(b) ==
    /\ listener[b] = "send"
    /\ ctxDone
    /\ listener' = [listener EXCEPT ![b] = "stopped"]
    /\ UNCHANGED <<log, canRxCh, gpsVars, aggVars, pubVars, ctxDone>>

\* Receive returns false: the socket failed or main closed it.  Nothing
\* restarts the listener.
ReceiveEnds(b) ==
    /\ listener[b] = "receive"
    /\ listener' = [listener EXCEPT ![b] = "stopped"]
    /\ UNCHANGED <<log, canRxCh, gpsVars, aggVars, pubVars, ctxDone>>

-----------------------------------------------------------------------------
(* The TPV filter that gps.Handler.Start installs                          *)

\* A TPV report with Mode >= 2; others leave no trace.
Report ==
    /\ watcher = "read"
    /\ fixes < MaxFixes
    /\ fixes' = fixes + 1
    /\ watcher' = "send"
    /\ UNCHANGED <<gpsRxCh, canVars, aggVars, pubVars, ctxDone>>

SendFix ==
    /\ watcher = "send"
    /\ Len(gpsRxCh) < GpsRxCap
    /\ gpsRxCh' = Append(gpsRxCh, fixes)
    /\ watcher' = "read"
    /\ UNCHANGED <<fixes, canVars, aggVars, pubVars, ctxDone>>

-----------------------------------------------------------------------------
(* The publisher worker of main and dispatcher.Aggregator                  *)

\* Faulty variants: the whitelist is not consulted; the signals of a message
\* replace the bus's map instead of being merged into it.
LatchedAny(m) == m.BusID \in Bus

UpdateCANReplace(m) ==
    [latch EXCEPT ![m.BusID] = [s \in Signal |-> IF s \in m.Signals THEN m.n ELSE 0]]

\* latchFrameIDSet has the bus and its whitelist the frame.
Latched(m) == m.FrameID \in Latch[m.BusID]

\* Aggregator.UpdateCAN: only the signals of the message are overwritten.
UpdateCAN(m) ==
    [latch EXCEPT ![m.BusID] =
        [s \in Signal |-> IF s \in m.Signals THEN m.n ELSE latch[m.BusID][s]]]

\* Faulty variant: the worker returns, instead of continuing, on a frame that
\* is not whitelisted.
TakeCanReturns ==
    /\ publisher = "select"
    /\ canRxCh # <<>>
    /\ LET m == Head(canRxCh) IN
         /\ latch' = IF Latched(m) THEN UpdateCAN(m) ELSE latch
         /\ publisher' = IF Latched(m) THEN publisher ELSE "stopped"
         /\ taken' = [taken EXCEPT ![m.BusID] = m.n]
    /\ canRxCh' = Tail(canRxCh)
    /\ UNCHANGED <<log, listener, gpsVars, gpsData, tick, payload, delivered, ctxDone>>

TakeCan ==
    /\ publisher = "select"
    /\ canRxCh # <<>>
    /\ LET m == Head(canRxCh) IN
         /\ latch' = IF Latched(m) THEN UpdateCAN(m) ELSE latch
         /\ taken' = [taken EXCEPT ![m.BusID] = m.n]
    /\ canRxCh' = Tail(canRxCh)
    /\ UNCHANGED <<log, listener, gpsVars, gpsData, pubVars, ctxDone>>

\* Aggregator.UpdateGPS.
TakeGps ==
    /\ publisher = "select"
    /\ gpsRxCh # <<>>
    /\ gpsData' = Head(gpsRxCh)
    /\ gpsRxCh' = Tail(gpsRxCh)
    /\ UNCHANGED <<fixes, watcher, canVars, latch, taken, pubVars, ctxDone>>

\* A tick is dropped when the channel already holds one.
Tick ==
    /\ ~tick
    /\ tick' = TRUE
    /\ UNCHANGED <<canVars, gpsVars, aggVars, publisher, payload, delivered, ctxDone>>

\* Aggregator.MarshalSnapshot, then the call of broker.Publish.
TakeTick ==
    /\ publisher = "select"
    /\ tick
    /\ tick' = FALSE
    /\ payload' = [vehicle |-> latch, location |-> gpsData]
    /\ publisher' = "publish"
    /\ UNCHANGED <<canVars, gpsVars, aggVars, delivered, ctxDone>>

PublishOK ==
    /\ publisher = "publish"
    /\ delivered' = payload
    /\ publisher' = "select"
    /\ UNCHANGED <<canVars, gpsVars, aggVars, tick, payload, ctxDone>>

\* Publish returns with the snapshot lost: an error, which is logged, or for
\* MQTT no error at all.  The worker goes on.
PublishLost ==
    /\ publisher = "publish"
    /\ publisher' = "select"
    /\ UNCHANGED <<canVars, gpsVars, aggVars, tick, payload, delivered, ctxDone>>

PubStop ==
    /\ publisher = "select"
    /\ ctxDone
    /\ publisher' = "stopped"
    /\ UNCHANGED <<canVars, gpsVars, aggVars, tick, payload, delivered, ctxDone>>

\* main received the signal and cancels the context.
Cancel ==
    /\ ~ctxDone
    /\ ctxDone' = TRUE
    /\ UNCHANGED <<canVars, gpsVars, aggVars, pubVars>>

-----------------------------------------------------------------------------
Listen(b) == Receive(b) \/ Send(b) \/ StopSend(b) \/ ReceiveEnds(b)
Watch     == Report \/ SendFix
Publisher == TakeCan \/ TakeGps \/ TakeTick \/ PublishOK \/ PublishLost \/ PubStop

Next ==
    \/ \E b \in Bus : Listen(b)
    \/ Watch
    \/ Publisher
    \/ Tick
    \/ Cancel

Spec == Init /\ [][Next]_vars

(***************************************************************************)
(* Fairness.  A select with several ready cases picks one at random, so a  *)
(* case that is ready again and again is eventually taken: strong fairness *)
(* of the publisher's cases.  Senders blocked on a full channel queue up   *)
(* in FIFO order, hence strong fairness of Send and SendFix.  The timer    *)
(* keeps ticking.  PublishOK is the one assumption about the environment:  *)
(* the broker is reachable again and again, and a publish then succeeds.   *)
(* That is what the MQTT handler gives, whose client reconnects; over      *)
(* RabbitMQ no publish succeeds after the connection breaks (see           *)
(* RabbitHandler), and the assumption is that it does not.                 *)
(***************************************************************************)
Fairness ==
    /\ \A b \in Bus : SF_vars(Send(b))
    /\ SF_vars(SendFix)
    /\ SF_vars(TakeCan) /\ SF_vars(TakeGps) /\ SF_vars(TakeTick)
    /\ SF_vars(PublishOK) /\ WF_vars(PublishOK \/ PublishLost)
    /\ WF_vars(Tick)

FairSpec == Spec /\ Fairness

-----------------------------------------------------------------------------
(* Properties                                                              *)

\* Every variable has its type, and no channel exceeds the capacity main gave it.
TypeOK ==
    /\ log \in [Bus -> Seq(Frame)]
    /\ \A b \in Bus : Len(log[b]) <= MaxFrames
    /\ listener \in [Bus -> {"receive", "send", "stopped"}]
    /\ canRxCh \in Seq(DecodeMsg) /\ Len(canRxCh) <= CanRxCap
    /\ fixes \in 0 .. MaxFixes /\ watcher \in {"read", "send"}
    /\ gpsRxCh \in Seq(Nat) /\ Len(gpsRxCh) <= GpsRxCap
    /\ latch \in Vehicle /\ gpsData \in Nat
    /\ taken \in [Bus -> Nat]
    /\ tick \in BOOLEAN /\ publisher \in {"select", "publish", "stopped"}
    /\ payload \in Snapshot /\ delivered \in Snapshot
    /\ ctxDone \in BOOLEAN

\* Frame n of bus b is in canRxCh, or its listener waits to put it there.
InTransit(b, n) ==
    \/ \E i \in 1 .. Len(canRxCh) : canRxCh[i].BusID = b /\ canRxCh[i].n = n
    \/ listener[b] = "send" /\ n = Len(log[b])

FixInTransit(f) ==
    \/ \E i \in 1 .. Len(gpsRxCh) : gpsRxCh[i] = f
    \/ watcher = "send" /\ f = fixes

CanLossless ==
    \A b \in Bus : \A n \in taken[b] + 1 .. Len(log[b]) :
        log[b][n].sigs # {} =>
            InTransit(b, n) \/ (ctxDone /\ listener[b] = "stopped" /\ n = Len(log[b]))

FixLossless == \A f \in gpsData + 1 .. fixes : FixInTransit(f)

\* Backpressure loses nothing: a decoded frame newer than the last one the
\* publisher took from its bus is still on its way, whatever the publisher was
\* blocked on; the one exception is the frame a listener gave up on shutdown
\* (StartListening's select on rxCh and ctx.Done).  The same for gps fixes.
\* This is about backpressure, not about shutdown: once PubStop has ended the
\* worker (main.go:178, which drains nothing), what is left in the channels
\* counts as on its way for ever and is never shown.
Lossless == CanLossless /\ FixLossless

\* No torn snapshots: what the broker holds is, for each bus, the whitelisted
\* view of one prefix of the frames of that bus (UpdateCAN merges multiplexed
\* and shared signal names into one map; MarshalSnapshot copies the map).
SnapshotFaithful ==
    \A b \in Bus : \E k \in 0 .. Len(log[b]) :
        \A s \in Signal : Abs!IsNewest(b, s, k, delivered.vehicle[b][s])

\* The broker's view never goes back in time: no published value is replaced
\* by one of an older frame or fix, or withdrawn, by a later snapshot.
NoOlder ==
    /\ \A b \in Bus, s \in Signal : delivered.vehicle[b][s] <= delivered'.vehicle[b][s]
    /\ delivered.location <= delivered'.location

NeverOlder == [][NoOlder]_vars

\* The uplink implements the abstract latch view.
ImplementsLatchView == Abs!Spec

\* Over MQTT every whitelisted value reaches the broker, unless a newer one of
\* the same name does or the program is told to stop, however often Publish
\* fails and whatever the other buses and gpsd send meanwhile through the same
\* channels and the same select.
Fresh ==
    \A b \in Bus, s \in Signal, n \in 1 .. MaxFrames :
        (n <= Len(log[b]) /\ Abs!Carries(b, s, n))
            ~> (delivered.vehicle[b][s] >= n \/ ctxDone)
=============================================================================
