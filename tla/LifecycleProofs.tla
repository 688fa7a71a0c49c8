-------------------------- MODULE LifecycleProofs --------------------------
(***************************************************************************)
(* Theorems of module Lifecycle, for any finite set of interfaces, either  *)
(* broker and any capacities.                                              *)
(***************************************************************************)
EXTENDS Lifecycle, FiniteSetTheorems, TLAPS

Running == {b \in Bus : listener[b] \in {"receive", "send"}}
One(state) == IF state \in {"none", "done"} THEN 0 ELSE 1

(***************************************************************************)
(* The inductive invariant: the WaitGroup counts the goroutines that run,  *)
(* and each phase of main has started what the phases before it start.     *)
(* Both are needed: wg = 0 alone would hold before anything is started.    *)
(***************************************************************************)

StateOK ==
    /\ main \in {"config", "connect", "openCan", "subscribe", "spawn", "run", "close",
                "join", "disconnect", "exited", "fatal"}
    /\ reachable \in BOOLEAN /\ interrupt \in 0 .. 1 /\ ctxDone \in BOOLEAN
    /\ sock \in [Bus -> {"none", "open", "closed"}]
    /\ listener \in [Bus -> {"none", "receive", "send", "done"}]
    /\ gps \in {"none", "check", "dial", "sleep", "watch", "done"}
    /\ watcher \in {"none", "read", "send", "ended"}
    /\ callback \in {"off", "idle", "send"}
    /\ tx \in {"none", "select", "transmit", "done"}
    /\ pub \in {"none", "select", "publish", "done"}
    /\ canRx \in 0 .. RxCap /\ gpsRx \in 0 .. RxCap /\ canTx \in 0 .. TxCap

Counted == wg = Cardinality(Running) + One(gps) + One(tx) + One(pub)

Started == {"subscribe", "spawn", "run", "close", "join", "disconnect", "exited"}
Spawned == Started \ {"subscribe", "spawn"}

PhaseOK ==
    /\ \A b \in Bus : listener[b] = "none" <=> sock[b] = "none"
    /\ main \in {"config", "connect", "openCan"} => gps = "none"
    /\ main \in {"config", "connect", "openCan", "subscribe", "spawn"} =>
         tx = "none" /\ pub = "none"
    /\ main \in Started => gps # "none" /\ \A b \in Bus : listener[b] # "none"
    /\ main \in Spawned => tx # "none" /\ pub # "none"
    /\ main \in {"join", "disconnect", "exited"} => \A b \in Bus : sock[b] = "closed"
    /\ main \in {"disconnect", "exited"} => wg = 0

IInv == StateOK /\ Counted /\ PhaseOK

-----------------------------------------------------------------------------
\* As many listeners run as there are interfaces, at most.
LEMMA RunningFinite ==
    /\ IsFiniteSet(Running) /\ Cardinality(Running) \in Nat /\ Cardinality(Bus) \in Nat
    /\ Cardinality(Running) <= Cardinality(Bus)
<1>1. Running \in SUBSET Bus
  BY DEF Running
<1> QED
  BY <1>1, LifecycleAssumption, FS_Subset, FS_CardinalityType

\* A counter of zero means that nothing runs any more.
LEMMA NothingCounted ==
    ASSUME IInv, wg = 0
    PROVE  /\ Running = {}
           /\ gps \in {"none", "done"} /\ tx \in {"none", "done"} /\ pub \in {"none", "done"}
<1>1. One(gps) \in {0, 1} /\ One(tx) \in {0, 1} /\ One(pub) \in {0, 1}
  BY DEF One
<1>2. Cardinality(Running) = 0 /\ One(gps) = 0 /\ One(tx) = 0 /\ One(pub) = 0
  BY <1>1, RunningFinite DEF IInv, Counted
<1> QED
  BY <1>2, RunningFinite, FS_EmptySet DEF One

\* main begins with nothing started.
LEMMA InvInit == Init => IInv
<1> SUFFICES ASSUME Init PROVE IInv
  OBVIOUS
<1>1. Running = {}
  BY DEF Init, Running
<1>2. StateOK
  <2>1. 0 \in 0 .. 1 /\ 0 \in 0 .. RxCap /\ 0 \in 0 .. TxCap
    BY LifecycleAssumption
  <2> QED
    BY <2>1, Zenon DEF Init, StateOK
<1>3. Counted
  BY <1>1, FS_EmptySet DEF Init, Counted, One
<1>4. PhaseOK
  BY DEF Init, PhaseOK, Started, Spawned
<1> QED
  BY <1>2, <1>3, <1>4 DEF IInv

\* A step of main that starts nothing: from a phase to a later one, or os.Exit.
LEMMA InvMain ==
    ASSUME IInv,
           \/ Configure \/ ConfigFails \/ Connect \/ ConnectFails \/ OpenCanFails
           \/ Subscribe \/ SubscribeFails \/ Cancel \/ Closed \/ Join \/ Disconnect
           \/ Signal \/ BrokerUp
    PROVE  IInv'
<1>1. /\ UNCHANGED <<wg, canVars, gpsVars, tx, canTx, pub>>
      /\ callback' \in {callback, "idle"}
  BY DEF Configure, ConfigFails, Connect, ConnectFails, OpenCanFails, Subscribe, SubscribeFails,
     Cancel, Closed, Join, Disconnect, Signal, BrokerUp, Fatal, canVars, gpsVars, cmdVars
<1>2. Counted'
  BY <1>1 DEF IInv, Counted, Running, canVars, gpsVars
<1>3. StateOK'
  <2>1. /\ main' \in {"config", "connect", "openCan", "subscribe", "spawn", "run", "close",
                      "join", "disconnect", "exited", "fatal"}
        /\ reachable' \in BOOLEAN /\ interrupt' \in 0 .. 1
        /\ ctxDone' \in BOOLEAN
    <3>1. CASE Configure \/ Connect \/ Subscribe \/ Closed \/ Join \/ Disconnect
      BY <3>1 DEF IInv, StateOK, Configure, Connect, Subscribe, Closed, Join, Disconnect,
         Goto
    <3>2. CASE ConfigFails \/ ConnectFails \/ OpenCanFails \/ SubscribeFails
      BY <3>2 DEF IInv, StateOK, ConfigFails, ConnectFails, OpenCanFails, SubscribeFails,
         Fatal
    <3>3. CASE Cancel \/ Signal \/ BrokerUp
      <4>1. 0 \in 0 .. 1 /\ 1 \in 0 .. 1
        OBVIOUS
      <4> QED
        BY <3>3, <4>1, Zenon DEF IInv, StateOK, Cancel, Signal, BrokerUp, Goto
    <3> QED
      BY <3>1, <3>2, <3>3
  <2> QED
    BY <1>1, <2>1 DEF IInv, StateOK, canVars, gpsVars
<1>4. \/ main' = main \/ main' = "fatal"
      \/ main = "config" /\ main' = "connect"
      \/ main = "connect" /\ main' = "openCan"
      \/ main = "subscribe" /\ main' = "spawn"
      \/ main = "run" /\ main' = "close"
      \/ main = "close" /\ main' = "join" /\ \A b \in Bus : sock[b] = "closed"
      \/ main = "join" /\ main' = "disconnect" /\ wg = 0
      \/ main = "disconnect" /\ main' = "exited"
  BY DEF Configure, ConfigFails, Connect, ConnectFails, OpenCanFails, Subscribe, SubscribeFails,
     Cancel, Closed, Join, Disconnect, Signal, BrokerUp, Fatal, Goto
<1>5. PhaseOK'
  BY <1>1, <1>4 DEF IInv, PhaseOK, Started, Spawned, canVars, gpsVars
<1> QED
  BY <1>2, <1>3, <1>5 DEF IInv

\* Every go statement of main follows its wg.Add.
LEMMA InvStart ==
    ASSUME IInv, (\E b \in Bus : OpenCan(b)) \/ StartGps \/ Spawn PROVE IInv'
<1>1. CASE \E b \in Bus : OpenCan(b)
  <2>1. PICK b \in Bus : OpenCan(b)
    BY <1>1
  <2>2. b \notin Running /\ Running' = Running \cup {b}
    BY <2>1 DEF OpenCan, IInv, StateOK, PhaseOK, Running
  <2>3. Cardinality(Running') = Cardinality(Running) + 1
    BY <2>2, RunningFinite, FS_AddElement
  <2>4. Counted'
    BY <2>1, <2>3, RunningFinite DEF OpenCan, IInv, Counted, One, gpsVars, cmdVars
  <2>5. StateOK' /\ PhaseOK'
    BY <2>1 DEF OpenCan, IInv, StateOK, PhaseOK, Started, Spawned, mainVars, gpsVars, cmdVars
  <2> QED
    BY <2>4, <2>5 DEF IInv
<1>2. CASE StartGps
  <2>1. Running' = Running /\ gps = "none"
    BY <1>2 DEF StartGps, Goto, Running, canVars, IInv, PhaseOK
  <2>2. Counted'
    BY <1>2, <2>1, RunningFinite DEF StartGps, IInv, Counted, One, cmdVars
  <2>3. StateOK' /\ PhaseOK'
    BY <1>2 DEF StartGps, Goto, IInv, StateOK, PhaseOK, Started, Spawned, canVars, cmdVars
  <2> QED
    BY <2>2, <2>3 DEF IInv
<1>3. CASE Spawn
  <2>1. Running' = Running /\ tx = "none" /\ pub = "none"
    BY <1>3 DEF Spawn, Goto, Running, canVars, IInv, PhaseOK
  <2>2. Counted'
    BY <1>3, <2>1, RunningFinite DEF Spawn, IInv, Counted, One, gpsVars
  <2>3. StateOK' /\ PhaseOK'
    BY <1>3 DEF Spawn, Goto, IInv, StateOK, PhaseOK, Started, Spawned, canVars, gpsVars
  <2> QED
    BY <2>2, <2>3 DEF IInv
<1> QED
  BY <1>1, <1>2, <1>3

\* Closing a socket ends no goroutine by itself.
LEMMA InvCloseCan == ASSUME IInv, NEW b \in Bus, CloseCan(b) PROVE IInv'
<1>1. Running' = Running
  BY DEF CloseCan, Running
<1> QED
  BY <1>1 DEF CloseCan, IInv, StateOK, Counted, PhaseOK, mainVars, gpsVars, cmdVars

\* A listener calls wg.Done when, and only when, it ends.
LEMMA InvListener == ASSUME IInv, NEW b \in Bus, Listener(b) PROVE IInv'
<1>1. CASE Receive(b) \/ Send(b)
  <2>1. Running' = Running
    BY <1>1 DEF Receive, Send, ListenerTo, IInv, StateOK, Running
  <2>2. StateOK' /\ PhaseOK'
    BY <1>1, LifecycleAssumption DEF Receive, Send, ListenerTo, IInv, StateOK, PhaseOK,
       mainVars, gpsVars, cmdVars
  <2> QED
    BY <1>1, <2>1, <2>2 DEF Receive, Send, IInv, Counted, gpsVars, cmdVars
<1>2. CASE StopSend(b) \/ ReceiveEnds(b)
  <2>1. b \in Running /\ Running' = Running \ {b}
    BY <1>2 DEF StopSend, ReceiveEnds, ListenerTo, IInv, StateOK, Running
  <2>2. Cardinality(Running') = Cardinality(Running) - 1
    BY <2>1, RunningFinite, FS_RemoveElement
  <2>3. Counted'
    BY <1>2, <2>2, RunningFinite DEF StopSend, ReceiveEnds, IInv, Counted, One, gpsVars, cmdVars
  <2>4. main \notin {"disconnect", "exited"}
    BY <2>1, NothingCounted DEF IInv, PhaseOK
  <2>5. StateOK' /\ PhaseOK'
    BY <1>2, <2>4 DEF StopSend, ReceiveEnds, ListenerTo, IInv, StateOK, PhaseOK,
       mainVars, gpsVars, cmdVars
  <2> QED
    BY <2>3, <2>5 DEF IInv
<1> QED
  BY <1>1, <1>2 DEF Listener

\* So does Handler.Start of the gps package; its watcher is not counted.
LEMMA InvGps == ASSUME IInv, Gps \/ Watcher PROVE IInv'
<1>0. Running' = Running /\ UNCHANGED <<mainVars, canVars, cmdVars, pub>>
  BY DEF Gps, GpsDial, GpsDialFails, GpsDialed, GpsWake, GpsStop, GpsLost, Watcher, Report, SendFix,
     WatchEnds, GpsStays, Running, canVars
<1>1. CASE GpsStop
  <2>1. main \notin {"disconnect", "exited"}
    BY <1>1, NothingCounted DEF IInv, PhaseOK, GpsStop
  <2>2. Counted'
    BY <1>0, <1>1, RunningFinite DEF GpsStop, IInv, Counted, One, cmdVars
  <2>3. StateOK' /\ PhaseOK'
    BY <1>0, <1>1, <2>1 DEF GpsStop, IInv, StateOK, PhaseOK, Started, mainVars, canVars, cmdVars
  <2> QED
    BY <2>2, <2>3 DEF IInv
<1>2. CASE GpsDial \/ GpsDialFails \/ GpsDialed \/ GpsWake \/ GpsLost
  <2>1. Counted'
    BY <1>0, <1>2 DEF GpsDial, GpsDialFails, GpsDialed, GpsWake, GpsLost, IInv, Counted, One, cmdVars
  <2>2. StateOK' /\ PhaseOK'
    BY <1>0, <1>2 DEF GpsDial, GpsDialFails, GpsDialed, GpsWake, GpsLost, IInv, StateOK, PhaseOK, Started,
       mainVars, canVars, cmdVars
  <2> QED
    BY <2>1, <2>2 DEF IInv
<1>3. CASE Watcher
  <2>1. Counted'
    BY <1>0, <1>3 DEF Watcher, Report, SendFix, WatchEnds, IInv, Counted, cmdVars
  <2>2. StateOK' /\ PhaseOK'
    BY <1>0, <1>3, LifecycleAssumption DEF Watcher, Report, SendFix, WatchEnds, IInv, StateOK,
       PhaseOK, mainVars, canVars, cmdVars
  <2> QED
    BY <2>1, <2>2 DEF IInv
<1> QED
  BY <1>1, <1>2, <1>3 DEF Gps

\* So does the TX worker; the callback belongs to the client.
LEMMA InvDownlink == ASSUME IInv, Downlink PROVE IInv'
<1>0. Running' = Running /\ UNCHANGED <<mainVars, canVars, gpsVars, pub>>
  BY DEF Downlink, Deliver, Accept, Release, TxTake, Transmit, TxStop, CmdStays, Running, canVars
<1>1. CASE TxStop
  <2>1. main \notin {"disconnect", "exited"}
    BY <1>1, NothingCounted DEF IInv, PhaseOK, TxStop
  <2>2. Counted'
    BY <1>0, <1>1, RunningFinite DEF TxStop, IInv, Counted, One, gpsVars
  <2>3. StateOK' /\ PhaseOK'
    BY <1>0, <1>1, <2>1 DEF TxStop, IInv, StateOK, PhaseOK, Started, Spawned,
       mainVars, canVars, gpsVars
  <2> QED
    BY <2>2, <2>3 DEF IInv
<1>2. CASE Deliver \/ Accept \/ Release
  <2>1. Counted'
    BY <1>0, <1>2 DEF Deliver, Accept, Release, IInv, Counted, gpsVars
  <2>2. StateOK' /\ PhaseOK'
    BY <1>0, <1>2, LifecycleAssumption DEF Deliver, Accept, Release, IInv, StateOK, PhaseOK,
       mainVars, canVars, gpsVars
  <2> QED
    BY <2>1, <2>2 DEF IInv
<1>3. CASE TxTake \/ Transmit
  <2>1. Counted'
    BY <1>0, <1>3 DEF TxTake, Transmit, IInv, Counted, One, gpsVars
  <2>2. StateOK' /\ PhaseOK'
    BY <1>0, <1>3, LifecycleAssumption DEF TxTake, Transmit, IInv, StateOK, PhaseOK,
       Started, Spawned, mainVars, canVars, gpsVars
  <2> QED
    BY <2>1, <2>2 DEF IInv
<1> QED
  BY <1>1, <1>2, <1>3 DEF Downlink

\* So does the publisher worker.
LEMMA InvPublisher == ASSUME IInv, Publisher PROVE IInv'
<1>0. Running' = Running /\ UNCHANGED <<mainVars, sock, listener, gps, watcher, cmdVars>>
  BY DEF Publisher, TakeCan, TakeGps, Publish, Published, PubStop, Running, canVars, gpsVars
<1>1. CASE PubStop
  <2>1. main \notin {"disconnect", "exited"}
    BY <1>1, NothingCounted DEF IInv, PhaseOK, PubStop
  <2>2. Counted'
    BY <1>0, <1>1, RunningFinite DEF PubStop, IInv, Counted, One, cmdVars
  <2>3. StateOK' /\ PhaseOK'
    BY <1>0, <1>1, <2>1 DEF PubStop, IInv, StateOK, PhaseOK, Started, Spawned,
       mainVars, canVars, gpsVars, cmdVars
  <2> QED
    BY <2>2, <2>3 DEF IInv
<1>2. CASE TakeCan \/ TakeGps \/ Publish \/ Published
  <2>1. Counted'
    BY <1>0, <1>2 DEF TakeCan, TakeGps, Publish, Published, IInv, Counted, One, cmdVars
  <2>2. StateOK' /\ PhaseOK'
    BY <1>0, <1>2, LifecycleAssumption DEF TakeCan, TakeGps, Publish, Published, IInv, StateOK,
       PhaseOK, Started, Spawned, mainVars, canVars, gpsVars, cmdVars
  <2> QED
    BY <2>1, <2>2 DEF IInv
<1> QED
  BY <1>1, <1>2 DEF Publisher

\* Every step keeps the invariant.
LEMMA InvStep == IInv /\ [Next]_vars => IInv'
<1> SUFFICES ASSUME IInv, [Next]_vars PROVE IInv'
  OBVIOUS
<1>1. CASE Signal \/ BrokerUp \/ Main
  BY <1>1, InvMain, InvStart, InvCloseCan DEF Main
<1>2. CASE (\E b \in Bus : Listener(b)) \/ Gps \/ Watcher
  BY <1>2, InvListener, InvGps
<1>3. CASE Downlink \/ Publisher
  BY <1>3, InvDownlink, InvPublisher
<1>4. CASE UNCHANGED vars
  <2>1. UNCHANGED <<mainVars, wg, canVars, gpsVars, cmdVars, pub>>
    BY <1>4 DEF vars
  <2>2. Counted'
    BY <2>1 DEF IInv, Counted, Running, canVars, gpsVars, cmdVars
  <2> QED
    BY <2>1, <2>2 DEF IInv, StateOK, PhaseOK, mainVars, canVars, gpsVars, cmdVars
<1> QED
  BY <1>1, <1>2, <1>3, <1>4 DEF Next

LEMMA Invariance == Spec => []IInv
  BY InvInit, InvStep, PTL DEF Spec

-----------------------------------------------------------------------------
\* No channel exceeds its capacity and the WaitGroup's counter is never negative
\* (it would panic), nor larger than the goroutines there can be.
THEOREM TypeCorrect == Spec => []TypeOK
<1>1. ASSUME IInv PROVE TypeOK
  <2>1. One(gps) \in {0, 1} /\ One(tx) \in {0, 1} /\ One(pub) \in {0, 1}
    BY DEF One
  <2>2. wg \in 0 .. Cardinality(Bus) + 3
    BY <1>1, <2>1, RunningFinite DEF IInv, Counted
  <2> QED
    BY <1>1, <2>2 DEF IInv, StateOK, TypeOK
<1> QED
  BY <1>1, Invariance, PTL

\* For any number of interfaces, wg.Wait joins every goroutine main has started
\* itself: listeners, gps handler and both workers, after their sockets are closed.
THEOREM JoinIsComplete == Spec => []NothingRunsAtDisconnect
<1>1. ASSUME IInv PROVE NothingRunsAtDisconnect
  <2> SUFFICES ASSUME main \in {"disconnect", "exited"}
               PROVE  /\ pub = "done" /\ tx = "done" /\ gps = "done"
                      /\ \A b \in Bus : listener[b] = "done" /\ sock[b] = "closed"
    BY DEF NothingRunsAtDisconnect
  <2>1. /\ Running = {}
        /\ gps \in {"none", "done"} /\ tx \in {"none", "done"} /\ pub \in {"none", "done"}
    BY <1>1, NothingCounted DEF IInv, PhaseOK
  <2>2. main \in Started /\ main \in Spawned
    BY DEF Started, Spawned
  <2> QED
    BY <1>1, <2>1, <2>2 DEF IInv, StateOK, PhaseOK, Running
<1> QED
  BY <1>1, Invariance, PTL
=============================================================================
