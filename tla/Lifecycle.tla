------------------------------ MODULE Lifecycle ------------------------------
(***************************************************************************)
(* The life of the telemetry process: main connects to the broker, opens   *)
(* the CAN interfaces, starts its goroutines, waits for SIGINT or SIGTERM, *)
(* cancels the context, closes the CAN sockets, joins the goroutines and   *)
(* disconnects.  Only control is modelled: a channel is the number of      *)
(* items it holds, and traffic never ends while somebody produces it.      *)
(***************************************************************************)
EXTENDS Naturals, FiniteSets

CONSTANTS
    Bus,         \* configured SocketCAN interfaces
    BrokerType,  \* "mqtt" or "rabbitmq"
    RxCap,       \* capacity of canRxCh (200) and of gpsRxCh (100)
    TxCap        \* capacity of canTxCh (100)

ASSUME LifecycleAssumption ==
    /\ IsFiniteSet(Bus)
    /\ BrokerType \in {"mqtt", "rabbitmq"}
    /\ RxCap \in Nat \ {0} /\ TxCap \in Nat \ {0}

VARIABLES
    main,       \* where main is (the places are listed in TypeOK)
    reachable,  \* the broker accepts connections
    interrupt,  \* number of signals in interruptCh (capacity 1)
    ctxDone,    \* cancelFn was called
    wg,         \* the WaitGroup's counter
    sock,       \* sock[b]: "none", "open" or "closed"
    listener,   \* listener[b]: "none", "receive", "send" or "done"
    gps,        \* gps.Handler.Start: "none", "check", "dial", "sleep", "watch", "done"
    watcher,    \* the goroutine of session.Watch: "none", "read", "send", "ended"
    callback,   \* the command callback: "off" (not subscribed), "idle", "send"
    tx,         \* TX worker: "none", "select", "transmit" or "done"
    pub,        \* publisher worker: "none", "select", "publish" or "done"
    canRx, gpsRx, canTx   \* items in the three channels

mainVars == <<main, reachable, interrupt, ctxDone>>
canVars  == <<sock, listener, canRx>>
gpsVars  == <<gps, watcher, gpsRx>>
cmdVars  == <<callback, tx, canTx>>
vars     == <<mainVars, wg, canVars, gpsVars, cmdVars, pub>>

\* After os.Exit no goroutine moves.
Alive == main \notin {"exited", "fatal"}

Init ==
    /\ main = "config" /\ reachable = FALSE /\ interrupt = 0 /\ ctxDone = FALSE /\ wg = 0
    /\ sock = [b \in Bus |-> "none"] /\ listener = [b \in Bus |-> "none"] /\ canRx = 0
    /\ gps = "none" /\ watcher = "none" /\ gpsRx = 0
    /\ callback = "off" /\ tx = "none" /\ canTx = 0
    /\ pub = "none"

-----------------------------------------------------------------------------
(* The environment                                                         *)

\* SIGINT or SIGTERM; signal.Notify drops it when interruptCh is full.
Signal ==
    /\ Alive /\ interrupt = 0
    /\ interrupt' = 1
    /\ UNCHANGED <<main, reachable, ctxDone, wg, canVars, gpsVars, cmdVars, pub>>

BrokerUp ==
    /\ main = "connect" /\ ~reachable
    /\ reachable' = TRUE
    /\ UNCHANGED <<main, interrupt, ctxDone, wg, canVars, gpsVars, cmdVars, pub>>

-----------------------------------------------------------------------------
(* main                                                                    *)

\* log.Fatalf and zap's Fatalf end the process without running the defers.
Fatal(phase) ==
    /\ main = phase
    /\ main' = "fatal"
    /\ UNCHANGED <<reachable, interrupt, ctxDone, wg, canVars, gpsVars, cmdVars, pub>>

Goto(from, to) ==
    /\ main = from
    /\ main' = to

\* LoadConfig and the logger.
Configure ==
    /\ Goto("config", "connect")
    /\ UNCHANGED <<reachable, interrupt, ctxDone, wg, canVars, gpsVars, cmdVars, pub>>

ConfigFails == Fatal("config")

\* NewBroker.  paho's Connect retries every 500 ms (SetConnectRetry) and its
\* token is not done before the connection is; amqp.Dial tries once.
Connect ==
    /\ reachable
    /\ Goto("connect", "openCan")
    /\ UNCHANGED <<reachable, interrupt, ctxDone, wg, canVars, gpsVars, cmdVars, pub>>

\* amqp.Dial fails, or the TLS files of MQTT cannot be loaded.
ConnectFails ==
    /\ BrokerType = "rabbitmq" => ~reachable
    /\ Fatal("connect")

\* canhandler.New for one interface, then its listener goroutine.
OpenCan(b) ==
    /\ main = "openCan" /\ sock[b] = "none"
    /\ sock' = [sock EXCEPT ![b] = "open"]
    /\ listener' = [listener EXCEPT ![b] = "receive"]
    /\ wg' = wg + 1
    /\ UNCHANGED <<mainVars, canRx, gpsVars, cmdVars, pub>>

OpenCanFails ==
    /\ \E b \in Bus : sock[b] = "none"
    /\ Fatal("openCan")

StartGps ==
    /\ Goto("openCan", "subscribe")
    /\ \A b \in Bus : sock[b] # "none"
    /\ gps' = "check"
    /\ wg' = wg + 1
    /\ UNCHANGED <<reachable, interrupt, ctxDone, canVars, watcher, gpsRx, cmdVars, pub>>

\* From here on the callback may run, before the TX worker exists.
Subscribe ==
    /\ Goto("subscribe", "spawn")
    /\ callback' = "idle"
    /\ UNCHANGED <<reachable, interrupt, ctxDone, wg, canVars, gpsVars, tx, canTx, pub>>

SubscribeFails == Fatal("subscribe")

\* Faulty variant: wg.Add for one of the two workers is forgotten.
SpawnUncounted ==
    /\ Goto("spawn", "run")
    /\ tx' = "select" /\ pub' = "select"
    /\ wg' = wg + 1
    /\ UNCHANGED <<reachable, interrupt, ctxDone, canVars, gpsVars, callback, canTx>>

\* The TX worker and the publisher worker.
Spawn ==
    /\ Goto("spawn", "run")
    /\ tx' = "select" /\ pub' = "select"
    /\ wg' = wg + 2
    /\ UNCHANGED <<reachable, interrupt, ctxDone, canVars, gpsVars, callback, canTx>>

\* <-interruptCh and cancelFn.
Cancel ==
    /\ interrupt = 1
    /\ Goto("run", "close")
    /\ interrupt' = 0
    /\ ctxDone' = TRUE
    /\ UNCHANGED <<reachable, wg, canVars, gpsVars, cmdVars, pub>>

\* Faulty variant: the handlers are closed only after the join.
CloseCanLate(b) ==
    /\ main = "disconnect" /\ sock[b] = "open"
    /\ sock' = [sock EXCEPT ![b] = "closed"]
    /\ UNCHANGED <<mainVars, wg, listener, canRx, gpsVars, cmdVars, pub>>

CloseCan(b) ==
    /\ main = "close" /\ sock[b] = "open"
    /\ sock' = [sock EXCEPT ![b] = "closed"]
    /\ UNCHANGED <<mainVars, wg, listener, canRx, gpsVars, cmdVars, pub>>

Closed ==
    /\ Goto("close", "join")
    /\ \A b \in Bus : sock[b] = "closed"
    /\ UNCHANGED <<reachable, interrupt, ctxDone, wg, canVars, gpsVars, cmdVars, pub>>

\* wg.Wait.
Join ==
    /\ Goto("join", "disconnect")
    /\ wg = 0
    /\ UNCHANGED <<reachable, interrupt, ctxDone, wg, canVars, gpsVars, cmdVars, pub>>

\* The deferred broker.Close; the process ends.
Disconnect ==
    /\ Goto("disconnect", "exited")
    /\ UNCHANGED <<reachable, interrupt, ctxDone, wg, canVars, gpsVars, cmdVars, pub>>

Main ==
    \/ Configure \/ ConfigFails
    \/ Connect \/ ConnectFails
    \/ \E b \in Bus : OpenCan(b) \/ CloseCan(b)
    \/ OpenCanFails \/ StartGps
    \/ Subscribe \/ SubscribeFails \/ Spawn
    \/ Cancel \/ Closed \/ Join \/ Disconnect
-----------------------------------------------------------------------------
(* Handler.StartListening                                                  *)

ListenerTo(b, from, to) ==
    /\ Alive /\ listener[b] = from
    /\ listener' = [listener EXCEPT ![b] = to]

\* A frame that decodes to signals.
Receive(b) ==
    /\ ListenerTo(b, "receive", "send")
    /\ sock[b] = "open"
    /\ UNCHANGED <<mainVars, wg, sock, canRx, gpsVars, cmdVars, pub>>

Send(b) ==
    /\ ListenerTo(b, "send", "receive")
    /\ canRx < RxCap
    /\ canRx' = canRx + 1
    /\ UNCHANGED <<mainVars, wg, sock, gpsVars, cmdVars, pub>>

\* Faulty variant: rxCh <- decodeMsg outside a select.
StopSendNever(b) == FALSE /\ ListenerTo(b, "send", "done")

StopSend(b) ==
    /\ ListenerTo(b, "send", "done")
    /\ ctxDone
    /\ wg' = wg - 1
    /\ UNCHANGED <<mainVars, sock, canRx, gpsVars, cmdVars, pub>>

\* Receive returns false: the socket was closed, or failed.
ReceiveEnds(b) ==
    /\ ListenerTo(b, "receive", "done")
    /\ wg' = wg - 1
    /\ UNCHANGED <<mainVars, sock, canRx, gpsVars, cmdVars, pub>>

Listener(b) == Receive(b) \/ Send(b) \/ StopSend(b) \/ ReceiveEnds(b)

-----------------------------------------------------------------------------
(* gps.Handler.Start and the watcher of its session                        *)

GpsStays == UNCHANGED <<mainVars, canVars, cmdVars, pub>>

\* The check at the top of the loop finds ctx alive: gpsd.Dial is called.  It has
\* neither the context nor a deadline, and nothing else can end the call.
GpsDial ==
    /\ Alive /\ gps = "check" /\ ~ctxDone
    /\ gps' = "dial"
    /\ UNCHANGED <<wg, watcher, gpsRx>> /\ GpsStays

GpsDialFails ==
    /\ Alive /\ gps = "dial"
    /\ gps' = "sleep"
    /\ UNCHANGED <<wg, watcher, gpsRx>> /\ GpsStays

\* AddFilter and Watch follow, whatever became of ctx meanwhile.
GpsDialed ==
    /\ Alive /\ gps = "dial"
    /\ gps' = "watch" /\ watcher' = "read"
    /\ UNCHANGED <<wg, gpsRx>> /\ GpsStays

\* time.Sleep(5 s) does not listen to the context.
GpsWake ==
    /\ Alive /\ gps = "sleep"
    /\ gps' = "check"
    /\ UNCHANGED <<wg, watcher, gpsRx>> /\ GpsStays

\* ctx.Done, seen at the top of the loop or while watching.
GpsStop ==
    /\ Alive /\ gps \in {"check", "watch"} /\ ctxDone
    /\ gps' = "done"
    /\ wg' = wg - 1
    /\ UNCHANGED <<watcher, gpsRx>> /\ GpsStays

\* <-done: close the session and start over.
GpsLost ==
    /\ Alive /\ gps = "watch" /\ watcher = "ended"
    /\ gps' = "check" /\ watcher' = "none"
    /\ UNCHANGED <<wg, gpsRx>> /\ GpsStays

Report ==
    /\ Alive /\ watcher = "read"
    /\ watcher' = "send"
    /\ UNCHANGED <<wg, gps, gpsRx>> /\ GpsStays

\* dataChan <- Data{...} in the filter, outside a select.
SendFix ==
    /\ Alive /\ watcher = "send" /\ gpsRx < RxCap
    /\ watcher' = "read"
    /\ gpsRx' = gpsRx + 1
    /\ UNCHANGED <<wg, gps>> /\ GpsStays

\* The connection broke, or Start closed the session.
WatchEnds ==
    /\ Alive /\ watcher = "read"
    /\ watcher' = "ended"
    /\ UNCHANGED <<wg, gps, gpsRx>> /\ GpsStays

Gps == GpsDial \/ GpsDialFails \/ GpsDialed \/ GpsWake \/ GpsStop \/ GpsLost
Watcher == Report \/ SendFix \/ WatchEnds

-----------------------------------------------------------------------------
(* The command callback and the TX worker                                  *)

CmdStays == UNCHANGED <<mainVars, canVars, gpsVars, pub>>

\* The client delivers a command that parses; others return at once.
Deliver ==
    /\ Alive /\ callback = "idle"
    /\ callback' = "send"
    /\ UNCHANGED <<wg, tx, canTx>> /\ CmdStays

Accept ==
    /\ Alive /\ callback = "send" /\ canTx < TxCap
    /\ callback' = "idle"
    /\ canTx' = canTx + 1
    /\ UNCHANGED <<wg, tx>> /\ CmdStays

\* <-ctx.Done(): the command is dropped.
Release ==
    /\ Alive /\ callback = "send" /\ ctxDone
    /\ callback' = "idle"
    /\ UNCHANGED <<wg, tx, canTx>> /\ CmdStays

\* The bus of the command has a handler, or not (continue).
TxTake ==
    /\ Alive /\ tx = "select" /\ canTx > 0
    /\ canTx' = canTx - 1
    /\ tx' \in {"transmit", "select"}
    /\ UNCHANGED <<wg, callback>> /\ CmdStays

\* Faulty variant: the worker returns on the error of SendFrame.
TransmitOrReturn ==
    /\ Alive /\ tx = "transmit"
    /\ tx' \in {"select", "done"}
    /\ wg' = IF tx' = "done" THEN wg - 1 ELSE wg
    /\ UNCHANGED <<callback, canTx>> /\ CmdStays

\* SendFrame returns, with or without an error.
Transmit ==
    /\ Alive /\ tx = "transmit"
    /\ tx' = "select"
    /\ UNCHANGED <<wg, callback, canTx>> /\ CmdStays

TxStop ==
    /\ Alive /\ tx = "select" /\ ctxDone
    /\ tx' = "done"
    /\ wg' = wg - 1
    /\ UNCHANGED <<callback, canTx>> /\ CmdStays

Downlink == Deliver \/ Accept \/ Release \/ TxTake \/ Transmit \/ TxStop

-----------------------------------------------------------------------------
(* The publisher worker                                                    *)

TakeCan ==
    /\ Alive /\ pub = "select" /\ canRx > 0
    /\ canRx' = canRx - 1
    /\ UNCHANGED <<mainVars, wg, sock, listener, gpsVars, cmdVars, pub>>

TakeGps ==
    /\ Alive /\ pub = "select" /\ gpsRx > 0
    /\ gpsRx' = gpsRx - 1
    /\ UNCHANGED <<mainVars, wg, gps, watcher, canVars, cmdVars, pub>>

\* A tick, MarshalSnapshot and the call of Publish.
Publish ==
    /\ Alive /\ pub = "select"
    /\ pub' = "publish"
    /\ UNCHANGED <<mainVars, wg, canVars, gpsVars, cmdVars>>

Published ==
    /\ Alive /\ pub = "publish"
    /\ pub' = "select"
    /\ UNCHANGED <<mainVars, wg, canVars, gpsVars, cmdVars>>

PubStop ==
    /\ Alive /\ pub = "select" /\ ctxDone
    /\ pub' = "done"
    /\ wg' = wg - 1
    /\ UNCHANGED <<mainVars, canVars, gpsVars, cmdVars>>

Publisher == TakeCan \/ TakeGps \/ Publish \/ Published \/ PubStop

-----------------------------------------------------------------------------
Next ==
    \/ Signal \/ BrokerUp
    \/ Main
    \/ \E b \in Bus : Listener(b)
    \/ Gps \/ Watcher
    \/ Downlink
    \/ Publisher

Spec == Init /\ [][Next]_vars

(***************************************************************************)
(* Fairness.  Every goroutine that can run does: weak fairness of main and *)
(* of the calls that return (SendFrame, Publish, Subscribe).  Strong       *)
(* fairness where a select chooses at random among ready cases, or where   *)
(* senders queue up for a channel.  Nothing is assumed of the environment: *)
(* signals, frames, reports and commands may never come, and the broker    *)
(* may never be reachable.  A listener that is blocked in Receive ends     *)
(* because its socket was closed; a gpsd.Dial that blocks is ended by      *)
(* nothing, so GpsDialed and GpsDialFails have no fairness, and what       *)
(* depends on the call's return says so (DialReturns).                     *)
(***************************************************************************)
Progress ==
    \/ Configure \/ Connect \/ (BrokerType = "rabbitmq" /\ ConnectFails)
    \/ \E b \in Bus : OpenCan(b) \/ CloseCan(b)
    \/ StartGps \/ Subscribe \/ Spawn \/ Cancel \/ Closed \/ Join \/ Disconnect

Fairness ==
    /\ WF_vars(Progress)
    /\ \A b \in Bus : /\ SF_vars(Send(b))
                      /\ WF_vars(StopSend(b) \/ (sock[b] = "closed" /\ ReceiveEnds(b)))
    /\ WF_vars(GpsDial \/ GpsWake \/ GpsStop \/ GpsLost) /\ SF_vars(SendFix)
    /\ SF_vars(Accept) /\ WF_vars(Release)
    /\ WF_vars(TxTake \/ Transmit \/ TxStop) /\ SF_vars(TxStop)
    /\ SF_vars(TakeCan) /\ SF_vars(TakeGps) /\ WF_vars(Published) /\ SF_vars(PubStop)

FairSpec == Spec /\ Fairness

-----------------------------------------------------------------------------
(* Properties                                                              *)

\* Every variable has its type, no channel exceeds its capacity, and the
\* WaitGroup's counter is never negative (it would panic).
TypeOK ==
    /\ main \in {"config", "connect", "openCan", "subscribe", "spawn", "run", "close",
                "join", "disconnect", "exited", "fatal"}
    /\ reachable \in BOOLEAN /\ interrupt \in 0 .. 1 /\ ctxDone \in BOOLEAN
    /\ wg \in 0 .. Cardinality(Bus) + 3
    /\ sock \in [Bus -> {"none", "open", "closed"}]
    /\ listener \in [Bus -> {"none", "receive", "send", "done"}]
    /\ gps \in {"none", "check", "dial", "sleep", "watch", "done"}
    /\ watcher \in {"none", "read", "send", "ended"}
    /\ callback \in {"off", "idle", "send"}
    /\ tx \in {"none", "select", "transmit", "done"}
    /\ pub \in {"none", "select", "publish", "done"}
    /\ canRx \in 0 .. RxCap /\ gpsRx \in 0 .. RxCap /\ canTx \in 0 .. TxCap

\* wg.Wait really joins: when main goes on to disconnect from the broker, the
\* publisher, the TX worker, the gps handler and the listeners have returned and
\* the sockets of all interfaces are closed.  The watcher of a gps session and the
\* client's callback are not counted by wg: they may still put a last fix or
\* command into a channel nobody reads, and reach neither the broker nor a bus.
NothingRunsAtDisconnect ==
    main \in {"disconnect", "exited"} =>
        /\ pub = "done" /\ tx = "done" /\ gps = "done"
        /\ \A b \in Bus : listener[b] = "done" /\ sock[b] = "closed"

\* Every gpsd.Dial returns at some time, with a session or an error
\* (gps/handler.go:51).  The code does not see to it: the call is outside every
\* select, and while it lasts wg.Wait (main.go:213) does not return.
DialReturns == []<>(gps # "dial")

\* A signal that arrives while the program runs ends it, whatever is blocked at
\* that moment: listeners on a full channel or in Receive, the publisher in
\* Publish, the gps handler in its sleep, the callback on a full canTxCh; and in
\* a Dial, if that call returns.
ShutdownCompletes == DialReturns => ((main = "run" /\ interrupt = 1) ~> main = "exited")

\* Nobody waits for ever for room in a channel: neither a listener nor the
\* watcher nor the callback, while the program runs or stops.
NoSenderStuck ==
    /\ \A b \in Bus : listener[b] = "send" ~> (listener[b] # "send" \/ ~Alive)
    /\ watcher = "send" ~> (watcher # "send" \/ ~Alive)
    /\ callback = "send" ~> (callback # "send" \/ ~Alive)

\* SIGINT or SIGTERM ends the program whenever it arrives, if a Dial that is under
\* way then returns.
SigtermHonoured == DialReturns => (interrupt = 1 ~> main \in {"exited", "fatal"})
=============================================================================
