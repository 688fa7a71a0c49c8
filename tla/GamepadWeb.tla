----------------------------- MODULE GamepadWeb -----------------------------
(***************************************************************************)
(* cmd/gamepadweb: browser tabs (assets/app.js) read a gamepad ten times a *)
(* second and send its state over a WebSocket that reconnects; other       *)
(* clients post single states to /api/gamepad.  Every connection and every *)
(* request has a goroutine of its own in the server, and each of them      *)
(* publishes a state as a series of command frames, one publish at a time, *)
(* without a lock (publishState).                                          *)
(*                                                                         *)
(* A gamepad state is represented by its number in its tab; a request      *)
(* carries one state, number 1.  A frame is its place among the frames of  *)
(* a state; GamepadMapper says what is in it.  Frames of different sources *)
(* interleave freely on the topic, which is recorded per source.           *)
(***************************************************************************)
EXTENDS GamepadMapper, FiniteSets

CONSTANTS
    Tabs, Requests,
    MapConfig,   \* frames with an identifier in the mapping file
    FrameFlags,  \* frames with an identifier on the command line
    MaxConns,    \* bound: WebSockets a tab opens
    MaxStates    \* bound: states a tab sends

ASSUME GamepadWebAssumption ==
    /\ MapConfig \subseteq FrameKinds
    /\ FrameFlags \subseteq Flagged
    /\ {MaxConns, MaxStates} \subseteq Nat \ {0}
    /\ Requests \cap (Tabs \X Nat) = {}   \* a source is one or the other

\* ToCommandMaps makes a frame of each kind that has an identifier.
FramesPerState == Cardinality(WithDefault(MapConfig \cup FrameFlags))

Conns   == Tabs \X (1 .. MaxConns)
Sources == Conns \cup Requests

VARIABLES
    cur,       \* cur[t]: number of the WebSocket the variable ws holds
    pending,   \* pending[t]: timeouts that will call connect
    timer,     \* timer[t]: the variable timer holds an interval
    intervals, \* intervals[t]: sending intervals that exist
    sent,      \* sent[t]: number of states sent
    socket,    \* socket[c], seen by the browser: "none", "connecting", "open", "closed"
    broken,    \* broken[c]: the network connection has failed or was closed
    inbox,     \* inbox[c]: states on their way to ReadJSON
    server,    \* the goroutine of a source: "none", "read", "publish" or "ended"
    calls,     \* calls of publishState in progress: source, state, next frame
    replies,   \* history per source: states answered, and whether with an error
    topic,     \* history per source: the frames written to the topic
    dropped    \* history per source: frames the client accepted and discarded

vars == <<cur, pending, timer, intervals, sent, socket, broken, inbox,
          server, calls, replies, topic, dropped>>
tabVars  == <<cur, pending>>
btnVars  == <<timer, intervals>>
pubVars  == <<topic, dropped>>

Frame(p) == [state |-> p.state, frame |-> p.next]

\* A page has called connect() once it is loaded; main has connected to MQTT
\* before it listens.
Init ==
    /\ cur = [t \in Tabs |-> 1] /\ pending = [t \in Tabs |-> 0]
    /\ timer = [t \in Tabs |-> FALSE] /\ intervals = [t \in Tabs |-> 0]
    /\ sent = [t \in Tabs |-> 0]
    /\ socket = [c \in Conns |-> IF c[2] = 1 THEN "connecting" ELSE "none"]
    /\ broken = [c \in Conns |-> FALSE] /\ inbox = [c \in Conns |-> <<>>]
    /\ server = [s \in Sources |-> "none"]
    /\ calls = {} /\ replies = [s \in Sources |-> <<>>]
    /\ topic = [s \in Sources |-> <<>>] /\ dropped = [s \in Sources |-> {}]

-----------------------------------------------------------------------------
(* The browser: app.js                                                     *)

\* setTimeout fires: ws = new WebSocket(...).
Connect(t) ==
    /\ pending[t] > 0 /\ cur[t] < MaxConns
    /\ pending' = [pending EXCEPT ![t] = @ - 1]
    /\ cur' = [cur EXCEPT ![t] = @ + 1]
    /\ socket' = [socket EXCEPT ![<<t, cur[t] + 1>>] = "connecting"]
    /\ UNCHANGED <<btnVars, sent, broken, inbox, server, calls, replies, pubVars>>

\* Faulty variants: onerror, which precedes onclose, calls connect later too; no
\* handler does, as if a connection were made once.
LostTwice(c) ==
    /\ socket[c] \in {"connecting", "open"} /\ broken[c]
    /\ socket' = [socket EXCEPT ![c] = "closed"]
    /\ pending' = [pending EXCEPT ![c[1]] = @ + 2]
    /\ UNCHANGED <<cur, btnVars, sent, broken, inbox, server, calls, replies, pubVars>>

LostForGood(c) ==
    /\ socket[c] \in {"connecting", "open"} /\ broken[c]
    /\ socket' = [socket EXCEPT ![c] = "closed"]
    /\ UNCHANGED <<tabVars, btnVars, sent, broken, inbox, server, calls, replies, pubVars>>

\* onerror and onclose: connect again in 1.5 s.
Lost(c) ==
    /\ socket[c] \in {"connecting", "open"} /\ broken[c]
    /\ socket' = [socket EXCEPT ![c] = "closed"]
    /\ pending' = [pending EXCEPT ![c[1]] = @ + 1]
    /\ UNCHANGED <<cur, btnVars, sent, broken, inbox, server, calls, replies, pubVars>>

\* Faulty variant: a running interval is not looked at.
StartClickUnguarded(t) ==
    /\ timer' = [timer EXCEPT ![t] = TRUE]
    /\ intervals' = [intervals EXCEPT ![t] = @ + 1]
    /\ UNCHANGED <<tabVars, sent, socket, broken, inbox, server, calls, replies, pubVars>>

StartClick(t) ==
    /\ ~timer[t]
    /\ timer' = [timer EXCEPT ![t] = TRUE]
    /\ intervals' = [intervals EXCEPT ![t] = @ + 1]
    /\ UNCHANGED <<tabVars, sent, socket, broken, inbox, server, calls, replies, pubVars>>

\* clearInterval(timer) ends the interval in the variable, no other.
StopClick(t) ==
    /\ timer[t]
    /\ timer' = [timer EXCEPT ![t] = FALSE]
    /\ intervals' = [intervals EXCEPT ![t] = @ - 1]
    /\ UNCHANGED <<tabVars, sent, socket, broken, inbox, server, calls, replies, pubVars>>

\* An interval fires with the socket open and a gamepad present (otherwise it
\* does nothing).  A state sent into a broken connection is lost.
SendState(t) ==
    LET c == <<t, cur[t]>> IN
    /\ intervals[t] > 0 /\ socket[c] = "open" /\ sent[t] < MaxStates
    /\ sent' = [sent EXCEPT ![t] = @ + 1]
    /\ inbox' = IF broken[c] THEN inbox ELSE [inbox EXCEPT ![c] = Append(@, sent[t] + 1)]
    /\ UNCHANGED <<tabVars, btnVars, socket, broken, server, calls, replies, pubVars>>

-----------------------------------------------------------------------------
(* The server: a goroutine per connection (handleWS)                       *)

\* Upgrade, on both sides.
Upgrade(c) ==
    /\ socket[c] = "connecting" /\ ~broken[c]
    /\ socket' = [socket EXCEPT ![c] = "open"]
    /\ server' = [server EXCEPT ![c] = "read"]
    /\ UNCHANGED <<tabVars, btnVars, sent, broken, inbox, calls, replies, pubVars>>

\* Faulty variant: each state is published in a goroutine of its own.
ReadAndGo(c) ==
    /\ server[c] = "read" /\ inbox[c] # <<>>
    /\ inbox' = [inbox EXCEPT ![c] = Tail(@)]
    /\ calls' = calls \cup {[from |-> c, state |-> Head(inbox[c]), next |-> 1]}
    /\ UNCHANGED <<tabVars, btnVars, sent, socket, broken, server, replies, pubVars>>

\* ReadJSON and the call of publishState.
Read(c) ==
    /\ server[c] = "read" /\ inbox[c] # <<>>
    /\ inbox' = [inbox EXCEPT ![c] = Tail(@)]
    /\ calls' = calls \cup {[from |-> c, state |-> Head(inbox[c]), next |-> 1]}
    /\ server' = [server EXCEPT ![c] = "publish"]
    /\ UNCHANGED <<tabVars, btnVars, sent, socket, broken, replies, pubVars>>

\* Faulty variant: the loop goes on after a read error.
ReadFailsContinue(c) ==
    /\ server[c] = "read" /\ broken[c]
    /\ inbox' = [inbox EXCEPT ![c] = <<>>]
    /\ UNCHANGED <<tabVars, btnVars, sent, socket, broken, server, calls, replies, pubVars>>

\* ReadJSON fails: return, and the deferred Close.  What was received before the
\* failure may have been read or not.
ReadFails(c) ==
    /\ server[c] = "read" /\ broken[c]
    /\ server' = [server EXCEPT ![c] = "ended"]
    /\ inbox' = [inbox EXCEPT ![c] = <<>>]
    /\ UNCHANGED <<tabVars, btnVars, sent, socket, broken, calls, replies, pubVars>>

\* handleAPI: a well-formed POST; anything else is refused without publishing.
Post(r) ==
    /\ server[r] = "none"
    /\ calls' = calls \cup {[from |-> r, state |-> 1, next |-> 1]}
    /\ server' = [server EXCEPT ![r] = "publish"]
    /\ UNCHANGED <<tabVars, btnVars, sent, socket, broken, inbox, replies, pubVars>>

Refuse(r) ==
    /\ server[r] = "none"
    /\ server' = [server EXCEPT ![r] = "ended"]
    /\ UNCHANGED <<tabVars, btnVars, sent, socket, broken, inbox, calls, replies, pubVars>>

-----------------------------------------------------------------------------
(* publishState                                                            *)

\* Faulty variant: the loop runs once too often.
ReturnedLate(p) == p.next > FramesPerState + 1

Returned(p) == p.next > FramesPerState

\* token.Wait returns without an error: the frame was written to the connection
\* or, while the client is reconnecting, discarded (QoS 0).
Publish(p) ==
    /\ p \in calls /\ ~Returned(p)
    /\ calls' = (calls \ {p}) \cup {[p EXCEPT !.next = @ + 1]}
    /\ \/ topic' = [topic EXCEPT ![p.from] = Append(@, Frame(p))] /\ UNCHANGED dropped
       \/ dropped' = [dropped EXCEPT ![p.from] = @ \cup {Frame(p)}] /\ UNCHANGED topic
    /\ UNCHANGED <<tabVars, btnVars, sent, socket, broken, inbox, server, replies>>

\* The reply, and what the goroutine does next: the next ReadJSON, or the end of
\* the request.  An error of WriteJSON is ignored.
Reply(p, error) ==
    /\ calls' = calls \ {p}
    /\ replies' = [replies EXCEPT ![p.from] = Append(@, [state |-> p.state, error |-> error])]
    /\ server' = [server EXCEPT ![p.from] = IF p.from \in Conns THEN "read" ELSE "ended"]
    /\ UNCHANGED <<tabVars, btnVars, sent, socket, broken, inbox, pubVars>>

\* Every frame has been published.
PublishState(p) == p \in calls /\ Returned(p) /\ Reply(p, FALSE)

\* Faulty variants: the frame is skipped; the handler returns instead of going on
\* to the next state.
PublishFailsSkip(p) ==
    /\ p \in calls /\ ~Returned(p)
    /\ calls' = (calls \ {p}) \cup {[p EXCEPT !.next = @ + 1]}
    /\ UNCHANGED <<tabVars, btnVars, sent, socket, broken, inbox, server, replies, pubVars>>

PublishFailsReturn(p) ==
    /\ p \in calls /\ ~Returned(p)
    /\ calls' = calls \ {p}
    /\ server' = [server EXCEPT ![p.from] = "ended"]
    /\ replies' = [replies EXCEPT ![p.from] = Append(@, [state |-> p.state, error |-> TRUE])]
    /\ UNCHANGED <<tabVars, btnVars, sent, socket, broken, inbox, pubVars>>

\* The token has an error (a write that fails or takes too long): the rest of the
\* state is not published.
PublishFails(p) == p \in calls /\ ~Returned(p) /\ Reply(p, TRUE)

-----------------------------------------------------------------------------
(* The network                                                             *)

Break(c) ==
    /\ socket[c] \in {"connecting", "open"} /\ ~broken[c]
    /\ broken' = [broken EXCEPT ![c] = TRUE]
    /\ UNCHANGED <<tabVars, btnVars, sent, socket, inbox, server, calls, replies, pubVars>>

-----------------------------------------------------------------------------
HandleWS(c) == Upgrade(c) \/ Read(c) \/ ReadFails(c)

Next ==
    \/ \E t \in Tabs : Connect(t) \/ StartClick(t) \/ StopClick(t) \/ SendState(t)
    \/ \E c \in Conns : Lost(c) \/ HandleWS(c) \/ Break(c)
    \/ \E r \in Requests : Post(r) \/ Refuse(r)
    \/ \E p \in calls : Publish(p) \/ PublishState(p) \/ PublishFails(p)

Spec == Init /\ [][Next]_vars

\* The browser's event loop and the server's goroutines run; token.Wait returns.
Fairness ==
    /\ \A t \in Tabs : WF_vars(Connect(t))
    /\ \A c \in Conns : WF_vars(Lost(c)) /\ WF_vars(HandleWS(c))
    /\ \A s \in Sources :
         WF_vars(\E p \in calls : p.from = s /\ (Publish(p) \/ PublishState(p) \/ PublishFails(p)))

FairSpec == Spec /\ Fairness

-----------------------------------------------------------------------------
(* Properties                                                              *)

\* Every variable has its type.
TypeOK ==
    LET Frames == [state : 1 .. MaxStates, frame : 1 .. FramesPerState] IN
    /\ cur \in [Tabs -> 1 .. MaxConns] /\ pending \in [Tabs -> Nat]
    /\ timer \in [Tabs -> BOOLEAN] /\ intervals \in [Tabs -> Nat]
    /\ sent \in [Tabs -> 0 .. MaxStates]
    /\ socket \in [Conns -> {"none", "connecting", "open", "closed"}]
    /\ broken \in [Conns -> BOOLEAN] /\ inbox \in [Conns -> Seq(1 .. MaxStates)]
    /\ server \in [Sources -> {"none", "read", "publish", "ended"}]
    /\ calls \subseteq [from : Sources, state : 1 .. MaxStates, next : 1 .. FramesPerState + 1]
    /\ replies \in [Sources -> Seq([state : 1 .. MaxStates, error : BOOLEAN])]
    /\ topic \in [Sources -> Seq(Frames)] /\ dropped \in [Sources -> SUBSET Frames]

Before(a, b) == a.state < b.state \/ (a.state = b.state /\ a.frame < b.frame)

\* However many connections and requests publish at the same time, the frames of
\* one of them are on the topic in the order of its states, state by state, and
\* within a state in the order of ToCommandMaps.
InOrder ==
    \A s \in Sources : \A i, j \in DOMAIN topic[s] : i < j => Before(topic[s][i], topic[s][j])

\* The frames of a source that its client accepted, and which those of a state are.
Accepted(s) == dropped[s] \cup {topic[s][i] : i \in DOMAIN topic[s]}
Done(s, state) == {x.frame : x \in {y \in Accepted(s) : y.state = state}}

\* The replies tell what was published: after a success nothing of the state is
\* missing but what the client discarded while it was reconnecting, after an
\* error its last frame is missing; every state is answered once, in order.
RepliesHonest ==
    \A s \in Sources : \A i \in DOMAIN replies[s] :
        LET r == replies[s][i] IN
        /\ r.error <=> FramesPerState \notin Done(s, r.state)
        /\ \E n \in 0 .. FramesPerState : Done(s, r.state) = 1 .. n
        /\ \A j \in DOMAIN replies[s] : j < i => replies[s][j].state < r.state

\* A tab has, at every moment, either one WebSocket that lives or one timeout that
\* will open one: reconnecting neither multiplies connections nor forgets to.
OneSocket ==
    \A t \in Tabs :
        pending[t] + Cardinality({k \in 1 .. MaxConns : socket[<<t, k>>] \in {"connecting", "open"}}) = 1

\* After stop nothing sends any more, whatever was clicked before, and no state
\* is sent twice: the one interval there may be is the one stop can clear.
StopStops == \A t \in Tabs : intervals[t] = IF timer[t] THEN 1 ELSE 0

\* A closed WebSocket is always replaced by a new one.  (MaxConns bounds the
\* connections, so the last one has no successor.)
Reconnects ==
    \A t \in Tabs : \A k \in 1 .. MaxConns - 1 : socket[<<t, k>>] = "closed" ~> cur[t] > k

\* What reaches the server is taken up, and the goroutine of a connection that
\* failed ends.
Served ==
    /\ \A s \in Sources : server[s] = "publish" ~> server[s] # "publish"
    /\ \A c \in Conns : inbox[c] # <<>> ~> inbox[c] = <<>>
    /\ \A c \in Conns : broken[c] /\ server[c] # "none" ~> server[c] = "ended"
=============================================================================
