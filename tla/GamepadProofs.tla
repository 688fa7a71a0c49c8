---------------------------- MODULE GamepadProofs ----------------------------
(***************************************************************************)
(* Theorems of module GamepadWeb, for any number of tabs, requests,        *)
(* WebSockets and states, and whichever frames are configured.             *)
(***************************************************************************)
EXTENDS GamepadWeb, SequenceTheorems, FiniteSetTheorems, TLAPS

Living == {"connecting", "open"}

\* The types the proofs rest on.
Typed ==
    /\ cur \in [Tabs -> 1 .. MaxConns] /\ pending \in [Tabs -> Nat]
    /\ timer \in [Tabs -> BOOLEAN] /\ intervals \in [Tabs -> Int]
    /\ sent \in [Tabs -> Nat]
    /\ socket \in [Conns -> {"none", "connecting", "open", "closed"}]
    /\ inbox \in [Conns -> Seq(Nat)]
    /\ server \in [Sources -> {"none", "read", "publish", "ended"}]
    /\ calls \subseteq [from : Sources, state : Nat, next : Nat]
    /\ topic \in [Sources -> Seq([state : Nat, frame : Nat])]

\* The WebSockets of a tab live one after the other: the one ws holds, unless a
\* timeout will replace it.
SocketOK ==
    \A t \in Tabs :
        /\ pending[t] \in {0, 1}
        /\ \A k \in 1 .. MaxConns :
             /\ socket[<<t, k>>] \in Living <=> (k = cur[t] /\ pending[t] = 0)
             /\ k > cur[t] => socket[<<t, k>>] = "none"

\* A goroutine is in at most one call of publishState, and a connection that has
\* not been upgraded has no goroutine.
ServerOK ==
    /\ \A c \in Conns : socket[c] \in {"none", "connecting"} => server[c] = "none"
    /\ \A p \in calls : server[p.from] = "publish"
    /\ \A p, q \in calls : p.from = q.from => p = q

\* The states of a connection stand in order: those on the topic, the one being
\* published, those received, those to come.
InboxOK ==
    \A c \in Conns : \A j \in 1 .. Len(inbox[c]) :
        /\ inbox[c][j] <= sent[c[1]]
        /\ \A i \in 1 .. Len(inbox[c]) : i < j => inbox[c][i] < inbox[c][j]

CallsOK ==
    \A p \in calls : p.from \in Conns =>
        /\ p.state <= sent[p.from[1]]
        /\ \A j \in 1 .. Len(inbox[p.from]) : p.state < inbox[p.from][j]

TopicOK ==
    \A s \in Sources : \A i \in 1 .. Len(topic[s]) :
        /\ server[s] # "none"
        /\ \A p \in calls : p.from = s => Before(topic[s][i], Frame(p))
        /\ s \in Conns =>
             /\ topic[s][i].state <= sent[s[1]]
             /\ \A j \in 1 .. Len(inbox[s]) : topic[s][i].state < inbox[s][j]

IInv == Typed /\ StopStops /\ SocketOK /\ ServerOK /\ InboxOK /\ CallsOK /\ TopicOK /\ InOrder

-----------------------------------------------------------------------------
\* A connection is a tab and a number.
LEMMA ConnParts ==
    /\ \A c \in Conns : c[1] \in Tabs /\ c[2] \in 1 .. MaxConns /\ c = <<c[1], c[2]>> /\ c \in Sources
    /\ \A t \in Tabs, k \in 1 .. MaxConns : <<t, k>> \in Conns /\ <<t, k>>[1] = t /\ <<t, k>>[2] = k
    /\ \A r \in Requests : r \in Sources /\ r \notin Conns
    /\ MaxConns \in Nat \ {0} /\ 1 \in 1 .. MaxConns
  BY GamepadWebAssumption DEF GamepadWebAssumption, Conns, Sources

\* A page is loaded, nothing is clicked, sent or published.
LEMMA InvInit == Init => IInv
<1> SUFFICES ASSUME Init PROVE IInv
  OBVIOUS
<1>0. \A S : <<>> \in Seq(S) /\ Len(<<>>) = 0
  BY EmptySeq
<1>1. Typed
  BY <1>0, ConnParts DEF Init, Typed
<1>2. StopStops
  BY DEF Init, StopStops
<1>3. SocketOK
  BY ConnParts DEF Init, SocketOK, Living
<1>4. ServerOK
  BY ConnParts DEF Init, ServerOK
<1>5. /\ \A c \in Conns : Len(inbox[c]) = 0
      /\ \A s \in Sources : Len(topic[s]) = 0 /\ topic[s] = <<>>
  BY <1>0 DEF Init
<1>6. InboxOK /\ CallsOK /\ TopicOK
  BY <1>5 DEF Init, InboxOK, CallsOK, TopicOK
<1>7. InOrder
  BY <1>5 DEF InOrder
<1> QED
  BY <1>1, <1>2, <1>3, <1>4, <1>6, <1>7 DEF IInv

\* Steps of the browser keep the types and the order of its sockets.
LEMMA TabStep ==
    ASSUME Typed, StopStops, SocketOK, [Next]_vars
    PROVE  Typed' /\ StopStops' /\ SocketOK'
<1> USE ConnParts
<1>1. ASSUME NEW t \in Tabs, Connect(t) PROVE Typed' /\ StopStops' /\ SocketOK'
  <2>1. Typed'
    BY <1>1, SMTT(30) DEF Connect, Typed, btnVars, pubVars
  <2>2. StopStops'
    BY <1>1 DEF Connect, StopStops, btnVars
  <2>3. SocketOK'
    <3> SUFFICES ASSUME NEW u \in Tabs, NEW k \in 1 .. MaxConns
                 PROVE  /\ pending'[u] \in {0, 1}
                        /\ socket'[<<u, k>>] \in Living <=> (k = cur'[u] /\ pending'[u] = 0)
                        /\ k > cur'[u] => socket'[<<u, k>>] = "none"
      BY DEF SocketOK
    <3>a. cur[t] \in 1 .. MaxConns /\ cur[t] < MaxConns
      BY <1>1 DEF Connect, Typed
    <3>b. cur[t] + 1 \in 1 .. MaxConns
      BY <3>a
    <3>0. <<u, k>> \in Conns /\ cur[t] + 1 \in 1 .. MaxConns /\ <<t, cur[t] + 1>> \in Conns
      BY <3>b
    <3>1. CASE u # t
      <4>1. /\ cur'[u] = cur[u] /\ pending'[u] = pending[u]
            /\ socket'[<<u, k>>] = socket[<<u, k>>]
        BY <1>1, <3>0, <3>1 DEF Connect, Typed
      <4> QED
        BY <4>1 DEF SocketOK
    <3>2. CASE u = t
      <4>1. pending[t] = 1 /\ cur[t] \in 1 .. MaxConns
        BY <1>1 DEF Connect, SocketOK, Typed
      <4>2. cur'[t] = cur[t] + 1 /\ pending'[t] = 0
        BY <1>1, <4>1 DEF Connect, Typed
      <4>3. socket'[<<t, k>>] = IF k = cur[t] + 1 THEN "connecting" ELSE socket[<<t, k>>]
        BY <1>1, <3>0, <3>2 DEF Connect, Typed
      <4>4. socket[<<t, k>>] \notin Living /\ (k > cur[t] => socket[<<t, k>>] = "none")
        BY <4>1 DEF SocketOK
      <4> QED
        BY <3>2, <4>1, <4>2, <4>3, <4>4 DEF Living
    <3> QED
      BY <3>1, <3>2
  <2> QED
    BY <2>1, <2>2, <2>3
<1>2. ASSUME NEW t \in Tabs, StartClick(t) PROVE Typed' /\ StopStops' /\ SocketOK'
  <2>1. Typed'
    BY <1>2 DEF StartClick, Typed, tabVars, pubVars
  <2>2. StopStops'
    BY <1>2 DEF StartClick, StopStops, Typed
  <2> QED
    BY <1>2, <2>1, <2>2 DEF StartClick, SocketOK, tabVars
<1>3. ASSUME NEW t \in Tabs, StopClick(t) PROVE Typed' /\ StopStops' /\ SocketOK'
  <2>1. Typed'
    BY <1>3 DEF StopClick, Typed, tabVars, pubVars
  <2>2. StopStops'
    BY <1>3 DEF StopClick, StopStops, Typed
  <2> QED
    BY <1>3, <2>1, <2>2 DEF StopClick, SocketOK, tabVars
<1>4. ASSUME NEW t \in Tabs, SendState(t) PROVE Typed' /\ StopStops' /\ SocketOK'
  <2>1. <<t, cur[t]>> \in Conns /\ sent[t] + 1 \in Nat
    BY DEF Typed
  <2>2. Append(inbox[<<t, cur[t]>>], sent[t] + 1) \in Seq(Nat)
    BY <2>1, AppendProperties DEF Typed
  <2>3. inbox' \in [Conns -> Seq(Nat)]
    BY <1>4, <2>1, <2>2 DEF SendState, Typed
  <2>4. Typed'
    BY <1>4, <2>1, <2>3 DEF SendState, Typed, tabVars, btnVars, pubVars
  <2> QED
    BY <1>4, <2>4 DEF SendState, StopStops, SocketOK, tabVars, btnVars
<1>5. ASSUME NEW c \in Conns, Lost(c) PROVE Typed' /\ StopStops' /\ SocketOK'
  <2>1. Typed'
    BY <1>5, SMTT(30) DEF Lost, Typed, btnVars, pubVars
  <2>2. StopStops'
    BY <1>5 DEF Lost, StopStops, btnVars
  <2>3. SocketOK'
    <3> SUFFICES ASSUME NEW u \in Tabs, NEW k \in 1 .. MaxConns
                 PROVE  /\ pending'[u] \in {0, 1}
                        /\ socket'[<<u, k>>] \in Living <=> (k = cur'[u] /\ pending'[u] = 0)
                        /\ k > cur'[u] => socket'[<<u, k>>] = "none"
      BY DEF SocketOK
    <3>1. PICK t \in Tabs, n \in 1 .. MaxConns : c = <<t, n>> /\ c[1] = t
      BY <1>5
    <3>2. n = cur[t] /\ pending[t] = 0
      BY <1>5, <3>1 DEF Lost, SocketOK, Living
    <3>3. CASE u # t
      <4>1. <<u, k>> # <<t, n>>
        BY <3>3
      <4>2. cur' = cur /\ pending'[u] = pending[u] /\ socket'[<<u, k>>] = socket[<<u, k>>]
        BY <1>5, <3>1, <3>3, <4>1 DEF Lost, Typed
      <4> QED
        BY <4>2 DEF SocketOK
    <3>4. CASE u = t
      <4>1. cur' = cur /\ pending'[t] = 1
        BY <1>5, <3>1, <3>2 DEF Lost, Typed
      <4>2. socket'[<<t, k>>] = IF k = n THEN "closed" ELSE socket[<<t, k>>]
        BY <1>5, <3>1 DEF Lost, Typed
      <4> QED
        BY <3>2, <3>4, <4>1, <4>2 DEF SocketOK, Living, Typed
    <3> QED
      BY <3>3, <3>4
  <2> QED
    BY <2>1, <2>2, <2>3
<1>6. ASSUME NEW c \in Conns, Upgrade(c) PROVE Typed' /\ StopStops' /\ SocketOK'
  <2>1. Typed'
    BY <1>6 DEF Upgrade, Typed, tabVars, btnVars, pubVars
  <2>2. /\ \A d \in Conns : socket'[d] \in Living <=> socket[d] \in Living
        /\ \A d \in Conns : socket[d] = "none" => socket'[d] = "none"
    BY <1>6 DEF Upgrade, Living, Typed
  <2>3. SocketOK'
    BY <1>6, <2>2 DEF Upgrade, SocketOK, tabVars
  <2> QED
    BY <1>6, <2>1, <2>3 DEF Upgrade, StopStops, tabVars, btnVars
<1>7. ASSUME NEW c \in Conns, Read(c) PROVE Typed' /\ StopStops' /\ SocketOK'
  <2>1. Head(inbox[c]) \in Nat /\ Tail(inbox[c]) \in Seq(Nat)
    BY <1>7, HeadTailProperties DEF Read, Typed
  <2>2. inbox' \in [Conns -> Seq(Nat)] /\ calls' \subseteq [from : Sources, state : Nat, next : Nat]
    BY <1>7, <2>1 DEF Read, Typed
  <2>3. Typed'
    BY <1>7, <2>2 DEF Read, Typed, tabVars, btnVars, pubVars
  <2> QED
    BY <1>7, <2>3 DEF Read, StopStops, SocketOK, tabVars, btnVars
<1>8. ASSUME NEW c \in Conns, ReadFails(c) PROVE Typed' /\ StopStops' /\ SocketOK'
  <2>1. Typed'
    BY <1>8, EmptySeq DEF ReadFails, Typed, tabVars, btnVars, pubVars
  <2> QED
    BY <1>8, <2>1 DEF ReadFails, StopStops, SocketOK, tabVars, btnVars
<1>9. ASSUME NEW c \in Conns, Break(c) PROVE Typed' /\ StopStops' /\ SocketOK'
  BY <1>9 DEF Break, Typed, StopStops, SocketOK, tabVars, btnVars, pubVars
<1>10. ASSUME NEW r \in Requests, Post(r) \/ Refuse(r) PROVE Typed' /\ StopStops' /\ SocketOK'
  <2>1. calls' \subseteq [from : Sources, state : Nat, next : Nat]
    <3>1. [from |-> r, state |-> 1, next |-> 1] \in [from : Sources, state : Nat, next : Nat]
      OBVIOUS
    <3> QED
      BY <1>10, <3>1 DEF Post, Refuse, Typed
  <2>2. server' \in [Sources -> {"none", "read", "publish", "ended"}]
    BY <1>10, SMTT(30) DEF Post, Refuse, Typed
  <2>3. Typed'
    BY <1>10, <2>1, <2>2 DEF Post, Refuse, Typed, tabVars, btnVars, pubVars
  <2> QED
    BY <1>10, <2>3 DEF Post, Refuse, StopStops, SocketOK, tabVars, btnVars
<1>11. ASSUME NEW p \in calls, Publish(p) PROVE Typed' /\ StopStops' /\ SocketOK'
  <2>0. p \in [from : Sources, state : Nat, next : Nat]
    BY DEF Typed
  <2>a. p.from \in Sources /\ p.state \in Nat /\ p.next \in Nat /\ p.next + 1 \in Nat
    BY <2>0
  <2>1. /\ p.from \in Sources /\ Frame(p) \in [state : Nat, frame : Nat]
        /\ [p EXCEPT !.next = @ + 1] \in [from : Sources, state : Nat, next : Nat]
    BY <2>0, <2>a DEF Frame
  <2>2. Append(topic[p.from], Frame(p)) \in Seq([state : Nat, frame : Nat])
    BY <2>1, AppendProperties DEF Typed
  <2>3. topic' \in [Sources -> Seq([state : Nat, frame : Nat])]
    <3>1. CASE topic' = [topic EXCEPT ![p.from] = Append(@, Frame(p))]
      BY <2>1, <2>2, <3>1 DEF Typed
    <3>2. CASE UNCHANGED topic
      BY <3>2 DEF Typed
    <3> QED
      BY <1>11, <3>1, <3>2 DEF Publish
  <2>b. calls' \subseteq [from : Sources, state : Nat, next : Nat]
    BY <1>11, <2>1 DEF Publish, Typed
  <2>4. Typed'
    BY <1>11, <2>3, <2>b DEF Publish, Typed, tabVars, btnVars
  <2> QED
    BY <1>11, <2>4 DEF Publish, StopStops, SocketOK, tabVars, btnVars
<1>12. ASSUME NEW p \in calls, PublishState(p) \/ PublishFails(p)
       PROVE  Typed' /\ StopStops' /\ SocketOK'
  <2>0. /\ calls' \subseteq calls
        /\ server' = [server EXCEPT ![p.from] = IF p.from \in Conns THEN "read" ELSE "ended"]
        /\ UNCHANGED <<cur, pending, timer, intervals, sent, socket, inbox, topic>>
    BY <1>12 DEF PublishState, PublishFails, Reply, tabVars, btnVars, pubVars
  <2>a. server' \in [Sources -> {"none", "read", "publish", "ended"}]
    BY <2>0 DEF Typed
  <2>1. Typed'
    BY <2>0, <2>a DEF Typed
  <2> QED
    BY <1>12, <2>1 DEF PublishState, PublishFails, Reply, StopStops, SocketOK, tabVars, btnVars
<1>13. CASE UNCHANGED vars
  BY <1>13 DEF vars, Typed, StopStops, SocketOK
<1> QED
  BY <1>1, <1>2, <1>3, <1>4, <1>5, <1>6, <1>7, <1>8, <1>9, <1>10, <1>11, <1>12, <1>13
     DEF Next, HandleWS

-----------------------------------------------------------------------------
\* Only a goroutine that is in no call begins one, and it goes on when it is over.
LEMMA ServerStep ==
    ASSUME Typed, SocketOK, ServerOK, [Next]_vars PROVE ServerOK'
<1> USE ConnParts
<1>1. ASSUME NEW t \in Tabs, Connect(t) PROVE ServerOK'
  <2>a. cur[t] \in 1 .. MaxConns /\ cur[t] < MaxConns
    BY <1>1 DEF Connect, Typed
  <2>b. cur[t] + 1 \in 1 .. MaxConns /\ cur[t] + 1 > cur[t]
    BY <2>a
  <2>1. <<t, cur[t] + 1>> \in Conns /\ socket[<<t, cur[t] + 1>>] = "none"
    BY <2>b DEF SocketOK
  <2>c. socket' = [socket EXCEPT ![<<t, cur[t] + 1>>] = "connecting"]
    BY <1>1 DEF Connect
  <2>2. ASSUME NEW c \in Conns, socket'[c] \in {"none", "connecting"}
        PROVE  socket[c] \in {"none", "connecting"}
    <3>1. CASE c = <<t, cur[t] + 1>>
      BY <2>1, <3>1
    <3>2. CASE c # <<t, cur[t] + 1>>
      BY <2>c, <2>2, <3>2 DEF Typed
    <3> QED
      BY <3>1, <3>2
  <2> QED
    BY <1>1, <2>2 DEF Connect, ServerOK
<1>2. ASSUME NEW c \in Conns, Lost(c) PROVE ServerOK'
  <2>1. \A d \in Conns : socket'[d] \in {"none", "connecting"} => socket[d] \in {"none", "connecting"}
    BY <1>2 DEF Lost, Typed
  <2> QED
    BY <1>2, <2>1 DEF Lost, ServerOK
<1>3. ASSUME NEW c \in Conns, Upgrade(c) PROVE ServerOK'
  <2>1. server[c] = "none" /\ \A p \in calls : p.from # c
    BY <1>3 DEF Upgrade, ServerOK
  <2>2. \A d \in Conns : socket'[d] \in {"none", "connecting"}
           => (socket[d] \in {"none", "connecting"} /\ d # c)
    BY <1>3 DEF Upgrade, Typed
  <2>3. calls' = calls /\ \A s \in Sources : s # c => server'[s] = server[s]
    BY <1>3 DEF Upgrade, Typed
  <2>4. \A p \in calls : p.from \in Sources
    BY DEF Typed
  <2> QED
    BY <2>1, <2>2, <2>3, <2>4 DEF ServerOK
<1>4. ASSUME NEW c \in Conns, Read(c) PROVE ServerOK'
  <2>1. server[c] = "read" /\ \A p \in calls : p.from # c
    BY <1>4 DEF Read, ServerOK
  <2>2. socket[c] \notin {"none", "connecting"} /\ socket' = socket
    BY <1>4, <2>1 DEF Read, ServerOK
  <2>3. /\ server'[c] = "publish" /\ \A s \in Sources : s # c => server'[s] = server[s]
        /\ \A p \in calls' : p \in calls \/ p = [from |-> c, state |-> Head(inbox[c]), next |-> 1]
    BY <1>4 DEF Read, Typed
  <2>4. \A p \in calls : p.from \in Sources
    BY DEF Typed
  <2> QED
    BY <2>1, <2>2, <2>3, <2>4 DEF ServerOK
<1>5. ASSUME NEW c \in Conns, ReadFails(c) PROVE ServerOK'
  <2>1. server[c] = "read" /\ \A p \in calls : p.from # c
    BY <1>5 DEF ReadFails, ServerOK
  <2>2. socket[c] \notin {"none", "connecting"} /\ socket' = socket /\ calls' = calls
    BY <1>5, <2>1 DEF ReadFails, ServerOK
  <2>3. \A s \in Sources : s # c => server'[s] = server[s]
    BY <1>5 DEF ReadFails, Typed
  <2>4. \A p \in calls : p.from \in Sources
    BY DEF Typed
  <2> QED
    BY <2>1, <2>2, <2>3, <2>4 DEF ServerOK
<1>6. ASSUME NEW r \in Requests, Post(r) \/ Refuse(r) PROVE ServerOK'
  <2>1. \A p \in calls : p.from # r
    BY <1>6 DEF Post, Refuse, ServerOK
  <2>2. socket' = socket /\ \A s \in Sources : s # r => server'[s] = server[s]
    BY <1>6 DEF Post, Refuse, Typed
  <2>3. ASSUME NEW p \in calls'
        PROVE  \/ p \in calls
               \/ p = [from |-> r, state |-> 1, next |-> 1] /\ p.from = r /\ server'[r] = "publish"
    <3>1. CASE Refuse(r)
      BY <3>1 DEF Refuse
    <3>2. CASE Post(r)
      <4>1. server'[r] = "publish"
        BY <3>2 DEF Post, Typed
      <4>2. p \in calls \/ p = [from |-> r, state |-> 1, next |-> 1]
        BY <3>2 DEF Post
      <4> QED
        BY <4>1, <4>2
    <3> QED
      BY <1>6, <3>1, <3>2
  <2>4. \A p \in calls : p.from \in Sources
    BY DEF Typed
  <2>5. \A c \in Conns : server'[c] = server[c]
    BY <2>2
  <2> QED
    BY <2>1, <2>2, <2>3, <2>4, <2>5 DEF ServerOK
<1>7. ASSUME NEW p \in calls, Publish(p) PROVE ServerOK'
  <2>1. p \in [from : Sources, state : Nat, next : Nat]
    BY DEF Typed
  <2>2. [p EXCEPT !.next = @ + 1].from = p.from
    BY <2>1
  <2>3. ASSUME NEW q \in calls'
        PROVE  \/ q = [p EXCEPT !.next = @ + 1] /\ q.from = p.from
               \/ q \in calls /\ q # p /\ q.from # p.from
    <3>1. q = [p EXCEPT !.next = @ + 1] \/ (q \in calls /\ q # p)
      BY <1>7 DEF Publish
    <3> QED
      BY <2>2, <3>1 DEF ServerOK
  <2> QED
    BY <1>7, <2>3 DEF Publish, ServerOK
<1>8. ASSUME NEW p \in calls, PublishState(p) \/ PublishFails(p) PROVE ServerOK'
  <2>1. socket' = socket /\ \A q \in calls' : q \in calls /\ q.from # p.from
    BY <1>8 DEF PublishState, PublishFails, Reply, ServerOK
  <2>2. \A s \in Sources : s # p.from => server'[s] = server[s]
    BY <1>8 DEF PublishState, PublishFails, Reply, Typed
  <2>3. p.from \in Conns => socket[p.from] \notin {"none", "connecting"}
    BY DEF ServerOK
  <2>4. \A q \in calls : q.from \in Sources
    BY DEF Typed
  <2> QED
    BY <2>1, <2>2, <2>3, <2>4 DEF ServerOK
<1>9. ASSUME NEW t \in Tabs, StartClick(t) \/ StopClick(t) \/ SendState(t) PROVE ServerOK'
  BY <1>9 DEF StartClick, StopClick, SendState, ServerOK
<1>10. ASSUME NEW c \in Conns, Break(c) PROVE ServerOK'
  BY <1>10 DEF Break, ServerOK
<1>11. CASE UNCHANGED vars
  BY <1>11 DEF vars, ServerOK
<1> QED
  BY <1>1, <1>2, <1>3, <1>4, <1>5, <1>6, <1>7, <1>8, <1>9, <1>10, <1>11 DEF Next, HandleWS

-----------------------------------------------------------------------------
\* What stands on the topic are numbers of a state and a frame.
LEMMA TopicTypes ==
    ASSUME Typed, NEW s \in Sources, NEW i \in 1 .. Len(topic[s])
    PROVE  topic[s][i].state \in Nat /\ topic[s][i].frame \in Nat
<1>1. topic[s] \in Seq([state : Nat, frame : Nat])
  BY DEF Typed
<1>2. topic[s][i] \in [state : Nat, frame : Nat]
  BY <1>1, ElementOfSeq
<1> QED
  BY <1>2

\* The order of what a connection has received, publishes and has published.
OrderOK == InboxOK /\ CallsOK /\ TopicOK /\ InOrder

\* Nothing falls out of order when states or calls go and no new ones come.
LEMMA OrderQuiet ==
    ASSUME OrderOK, sent' = sent, topic' = topic, calls' \subseteq calls,
           \A c \in Conns : inbox'[c] = inbox[c] \/ Len(inbox'[c]) = 0,
           \A s \in Sources : server[s] # "none" => server'[s] # "none"
    PROVE  OrderOK'
<1>1. InboxOK'
  BY DEF OrderOK, InboxOK
<1>2. CallsOK'
  BY DEF OrderOK, CallsOK
<1>3. TopicOK'
  <2> SUFFICES ASSUME NEW s \in Sources, NEW i \in 1 .. Len(topic[s])
               PROVE  /\ server'[s] # "none"
                      /\ \A p \in calls' : p.from = s => Before(topic[s][i], Frame(p))
                      /\ s \in Conns =>
                           /\ topic[s][i].state <= sent[s[1]]
                           /\ \A j \in 1 .. Len(inbox'[s]) : topic[s][i].state < inbox'[s][j]
    BY DEF TopicOK, Before, Frame
  <2>1. server'[s] # "none" /\ \A p \in calls' : p.from = s => Before(topic[s][i], Frame(p))
    BY DEF OrderOK, TopicOK
  <2>2. ASSUME s \in Conns
        PROVE  /\ topic[s][i].state <= sent[s[1]]
               /\ \A j \in 1 .. Len(inbox'[s]) : topic[s][i].state < inbox'[s][j]
    BY <2>2 DEF OrderOK, TopicOK
  <2> QED
    BY <2>1, <2>2
<1>4. InOrder'
  BY DEF OrderOK, InOrder, Before
<1> QED
  BY <1>1, <1>2, <1>3, <1>4 DEF OrderOK

\* A state that is sent is newer than all others of its tab.
LEMMA OrderSend ==
    ASSUME Typed, OrderOK, NEW t \in Tabs, SendState(t) PROVE OrderOK'
<1> USE ConnParts
<1>1. /\ \A u \in Tabs : sent[u] \in Nat /\ sent'[u] \in Nat /\ sent[u] <= sent'[u]
      /\ sent'[t] = sent[t] + 1
  BY DEF SendState, Typed
<1>2. ASSUME NEW d \in Conns, NEW j \in 1 .. Len(inbox'[d])
      PROVE  \/ /\ j \in 1 .. Len(inbox[d]) /\ inbox'[d][j] = inbox[d][j]
             \/ /\ d[1] = t /\ j = Len(inbox[d]) + 1 /\ inbox'[d][j] = sent[d[1]] + 1
                /\ sent'[d[1]] = sent[d[1]] + 1
  <2>0. <<t, cur[t]>> \in Conns /\ <<t, cur[t]>>[1] = t
    BY DEF Typed
  <2>1. CASE d = <<t, cur[t]>> /\ inbox'[d] = Append(inbox[d], sent[t] + 1)
    <3>1. inbox[d] \in Seq(Nat) /\ sent[t] + 1 \in Nat
      BY <1>1 DEF Typed
    <3>2. /\ Len(inbox'[d]) = Len(inbox[d]) + 1 /\ Len(inbox[d]) \in Nat
          /\ \A i \in 1 .. Len(inbox[d]) : inbox'[d][i] = inbox[d][i]
          /\ inbox'[d][Len(inbox[d]) + 1] = sent[t] + 1
      BY <2>1, <3>1, AppendProperties, LenProperties
    <3>3. d[1] = t
      BY <2>0, <2>1
    <3> QED
      BY <1>1, <3>2, <3>3
  <2>2. CASE inbox'[d] = inbox[d]
    BY <2>2
  <2>3. \/ inbox' = inbox
        \/ inbox' = [inbox EXCEPT ![<<t, cur[t]>>] = Append(inbox[<<t, cur[t]>>], sent[t] + 1)]
    BY DEF SendState
  <2>4. CASE inbox' = inbox
    BY <2>2, <2>4
  <2>5. CASE inbox' = [inbox EXCEPT ![<<t, cur[t]>>] = Append(inbox[<<t, cur[t]>>], sent[t] + 1)]
    <3>1. CASE d = <<t, cur[t]>>
      <4>1. inbox'[d] = Append(inbox[d], sent[t] + 1)
        BY <2>5, <3>1 DEF Typed
      <4> QED
        BY <2>1, <3>1, <4>1
    <3>2. CASE d # <<t, cur[t]>>
      <4>1. inbox'[d] = inbox[d]
        BY <2>5, <3>2 DEF Typed
      <4> QED
        BY <2>2, <4>1
    <3> QED
      BY <3>1, <3>2
  <2> QED
    BY <2>3, <2>4, <2>5
<1>3. \A d \in Conns : \A j \in 1 .. Len(inbox[d]) : inbox[d][j] \in Nat
  BY ElementOfSeq DEF Typed
<1>4. InboxOK'
  <2> SUFFICES ASSUME NEW d \in Conns, NEW j \in 1 .. Len(inbox'[d])
               PROVE  /\ inbox'[d][j] <= sent'[d[1]]
                      /\ \A i \in 1 .. Len(inbox'[d]) : i < j => inbox'[d][i] < inbox'[d][j]
    BY DEF InboxOK
  <2>0. Len(inbox[d]) \in Nat /\ d[1] \in Tabs
    BY LenProperties DEF Typed
  <2>1. CASE j \in 1 .. Len(inbox[d]) /\ inbox'[d][j] = inbox[d][j]
    <3>1. inbox'[d][j] <= sent'[d[1]]
      BY SMTT(30), <1>1, <1>3, <2>0, <2>1 DEF OrderOK, InboxOK
    <3>2. ASSUME NEW i \in 1 .. Len(inbox'[d]), i < j PROVE inbox'[d][i] < inbox'[d][j]
      <4>1. i \in 1 .. Len(inbox[d]) /\ inbox'[d][i] = inbox[d][i]
        BY <1>2, <2>0, <2>1, <3>2
      <4> QED
        BY <2>1, <3>2, <4>1 DEF OrderOK, InboxOK
    <3> QED
      BY <3>1, <3>2
  <2>2. CASE j = Len(inbox[d]) + 1 /\ inbox'[d][j] = sent[d[1]] + 1 /\ sent'[d[1]] = sent[d[1]] + 1
    <3>1. inbox'[d][j] <= sent'[d[1]]
      BY <1>1, <2>0, <2>2
    <3>2. ASSUME NEW i \in 1 .. Len(inbox'[d]), i < j PROVE inbox'[d][i] < inbox'[d][j]
      <4>1. i \in 1 .. Len(inbox[d]) /\ inbox'[d][i] = inbox[d][i]
        BY <1>2, <2>0, <2>2, <3>2
      <4>2. inbox[d][i] <= sent[d[1]]
        BY <4>1 DEF OrderOK, InboxOK
      <4> QED
        BY SMTT(30), <1>1, <1>3, <2>0, <2>2, <4>1, <4>2
    <3> QED
      BY <3>1, <3>2
  <2> QED
    BY <1>2, <2>1, <2>2
<1>5. ASSUME NEW d \in Conns, NEW n \in Nat, n <= sent[d[1]],
             \A j \in 1 .. Len(inbox[d]) : n < inbox[d][j]
      PROVE  n <= sent'[d[1]] /\ \A j \in 1 .. Len(inbox'[d]) : n < inbox'[d][j]
  <2>1. n <= sent'[d[1]]
    BY <1>1, <1>5
  <2>2. ASSUME NEW j \in 1 .. Len(inbox'[d]) PROVE n < inbox'[d][j]
    <3>1. CASE j \in 1 .. Len(inbox[d]) /\ inbox'[d][j] = inbox[d][j]
      BY <1>5, <3>1
    <3>2. CASE inbox'[d][j] = sent[d[1]] + 1
      BY <1>1, <1>5, <3>2
    <3> QED
      BY <1>2, <3>1, <3>2
  <2> QED
    BY <2>1, <2>2
<1>6. calls' = calls /\ topic' = topic /\ server' = server
  BY DEF SendState, pubVars
<1>7. CallsOK'
  <2> SUFFICES ASSUME NEW p \in calls, p.from \in Conns
               PROVE  /\ p.state <= sent'[p.from[1]]
                      /\ \A j \in 1 .. Len(inbox'[p.from]) : p.state < inbox'[p.from][j]
    BY <1>6 DEF CallsOK
  <2>1. p.state \in Nat
    BY DEF Typed
  <2> QED
    BY <1>5, <2>1 DEF OrderOK, CallsOK
<1>8. TopicOK'
  <2> SUFFICES ASSUME NEW s \in Sources, NEW i \in 1 .. Len(topic[s])
               PROVE  /\ server[s] # "none"
                      /\ \A p \in calls : p.from = s => Before(topic[s][i], Frame(p))
                      /\ s \in Conns =>
                           /\ topic[s][i].state <= sent'[s[1]]
                           /\ \A j \in 1 .. Len(inbox'[s]) : topic[s][i].state < inbox'[s][j]
    BY <1>6 DEF TopicOK, Before, Frame
  <2>1. topic[s][i].state \in Nat
    BY TopicTypes
  <2> QED
    BY <1>5, <2>1 DEF OrderOK, TopicOK
<1>9. InOrder'
  BY <1>6 DEF OrderOK, InOrder, Before
<1> QED
  BY <1>4, <1>7, <1>8, <1>9 DEF OrderOK

\* The oldest state received is published after everything on the topic.
LEMMA OrderRead ==
    ASSUME Typed, ServerOK, OrderOK, NEW c \in Conns, Read(c) PROVE OrderOK'
<1> USE ConnParts
<1> DEFINE new == [from |-> c, state |-> Head(inbox[c]), next |-> 1]
<1>1. /\ inbox[c] \in Seq(Nat) /\ inbox[c] # <<>> /\ Head(inbox[c]) = inbox[c][1]
      /\ Len(inbox[c]) \in Nat \ {0} /\ inbox[c][1] \in Nat
  BY HeadTailProperties, LenProperties, EmptySeq, ElementOfSeq DEF Read, Typed
<1>2. inbox' = [inbox EXCEPT ![c] = Tail(inbox[c])]
  BY DEF Read
<1>3. /\ Len(inbox'[c]) = Len(inbox[c]) - 1
      /\ \A j \in 1 .. Len(inbox'[c]) : inbox'[c][j] = inbox[c][j + 1]
      /\ \A d \in Conns : d # c => inbox'[d] = inbox[d]
  BY <1>1, <1>2, HeadTailProperties DEF Typed
<1>4. ASSUME NEW j \in 1 .. Len(inbox'[c])
      PROVE  j + 1 \in 1 .. Len(inbox[c]) /\ inbox[c][1] < inbox'[c][j]
  <2>1. j + 1 \in 1 .. Len(inbox[c]) /\ 1 \in 1 .. Len(inbox[c]) /\ 1 < j + 1
    BY <1>1, <1>3, SMTT(30)
  <2> QED
    BY <1>3, <2>1 DEF OrderOK, InboxOK
<1>5. /\ sent' = sent /\ topic' = topic /\ \A p \in calls : p.from # c /\ p.from \in Sources
      /\ server'[c] = "publish" /\ \A s \in Sources : s # c => server'[s] = server[s]
  BY DEF Read, ServerOK, Typed, pubVars
<1>6. ASSUME NEW p \in calls' PROVE p \in calls \/ p = new
  BY DEF Read
<1>7. new.from = c /\ new.state = inbox[c][1] /\ new.next = 1
  BY <1>1
<1>8. InboxOK'
  <2> SUFFICES ASSUME NEW d \in Conns, NEW j \in 1 .. Len(inbox'[d])
               PROVE  /\ inbox'[d][j] <= sent[d[1]]
                      /\ \A i \in 1 .. Len(inbox'[d]) : i < j => inbox'[d][i] < inbox'[d][j]
    BY <1>5 DEF InboxOK
  <2>1. CASE d # c
    BY <1>3, <2>1 DEF OrderOK, InboxOK
  <2>2. CASE d = c
    <3>1. inbox'[c][j] <= sent[c[1]]
      BY <1>3, <1>4, <2>2 DEF OrderOK, InboxOK
    <3>2. ASSUME NEW i \in 1 .. Len(inbox'[c]), i < j PROVE inbox'[c][i] < inbox'[c][j]
      <4>1. i + 1 \in 1 .. Len(inbox[c]) /\ j + 1 \in 1 .. Len(inbox[c]) /\ i + 1 < j + 1
        BY <1>4, <2>2, <3>2
      <4>2. inbox'[c][i] = inbox[c][i + 1] /\ inbox'[c][j] = inbox[c][j + 1]
        BY <1>3, <2>2
      <4>3. inbox[c][i + 1] < inbox[c][j + 1]
        BY <4>1 DEF OrderOK, InboxOK
      <4> QED
        BY <4>2, <4>3
    <3> QED
      BY <2>2, <3>1, <3>2
  <2> QED
    BY <2>1, <2>2
<1>9. CallsOK'
  <2> SUFFICES ASSUME NEW p \in calls', p.from \in Conns
               PROVE  /\ p.state <= sent[p.from[1]]
                      /\ \A j \in 1 .. Len(inbox'[p.from]) : p.state < inbox'[p.from][j]
    BY <1>5 DEF CallsOK
  <2>1. CASE p \in calls
    BY <1>3, <1>5, <2>1 DEF OrderOK, CallsOK
  <2>2. CASE p = new
    <3>1. inbox[c][1] <= sent[c[1]]
      BY <1>1 DEF OrderOK, InboxOK
    <3> QED
      BY <1>4, <1>7, <2>2, <3>1
  <2> QED
    BY <1>6, <2>1, <2>2
<1>10. TopicOK'
  <2> SUFFICES ASSUME NEW s \in Sources, NEW i \in 1 .. Len(topic[s])
               PROVE  /\ server'[s] # "none"
                      /\ \A p \in calls' : p.from = s => Before(topic[s][i], Frame(p))
                      /\ s \in Conns =>
                           /\ topic[s][i].state <= sent[s[1]]
                           /\ \A j \in 1 .. Len(inbox'[s]) : topic[s][i].state < inbox'[s][j]
    BY <1>5 DEF TopicOK, Before, Frame
  <2>1. server'[s] # "none"
    BY <1>5 DEF OrderOK, TopicOK
  <2>2. ASSUME NEW p \in calls', p.from = s PROVE Before(topic[s][i], Frame(p))
    <3>1. CASE p \in calls
      BY <2>2, <3>1 DEF OrderOK, TopicOK
    <3>2. CASE p = new
      <4>1. s = c /\ 1 \in 1 .. Len(inbox[c])
        BY <1>1, <1>7, <2>2, <3>2
      <4>2. topic[s][i].state < inbox[c][1]
        BY <4>1 DEF OrderOK, TopicOK
      <4> QED
        BY <1>7, <3>2, <4>2 DEF Before, Frame
    <3> QED
      BY <1>6, <3>1, <3>2
  <2>3. ASSUME s \in Conns
        PROVE  /\ topic[s][i].state <= sent[s[1]]
               /\ \A j \in 1 .. Len(inbox'[s]) : topic[s][i].state < inbox'[s][j]
    <3>1. CASE s # c
      BY <1>3, <2>3, <3>1 DEF OrderOK, TopicOK
    <3>2. CASE s = c
      BY <1>3, <1>4, <2>3, <3>2, SMTT(30) DEF OrderOK, TopicOK
    <3> QED
      BY <3>1, <3>2
  <2> QED
    BY <2>1, <2>2, <2>3
<1>11. InOrder'
  BY <1>5 DEF OrderOK, InOrder, Before
<1> QED
  BY <1>8, <1>9, <1>10, <1>11 DEF OrderOK

\* The first state of a request finds nothing of its own on the topic.
LEMMA OrderPost ==
    ASSUME Typed, OrderOK, NEW r \in Requests, Post(r) PROVE OrderOK'
<1> USE ConnParts
<1>1. /\ inbox' = inbox /\ sent' = sent /\ topic' = topic
      /\ \A s \in Sources : server[s] # "none" => server'[s] # "none"
  BY DEF Post, Typed, pubVars
<1>2. ASSUME NEW p \in calls' PROVE p \in calls \/ p.from = r
  BY DEF Post
<1>3. \A i \in 1 .. Len(topic[r]) : FALSE
  BY DEF Post, OrderOK, TopicOK
<1>4. InboxOK'
  BY <1>1 DEF OrderOK, InboxOK
<1>5. CallsOK'
  BY <1>1, <1>2 DEF OrderOK, CallsOK
<1>6. TopicOK'
  <2> SUFFICES ASSUME NEW s \in Sources, NEW i \in 1 .. Len(topic[s])
               PROVE  /\ server'[s] # "none"
                      /\ \A p \in calls' : p.from = s => Before(topic[s][i], Frame(p))
                      /\ s \in Conns =>
                           /\ topic[s][i].state <= sent[s[1]]
                           /\ \A j \in 1 .. Len(inbox[s]) : topic[s][i].state < inbox[s][j]
    BY <1>1 DEF TopicOK, Before, Frame
  <2>1. s # r
    BY <1>3
  <2>2. ASSUME NEW p \in calls', p.from = s PROVE Before(topic[s][i], Frame(p))
    BY <1>2, <2>1, <2>2 DEF OrderOK, TopicOK
  <2>3. server'[s] # "none"
    BY <1>1 DEF OrderOK, TopicOK
  <2> QED
    BY <2>2, <2>3 DEF OrderOK, TopicOK
<1>7. InOrder'
  BY <1>1 DEF OrderOK, InOrder, Before
<1> QED
  BY <1>4, <1>5, <1>6, <1>7 DEF OrderOK

\* The frame that is published comes after those before it and before the next.
LEMMA OrderPublish ==
    ASSUME Typed, Typed', ServerOK, OrderOK, NEW p \in calls, Publish(p) PROVE OrderOK'
<1> USE ConnParts
<1> DEFINE n == [p EXCEPT !.next = @ + 1]
<1>1. /\ p.from \in Sources /\ p.state \in Nat /\ p.next \in Nat
      /\ n.from = p.from /\ n.state = p.state /\ n.next = p.next + 1
      /\ Frame(p).state = p.state /\ Frame(p).frame = p.next
      /\ Frame(n).state = p.state /\ Frame(n).frame = p.next + 1
      /\ Frame(p) \in [state : Nat, frame : Nat]
  <2>1. p \in [from : Sources, state : Nat, next : Nat]
    BY DEF Typed
  <2> QED
    BY <2>1 DEF Frame
<1>2. /\ inbox' = inbox /\ sent' = sent /\ server' = server
      /\ server[p.from] = "publish"
  BY DEF Publish, ServerOK
<1>3. ASSUME NEW q \in calls'
      PROVE  (q \in calls /\ q.from # p.from) \/ q = n
  BY DEF Publish, ServerOK
<1>4. ASSUME NEW s \in Sources, NEW i \in 1 .. Len(topic'[s])
      PROVE  \/ i \in 1 .. Len(topic[s]) /\ topic'[s][i] = topic[s][i]
             \/ s = p.from /\ i = Len(topic[s]) + 1 /\ topic'[s][i] = Frame(p)
  <2>1. CASE s = p.from /\ topic'[s] = Append(topic[s], Frame(p))
    <3>1. topic[s] \in Seq([state : Nat, frame : Nat])
      BY DEF Typed
    <3>2. /\ Len(topic'[s]) = Len(topic[s]) + 1 /\ Len(topic[s]) \in Nat
          /\ \A j \in 1 .. Len(topic[s]) : topic'[s][j] = topic[s][j]
          /\ topic'[s][Len(topic[s]) + 1] = Frame(p)
      BY <1>1, <2>1, <3>1, AppendProperties, LenProperties
    <3> QED
      BY <2>1, <3>2
  <2>2. CASE topic'[s] = topic[s]
    BY <2>2
  <2>3. topic' = [topic EXCEPT ![p.from] = Append(topic[p.from], Frame(p))] \/ topic' = topic
    BY DEF Publish
  <2>4. CASE topic' = [topic EXCEPT ![p.from] = Append(topic[p.from], Frame(p))]
    <3>1. topic'[s] = IF s = p.from THEN Append(topic[s], Frame(p)) ELSE topic[s]
      BY <2>4 DEF Typed
    <3> QED
      BY <2>1, <2>2, <3>1
  <2> QED
    BY <2>2, <2>3, <2>4
<1>5. InboxOK'
  BY <1>2 DEF OrderOK, InboxOK
<1>6. CallsOK'
  <2> SUFFICES ASSUME NEW q \in calls', q.from \in Conns
               PROVE  /\ q.state <= sent[q.from[1]]
                      /\ \A j \in 1 .. Len(inbox[q.from]) : q.state < inbox[q.from][j]
    BY <1>2 DEF CallsOK
  <2>1. CASE q \in calls
    BY <2>1 DEF OrderOK, CallsOK
  <2>2. CASE q = n
    BY <1>1, <2>2 DEF OrderOK, CallsOK
  <2> QED
    BY <1>3, <2>1, <2>2
<1>7. TopicOK'
  <2> SUFFICES ASSUME NEW s \in Sources, NEW i \in 1 .. Len(topic'[s])
               PROVE  /\ server[s] # "none"
                      /\ \A q \in calls' : q.from = s => Before(topic'[s][i], Frame(q))
                      /\ s \in Conns =>
                           /\ topic'[s][i].state <= sent[s[1]]
                           /\ \A j \in 1 .. Len(inbox[s]) : topic'[s][i].state < inbox[s][j]
    BY <1>2 DEF TopicOK, Before, Frame
  <2>1. CASE i \in 1 .. Len(topic[s]) /\ topic'[s][i] = topic[s][i]
    <3>1. ASSUME NEW q \in calls', q.from = s PROVE Before(topic[s][i], Frame(q))
      <4>1. CASE q \in calls
        BY <2>1, <3>1, <4>1 DEF OrderOK, TopicOK
      <4>2. CASE q = n
        <5>1. Before(topic[s][i], Frame(p))
          BY <1>1, <2>1, <3>1, <4>2 DEF OrderOK, TopicOK
        <5>2. topic[s][i].state \in Nat /\ topic[s][i].frame \in Nat
          BY <2>1, TopicTypes
        <5> QED
          BY <1>1, <4>2, <5>1, <5>2 DEF Before
      <4> QED
        BY <1>3, <4>1, <4>2
    <3>2. server[s] # "none"
      BY <2>1 DEF OrderOK, TopicOK
    <3>3. ASSUME s \in Conns
          PROVE  /\ topic[s][i].state <= sent[s[1]]
                 /\ \A j \in 1 .. Len(inbox[s]) : topic[s][i].state < inbox[s][j]
      BY <2>1, <3>3 DEF OrderOK, TopicOK
    <3> QED
      BY <2>1, <3>1, <3>2, <3>3
  <2>2. CASE s = p.from /\ topic'[s][i] = Frame(p)
    <3>1. ASSUME NEW q \in calls', q.from = s PROVE Before(Frame(p), Frame(q))
      <4>1. q = n
        BY <1>3, <2>2, <3>1
      <4> QED
        BY <1>1, <4>1 DEF Before
    <3>2. ASSUME s \in Conns
          PROVE  /\ p.state <= sent[s[1]]
                 /\ \A j \in 1 .. Len(inbox[s]) : p.state < inbox[s][j]
      BY <2>2, <3>2 DEF OrderOK, CallsOK
    <3> QED
      BY <1>1, <1>2, <2>2, <3>1, <3>2
  <2> QED
    BY <1>4, <2>1, <2>2
<1>8. InOrder'
  <2>0. \A s \in Sources : DOMAIN topic'[s] = 1 .. Len(topic'[s]) /\ DOMAIN topic[s] = 1 .. Len(topic[s])
                           /\ Len(topic[s]) \in Nat
    BY LenProperties DEF Typed
  <2> SUFFICES ASSUME NEW s \in Sources, NEW i \in 1 .. Len(topic'[s]),
                      NEW j \in 1 .. Len(topic'[s]), i < j
               PROVE  Before(topic'[s][i], topic'[s][j])
    BY <2>0 DEF InOrder, Before
  <2>1. i \in 1 .. Len(topic[s]) /\ topic'[s][i] = topic[s][i]
    <3>1. CASE i = Len(topic[s]) + 1
      BY <1>4, <2>0, <3>1
    <3> QED
      BY <1>4, <3>1
  <2>2. CASE j \in 1 .. Len(topic[s]) /\ topic'[s][j] = topic[s][j]
    BY <2>0, <2>1, <2>2 DEF OrderOK, InOrder
  <2>3. CASE s = p.from /\ topic'[s][j] = Frame(p)
    BY <2>1, <2>3 DEF OrderOK, TopicOK
  <2> QED
    BY <1>4, <2>1, <2>2, <2>3
<1> QED
  BY <1>5, <1>6, <1>7, <1>8 DEF OrderOK

\* Every step keeps the order.
LEMMA OrderStep ==
    ASSUME Typed, Typed', ServerOK, OrderOK, [Next]_vars PROVE OrderOK'
<1> USE ConnParts
<1>1. ASSUME NEW t \in Tabs, SendState(t) PROVE OrderOK'
  BY <1>1, OrderSend
<1>2. ASSUME NEW t \in Tabs, Connect(t) \/ StartClick(t) \/ StopClick(t) PROVE OrderOK'
  BY <1>2, OrderQuiet DEF Connect, StartClick, StopClick, pubVars
<1>3. ASSUME NEW c \in Conns, Lost(c) \/ Break(c) PROVE OrderOK'
  BY <1>3, OrderQuiet DEF Lost, Break, pubVars
<1>4. ASSUME NEW c \in Conns, Upgrade(c) PROVE OrderOK'
  <2>1. \A s \in Sources : server[s] # "none" => server'[s] # "none"
    BY <1>4 DEF Upgrade, Typed
  <2> QED
    BY <1>4, <2>1, OrderQuiet DEF Upgrade, pubVars
<1>5. ASSUME NEW c \in Conns, Read(c) PROVE OrderOK'
  BY <1>5, OrderRead
<1>6. ASSUME NEW c \in Conns, ReadFails(c) PROVE OrderOK'
  <2>1. \A s \in Sources : server[s] # "none" => server'[s] # "none"
    BY <1>6 DEF ReadFails, Typed
  <2>2. \A d \in Conns : inbox'[d] = inbox[d] \/ Len(inbox'[d]) = 0
    BY <1>6, EmptySeq DEF ReadFails, Typed
  <2> QED
    BY <1>6, <2>1, <2>2, OrderQuiet DEF ReadFails, pubVars
<1>7. ASSUME NEW r \in Requests, Post(r) PROVE OrderOK'
  BY <1>7, OrderPost
<1>8. ASSUME NEW r \in Requests, Refuse(r) PROVE OrderOK'
  <2>1. \A s \in Sources : server[s] # "none" => server'[s] # "none"
    BY <1>8 DEF Refuse, Typed
  <2> QED
    BY <1>8, <2>1, OrderQuiet DEF Refuse, pubVars
<1>9. ASSUME NEW p \in calls, Publish(p) PROVE OrderOK'
  BY <1>9, OrderPublish
<1>10. ASSUME NEW p \in calls, PublishState(p) \/ PublishFails(p) PROVE OrderOK'
  <2>1. \A s \in Sources : server[s] # "none" => server'[s] # "none"
    BY <1>10 DEF PublishState, PublishFails, Reply, Typed
  <2> QED
    BY <1>10, <2>1, OrderQuiet DEF PublishState, PublishFails, Reply, pubVars
<1>11. CASE UNCHANGED vars
  BY <1>11, OrderQuiet DEF vars
<1> QED
  BY <1>1, <1>2, <1>3, <1>4, <1>5, <1>6, <1>7, <1>8, <1>9, <1>10, <1>11 DEF Next, HandleWS

LEMMA Invariance == Spec => []IInv
<1>1. IInv /\ [Next]_vars => IInv'
  BY TabStep, ServerStep, OrderStep DEF IInv, OrderOK
<1> QED
  BY InvInit, <1>1, PTL DEF Spec

-----------------------------------------------------------------------------
\* Whatever goroutines publish beside it, the frames of a connection or request are
\* on the topic in the order of its states, for any number of all of them.
THEOREM FramesInOrder == Spec => []InOrder
<1>1. IInv => InOrder
  BY DEF IInv
<1> QED
  BY <1>1, Invariance, PTL

\* A tab never has two WebSockets, nor none without a timeout that will open one.
THEOREM SocketsSucceed == Spec => []OneSocket
<1>1. IInv => OneSocket
  <2> SUFFICES ASSUME IInv, NEW t \in Tabs
               PROVE  pending[t] + Cardinality({k \in 1 .. MaxConns :
                                      socket[<<t, k>>] \in {"connecting", "open"}}) = 1
    BY DEF OneSocket
  <2> DEFINE Alive == {k \in 1 .. MaxConns : socket[<<t, k>>] \in {"connecting", "open"}}
  <2>1. cur[t] \in 1 .. MaxConns
    BY DEF IInv, Typed
  <2>2. pending[t] = 0 => Alive = {cur[t]}
    BY <2>1 DEF IInv, SocketOK, Living
  <2>3. pending[t] = 1 => Alive = {}
    BY DEF IInv, SocketOK, Living
  <2>4. pending[t] \in {0, 1}
    BY DEF IInv, SocketOK
  <2> HIDE DEF Alive
  <2>5. pending[t] + Cardinality(Alive) = 1
    <3>1. CASE pending[t] = 0
      <4>1. Cardinality(Alive) = 1
        BY <2>2, <3>1, FS_Singleton
      <4> QED
        BY <3>1, <4>1
    <3>2. CASE pending[t] = 1
      <4>1. Cardinality(Alive) = 0
        BY <2>3, <3>2, FS_EmptySet
      <4> QED
        BY <3>2, <4>1
    <3> QED
      BY <2>4, <3>1, <3>2
  <2> QED
    BY <2>5 DEF Alive
<1> QED
  BY <1>1, Invariance, PTL

\* Whatever is clicked, stop leaves no interval behind.
THEOREM StopIsFinal == Spec => []StopStops
<1>1. IInv => StopStops
  BY DEF IInv
<1> QED
  BY <1>1, Invariance, PTL
-----------------------------------------------------------------------------
\* A state has at least one frame, and only finitely many.
LEMMA SomeFrame == FramesPerState \in Nat \ {0}
<1> DEFINE Given == MapConfig \cup FrameFlags
<1>1. IsFiniteSet(FrameKinds)
  <2>1. DOMAIN Order = 1 .. 10
    BY DEF Order
  <2>2. Order \in [1 .. 10 -> FrameKinds]
    BY <2>1, \A i \in 1 .. 10 : Order[i] \in FrameKinds DEF FrameKinds, Order
  <2>3. Order \in Surjection(1 .. 10, FrameKinds)
    BY <2>1, <2>2 DEF FrameKinds, Surjection
  <2>4. IsFiniteSet(1 .. 10)
    BY FS_Interval, 1 \in Int, 10 \in Int
  <2> QED
    BY <2>3, <2>4, FS_Surjection
<1>2. Flagged \subseteq FrameKinds /\ "base" \in FrameKinds
  BY DEF Flagged, FrameKinds, Order
<1>3. WithDefault(Given) \subseteq FrameKinds /\ WithDefault(Given) # {}
  BY <1>2, GamepadWebAssumption DEF GamepadWebAssumption, WithDefault
<1> HIDE DEF Given
<1>4. IsFiniteSet(WithDefault(Given))
  BY <1>1, <1>3, FS_Subset
<1>5. Cardinality(WithDefault(Given)) \in Nat /\ Cardinality(WithDefault(Given)) # 0
  BY <1>3, <1>4, FS_CardinalityType, FS_EmptySet
<1> QED
  BY <1>5 DEF Given, FramesPerState

\* Every variable keeps its type; the first frame, the first state and the first
\* WebSocket are within the bounds.
LEMMA TypeInit == Init => TypeOK
<1> SUFFICES ASSUME Init PROVE TypeOK
  OBVIOUS
<1>1. \A S : <<>> \in Seq(S)
  BY EmptySeq
<1>2. MaxStates \in Nat \ {0} /\ MaxConns \in Nat \ {0}
  BY GamepadWebAssumption DEF GamepadWebAssumption
<1> QED
  BY <1>1, <1>2 DEF Init, TypeOK

LEMMA TypeStep == ASSUME TypeOK, Typed, StopStops, SocketOK, [Next]_vars PROVE TypeOK'
<1> USE ConnParts, SomeFrame
<1>0. MaxStates \in Nat \ {0} /\ MaxConns \in Nat \ {0}
  BY GamepadWebAssumption DEF GamepadWebAssumption
<1>1. ASSUME NEW t \in Tabs, Connect(t) PROVE TypeOK'
  <2>1. cur' = [cur EXCEPT ![t] = cur[t] + 1] /\ cur[t] + 1 \in 1 .. MaxConns
    BY <1>0, <1>1 DEF Connect, TypeOK
  <2>2. cur' \in [Tabs -> 1 .. MaxConns]
    BY <2>1 DEF TypeOK
  <2>3. pending' = [pending EXCEPT ![t] = pending[t] - 1] /\ pending[t] - 1 \in Nat
    BY <1>1 DEF Connect, TypeOK
  <2>4. pending' \in [Tabs -> Nat]
    BY <2>3 DEF TypeOK
  <2>5. socket' \in [Conns -> {"none", "connecting", "open", "closed"}]
    BY <1>1 DEF Connect, TypeOK
  <2> QED
    BY <1>1, <2>2, <2>4, <2>5 DEF Connect, TypeOK, btnVars, pubVars
<1>2. ASSUME NEW t \in Tabs, StartClick(t) \/ StopClick(t) PROVE TypeOK'
  <2>1. intervals[t] = IF timer[t] THEN 1 ELSE 0
    BY DEF StopStops
  <2>2. \E b \in BOOLEAN, n \in Nat :
           timer' = [timer EXCEPT ![t] = b] /\ intervals' = [intervals EXCEPT ![t] = n]
    <3>1. CASE StartClick(t)
      <4>1. timer' = [timer EXCEPT ![t] = TRUE] /\ intervals' = [intervals EXCEPT ![t] = 1]
        BY <2>1, <3>1 DEF StartClick
      <4> QED
        BY <4>1
    <3>2. CASE StopClick(t)
      <4>1. timer' = [timer EXCEPT ![t] = FALSE] /\ intervals' = [intervals EXCEPT ![t] = 0]
        BY <2>1, <3>2 DEF StopClick
      <4> QED
        BY <4>1
    <3> QED
      BY <1>2, <3>1, <3>2
  <2>3. timer' \in [Tabs -> BOOLEAN] /\ intervals' \in [Tabs -> Nat]
    BY <2>2 DEF TypeOK
  <2>4. UNCHANGED <<cur, pending, sent, socket, broken, inbox, server, calls, replies, topic, dropped>>
    BY <1>2 DEF StartClick, StopClick, tabVars, pubVars
  <2> QED
    BY <2>3, <2>4 DEF TypeOK
<1>3. ASSUME NEW t \in Tabs, SendState(t) PROVE TypeOK'
  <2> DEFINE c == <<t, cur[t]>>
  <2>1. c \in Conns /\ sent[t] + 1 \in 1 .. MaxStates
    BY <1>0, <1>3 DEF SendState, TypeOK
  <2>2. sent' \in [Tabs -> 0 .. MaxStates]
    BY <1>3, <2>1 DEF SendState, TypeOK
  <2>3. Append(inbox[c], sent[t] + 1) \in Seq(1 .. MaxStates)
    BY <2>1, AppendProperties DEF TypeOK
  <2>4. inbox' = inbox \/ inbox' = [inbox EXCEPT ![c] = Append(inbox[c], sent[t] + 1)]
    BY <1>3 DEF SendState
  <2>5. inbox' \in [Conns -> Seq(1 .. MaxStates)]
    <3>1. inbox \in [Conns -> Seq(1 .. MaxStates)]
      BY DEF TypeOK
    <3> HIDE DEF c
    <3>2. CASE inbox' = inbox
      BY <3>1, <3>2
    <3>3. CASE inbox' = [inbox EXCEPT ![c] = Append(inbox[c], sent[t] + 1)]
      BY <2>1, <2>3, <3>1, <3>3
    <3> QED
      BY <2>4, <3>2, <3>3
  <2> QED
    BY <1>3, <2>2, <2>5 DEF SendState, TypeOK, tabVars, btnVars, pubVars
<1>4. ASSUME NEW c \in Conns, Lost(c) PROVE TypeOK'
  <2>1. pending' \in [Tabs -> Nat] /\ socket' \in [Conns -> {"none", "connecting", "open", "closed"}]
    BY <1>4 DEF Lost, TypeOK
  <2> QED
    BY <1>4, <2>1 DEF Lost, TypeOK, btnVars, pubVars
<1>5. ASSUME NEW c \in Conns, Upgrade(c) PROVE TypeOK'
  <2>1. /\ server' \in [Sources -> {"none", "read", "publish", "ended"}]
        /\ socket' \in [Conns -> {"none", "connecting", "open", "closed"}]
    BY <1>5 DEF Upgrade, TypeOK
  <2> QED
    BY <1>5, <2>1 DEF Upgrade, TypeOK, tabVars, btnVars, pubVars
<1>11. ASSUME NEW c \in Conns, Break(c) PROVE TypeOK'
  BY <1>11 DEF Break, TypeOK, tabVars, btnVars, pubVars
<1>12. ASSUME NEW c \in Conns, ReadFails(c) PROVE TypeOK'
  <2>1. <<>> \in Seq(1 .. MaxStates)
    BY EmptySeq
  <2>2. /\ server' \in [Sources -> {"none", "read", "publish", "ended"}]
        /\ inbox' \in [Conns -> Seq(1 .. MaxStates)]
    BY <1>12, <2>1 DEF ReadFails, TypeOK
  <2> QED
    BY <1>12, <2>2 DEF ReadFails, TypeOK, tabVars, btnVars, pubVars
<1>6. ASSUME NEW c \in Conns, Read(c) PROVE TypeOK'
  <2>1. Tail(inbox[c]) \in Seq(1 .. MaxStates) /\ Head(inbox[c]) \in 1 .. MaxStates
    BY <1>6, HeadTailProperties DEF Read, TypeOK
  <2>2. inbox' \in [Conns -> Seq(1 .. MaxStates)]
    BY <1>6, <2>1 DEF Read, TypeOK
  <2>3. server' \in [Sources -> {"none", "read", "publish", "ended"}]
    BY <1>6 DEF Read, TypeOK
  <2>4. [from |-> c, state |-> Head(inbox[c]), next |-> 1]
           \in [from : Sources, state : 1 .. MaxStates, next : 1 .. FramesPerState + 1]
    BY <2>1
  <2>5. calls' \subseteq [from : Sources, state : 1 .. MaxStates, next : 1 .. FramesPerState + 1]
    BY <1>6, <2>4 DEF Read, TypeOK
  <2> QED
    BY <1>6, <2>2, <2>3, <2>5 DEF Read, TypeOK, tabVars, btnVars, pubVars
<1>7. ASSUME NEW r \in Requests, Post(r) PROVE TypeOK'
  <2>1. server' \in [Sources -> {"none", "read", "publish", "ended"}]
    BY <1>7 DEF Post, TypeOK
  <2>2. [from |-> r, state |-> 1, next |-> 1]
           \in [from : Sources, state : 1 .. MaxStates, next : 1 .. FramesPerState + 1]
    BY <1>0
  <2>3. calls' \subseteq [from : Sources, state : 1 .. MaxStates, next : 1 .. FramesPerState + 1]
    BY <1>7, <2>2 DEF Post, TypeOK
  <2> QED
    BY <1>7, <2>1, <2>3 DEF Post, TypeOK, tabVars, btnVars, pubVars
<1>13. ASSUME NEW r \in Requests, Refuse(r) PROVE TypeOK'
  <2>1. server' \in [Sources -> {"none", "read", "publish", "ended"}]
    BY <1>13 DEF Refuse, TypeOK
  <2> QED
    BY <1>13, <2>1 DEF Refuse, TypeOK, tabVars, btnVars, pubVars
<1>8. ASSUME NEW p \in calls, Publish(p) PROVE TypeOK'
  <2> DEFINE Frames == [state : 1 .. MaxStates, frame : 1 .. FramesPerState]
  <2>1. /\ p \in [from : Sources, state : 1 .. MaxStates, next : 1 .. FramesPerState + 1]
        /\ p.from \in Sources /\ p.state \in 1 .. MaxStates /\ p.next \in 1 .. FramesPerState
        /\ p.next + 1 \in 1 .. FramesPerState + 1
    BY <1>8 DEF Publish, Returned, TypeOK
  <2>2. [p EXCEPT !.next = @ + 1] \in [from : Sources, state : 1 .. MaxStates, next : 1 .. FramesPerState + 1]
    BY <2>1
  <2>3. calls' \subseteq [from : Sources, state : 1 .. MaxStates, next : 1 .. FramesPerState + 1]
    BY <1>8, <2>2 DEF Publish, TypeOK
  <2>4. Frame(p) \in Frames
    BY <2>1 DEF Frame
  <2>5. topic[p.from] \in Seq(Frames) /\ topic \in [Sources -> Seq(Frames)]
        /\ dropped \in [Sources -> SUBSET Frames]
    BY <2>1 DEF TypeOK
  <2>6. Append(topic[p.from], Frame(p)) \in Seq(Frames)
    BY <2>4, <2>5, AppendProperties
  <2> HIDE DEF Frames
  <2>7. topic' \in [Sources -> Seq(Frames)] /\ dropped' \in [Sources -> SUBSET Frames]
    <3>1. CASE topic' = [topic EXCEPT ![p.from] = Append(@, Frame(p))] /\ dropped' = dropped
      BY <2>1, <2>5, <2>6, <3>1
    <3>2. CASE dropped' = [dropped EXCEPT ![p.from] = @ \cup {Frame(p)}] /\ topic' = topic
      BY <2>1, <2>4, <2>5, <3>2
    <3> QED
      BY <1>8, <3>1, <3>2 DEF Publish
  <2> QED
    BY <1>8, <2>3, <2>7 DEF Frames, Publish, TypeOK, tabVars, btnVars
<1>9. ASSUME NEW p \in calls, NEW error \in BOOLEAN, Reply(p, error) PROVE TypeOK'
  <2> DEFINE Replies == [state : 1 .. MaxStates, error : BOOLEAN]
  <2>1. p.from \in Sources /\ p.state \in 1 .. MaxStates
    BY DEF TypeOK
  <2>2. replies[p.from] \in Seq(Replies) /\ [state |-> p.state, error |-> error] \in Replies
    BY <2>1 DEF TypeOK
  <2>3. Append(replies[p.from], [state |-> p.state, error |-> error]) \in Seq(Replies)
    BY <2>2, AppendProperties
  <2>4. replies' \in [Sources -> Seq(Replies)]
    BY <1>9, <2>1, <2>3 DEF Reply, TypeOK
  <2>5. server' \in [Sources -> {"none", "read", "publish", "ended"}]
    BY <1>9 DEF Reply, TypeOK
  <2> QED
    BY <1>9, <2>4, <2>5 DEF Reply, TypeOK, tabVars, btnVars, pubVars
<1>10. CASE UNCHANGED vars
  BY <1>10 DEF vars, TypeOK
<1> QED
  BY <1>1, <1>2, <1>3, <1>4, <1>5, <1>6, <1>7, <1>8, <1>9, <1>10, <1>11, <1>12, <1>13
     DEF Next, HandleWS, PublishState, PublishFails

\* Every variable has its type, for any number of tabs, requests and states.
THEOREM TypeCorrect == Spec => []TypeOK
<1>1. IInv /\ TypeOK /\ [Next]_vars => TypeOK'
  BY TypeStep DEF IInv
<1> QED
  BY Invariance, TypeInit, <1>1, PTL DEF Spec

-----------------------------------------------------------------------------
\* State n of a source is behind it: newer ones were sent, and what is received is
\* newer.
Past(s, n) ==
    /\ server[s] # "none"
    /\ s \in Conns => n <= sent[s[1]] /\ \A j \in 1 .. Len(inbox[s]) : n < inbox[s][j]

\* What a source has published are states behind it and the part of the present
\* one that comes before the next frame; what it has answered is behind it.
AcceptedOK ==
    \A s \in Sources : \A x \in Accepted(s) :
        Past(s, x.state) /\ \A p \in calls : p.from = s => x.state <= p.state

PublishedOK == \A p \in calls : Done(p.from, p.state) = 1 .. p.next - 1

AnsweredOK ==
    \A s \in Sources : \A i \in 1 .. Len(replies[s]) :
        /\ Past(s, replies[s][i].state)
        /\ \A p \in calls : p.from = s => replies[s][i].state < p.state

AnswersOK == AcceptedOK /\ PublishedOK /\ AnsweredOK /\ RepliesHonest

\* What is behind a source stays behind it.
LEMMA PastStays ==
    ASSUME TypeOK, [Next]_vars, NEW s \in Sources, NEW n \in Nat, Past(s, n)
    PROVE  Past(s, n)'
<1> USE ConnParts
<1>0. \A c \in Conns : inbox[c] \in Seq(1 .. MaxStates) /\ Len(inbox[c]) \in Nat
  BY LenProperties DEF TypeOK
<1>1. ASSUME inbox' = inbox, sent' = sent, server'[s] # "none" PROVE Past(s, n)'
  BY <1>1 DEF Past
<1>2. ASSUME NEW t \in Tabs, SendState(t) PROVE Past(s, n)'
  <2> DEFINE c == <<t, cur[t]>>
  <2>1. c \in Conns /\ c[1] = t /\ sent[t] \in Nat /\ sent'[t] = sent[t] + 1
    BY <1>2 DEF SendState, TypeOK
  <2>2. \A u \in Tabs : sent[u] \in Nat /\ sent'[u] \in Nat /\ sent[u] <= sent'[u]
    BY SMTT(30), <1>2 DEF SendState, TypeOK
  <2>3. ASSUME s \in Conns PROVE n <= sent'[s[1]]
    <3>1. n <= sent[s[1]] /\ s[1] \in Tabs
      BY <2>3 DEF Past
    <3> QED
      BY <2>2, <3>1
  <2>4. ASSUME s \in Conns, NEW j \in 1 .. Len(inbox'[s]) PROVE n < inbox'[s][j]
    <3>1. CASE inbox'[s] = inbox[s]
      BY <2>4, <3>1 DEF Past
    <3>2. CASE s = c /\ inbox'[s] = Append(inbox[s], sent[t] + 1)
      <4>1. CASE j \in 1 .. Len(inbox[s])
        <5>1. inbox'[s][j] = inbox[s][j]
          BY <1>0, <2>4, <3>2, <4>1, AppendProperties
        <5> QED
          BY <2>4, <4>1, <5>1 DEF Past
      <4>2. CASE j = Len(inbox[s]) + 1
        <5>1. inbox'[s][j] = sent[t] + 1
          BY <1>0, <3>2, <4>2, AppendProperties
        <5>2. n <= sent[t]
          BY <2>1, <2>4, <3>2 DEF Past
        <5> QED
          BY <2>1, <5>1, <5>2
      <4>3. j \in 1 .. Len(inbox[s]) + 1 /\ Len(inbox[s]) \in Nat
        BY <1>0, <2>4, <3>2, AppendProperties
      <4> QED
        BY <4>1, <4>2, <4>3
    <3>3. inbox' = inbox \/ inbox' = [inbox EXCEPT ![c] = Append(inbox[c], sent[t] + 1)]
      BY <1>2 DEF SendState
    <3>4. inbox \in [Conns -> Seq(1 .. MaxStates)]
      BY DEF TypeOK
    <3> HIDE DEF c
    <3>5. CASE inbox' = inbox
      BY <3>1, <3>5
    <3>6. CASE inbox' = [inbox EXCEPT ![c] = Append(inbox[c], sent[t] + 1)]
      <4>1. s # c => inbox'[s] = inbox[s]
        BY <3>4, <3>6, <2>4
      <4>2. s = c => inbox'[s] = Append(inbox[s], sent[t] + 1)
        BY <3>4, <3>6, <2>4
      <4> QED
        BY <3>1, <3>2, <4>1, <4>2
    <3> QED
      BY <3>3, <3>5, <3>6
  <2>5. server' = server
    BY <1>2 DEF SendState
  <2> QED
    BY <2>3, <2>4, <2>5 DEF Past
<1>3. ASSUME NEW c \in Conns, Read(c) \/ ReadFails(c) PROVE Past(s, n)'
  <2>1. sent' = sent /\ server'[s] # "none"
    BY <1>3 DEF Read, ReadFails, Past, TypeOK
  <2>2. ASSUME s \in Conns, NEW j \in 1 .. Len(inbox'[s]) PROVE n < inbox'[s][j]
    <3>1. CASE inbox'[s] = inbox[s]
      BY <2>2, <3>1 DEF Past
    <3>2. CASE inbox'[s] = <<>>
      BY <2>2, <3>2, EmptySeq
    <3>3. CASE inbox[s] # <<>> /\ inbox'[s] = Tail(inbox[s])
      <4>1. Len(inbox'[s]) = Len(inbox[s]) - 1 /\ inbox'[s][j] = inbox[s][j + 1]
        BY <1>0, <2>2, <3>3, HeadTailProperties
      <4>2. j + 1 \in 1 .. Len(inbox[s])
        BY <1>0, <2>2, <4>1
      <4> QED
        BY <2>2, <4>1, <4>2 DEF Past
    <3>4. inbox \in [Conns -> Seq(1 .. MaxStates)]
      BY DEF TypeOK
    <3>5. inbox' = [inbox EXCEPT ![c] = <<>>] \/ (inbox[c] # <<>> /\ inbox' = [inbox EXCEPT ![c] = Tail(inbox[c])])
      BY <1>3 DEF Read, ReadFails
    <3>6. s # c => inbox'[s] = inbox[s]
      BY <2>2, <3>4, <3>5
    <3>7. s = c => inbox'[s] = <<>> \/ (inbox[s] # <<>> /\ inbox'[s] = Tail(inbox[s]))
      BY <2>2, <3>4, <3>5
    <3> QED
      BY <3>1, <3>2, <3>3, <3>6, <3>7
  <2> QED
    BY <2>1, <2>2 DEF Past
<1>4. server[s] # "none" /\ server \in [Sources -> {"none", "read", "publish", "ended"}]
  BY DEF Past, TypeOK
<1>5. ASSUME NEW t \in Tabs, Connect(t) \/ StartClick(t) \/ StopClick(t) PROVE Past(s, n)'
  BY <1>1, <1>4, <1>5 DEF Connect, StartClick, StopClick
<1>6. ASSUME NEW c \in Conns, Lost(c) \/ Break(c) PROVE Past(s, n)'
  BY <1>1, <1>4, <1>6 DEF Lost, Break
<1>7. ASSUME NEW c \in Conns, Upgrade(c) PROVE Past(s, n)'
  <2>1. server'[s] # "none"
    BY <1>4, <1>7 DEF Upgrade
  <2> QED
    BY <1>1, <1>7, <2>1 DEF Upgrade
<1>8. ASSUME NEW r \in Requests, Post(r) \/ Refuse(r) PROVE Past(s, n)'
  <2>1. server'[s] # "none"
    BY <1>4, <1>8 DEF Post, Refuse
  <2> QED
    BY <1>1, <1>8, <2>1 DEF Post, Refuse
<1>9. ASSUME NEW p \in calls, Publish(p) PROVE Past(s, n)'
  BY <1>1, <1>4, <1>9 DEF Publish
<1>10. ASSUME NEW p \in calls, PublishState(p) \/ PublishFails(p) PROVE Past(s, n)'
  <2>1. server'[s] # "none"
    BY <1>4, <1>10 DEF PublishState, PublishFails, Reply
  <2> QED
    BY <1>1, <1>10, <2>1 DEF PublishState, PublishFails, Reply
<1>11. CASE UNCHANGED vars
  BY <1>1, <1>4, <1>11 DEF vars
<1> QED
  BY <1>2, <1>3, <1>5, <1>6, <1>7, <1>8, <1>9, <1>10, <1>11 DEF Next, HandleWS

\* What a source has published and answered are numbers of states and frames.
LEMMA AnswerTypes ==
    ASSUME TypeOK, NEW s \in Sources
    PROVE  /\ \A x \in Accepted(s) : x.state \in Nat /\ x.frame \in Nat
           /\ Len(replies[s]) \in Nat /\ DOMAIN replies[s] = 1 .. Len(replies[s])
           /\ \A i \in 1 .. Len(replies[s]) : replies[s][i].state \in Nat /\ replies[s][i].error \in BOOLEAN
<1> DEFINE Frames == [state : 1 .. MaxStates, frame : 1 .. FramesPerState]
           Replies == [state : 1 .. MaxStates, error : BOOLEAN]
<1>1. topic[s] \in Seq(Frames) /\ dropped[s] \subseteq Frames /\ replies[s] \in Seq(Replies)
  BY DEF TypeOK
<1>2. \A x \in Frames : x.state \in Nat /\ x.frame \in Nat
  BY SomeFrame, GamepadWebAssumption DEF GamepadWebAssumption
<1>3. \A x \in Replies : x.state \in Nat /\ x.error \in BOOLEAN
  BY GamepadWebAssumption DEF GamepadWebAssumption
<1> HIDE DEF Frames, Replies
<1>4. \A i \in DOMAIN topic[s] : topic[s][i] \in Frames
  BY <1>1, LenProperties, ElementOfSeq
<1>5. \A x \in Accepted(s) : x \in Frames
  BY <1>1, <1>4 DEF Accepted
<1>6. /\ Len(replies[s]) \in Nat /\ DOMAIN replies[s] = 1 .. Len(replies[s])
      /\ \A i \in 1 .. Len(replies[s]) : replies[s][i] \in Replies
  BY <1>1, LenProperties, ElementOfSeq
<1> QED
  BY <1>2, <1>3, <1>5, <1>6

\* A step that publishes and answers nothing.
LEMMA AnswersQuiet ==
    ASSUME TypeOK, AnswersOK, topic' = topic, dropped' = dropped, replies' = replies,
           calls' \subseteq calls,
           \A s \in Sources, n \in Nat : Past(s, n) => Past(s, n)'
    PROVE  AnswersOK'
<1>1. \A s : Accepted(s)' = Accepted(s)
  BY DEF Accepted
<1>2. \A s, n : Done(s, n)' = Done(s, n)
  BY <1>1 DEF Done
<1>3. AcceptedOK'
  BY <1>1, AnswerTypes DEF AnswersOK, AcceptedOK
<1>4. PublishedOK'
  BY <1>2 DEF AnswersOK, PublishedOK
<1>5. AnsweredOK'
  BY AnswerTypes DEF AnswersOK, AnsweredOK
<1>6. RepliesHonest'
  BY <1>2 DEF AnswersOK, RepliesHonest
<1> QED
  BY <1>3, <1>4, <1>5, <1>6 DEF AnswersOK

\* A goroutine begins to publish a state newer than all behind it.
LEMMA AnswersBegin ==
    ASSUME TypeOK, AnswersOK, topic' = topic, dropped' = dropped, replies' = replies,
           \A s \in Sources, n \in Nat : Past(s, n) => Past(s, n)',
           NEW q, q.from \in Sources, q.state \in Nat, q.next = 1,
           \A p \in calls : p.from # q.from, calls' = calls \cup {q},
           \A n \in Nat : Past(q.from, n) => n < q.state
    PROVE  AnswersOK'
<1>1. \A s : Accepted(s)' = Accepted(s)
  BY DEF Accepted
<1>2. \A s, n : Done(s, n)' = Done(s, n)
  BY <1>1 DEF Done
<1>3. AcceptedOK'
  <2> SUFFICES ASSUME NEW s \in Sources, NEW x \in Accepted(s)
               PROVE  Past(s, x.state)' /\ \A p \in calls' : p.from = s => x.state <= p.state
    BY <1>1 DEF AcceptedOK
  <2>1. x.state \in Nat /\ Past(s, x.state) /\ \A p \in calls : p.from = s => x.state <= p.state
    BY AnswerTypes DEF AnswersOK, AcceptedOK
  <2>2. q.from = s => x.state <= q.state
    BY <2>1
  <2> QED
    BY <2>1, <2>2
<1>4. PublishedOK'
  <2>1. ASSUME NEW x \in Accepted(q.from) PROVE x.state # q.state
    <3>1. x.state \in Nat /\ Past(q.from, x.state)
      BY AnswerTypes DEF AnswersOK, AcceptedOK
    <3>2. x.state < q.state
      BY <3>1
    <3> QED
      BY <3>1, <3>2
  <2>2. Done(q.from, q.state) = {}
    BY <2>1 DEF Done
  <2>3. Done(q.from, q.state)' = 1 .. q.next - 1
    <3>1. Done(q.from, q.state)' = {}
      BY <1>2, <2>2
    <3>2. 1 .. q.next - 1 = {}
      OBVIOUS
    <3> QED
      BY <3>1, <3>2
  <2>4. \A p \in calls : Done(p.from, p.state)' = 1 .. p.next - 1
    BY <1>2 DEF AnswersOK, PublishedOK
  <2> QED
    BY <2>3, <2>4 DEF PublishedOK
<1>5. AnsweredOK'
  <2> SUFFICES ASSUME NEW s \in Sources, NEW i \in 1 .. Len(replies[s])
               PROVE  /\ Past(s, replies[s][i].state)'
                      /\ \A p \in calls' : p.from = s => replies[s][i].state < p.state
    BY DEF AnsweredOK
  <2>1. /\ replies[s][i].state \in Nat /\ Past(s, replies[s][i].state)
        /\ \A p \in calls : p.from = s => replies[s][i].state < p.state
    BY AnswerTypes DEF AnswersOK, AnsweredOK
  <2>2. Past(s, replies[s][i].state)'
    BY <2>1
  <2> QED
    BY <2>1, <2>2
<1>6. RepliesHonest'
  BY <1>2 DEF AnswersOK, RepliesHonest
<1> QED
  BY <1>3, <1>4, <1>5, <1>6 DEF AnswersOK

\* A frame that is accepted is the next of its state.
LEMMA AnswersPublish ==
    ASSUME TypeOK, AnswersOK, ServerOK, CallsOK, NEW p \in calls, Publish(p),
           \A s \in Sources, n \in Nat : Past(s, n) => Past(s, n)'
    PROVE  AnswersOK'
<1> USE ConnParts
<1> DEFINE new == [p EXCEPT !.next = @ + 1]
<1>1. /\ p.from \in Sources /\ p.state \in Nat /\ p.next \in Nat \ {0}
      /\ new.from = p.from /\ new.state = p.state /\ new.next = p.next + 1
      /\ Frame(p).state = p.state /\ Frame(p).frame = p.next
  <2>1. p \in [from : Sources, state : 1 .. MaxStates, next : 1 .. FramesPerState + 1]
    BY DEF TypeOK
  <2>2. MaxStates \in Nat
    BY GamepadWebAssumption DEF GamepadWebAssumption
  <2> QED
    BY <2>1, <2>2, SomeFrame DEF Frame
<1>2. ASSUME NEW q \in calls'
      PROVE  (q \in calls /\ q.from # p.from) \/ q = new
  BY DEF Publish, ServerOK
<1>3. Past(p.from, p.state)
  <2>1. server[p.from] = "publish"
    BY DEF ServerOK
  <2> QED
    BY <2>1 DEF CallsOK, Past
<1>4. \A s \in Sources : Accepted(s)' = IF s = p.from THEN Accepted(s) \cup {Frame(p)} ELSE Accepted(s)
  <2> TAKE s \in Sources
  <2>1. CASE topic' = [topic EXCEPT ![p.from] = Append(topic[p.from], Frame(p))] /\ dropped' = dropped
    <3>1. s # p.from => topic'[s] = topic[s]
      BY <2>1 DEF TypeOK
    <3>2. ASSUME s = p.from PROVE Accepted(s)' = Accepted(s) \cup {Frame(p)}
      <4> DEFINE Frames == [state : 1 .. MaxStates, frame : 1 .. FramesPerState]
      <4>1. topic'[s] = Append(topic[s], Frame(p)) /\ topic[s] \in Seq(Frames)
        BY <2>1, <3>2 DEF TypeOK
      <4>2. Frame(p) \in Frames
        <5>1. p.state \in 1 .. MaxStates /\ p.next \in 1 .. FramesPerState + 1 /\ ~(p.next > FramesPerState)
          BY DEF TypeOK, Publish, Returned
        <5>2. p.next \in 1 .. FramesPerState
          BY <5>1, SomeFrame
        <5> QED
          BY <5>1, <5>2 DEF Frame
      <4> HIDE DEF Frames
      <4>3. /\ Len(topic[s]) \in Nat /\ DOMAIN topic[s] = 1 .. Len(topic[s])
            /\ DOMAIN topic'[s] = 1 .. Len(topic[s]) + 1
            /\ \A i \in 1 .. Len(topic[s]) : topic'[s][i] = topic[s][i]
            /\ topic'[s][Len(topic[s]) + 1] = Frame(p)
        BY <4>1, <4>2, AppendProperties, LenProperties
      <4>4. DOMAIN topic'[s] = DOMAIN topic[s] \cup {Len(topic[s]) + 1}
        BY <4>3
      <4>5. {topic'[s][i] : i \in DOMAIN topic'[s]} = {topic[s][i] : i \in DOMAIN topic[s]} \cup {Frame(p)}
        BY <4>3, <4>4
      <4> QED
        BY <2>1, <4>5 DEF Accepted
    <3> QED
      BY <2>1, <3>1, <3>2 DEF Accepted
  <2>2. CASE dropped' = [dropped EXCEPT ![p.from] = dropped[p.from] \cup {Frame(p)}] /\ topic' = topic
    <3>1. dropped'[s] = IF s = p.from THEN dropped[s] \cup {Frame(p)} ELSE dropped[s]
      BY <2>2 DEF TypeOK
    <3> QED
      BY <2>2, <3>1 DEF Accepted
  <2> QED
    BY <2>1, <2>2 DEF Publish
<1>5. \A s \in Sources, n \in Nat :
         Done(s, n)' = IF s = p.from /\ n = p.state THEN Done(s, n) \cup {p.next} ELSE Done(s, n)
  BY <1>1, <1>4 DEF Done
<1>6. AcceptedOK'
  <2> SUFFICES ASSUME NEW s \in Sources, NEW x \in Accepted(s)'
               PROVE  Past(s, x.state)' /\ \A q \in calls' : q.from = s => x.state <= q.state
    BY DEF AcceptedOK
  <2>1. CASE x \in Accepted(s)
    <3>1. x.state \in Nat /\ Past(s, x.state) /\ \A q \in calls : q.from = s => x.state <= q.state
      BY <2>1, AnswerTypes DEF AnswersOK, AcceptedOK
    <3>2. Past(s, x.state)'
      BY <3>1
    <3>3. \A q \in calls' : q.from = s => x.state <= q.state
      BY <1>1, <1>2, <3>1
    <3> QED
      BY <3>2, <3>3
  <2>2. CASE s = p.from /\ x = Frame(p)
    <3>1. x.state = p.state /\ Past(s, x.state)'
      BY <1>1, <1>3, <2>2
    <3>2. ASSUME NEW q \in calls', q.from = s PROVE x.state <= q.state
      <4>1. q = new
        BY <1>2, <2>2, <3>2
      <4>2. q.state = p.state
        BY <1>1, <4>1
      <4> QED
        BY <1>1, <3>1, <4>2
    <3> QED
      BY <3>1, <3>2
  <2> QED
    BY <1>4, <2>1, <2>2
<1>7. PublishedOK'
  <2> SUFFICES ASSUME NEW q \in calls' PROVE Done(q.from, q.state)' = 1 .. q.next - 1
    BY DEF PublishedOK
  <2>1. CASE q \in calls /\ q.from # p.from
    <3>1. q.from \in Sources /\ q.state \in Nat
      BY <2>1, GamepadWebAssumption DEF TypeOK, GamepadWebAssumption
    <3> QED
      BY <1>5, <2>1, <3>1 DEF AnswersOK, PublishedOK
  <2>2. CASE q = new
    <3>1. Done(p.from, p.state)' = Done(p.from, p.state) \cup {p.next}
      BY <1>1, <1>5
    <3>2. Done(p.from, p.state) = 1 .. p.next - 1
      BY DEF AnswersOK, PublishedOK
    <3>3. (1 .. p.next - 1) \cup {p.next} = 1 .. (p.next + 1) - 1
      BY <1>1
    <3>4. q.from = p.from /\ q.state = p.state /\ q.next = p.next + 1
      BY <1>1, <2>2
    <3> QED
      BY <3>1, <3>2, <3>3, <3>4
  <2> QED
    BY <1>2, <2>1, <2>2
<1>8. replies' = replies
  BY DEF Publish
<1>9. AnsweredOK'
  <2> SUFFICES ASSUME NEW s \in Sources, NEW i \in 1 .. Len(replies[s])
               PROVE  /\ Past(s, replies[s][i].state)'
                      /\ \A q \in calls' : q.from = s => replies[s][i].state < q.state
    BY <1>8 DEF AnsweredOK
  <2>1. /\ replies[s][i].state \in Nat /\ Past(s, replies[s][i].state)
        /\ \A q \in calls : q.from = s => replies[s][i].state < q.state
    BY AnswerTypes DEF AnswersOK, AnsweredOK
  <2>2. Past(s, replies[s][i].state)'
    BY <2>1, <1>8
  <2>3. \A q \in calls' : q.from = s => replies[s][i].state < q.state
    BY <1>1, <1>2, <2>1
  <2> QED
    BY <2>2, <2>3
<1>10. RepliesHonest'
  <2> SUFFICES ASSUME NEW s \in Sources, NEW i \in 1 .. Len(replies[s])
               PROVE  LET r == replies[s][i] IN
                      /\ r.error <=> FramesPerState \notin Done(s, r.state)'
                      /\ \E n \in 0 .. FramesPerState : Done(s, r.state)' = 1 .. n
                      /\ \A j \in DOMAIN replies[s] : j < i => replies[s][j].state < r.state
    BY <1>8, AnswerTypes DEF RepliesHonest
  <2>1. replies[s][i].state \in Nat /\ (s = p.from => replies[s][i].state < p.state)
    BY AnswerTypes DEF AnswersOK, AnsweredOK
  <2>2. Done(s, replies[s][i].state)' = Done(s, replies[s][i].state)
    <3>1. ~(s = p.from /\ replies[s][i].state = p.state)
      BY <1>1, <2>1
    <3>2. \A m \in Nat : ~(s = p.from /\ m = p.state) => Done(s, m)' = Done(s, m)
      BY <1>5
    <3> QED
      BY <1>8, <2>1, <3>1, <3>2
  <2>3. i \in DOMAIN replies[s]
    BY AnswerTypes
  <2> QED
    BY <2>2, <2>3 DEF AnswersOK, RepliesHonest
<1> QED
  BY <1>6, <1>7, <1>9, <1>10 DEF AnswersOK

\* A reply says whether the last frame of the state was accepted.
LEMMA AnswersReply ==
    ASSUME TypeOK, AnswersOK, ServerOK, CallsOK, NEW p \in calls, NEW error \in BOOLEAN,
           Reply(p, error), error <=> ~Returned(p),
           \A s \in Sources, n \in Nat : Past(s, n) => Past(s, n)'
    PROVE  AnswersOK'
<1> USE ConnParts
<1> DEFINE new == [state |-> p.state, error |-> error]
           Last == Len(replies[p.from]) + 1
<1>1. /\ p.from \in Sources /\ p.state \in Nat /\ p.next \in 1 .. FramesPerState + 1
      /\ new.state = p.state /\ new.error = error
  <2>1. p \in [from : Sources, state : 1 .. MaxStates, next : 1 .. FramesPerState + 1]
    BY DEF TypeOK
  <2>2. MaxStates \in Nat
    BY GamepadWebAssumption DEF GamepadWebAssumption
  <2> QED
    BY <2>1, <2>2
<1>2. ASSUME NEW q \in calls' PROVE q \in calls /\ q.from # p.from
  BY DEF Reply, ServerOK
<1>3. Past(p.from, p.state)
  <2>1. server[p.from] = "publish"
    BY DEF ServerOK
  <2> QED
    BY <2>1 DEF CallsOK, Past
<1>4. topic' = topic /\ dropped' = dropped
  BY DEF Reply, pubVars
<1>5. \A s : Accepted(s)' = Accepted(s)
  BY <1>4 DEF Accepted
<1>6. \A s, n : Done(s, n)' = Done(s, n)
  BY <1>5 DEF Done
<1>7. \A s \in Sources : s # p.from => replies'[s] = replies[s]
  BY DEF Reply, TypeOK
<1>8. /\ Len(replies'[p.from]) = Last /\ Len(replies[p.from]) \in Nat
      /\ DOMAIN replies'[p.from] = 1 .. Last
      /\ \A i \in 1 .. Len(replies[p.from]) : replies'[p.from][i] = replies[p.from][i]
      /\ replies'[p.from][Last] = new
  <2> DEFINE Replies == [state : 1 .. MaxStates, error : BOOLEAN]
  <2>1. replies'[p.from] = Append(replies[p.from], new) /\ replies[p.from] \in Seq(Replies)
    <3>1. replies[p.from] \in Seq(Replies) /\ replies \in [Sources -> Seq(Replies)]
      BY <1>1 DEF TypeOK
    <3>2. replies' = [replies EXCEPT ![p.from] = Append(replies[p.from], new)]
      BY DEF Reply
    <3> HIDE DEF new, Replies
    <3> QED
      BY <1>1, <3>1, <3>2
  <2>2. new \in Replies
    BY DEF TypeOK
  <2> HIDE DEF Replies, new
  <2> QED
    BY <2>1, <2>2, AppendProperties, LenProperties
<1>9. ASSUME NEW s \in Sources, NEW i \in 1 .. Len(replies'[s])
      PROVE  \/ i \in 1 .. Len(replies[s]) /\ replies'[s][i] = replies[s][i]
             \/ s = p.from /\ i = Last /\ replies'[s][i] = new
  <2> HIDE DEF new
  <2>1. CASE s = p.from
    BY <1>8, <2>1
  <2>2. CASE s # p.from
    BY <1>7, <2>2
  <2> QED
    BY <2>1, <2>2
<1>10. AcceptedOK'
  BY <1>2, <1>5, AnswerTypes DEF AnswersOK, AcceptedOK
<1>11. PublishedOK'
  BY <1>2, <1>6 DEF AnswersOK, PublishedOK
<1>12. AnsweredOK'
  <2> SUFFICES ASSUME NEW s \in Sources, NEW i \in 1 .. Len(replies'[s])
               PROVE  /\ Past(s, replies[s][i].state)'
                      /\ \A q \in calls' : q.from = s => replies'[s][i].state < q.state
    BY DEF AnsweredOK
  <2>1. \A n \in Nat : n = replies'[s][i].state /\ Past(s, n)' => Past(s, replies[s][i].state)'
    BY DEF Past
  <2>2. CASE i \in 1 .. Len(replies[s]) /\ replies'[s][i] = replies[s][i]
    <3>1. /\ replies[s][i].state \in Nat /\ Past(s, replies[s][i].state)
          /\ \A q \in calls : q.from = s => replies[s][i].state < q.state
      BY <2>2, AnswerTypes DEF AnswersOK, AnsweredOK
    <3>2. Past(s, replies[s][i].state)'
      BY <2>1, <2>2, <3>1
    <3> QED
      BY <1>2, <2>2, <3>1, <3>2
  <2>3. CASE s = p.from /\ replies'[s][i] = new
    BY <1>1, <1>2, <1>3, <2>1, <2>3
  <2> QED
    BY <1>9, <2>2, <2>3
<1>13. /\ error <=> FramesPerState \notin Done(p.from, p.state)
       /\ \E n \in 0 .. FramesPerState : Done(p.from, p.state) = 1 .. n
  <2>1. Done(p.from, p.state) = 1 .. p.next - 1 /\ p.next - 1 \in 0 .. FramesPerState
    BY <1>1, SomeFrame DEF AnswersOK, PublishedOK
  <2>2. FramesPerState \in 1 .. p.next - 1 <=> Returned(p)
    BY <1>1, SomeFrame DEF Returned
  <2> QED
    BY <2>1, <2>2
<1>14. RepliesHonest'
  <2> SUFFICES ASSUME NEW s \in Sources, NEW i \in 1 .. Len(replies'[s])
               PROVE  /\ replies'[s][i].error <=> FramesPerState \notin Done(s, replies[s][i].state)'
                      /\ \E n \in 0 .. FramesPerState : Done(s, replies[s][i].state)' = 1 .. n
                      /\ \A j \in 1 .. Len(replies'[s]) : j < i => replies'[s][j].state < replies'[s][i].state
    <3>1. \A r \in Sources : DOMAIN replies'[r] = 1 .. Len(replies'[r])
      <4> TAKE r \in Sources
      <4>1. CASE r # p.from
        BY <1>7, <4>1, AnswerTypes
      <4>2. CASE r = p.from
        BY <1>8, <4>2
      <4> QED
        BY <4>1, <4>2
    <3> QED
      BY <3>1 DEF RepliesHonest
  <2>1. \A n : n = replies'[s][i].state => Done(s, replies[s][i].state)' = Done(s, n)
    <3>1. \A n : n = replies'[s][i].state => Done(s, replies[s][i].state)' = Done(s, n)'
      BY DEF Done, Accepted
    <3> QED
      BY <1>6, <3>1
  <2>2. CASE i \in 1 .. Len(replies[s]) /\ replies'[s][i] = replies[s][i]
    <3>1. i \in DOMAIN replies[s] /\ DOMAIN replies[s] = 1 .. Len(replies[s]) /\ Len(replies[s]) \in Nat
      BY <2>2, AnswerTypes
    <3>2. /\ replies[s][i].error <=> FramesPerState \notin Done(s, replies[s][i].state)
          /\ \E n \in 0 .. FramesPerState : Done(s, replies[s][i].state) = 1 .. n
          /\ \A j \in DOMAIN replies[s] : j < i => replies[s][j].state < replies[s][i].state
      BY <3>1 DEF AnswersOK, RepliesHonest
    <3>3. Done(s, replies[s][i].state)' = Done(s, replies[s][i].state)
      BY <2>1, <2>2
    <3>4. ASSUME NEW j \in 1 .. Len(replies'[s]), j < i PROVE replies'[s][j].state < replies'[s][i].state
      <4>1. j # Last \/ s # p.from
        BY <1>8, <2>2, <3>4
      <4>2. j \in 1 .. Len(replies[s]) /\ replies'[s][j] = replies[s][j]
        BY <1>9, <4>1
      <4> QED
        BY <2>2, <3>1, <3>2, <3>4, <4>2
    <3> QED
      BY <2>2, <3>2, <3>3, <3>4
  <2>3. CASE s = p.from /\ i = Last /\ replies'[s][i] = new
    <3>1. Done(s, replies[s][i].state)' = Done(p.from, p.state)
      BY <1>1, <2>1, <2>3
    <3>2. ASSUME NEW j \in 1 .. Len(replies'[s]), j < i PROVE replies'[s][j].state < replies'[s][i].state
      <4>1. j \in 1 .. Len(replies[s]) /\ replies'[s][j] = replies[s][j]
        BY <1>8, <1>9, <2>3, <3>2
      <4>2. replies[s][j].state < p.state
        BY <2>3, <4>1 DEF AnswersOK, AnsweredOK
      <4> QED
        BY <1>1, <2>3, <4>1, <4>2
    <3> QED
      BY <1>1, <1>13, <2>3, <3>1, <3>2
  <2> QED
    BY <1>9, <2>2, <2>3
<1> QED
  BY <1>10, <1>11, <1>12, <1>14 DEF AnswersOK

\* Nothing is published and answered before a goroutine begins.
LEMMA AnswersInit == Init => AnswersOK
<1> SUFFICES ASSUME Init PROVE AnswersOK
  OBVIOUS
<1>1. \A s \in Sources : /\ topic[s] = <<>> /\ dropped[s] = {} /\ replies[s] = <<>>
                         /\ DOMAIN topic[s] = {} /\ DOMAIN replies[s] = {} /\ Len(replies[s]) = 0
  BY EmptySeq DEF Init
<1>2. \A s \in Sources : Accepted(s) = {}
  BY <1>1 DEF Accepted
<1>3. calls = {}
  BY DEF Init
<1> QED
  BY <1>1, <1>2, <1>3 DEF AnswersOK, AcceptedOK, PublishedOK, AnsweredOK, RepliesHonest

\* Every step keeps what is published and answered in step with what was sent.
LEMMA AnswersStep ==
    ASSUME TypeOK, IInv, AnswersOK, [Next]_vars PROVE AnswersOK'
<1> USE ConnParts
<1>0. \A s \in Sources, n \in Nat : Past(s, n) => Past(s, n)'
  BY PastStays
<1>a. ServerOK /\ CallsOK
  BY DEF IInv
<1>1. ASSUME NEW c \in Conns, Read(c) PROVE AnswersOK'
  <2> DEFINE q == [from |-> c, state |-> Head(inbox[c]), next |-> 1]
  <2>1. /\ inbox[c] \in Seq(1 .. MaxStates) /\ inbox[c] # <<>> /\ Head(inbox[c]) = inbox[c][1]
        /\ 1 \in 1 .. Len(inbox[c]) /\ Head(inbox[c]) \in 1 .. MaxStates
    <3>1. inbox[c] \in Seq(1 .. MaxStates) /\ inbox[c] # <<>>
      BY <1>1 DEF Read, TypeOK
    <3>2. Len(inbox[c]) \in Nat /\ Len(inbox[c]) # 0
      BY <3>1, LenProperties, EmptySeq
    <3>3. Head(inbox[c]) = inbox[c][1]
      BY <3>1, HeadTailProperties DEF Head
    <3>4. Head(inbox[c]) \in 1 .. MaxStates
      BY <3>1, HeadTailProperties
    <3> QED
      BY <3>1, <3>2, <3>3, <3>4
  <2>2. q.from = c /\ q.state = inbox[c][1] /\ q.next = 1 /\ q.state \in Nat
    BY <2>1, GamepadWebAssumption DEF GamepadWebAssumption
  <2>3. \A p \in calls : p.from # q.from
    BY <1>1, <1>a, <2>2 DEF Read, ServerOK
  <2>4. \A n \in Nat : Past(q.from, n) => n < q.state
    BY <2>1, <2>2 DEF Past
  <2>5. calls' = calls \cup {q} /\ topic' = topic /\ dropped' = dropped /\ replies' = replies
    BY <1>1 DEF Read, pubVars
  <2> HIDE DEF q
  <2> QED
    BY <1>0, <2>2, <2>3, <2>4, <2>5, AnswersBegin
<1>2. ASSUME NEW r \in Requests, Post(r) PROVE AnswersOK'
  <2> DEFINE q == [from |-> r, state |-> 1, next |-> 1]
  <2>1. q.from = r /\ q.state = 1 /\ q.next = 1
    OBVIOUS
  <2>2. \A p \in calls : p.from # q.from
    BY <1>2, <1>a, <2>1 DEF Post, ServerOK
  <2>3. \A n \in Nat : Past(q.from, n) => n < q.state
    BY <1>2, <2>1 DEF Past, Post
  <2>4. calls' = calls \cup {q} /\ topic' = topic /\ dropped' = dropped /\ replies' = replies
    BY <1>2 DEF Post, pubVars
  <2> HIDE DEF q
  <2> QED
    BY <1>0, <2>1, <2>2, <2>3, <2>4, AnswersBegin
<1>3. ASSUME NEW p \in calls, Publish(p) PROVE AnswersOK'
  BY <1>0, <1>3, <1>a, AnswersPublish
<1>4. ASSUME NEW p \in calls, PublishState(p) PROVE AnswersOK'
  BY <1>0, <1>4, <1>a, AnswersReply DEF PublishState
<1>5. ASSUME NEW p \in calls, PublishFails(p) PROVE AnswersOK'
  BY <1>0, <1>5, <1>a, AnswersReply DEF PublishFails
<1>6. ASSUME NEW t \in Tabs, Connect(t) \/ StartClick(t) \/ StopClick(t) \/ SendState(t) PROVE AnswersOK'
  BY <1>0, <1>6, AnswersQuiet DEF Connect, StartClick, StopClick, SendState, pubVars
<1>7. ASSUME NEW c \in Conns, Lost(c) \/ Break(c) \/ Upgrade(c) \/ ReadFails(c) PROVE AnswersOK'
  BY <1>0, <1>7, AnswersQuiet DEF Lost, Break, Upgrade, ReadFails, pubVars
<1>8. ASSUME NEW r \in Requests, Refuse(r) PROVE AnswersOK'
  BY <1>0, <1>8, AnswersQuiet DEF Refuse, pubVars
<1>9. CASE UNCHANGED vars
  BY <1>0, <1>9, AnswersQuiet DEF vars
<1> QED
  BY <1>1, <1>2, <1>3, <1>4, <1>5, <1>6, <1>7, <1>8, <1>9 DEF Next, HandleWS

\* Whatever is published beside it and whatever fails, the reply to a state says
\* whether its frames were accepted, and every state is answered once and in order.
THEOREM RepliesAreHonest == Spec => []RepliesHonest
<1>1. IInv /\ TypeOK /\ AnswersOK /\ [Next]_vars => AnswersOK'
  BY AnswersStep
<1>2. AnswersOK => RepliesHonest
  BY DEF AnswersOK
<1> QED
  BY Invariance, TypeCorrect, AnswersInit, <1>1, <1>2, PTL DEF Spec

=============================================================================
