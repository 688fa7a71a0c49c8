---------------------------- MODULE MqttHandler ----------------------------
(***************************************************************************)
(* The MQTT side of mq.Broker: the paho client that New configures, the    *)
(* retry loop of Subscribe, and Publish, over a connection that drops and  *)
(* comes back.  The client library and the broker are modelled from how    *)
(* the handler configures and calls them: AutoReconnect, QoS 0, and the    *)
(* default clean session, so the broker forgets a subscription with the    *)
(* connection it was made on.                                              *)
(***************************************************************************)
EXTENDS Naturals

CONSTANT Polls   \* the 5 s deadline of Subscribe, in sleeps of 100 ms (50)

ASSUME MqttAssumption == Polls \in Nat \ {0}

VARIABLES
    link,        \* "up", "down" (paho reconnects) or "closed" (by Close)
    session,     \* the broker holds the subscription of the current connection
    subscriber,  \* Subscribe: "check", "wait", "sleep", "done" or "failed"
    token,       \* its token: "none", "pending", "acked", "lost", "notOpen", "other"
    left,        \* polls left before the deadline
    attempts,    \* history: how often SubscribeMultiple was called
    publisher,   \* Publish: "idle" or "wait"
    outcome      \* what became of the last snapshot: "none", "taken" or "lost"

subVars == <<subscriber, token, left, attempts>>
pubVars == <<publisher, outcome>>
vars    == <<link, session, subVars, pubVars>>

\* NewBroker has returned: Connect succeeded once.
Init ==
    /\ link = "up" /\ session = FALSE
    /\ subscriber = "check" /\ token = "none" /\ left = Polls /\ attempts = 0
    /\ publisher = "idle" /\ outcome = "none"

-----------------------------------------------------------------------------
(* The connection                                                          *)

\* A subscribe in flight fails with "connection lost before Subscribe completed",
\* or, when it was just being written, with the error of the network connection.
LinkLost ==
    /\ link = "up"
    /\ link' = "down" /\ session' = FALSE
    /\ token' \in IF token = "pending" THEN {"lost", "other"} ELSE {token}
    /\ UNCHANGED <<subscriber, left, attempts, pubVars>>

\* Faulty variant: AutoReconnect is off.
ReconnectNever == FALSE /\ link' = "up"

\* The OnConnect callback only logs: nothing subscribes again.
Reconnect ==
    /\ link = "down"
    /\ link' = "up"
    /\ UNCHANGED <<session, subVars, pubVars>>

\* broker.Close, deferred by main, after its workers have ended.
Close ==
    /\ subscriber = "done" /\ publisher = "idle" /\ link # "closed"
    /\ link' = "closed" /\ session' = FALSE
    /\ UNCHANGED <<subVars, pubVars>>

-----------------------------------------------------------------------------
(* Handler.Subscribe                                                       *)

\* remaining <= 0.
DeadlineOver ==
    /\ subscriber = "check" /\ left = 0
    /\ subscriber' = "failed"
    /\ UNCHANGED <<link, session, token, left, attempts, pubVars>>

\* IsConnected is false.
NotConnected ==
    /\ subscriber = "check" /\ left > 0
    /\ link = "down"
    /\ subscriber' = "sleep"
    /\ UNCHANGED <<link, session, token, left, attempts, pubVars>>

\* SubscribeMultiple.  While it reconnects, paho answers IsConnected with true
\* and refuses the call: "not currently connected and ResumeSubs not set".  The
\* broker's refusal and errors of the network connection are "other".
Attempt ==
    /\ subscriber = "check" /\ left > 0
    /\ subscriber' = "wait"
    /\ token' \in (IF link = "up" THEN {"pending"} ELSE {"notOpen"}) \cup {"other"}
    /\ attempts' = attempts + 1
    /\ UNCHANGED <<link, session, left, pubVars>>

\* SUBACK.
Ack ==
    /\ token = "pending" /\ link = "up"
    /\ token' = "acked" /\ session' = TRUE
    /\ UNCHANGED <<link, subscriber, left, attempts, pubVars>>

\* Faulty variant: token.Wait without a timeout.
WaitNever == FALSE /\ subscriber' = "failed"

\* token.WaitTimeout(remaining) is over.
WaitExpires ==
    /\ subscriber = "wait" /\ token = "pending" /\ left = 0
    /\ subscriber' = "failed"
    /\ UNCHANGED <<link, session, token, left, attempts, pubVars>>

Succeeds ==
    /\ subscriber = "wait" /\ token = "acked"
    /\ subscriber' = "done"
    /\ UNCHANGED <<link, session, token, left, attempts, pubVars>>

\* The error texts for which the loop tries again.
Transient == token \in {"notOpen", "lost"}

\* Faulty variant: no pause before the next attempt.
RetriesAtOnce ==
    /\ subscriber = "wait" /\ Transient
    /\ subscriber' = "check"
    /\ UNCHANGED <<link, session, token, left, attempts, pubVars>>

Retries ==
    /\ subscriber = "wait" /\ Transient
    /\ subscriber' = "sleep"
    /\ UNCHANGED <<link, session, token, left, attempts, pubVars>>

\* Any other error ends Subscribe, and main with it (Fatalf), also the one that a
\* drop of the connection caused.
GivesUp ==
    /\ subscriber = "wait" /\ token \notin {"pending", "acked"} /\ ~Transient
    /\ subscriber' = "failed"
    /\ UNCHANGED <<link, session, token, left, attempts, pubVars>>

\* The end of time.Sleep(100 ms).
Wake ==
    /\ subscriber = "sleep"
    /\ subscriber' = "check"
    /\ left' = IF left > 0 THEN left - 1 ELSE 0
    /\ UNCHANGED <<link, session, token, attempts, pubVars>>

\* The rest of the loop takes time as well.
TimePasses ==
    /\ subscriber \in {"check", "wait"} /\ left > 0
    /\ left' = left - 1
    /\ UNCHANGED <<link, session, subscriber, token, attempts, pubVars>>

Subscribe ==
    \/ DeadlineOver \/ NotConnected \/ Attempt \/ WaitExpires
    \/ Succeeds \/ Retries \/ GivesUp \/ Wake

-----------------------------------------------------------------------------
(* Handler.Publish, called by the publisher worker once Subscribe is done  *)

PublishCall ==
    /\ subscriber = "done" /\ publisher = "idle" /\ link # "closed"
    /\ publisher' = "wait"
    /\ UNCHANGED <<link, session, subVars, outcome>>

PublishTaken ==
    /\ publisher = "wait" /\ link = "up"
    /\ publisher' = "idle" /\ outcome' = "taken"
    /\ UNCHANGED <<link, session, subVars>>

\* IsConnected is false and Publish returns; or paho completes the token of a
\* QoS 0 message at once while it reconnects; or the bytes go into a dead
\* connection.  mqttBroker.Publish returns nil in every case.
PublishDropped ==
    /\ publisher = "wait"
    /\ publisher' = "idle" /\ outcome' = "lost"
    /\ UNCHANGED <<link, session, subVars>>

Publish == PublishCall \/ PublishTaken \/ PublishDropped

-----------------------------------------------------------------------------
Next == LinkLost \/ Reconnect \/ Close \/ Subscribe \/ Ack \/ TimePasses \/ Publish

Spec == Init /\ [][Next]_vars

(***************************************************************************)
(* Fairness.  The loop runs, time passes and paho keeps reconnecting.  The *)
(* broker need not answer a subscribe.  The connection may drop at any     *)
(* time; while it is up, not every snapshot is written into the void.      *)
(***************************************************************************)
Fairness ==
    /\ WF_vars(Subscribe) /\ WF_vars(TimePasses) /\ WF_vars(Reconnect)
    /\ WF_vars(PublishCall) /\ WF_vars(PublishTaken \/ PublishDropped)
    /\ SF_vars(PublishTaken)

FairSpec == Spec /\ Fairness

-----------------------------------------------------------------------------
(* Properties                                                              *)

\* Subscribe never spins: whichever way the connection flaps, and whichever of the
\* two ways back to the top of the loop it takes, an attempt after the first has
\* cost a sleep of 100 ms since the one before, so the broker is sent at most one
\* SUBSCRIBE per poll and no more than Polls of them.
AttemptsPaced == attempts + left <= Polls + 1 /\ attempts <= Polls

\* Subscribe returns, whatever the connection does and even if the broker never
\* acknowledges.
SubscribeReturns == subscriber \in {"check", "wait", "sleep"} ~> subscriber \in {"done", "failed"}

\* When the connection stops dropping, publishing recovers by itself: after a
\* snapshot was lost a later one gets through, unless the program ends.
PublishResumes ==
    <>[][~LinkLost]_vars => (outcome = "lost" ~> (outcome = "taken" \/ link = "closed"))

\* After a lost connection the program receives commands again.
CommandsResume == (subscriber = "done" /\ link = "down") ~> (session \/ link = "closed")
=============================================================================
