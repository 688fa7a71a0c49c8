--------------------------- MODULE RabbitHandler ---------------------------
(***************************************************************************)
(* The RabbitMQ side of mq.Broker: NewRabbit opens a connection and a      *)
(* channel, Subscribe declares a queue of its own, binds it and consumes   *)
(* it in a goroutine, Publish uses the same channel.  The AMQP client and  *)
(* the broker are modelled from how the handler calls them.                *)
(***************************************************************************)
EXTENDS Naturals, Sequences

CONSTANTS
    Topics,    \* the topics to subscribe to, in the order they are bound
    MaxMsgs    \* bound: commands clients publish

ASSUME RabbitAssumption == Topics \in Seq(STRING) /\ MaxMsgs \in Nat

VARIABLES
    setup,     \* NewRabbit and Subscribe: "dial", "channel", "declare", "queue",
               \* "bind", "consume", "ready"; "refused" (NewRabbit failed),
               \* "failed" (Subscribe failed)
    conn, ch,  \* "none", "open", "closed" (by the handler) or "broken"
    bound,     \* number of topics bound to the queue; the queue dies with ch
    consumer,  \* the goroutine of Subscribe: "none", "range", "handle" or "ended"
    sent,      \* number of commands clients have published so far
    queue,     \* the commands in the queue and in msgs
    handled,   \* history: the commands the handler was called with
    publisher, \* Publish: "idle" or "wait"
    outcome    \* the last snapshot: "none", "taken" or "error"

linkVars == <<conn, ch>>
cmdVars  == <<consumer, sent, queue, handled>>
pubVars  == <<publisher, outcome>>
vars     == <<setup, linkVars, bound, cmdVars, pubVars>>

Init ==
    /\ setup = "dial" /\ conn = "none" /\ ch = "none" /\ bound = 0
    /\ consumer = "none" /\ sent = 0 /\ queue = <<>> /\ handled = <<>>
    /\ publisher = "idle" /\ outcome = "none"

-----------------------------------------------------------------------------
(* NewRabbit                                                               *)

Dial ==
    /\ setup = "dial"
    /\ \/ setup' = "channel" /\ conn' = "open"
       \/ setup' = "refused" /\ UNCHANGED conn
    /\ UNCHANGED <<ch, bound, cmdVars, pubVars>>

\* Faulty variant: the connection is not closed when no channel can be opened.
OpenChannelLeaks ==
    /\ setup = "channel"
    /\ \/ conn = "open" /\ setup' = "declare" /\ ch' = "open" /\ UNCHANGED conn
       \/ setup' = "refused" /\ UNCHANGED <<conn, ch>>
    /\ UNCHANGED <<bound, cmdVars, pubVars>>

OpenChannel ==
    /\ setup = "channel"
    /\ \/ conn = "open" /\ setup' = "declare" /\ ch' = "open" /\ UNCHANGED conn
       \/ setup' = "refused" /\ conn' = "closed" /\ UNCHANGED ch
    /\ UNCHANGED <<bound, cmdVars, pubVars>>

ExchangeDeclare ==
    /\ setup = "declare"
    /\ \/ ch = "open" /\ setup' = "queue" /\ UNCHANGED linkVars
       \/ setup' = "refused" /\ ch' = "closed" /\ conn' = "closed"
    /\ UNCHANGED <<bound, cmdVars, pubVars>>

-----------------------------------------------------------------------------
(* Subscribe                                                               *)

\* A call on the channel may fail; main calls Fatalf, nothing is undone.
SubscribeFails ==
    /\ setup \in {"queue", "bind", "consume"}
    /\ setup' = "failed"
    /\ UNCHANGED <<linkVars, bound, cmdVars, pubVars>>

QueueDeclare ==
    /\ setup = "queue" /\ ch = "open"
    /\ setup' = IF Topics = <<>> THEN "consume" ELSE "bind"
    /\ UNCHANGED <<linkVars, bound, cmdVars, pubVars>>

\* Faulty variant: the loop stops one topic early.
QueueBindShort ==
    /\ setup = "bind" /\ ch = "open"
    /\ bound' = bound + 1
    /\ setup' = IF bound' >= Len(Topics) - 1 THEN "consume" ELSE "bind"
    /\ UNCHANGED <<linkVars, cmdVars, pubVars>>

QueueBind ==
    /\ setup = "bind" /\ ch = "open"
    /\ bound' = bound + 1
    /\ setup' = IF bound' = Len(Topics) THEN "consume" ELSE "bind"
    /\ UNCHANGED <<linkVars, cmdVars, pubVars>>

\* Consume, and the goroutine that ranges over msgs.
Consume ==
    /\ setup = "consume" /\ ch = "open"
    /\ setup' = "ready"
    /\ consumer' = "range"
    /\ UNCHANGED <<linkVars, bound, sent, queue, handled, pubVars>>

\* Faulty variant: a goroutine per message; the newer may run first.
HandleAny ==
    /\ consumer = "range" /\ queue # <<>>
    /\ consumer' = "handle"
    /\ \E i \in 1 .. Len(queue) :
         /\ handled' = Append(handled, queue[i])
         /\ queue' = [j \in 1 .. Len(queue) - 1 |-> IF j < i THEN queue[j] ELSE queue[j + 1]]
    /\ UNCHANGED <<setup, linkVars, bound, sent, pubVars>>

\* msgs yields the next command; autoAck: it is gone from the broker.
Handle ==
    /\ consumer = "range" /\ queue # <<>>
    /\ consumer' = "handle"
    /\ handled' = Append(handled, Head(queue))
    /\ queue' = Tail(queue)
    /\ UNCHANGED <<setup, linkVars, bound, sent, pubVars>>

\* The handler of main returns.
HandlerReturns ==
    /\ consumer = "handle"
    /\ consumer' = "range"
    /\ UNCHANGED <<setup, linkVars, bound, sent, queue, handled, pubVars>>

\* Faulty variant: the goroutine receives for ever from the closed channel.
ConsumerNeverEnds == FALSE /\ consumer' = "ended"

\* msgs is closed and drained.
ConsumerEnds ==
    /\ consumer = "range" /\ ch # "open" /\ queue = <<>>
    /\ consumer' = "ended"
    /\ UNCHANGED <<setup, linkVars, bound, sent, queue, handled, pubVars>>

-----------------------------------------------------------------------------
(* Publish and Close                                                       *)

PublishCall ==
    /\ setup = "ready" /\ publisher = "idle" /\ ch # "closed"
    /\ publisher' = "wait"
    /\ UNCHANGED <<setup, linkVars, bound, cmdVars, outcome>>

PublishTaken ==
    /\ publisher = "wait" /\ ch = "open"
    /\ publisher' = "idle" /\ outcome' = "taken"
    /\ UNCHANGED <<setup, linkVars, bound, cmdVars>>

PublishFails ==
    /\ publisher = "wait" /\ ch # "open"
    /\ publisher' = "idle" /\ outcome' = "error"
    /\ UNCHANGED <<setup, linkVars, bound, cmdVars>>

\* When the channel goes, the client may still yield some of the deliveries it
\* has, in order, and drops the rest; before Consume it has none.
DropDeliveries ==
    \E k \in 0 .. (IF consumer = "none" THEN 0 ELSE Len(queue)) : queue' = SubSeq(queue, 1, k)

\* Deferred by main, after the publisher has ended.
Close ==
    /\ setup = "ready" /\ publisher = "idle" /\ ch # "closed"
    /\ ch' = "closed" /\ conn' = "closed"
    /\ DropDeliveries
    /\ UNCHANGED <<setup, bound, consumer, sent, handled, pubVars>>

-----------------------------------------------------------------------------
(* The broker and the network                                              *)

\* A client publishes a command on a topic the queue is bound to.
Command ==
    /\ sent < MaxMsgs /\ ch = "open" /\ bound > 0
    /\ sent' = sent + 1
    /\ queue' = Append(queue, sent + 1)
    /\ UNCHANGED <<setup, linkVars, bound, consumer, handled, pubVars>>

\* The connection breaks: the channel with it, and the queue, which is
\* exclusive.  Nothing dials again.
ConnectionLost ==
    /\ conn = "open"
    /\ conn' = "broken"
    /\ ch' = IF ch = "open" THEN "broken" ELSE ch
    /\ bound' = 0
    /\ DropDeliveries
    /\ UNCHANGED <<setup, consumer, sent, handled, pubVars>>

\* The broker closes the channel only; the queue, which is auto-delete, goes
\* with its consumer.
ChannelLost ==
    /\ ch = "open" /\ setup = "ready"
    /\ ch' = "broken"
    /\ bound' = 0
    /\ DropDeliveries
    /\ UNCHANGED <<setup, conn, consumer, sent, handled, pubVars>>

-----------------------------------------------------------------------------
Setup == \/ Dial \/ OpenChannel \/ ExchangeDeclare
         \/ QueueDeclare \/ QueueBind \/ Consume \/ SubscribeFails
Consumer == Handle \/ HandlerReturns \/ ConsumerEnds
Publish  == PublishCall \/ PublishTaken \/ PublishFails

Next == \/ Setup \/ Consumer \/ Publish \/ Close
        \/ Command \/ ConnectionLost \/ ChannelLost

Spec == Init /\ [][Next]_vars

\* Calls return and goroutines run; the handler of main always returns (its
\* select has a ctx.Done case and the TX worker drains the channel).
Fairness ==
    /\ WF_vars(Setup) /\ WF_vars(Consumer)
    /\ WF_vars(PublishCall) /\ WF_vars(PublishTaken \/ PublishFails)

FairSpec == Spec /\ Fairness

-----------------------------------------------------------------------------
(* Properties                                                              *)

\* The set-up happens as a whole or not at all, at whichever step it fails and
\* whenever the channel breaks: a refused NewRabbit holds nothing open, and a
\* consumer that runs on a living channel misses no topic.
SetupAllOrNothing ==
    /\ setup = "refused" => conn # "open" /\ ch # "open"
    /\ consumer # "none" /\ ch = "open" => bound = Len(Topics)

\* The handler is called with the commands in the order they were published,
\* one at a time and each once, across a breaking channel too.
HandledInOrder == \A i, j \in 1 .. Len(handled) : i < j => handled[i] < handled[j]

\* The consumer goroutine does not outlive its channel: it drains msgs and ends.
ConsumerFinishes == (consumer # "none" /\ ch # "open") ~> consumer = "ended"

\* After a failed publish a later one succeeds, unless the program ends.
PublishResumes == outcome = "error" ~> (outcome = "taken" \/ ch = "closed")
=============================================================================
