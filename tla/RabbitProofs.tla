---------------------------- MODULE RabbitProofs ----------------------------
(***************************************************************************)
(* Theorems of module RabbitHandler, for any list of topics and any number *)
(* of commands.                                                            *)
(***************************************************************************)
EXTENDS RabbitHandler, SequenceTheorems, TLAPS

\* How far the set-up has come on a channel that lives.
SetupOK ==
    /\ bound \in Nat
    /\ ch \in {"none", "open", "closed", "broken"}
    /\ ch = "open" => conn = "open"
    /\ setup \in {"dial", "channel"} => ch = "none" /\ bound = 0
    /\ setup \in {"dial", "refused"} => conn # "open"
    /\ consumer # "none" => setup = "ready"
    /\ ch = "open" =>
         /\ setup \in {"declare", "queue"} => bound = 0
         /\ setup = "bind" => bound < Len(Topics)
         /\ setup \in {"consume", "ready"} => bound = Len(Topics)

\* Commands are numbered in the order they are published: those handled come
\* before those in the queue.
OrderOK ==
    /\ sent \in Nat /\ queue \in Seq(Nat) /\ handled \in Seq(Nat)
    /\ \A i \in 1 .. Len(queue) : queue[i] <= sent
    /\ \A i, j \in 1 .. Len(queue) : i < j => queue[i] < queue[j]
    /\ HandledInOrder
    /\ \A i \in 1 .. Len(handled) : handled[i] <= sent
    /\ \A i \in 1 .. Len(handled), j \in 1 .. Len(queue) : handled[i] < queue[j]

IInv == SetupOK /\ OrderOK

-----------------------------------------------------------------------------
\* NewRabbit begins without a connection.
LEMMA InvInit == Init => IInv
<1> SUFFICES ASSUME Init PROVE IInv
  OBVIOUS
<1>1. queue \in Seq(Nat) /\ handled \in Seq(Nat) /\ Len(queue) = 0 /\ Len(handled) = 0 /\ sent = 0
  BY EmptySeq DEF Init
<1>2. SetupOK
  BY DEF Init, SetupOK
<1>3. OrderOK
  BY <1>1 DEF OrderOK, HandledInOrder
<1> QED
  BY <1>2, <1>3 DEF IInv

\* Each step of the set-up goes on from what the one before has left.
LEMMA SetupStep == ASSUME SetupOK, [Next]_vars PROVE SetupOK'
<1>0. Len(Topics) \in Nat /\ (Topics = <<>> => Len(Topics) = 0)
      /\ (Topics # <<>> => Len(Topics) > 0)
  BY RabbitAssumption, LenProperties, EmptySeq DEF RabbitAssumption
<1>1a. CASE Dial
  BY <1>0, <1>1a DEF Dial, SetupOK, linkVars, cmdVars
<1>1b. CASE OpenChannel
  BY <1>0, <1>1b DEF OpenChannel, SetupOK, linkVars, cmdVars
<1>1c. CASE ExchangeDeclare
  BY <1>0, <1>1c DEF ExchangeDeclare, SetupOK, linkVars, cmdVars
<1>2a. CASE QueueDeclare
  BY <1>0, <1>2a DEF QueueDeclare, SetupOK, linkVars, cmdVars
<1>2b. CASE QueueBind
  BY <1>0, <1>2b DEF QueueBind, SetupOK, linkVars, cmdVars
<1>2c. CASE Consume
  BY <1>0, <1>2c DEF Consume, SetupOK, linkVars, cmdVars
<1>2d. CASE SubscribeFails
  BY <1>0, <1>2d DEF SubscribeFails, SetupOK, linkVars, cmdVars
<1>3. CASE Consumer \/ Publish \/ Command
  BY <1>3 DEF Consumer, Handle, HandlerReturns, ConsumerEnds, Publish, PublishCall, PublishTaken,
     PublishFails, Command, SetupOK, linkVars, cmdVars
<1>4. CASE Close \/ ConnectionLost \/ ChannelLost
  BY <1>4 DEF Close, ConnectionLost, ChannelLost, SetupOK
<1>5. CASE UNCHANGED vars
  BY <1>5 DEF vars, SetupOK, linkVars, cmdVars
<1> QED
  BY <1>1a, <1>1b, <1>1c, <1>2a, <1>2b, <1>2c, <1>2d, <1>3, <1>4, <1>5 DEF Next, Setup

\* A command that is published is the last of the queue.
LEMMA OrderCommand == ASSUME OrderOK, Command PROVE OrderOK'
<1>1. /\ queue' \in Seq(Nat) /\ Len(queue') = Len(queue) + 1 /\ Len(queue) \in Nat
      /\ \A i \in 1 .. Len(queue) : queue'[i] = queue[i] /\ queue[i] \in Nat
      /\ queue'[Len(queue) + 1] = sent + 1 /\ sent' = sent + 1 /\ handled' = handled
  BY AppendProperties, LenProperties, ElementOfSeq DEF Command, OrderOK
<1>2. \A i \in 1 .. Len(handled) : handled[i] \in Nat
  BY ElementOfSeq DEF OrderOK
<1>3. ASSUME NEW i \in 1 .. Len(queue') PROVE queue'[i] <= sent + 1
  <2>1. CASE i \in 1 .. Len(queue)
    <3>1. queue[i] <= sent /\ queue[i] \in Nat /\ queue'[i] = queue[i] /\ sent \in Nat
      BY <1>1, <2>1 DEF OrderOK
    <3> QED
      BY <3>1
  <2>2. CASE i = Len(queue) + 1
    BY <1>1, <2>2 DEF OrderOK
  <2> QED
    BY <1>1, <2>1, <2>2
<1>4. ASSUME NEW i \in 1 .. Len(queue'), NEW j \in 1 .. Len(queue'), i < j
      PROVE  queue'[i] < queue'[j]
  <2>1. i \in 1 .. Len(queue)
    BY <1>1, <1>4
  <2>2. CASE j \in 1 .. Len(queue)
    BY <1>1, <1>4, <2>1, <2>2 DEF OrderOK
  <2>3. CASE j = Len(queue) + 1
    BY <1>1, <2>1, <2>3, SMTT(30) DEF OrderOK
  <2> QED
    BY <1>1, <2>2, <2>3
<1>5. ASSUME NEW i \in 1 .. Len(handled), NEW j \in 1 .. Len(queue')
      PROVE  handled[i] < queue'[j]
  <2>1. CASE j \in 1 .. Len(queue)
    BY <1>1, <2>1 DEF OrderOK
  <2>2. CASE j = Len(queue) + 1
    BY <1>1, <1>2, <2>2 DEF OrderOK
  <2> QED
    BY <1>1, <2>1, <2>2
<1>6. \A i \in 1 .. Len(handled) : handled[i] <= sent + 1
  BY <1>2 DEF OrderOK
<1>7. sent' \in Nat /\ handled' \in Seq(Nat) /\ HandledInOrder'
  BY <1>1 DEF OrderOK, HandledInOrder
<1> QED
  BY <1>1, <1>3, <1>4, <1>5, <1>6, <1>7 DEF OrderOK

\* The handler is called with the oldest command of the queue.
LEMMA OrderHandle == ASSUME OrderOK, Handle PROVE OrderOK'
<1>1. /\ Head(queue) = queue[1] /\ Len(queue) \in Nat \ {0} /\ queue[1] \in Nat
      /\ queue' \in Seq(Nat) /\ Len(queue') = Len(queue) - 1
      /\ \A i \in 1 .. Len(queue') : queue'[i] = queue[i + 1]
  BY HeadTailProperties, EmptySeq DEF Handle, OrderOK
<1>2. /\ handled' \in Seq(Nat) /\ Len(handled') = Len(handled) + 1 /\ Len(handled) \in Nat
      /\ \A i \in 1 .. Len(handled) : handled'[i] = handled[i] /\ handled[i] \in Nat
      /\ handled'[Len(handled) + 1] = queue[1] /\ sent' = sent
  BY <1>1, AppendProperties, LenProperties, ElementOfSeq DEF Handle, OrderOK
<1>3. ASSUME NEW i \in 1 .. Len(queue')
      PROVE  i + 1 \in 1 .. Len(queue) /\ queue'[i] = queue[i + 1] /\ queue[1] < queue[i + 1]
  <2>1. i + 1 \in 1 .. Len(queue) /\ 1 \in 1 .. Len(queue) /\ 1 < i + 1
    BY <1>1
  <2> QED
    BY <1>1, <2>1 DEF OrderOK
<1>4. ASSUME NEW i \in 1 .. Len(handled')
      PROVE  \/ i \in 1 .. Len(handled) /\ handled'[i] = handled[i] /\ handled[i] < queue[1]
             \/ i = Len(handled) + 1 /\ handled'[i] = queue[1]
  <2>1. i \in 1 .. Len(handled) \/ i = Len(handled) + 1
    BY <1>2
  <2>2. 1 \in 1 .. Len(queue)
    BY <1>1
  <2> QED
    BY <1>2, <2>1, <2>2 DEF OrderOK
<1>5. HandledInOrder'
  <2> SUFFICES ASSUME NEW i \in 1 .. Len(handled'), NEW j \in 1 .. Len(handled'), i < j
               PROVE  handled'[i] < handled'[j]
    BY DEF HandledInOrder
  <2>1. i \in 1 .. Len(handled) /\ handled'[i] = handled[i] /\ handled[i] < queue[1]
    BY <1>2, <1>4
  <2>2. CASE j \in 1 .. Len(handled)
    BY <1>2, <2>1, <2>2 DEF OrderOK, HandledInOrder
  <2>3. CASE j = Len(handled) + 1
    BY <1>2, <2>1, <2>3
  <2> QED
    BY <1>2, <2>2, <2>3
<1>6. ASSUME NEW i \in 1 .. Len(queue'), NEW j \in 1 .. Len(queue'), i < j
      PROVE  queue'[i] < queue'[j]
  <2>1. i + 1 < j + 1
    BY <1>6
  <2> QED
    BY <1>1, <1>3, <2>1 DEF OrderOK
<1>7. ASSUME NEW i \in 1 .. Len(handled'), NEW j \in 1 .. Len(queue')
      PROVE  handled'[i] < queue'[j]
  <2>1. queue[1] < queue[j + 1] /\ queue'[j] = queue[j + 1] /\ queue[j + 1] \in Nat
    BY <1>3, ElementOfSeq DEF OrderOK
  <2>2. CASE i \in 1 .. Len(handled) /\ handled'[i] = handled[i] /\ handled[i] < queue[1]
    BY <1>1, <1>2, <2>1, <2>2, SMTT(30)
  <2>3. CASE i = Len(handled) + 1 /\ handled'[i] = queue[1]
    BY <2>1, <2>3
  <2> QED
    BY <1>4, <2>2, <2>3
<1>8. ASSUME NEW i \in 1 .. Len(queue') PROVE queue'[i] <= sent'
  BY <1>2, <1>3 DEF OrderOK
<1>9. ASSUME NEW i \in 1 .. Len(handled') PROVE handled'[i] <= sent'
  <2>1. queue[1] <= sent
    BY <1>1 DEF OrderOK
  <2> QED
    BY <1>2, <1>4, <2>1 DEF OrderOK
<1> QED
  BY <1>1, <1>2, <1>5, <1>6, <1>7, <1>8, <1>9 DEF OrderOK

\* What is left of the queue when the channel goes is a prefix of it.
LEMMA OrderDrop ==
    ASSUME OrderOK, DropDeliveries, UNCHANGED <<sent, handled>> PROVE OrderOK'
<1>0. Len(queue) \in Nat
  BY LenProperties DEF OrderOK
<1>1. PICK k \in 0 .. Len(queue) : queue' = SubSeq(queue, 1, k)
  BY <1>0 DEF DropDeliveries
<1>2. \A i \in 1 .. k : queue[i] \in Nat /\ i \in 1 .. Len(queue)
  BY <1>0, <1>1, ElementOfSeq DEF OrderOK
<1>3. /\ queue' \in Seq(Nat) /\ Len(queue') = k
      /\ \A i \in 1 .. k : queue'[i] = queue[i]
  BY <1>0, <1>1, <1>2, SubSeqProperties
<1> QED
  BY <1>2, <1>3 DEF OrderOK, HandledInOrder

\* Every step keeps the commands in order.
LEMMA OrderStep == ASSUME OrderOK, [Next]_vars PROVE OrderOK'
<1>1. CASE Close \/ ConnectionLost \/ ChannelLost
  BY <1>1, OrderDrop DEF Close, ConnectionLost, ChannelLost
<1>2. CASE Setup \/ HandlerReturns \/ ConsumerEnds \/ Publish \/ UNCHANGED vars
  <2>1. UNCHANGED <<sent, queue, handled>>
    BY <1>2 DEF Setup, Dial, OpenChannel, ExchangeDeclare, QueueDeclare, QueueBind, Consume,
       SubscribeFails, HandlerReturns, ConsumerEnds, Publish, PublishCall, PublishTaken,
       PublishFails, vars, cmdVars
  <2> QED
    BY <2>1 DEF OrderOK, HandledInOrder
<1> QED
  BY <1>1, <1>2, OrderCommand, OrderHandle DEF Next, Consumer

LEMMA Invariance == Spec => []IInv
<1>1. IInv /\ [Next]_vars => IInv'
  BY SetupStep, OrderStep DEF IInv
<1> QED
  BY InvInit, <1>1, PTL DEF Spec

-----------------------------------------------------------------------------
\* Whichever step of the set-up fails, and whenever the channel breaks, nothing is
\* left open and no topic is missed, for any number of topics.
THEOREM SetupIsAtomic == Spec => []SetupAllOrNothing
<1>1. IInv => SetupAllOrNothing
  BY DEF IInv, SetupOK, SetupAllOrNothing
<1> QED
  BY <1>1, Invariance, PTL

\* The handler is called in the order of publication, each command at most once.
THEOREM CommandsOrdered == Spec => []HandledInOrder
<1>1. IInv => HandledInOrder
  BY DEF IInv, OrderOK
<1> QED
  BY <1>1, Invariance, PTL
=============================================================================
