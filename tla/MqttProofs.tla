----------------------------- MODULE MqttProofs -----------------------------
(***************************************************************************)
(* A theorem of module MqttHandler, for any number of polls before the     *)
(* deadline.                                                               *)
(***************************************************************************)
EXTENDS MqttHandler, TLAPS

(***************************************************************************)
(* The inductive invariant.  At the top of the loop the next attempt is    *)
(* already paid for: the sleep that led there has used up the poll of the  *)
(* attempt before.  AttemptsPaced alone would let the loop come back from  *)
(* a failed attempt and try again within the same poll.                    *)
(***************************************************************************)
Paid ==
    /\ attempts + left <= Polls + 1
    /\ subscriber = "check" => attempts + left <= Polls
    /\ attempts <= Polls

IInv == attempts \in Nat /\ left \in Nat /\ Paid

-----------------------------------------------------------------------------
\* main calls Subscribe with a deadline ahead and no attempt made.
LEMMA InvInit == Init => IInv
  BY MqttAssumption DEF Init, MqttAssumption, IInv, Paid

\* An attempt uses up what the sleep before it has paid for; polls only pass.
LEMMA InvStep == ASSUME IInv, [Next]_vars PROVE IInv'
<1> USE MqttAssumption DEF MqttAssumption, IInv, Paid, subVars, pubVars
<1>1. CASE LinkLost \/ Reconnect \/ Close \/ Ack
  BY <1>1 DEF LinkLost, Reconnect, Close, Ack
<1>2. CASE Subscribe
  <2>1. CASE DeadlineOver \/ NotConnected
    BY <2>1 DEF DeadlineOver, NotConnected
  <2>2. CASE Attempt
    BY <2>2 DEF Attempt
  <2>3. CASE WaitExpires \/ Succeeds \/ Retries \/ GivesUp
    BY <2>3 DEF WaitExpires, Succeeds, Retries, GivesUp
  <2>4. CASE Wake
    <3>1. CASE left > 0
      BY <2>4, <3>1 DEF Wake
    <3>2. CASE left = 0
      BY <2>4, <3>2 DEF Wake
    <3> QED
      BY <3>1, <3>2
  <2> QED
    BY <1>2, <2>1, <2>2, <2>3, <2>4 DEF Subscribe
<1>3. CASE TimePasses
  BY <1>3 DEF TimePasses
<1>4. CASE Publish \/ UNCHANGED vars
  BY <1>4 DEF Publish, PublishCall, PublishTaken, PublishDropped, vars
<1> QED
  BY <1>1, <1>2, <1>3, <1>4 DEF Next

\* For any deadline: however often the connection drops and comes back while
\* Subscribe is at work, it makes one attempt per poll at most.
THEOREM RetriesArePaced == Spec => []AttemptsPaced
<1>1. IInv => AttemptsPaced
  BY DEF IInv, Paid, AttemptsPaced
<1>2. IInv /\ [Next]_vars => IInv'
  BY InvStep
<1> QED
  BY InvInit, <1>1, <1>2, PTL DEF Spec
=============================================================================
