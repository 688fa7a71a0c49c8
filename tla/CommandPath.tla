----------------------------- MODULE CommandPath -----------------------------
(***************************************************************************)
(* What the command path promises, without its channel, its goroutines and *)
(* its shutdown: commands that can be executed are executed in the order   *)
(* they arrived, each at most once; one may get lost, none is overtaken.   *)
(* A command is the number of the payload it came in.                      *)
(***************************************************************************)
EXTENDS Naturals, Sequences

CONSTANTS
    Payload,
    Good      \* the payloads of commands that can be executed

VARIABLES
    received,  \* the payloads that have arrived
    pending,   \* the executable commands that are neither executed nor lost
    executed,  \* the commands executed, in this order
    lost       \* the commands lost

vars == <<received, pending, executed, lost>>

Init == received = <<>> /\ pending = {} /\ executed = <<>> /\ lost = {}

Arrive ==
    /\ \E p \in Payload :
         /\ received' = Append(received, p)
         /\ pending' = IF p \in Good THEN pending \cup {Len(received) + 1} ELSE pending
    /\ UNCHANGED <<executed, lost>>

\* Only the oldest command is executed.
Execute ==
    /\ \E n \in pending :
         /\ \A m \in pending : n <= m
         /\ pending' = pending \ {n}
         /\ executed' = Append(executed, n)
    /\ UNCHANGED <<received, lost>>

\* Some may never be executed: those that fail, and those at the shutdown.
Lose ==
    /\ \E n \in pending : pending' = pending \ {n} /\ lost' = lost \cup {n}
    /\ UNCHANGED <<received, executed>>

Next == Arrive \/ Execute \/ Lose

Spec == Init /\ [][Next]_vars
=============================================================================
