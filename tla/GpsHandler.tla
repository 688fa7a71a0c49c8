----------------------------- MODULE GpsHandler -----------------------------
(***************************************************************************)
(* gps.Handler.Start: the loop that keeps one gpsd session alive.  Each    *)
(* session has a watcher goroutine, started by Watch, which reads reports, *)
(* calls the filter (which sends the fix to gpsRxCh) and, when reading     *)
(* fails, offers a value on the session's unbuffered done channel.  The    *)
(* gpsd client is modelled from how Start uses it.                         *)
(*                                                                         *)
(* A fix is represented by its number, in the order gpsd reports them.     *)
(***************************************************************************)
EXTENDS Naturals, Sequences

CONSTANTS
    GpsRxCap,      \* capacity of gpsRxCh (100 in main)
    MaxSessions,   \* bound: successful dials
    MaxFixes       \* bound: fixes gpsd reports

ASSUME GpsAssumption ==
    GpsRxCap \in Nat \ {0} /\ MaxSessions \in Nat \ {0} /\ MaxFixes \in Nat

VARIABLES
    handler,   \* Start: "check", "dial", "sleep", "watch" or "stopped"
    cur,       \* number of the current session, 0 before the first
    link,      \* the connection of session cur works
    socket,    \* socket[k]: "none", "open" or "closed" (by Start)
    watcher,   \* watcher[k]: "none", "read", "send", "offer" or "ended"
    holds,     \* holds[k]: the fix watcher k wants to send
    fixes,     \* number of fixes gpsd has reported
    gpsRxCh,   \* fixes on their way to the publisher
    taken,     \* history: the fixes the publisher has taken
    ctxDone    \* main has called cancelFn

Sessions == 1 .. MaxSessions

vars == <<handler, cur, link, socket, watcher, holds, fixes, gpsRxCh, taken, ctxDone>>
startVars == <<handler, cur, socket>>
dataVars  == <<fixes, gpsRxCh, taken>>

Init ==
    /\ handler = "check" /\ cur = 0 /\ link = FALSE
    /\ socket = [k \in Sessions |-> "none"]
    /\ watcher = [k \in Sessions |-> "none"]
    /\ holds = [k \in Sessions |-> 0]
    /\ fixes = 0 /\ gpsRxCh = <<>> /\ taken = <<>>
    /\ ctxDone = FALSE

-----------------------------------------------------------------------------
(* Start                                                                   *)

\* The check at the top of the loop finds the context cancelled.
StopBeforeDial ==
    /\ handler = "check" /\ ctxDone
    /\ handler' = "stopped"
    /\ UNCHANGED <<cur, link, socket, watcher, holds, dataVars, ctxDone>>

\* The context is alive: gpsd.Dial is called.  It has neither the context nor a
\* deadline, so Start stays in this place for as long as the call blocks.
Dial ==
    /\ handler = "check" /\ ~ctxDone
    /\ handler' = "dial"
    /\ UNCHANGED <<cur, link, socket, watcher, holds, dataVars, ctxDone>>

DialFails ==
    /\ handler = "dial"
    /\ handler' = "sleep"
    /\ UNCHANGED <<cur, link, socket, watcher, holds, dataVars, ctxDone>>

Wake ==
    /\ handler = "sleep"
    /\ handler' = "check"
    /\ UNCHANGED <<cur, link, socket, watcher, holds, dataVars, ctxDone>>

\* Dial returns a session, perhaps after the context was cancelled; AddFilter and
\* Watch follow.
Dialed ==
    /\ handler = "dial"
    /\ cur < MaxSessions
    /\ cur' = cur + 1
    /\ link' = TRUE
    /\ socket' = [socket EXCEPT ![cur + 1] = "open"]
    /\ watcher' = [watcher EXCEPT ![cur + 1] = "read"]
    /\ handler' = "watch"
    /\ UNCHANGED <<holds, dataVars, ctxDone>>

\* Faulty variant: the context is looked at between sessions only.
StopWatchingNever == FALSE /\ handler' = "stopped"

\* <-ctx.Done(): close the session and return.
StopWatching ==
    /\ handler = "watch" /\ ctxDone
    /\ socket' = [socket EXCEPT ![cur] = "closed"]
    /\ handler' = "stopped"
    /\ UNCHANGED <<cur, link, watcher, holds, dataVars, ctxDone>>

\* Faulty variants: the session is not closed before the next dial; Start looks
\* at the connection itself and does not wait for the watcher.
RedialUnclosed ==
    /\ handler = "watch" /\ watcher[cur] = "offer"
    /\ watcher' = [watcher EXCEPT ![cur] = "ended"]
    /\ handler' = "check"
    /\ UNCHANGED <<cur, link, socket, holds, dataVars, ctxDone>>

RedialEarly ==
    /\ handler = "watch" /\ ~link
    /\ watcher' = [watcher EXCEPT ![cur] = IF @ = "offer" THEN "ended" ELSE @]
    /\ socket' = [socket EXCEPT ![cur] = "closed"]
    /\ handler' = "check"
    /\ UNCHANGED <<cur, link, holds, dataVars, ctxDone>>

\* <-done: the watcher's offer is taken, the session closed, and the loop dials
\* again at once.
Redial ==
    /\ handler = "watch" /\ watcher[cur] = "offer"
    /\ watcher' = [watcher EXCEPT ![cur] = "ended"]
    /\ socket' = [socket EXCEPT ![cur] = "closed"]
    /\ handler' = "check"
    /\ UNCHANGED <<cur, link, holds, dataVars, ctxDone>>

-----------------------------------------------------------------------------
(* The watcher of session k                                                *)

\* A TPV report with Mode >= 2 is read and handed to the filter.
Report(k) ==
    /\ watcher[k] = "read" /\ socket[k] = "open" /\ k = cur /\ link
    /\ fixes < MaxFixes
    /\ fixes' = fixes + 1
    /\ holds' = [holds EXCEPT ![k] = fixes + 1]
    /\ watcher' = [watcher EXCEPT ![k] = "send"]
    /\ UNCHANGED <<startVars, link, gpsRxCh, taken, ctxDone>>

\* Faulty variant: a fix that finds the channel full is dropped and the reader
\* goes away with it.
SendOrEnd(k) ==
    /\ watcher[k] = "send"
    /\ gpsRxCh' = IF Len(gpsRxCh) < GpsRxCap THEN Append(gpsRxCh, holds[k]) ELSE gpsRxCh
    /\ watcher' = [watcher EXCEPT ![k] = IF Len(gpsRxCh) < GpsRxCap THEN "read" ELSE "ended"]
    /\ UNCHANGED <<startVars, link, holds, fixes, taken, ctxDone>>

\* Faulty variant: the room in the channel is not checked.
SendUnbounded(k) ==
    /\ watcher[k] = "send"
    /\ gpsRxCh' = Append(gpsRxCh, holds[k])
    /\ watcher' = [watcher EXCEPT ![k] = "read"]
    /\ UNCHANGED <<startVars, link, holds, fixes, taken, ctxDone>>

\* dataChan <- Data{...}: no other way out of the filter.
Send(k) ==
    /\ watcher[k] = "send"
    /\ Len(gpsRxCh) < GpsRxCap
    /\ gpsRxCh' = Append(gpsRxCh, holds[k])
    /\ watcher' = [watcher EXCEPT ![k] = "read"]
    /\ UNCHANGED <<startVars, link, holds, fixes, taken, ctxDone>>

\* Reading fails: the connection is lost or the session was closed.
ReadFails(k) ==
    /\ watcher[k] = "read"
    /\ socket[k] = "closed" \/ (k = cur /\ ~link)
    /\ watcher' = [watcher EXCEPT ![k] = "offer"]
    /\ UNCHANGED <<startVars, link, holds, dataVars, ctxDone>>

Watcher(k) == Report(k) \/ Send(k) \/ ReadFails(k)

-----------------------------------------------------------------------------
(* The rest of the program                                                 *)

LinkLost ==
    /\ cur > 0 /\ link
    /\ link' = FALSE
    /\ UNCHANGED <<startVars, watcher, holds, dataVars, ctxDone>>

\* The publisher worker.
Take ==
    /\ gpsRxCh # <<>>
    /\ taken' = Append(taken, Head(gpsRxCh))
    /\ gpsRxCh' = Tail(gpsRxCh)
    /\ UNCHANGED <<startVars, link, watcher, holds, fixes, ctxDone>>

Cancel ==
    /\ ~ctxDone
    /\ ctxDone' = TRUE
    /\ UNCHANGED <<startVars, link, watcher, holds, dataVars>>

-----------------------------------------------------------------------------
Start == StopBeforeDial \/ Dial \/ DialFails \/ Dialed \/ Wake \/ StopWatching \/ Redial

Next == Start \/ (\E k \in Sessions : Watcher(k)) \/ LinkLost \/ Take \/ Cancel

Spec == Init /\ [][Next]_vars

\* The goroutines run and the publisher keeps taking.  Nothing ends a Dial that
\* blocks: DialFails and Dialed have no fairness, and what depends on the call's
\* return has it as a premise.
Fairness ==
    /\ WF_vars(StopBeforeDial \/ Dial \/ Wake \/ StopWatching \/ Redial)
    /\ \A k \in Sessions : SF_vars(Send(k)) /\ WF_vars(ReadFails(k))
    /\ SF_vars(Take)

FairSpec == Spec /\ Fairness

-----------------------------------------------------------------------------
(* Properties                                                              *)

Reading(k) == watcher[k] \in {"read", "send"}

\* Every variable has its type.
TypeOK ==
    /\ handler \in {"check", "dial", "sleep", "watch", "stopped"}
    /\ cur \in 0 .. MaxSessions /\ link \in BOOLEAN
    /\ socket \in [Sessions -> {"none", "open", "closed"}]
    /\ watcher \in [Sessions -> {"none", "read", "send", "offer", "ended"}]
    /\ holds \in [Sessions -> 0 .. MaxFixes] /\ fixes \in 0 .. MaxFixes
    /\ Len(gpsRxCh) <= GpsRxCap
    /\ \A i \in 1 .. Len(gpsRxCh) : gpsRxCh[i] \in 1 .. fixes
    /\ \A i \in 1 .. Len(taken) : taken[i] \in 1 .. fixes
    /\ ctxDone \in BOOLEAN

\* Reconnecting never leaves two sessions feeding gpsRxCh: an old watcher has
\* ended, and its socket is closed, before the next session exists.
OneSession ==
    \A k \in Sessions : k < cur => watcher[k] = "ended" /\ socket[k] = "closed"

\* Across reconnections the publisher sees the fixes in the order gpsd reported
\* them, each once and none left out: what it took, what is queued and what
\* the watcher holds are all the fixes there were.
FixesInOrder ==
    LET sent == taken \o gpsRxCh IN
    /\ \A i \in 1 .. Len(sent) : sent[i] = i
    /\ Len(sent) = fixes \/ (Len(sent) = fixes - 1 /\ cur > 0 /\ watcher[cur] = "send"
                                                   /\ holds[cur] = fixes)

\* What the properties may assume of gpsd, since the code does not see to it: no
\* Dial blocks for ever (gps/handler.go:51); no Dial blocks for ever and a gpsd
\* that is dialled again and again answers at some time.
DialReturns == []<>(handler # "dial")
GpsdAnswers == WF_vars(DialFails \/ Dialed) /\ SF_vars(Dialed)

\* A lost connection is noticed even by a watcher that is blocked in the filter,
\* and gpsd is dialled again until it answers, unless the program ends.
\* (MaxSessions bounds the dials, so the last session has no successor.)
Reconnects ==
    GpsdAnswers =>
        \A k \in 1 .. MaxSessions - 1 : (cur = k /\ ~link) ~> (cur > k \/ ctxDone)

\* A cancelled context ends Start from every place it can be in: the check, the
\* sleep, the select, and a Dial that is under way, if that call returns.
Stops == DialReturns => (ctxDone ~> handler = "stopped")
=============================================================================
