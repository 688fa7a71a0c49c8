----------------------------- MODULE GpsProofs -----------------------------
(***************************************************************************)
(* Theorems of module GpsHandler, for any capacity of gpsRxCh and any      *)
(* number of sessions and fixes.                                           *)
(***************************************************************************)
EXTENDS GpsHandler, SequenceTheorems, TLAPS

\* The current watcher has a fix that is not yet in gpsRxCh.
Holding == cur > 0 /\ watcher[cur] = "send"

(***************************************************************************)
(* The inductive invariant.  That no old watcher feeds gpsRxCh depends on  *)
(* what Start knows when it dials: the watcher before has offered on done, *)
(* which it does only when it is past its last send.                       *)
(***************************************************************************)

StateOK ==
    /\ handler \in {"check", "dial", "sleep", "watch", "stopped"}
    /\ cur \in 0 .. MaxSessions /\ link \in BOOLEAN
    /\ socket \in [Sessions -> {"none", "open", "closed"}]
    /\ watcher \in [Sessions -> {"none", "read", "send", "offer", "ended"}]
    /\ holds \in [Sessions -> 0 .. MaxFixes] /\ fixes \in 0 .. MaxFixes
    /\ ctxDone \in BOOLEAN

SessionOK ==
    /\ OneSession
    /\ \A k \in Sessions : k > cur => watcher[k] = "none"
    /\ handler \in {"check", "dial", "sleep"} /\ cur > 0 =>
         watcher[cur] = "ended" /\ socket[cur] = "closed"
    /\ handler = "watch" => cur > 0

\* The fixes taken, the fixes queued and the one held are numbered through.
FixesOK ==
    /\ taken \in Seq(Nat) /\ gpsRxCh \in Seq(Nat) /\ Len(gpsRxCh) <= GpsRxCap
    /\ \A i \in 1 .. Len(taken) : taken[i] = i
    /\ \A i \in 1 .. Len(gpsRxCh) : gpsRxCh[i] = Len(taken) + i
    /\ fixes = Len(taken) + Len(gpsRxCh) + IF Holding THEN 1 ELSE 0
    /\ Holding => holds[cur] = fixes

IInv == StateOK /\ SessionOK /\ FixesOK

-----------------------------------------------------------------------------
\* Start begins without a session.
LEMMA InvInit == Init => IInv
<1> SUFFICES ASSUME Init PROVE IInv
  OBVIOUS
<1>1. /\ taken \in Seq(Nat) /\ gpsRxCh \in Seq(Nat) /\ Len(taken) = 0 /\ Len(gpsRxCh) = 0
      /\ cur = 0 /\ fixes = 0
  BY EmptySeq DEF Init
<1>2. StateOK
  <2>1. /\ 0 \in 0 .. MaxSessions /\ 0 \in 0 .. MaxFixes
        /\ handler = "check" /\ link = FALSE /\ ctxDone = FALSE
        /\ socket = [k \in Sessions |-> "none"] /\ watcher = [k \in Sessions |-> "none"]
        /\ holds = [k \in Sessions |-> 0]
    BY GpsAssumption DEF Init
  <2> QED
    BY <1>1, <2>1 DEF StateOK
<1>3. SessionOK
  BY DEF Init, SessionOK, OneSession, Sessions
<1>4. FixesOK
  BY <1>1, GpsAssumption DEF FixesOK, Holding
<1> QED
  BY <1>2, <1>3, <1>4 DEF IInv

\* Start's steps change sessions only when no fix is on its way out of a watcher.
LEMMA InvStart == ASSUME IInv, Start PROVE IInv'
<1>1. CASE StopBeforeDial \/ Dial \/ DialFails \/ Wake
  BY <1>1 DEF StopBeforeDial, Dial, DialFails, Wake, IInv, StateOK, SessionOK, OneSession, FixesOK,
     Holding, dataVars
<1>2. CASE Dialed
  <2>1. cur + 1 \in Sessions /\ cur \in Nat /\ ~Holding
    BY <1>2, GpsAssumption DEF IInv, StateOK, SessionOK, Dialed, Sessions, Holding
  <2>2. StateOK'
    BY <1>2, <2>1, GpsAssumption DEF IInv, StateOK, Dialed, Sessions, dataVars
  <2>3. SessionOK'
    BY <1>2, <2>1, GpsAssumption DEF IInv, StateOK, SessionOK, OneSession, Dialed, Sessions
  <2>4. ~Holding'
    BY <1>2, <2>1 DEF IInv, StateOK, Holding, Dialed
  <2> QED
    BY <1>2, <2>1, <2>2, <2>3, <2>4 DEF IInv, FixesOK, Dialed, dataVars
<1>3. CASE StopWatching
  <2>1. Holding' <=> Holding
    BY <1>3 DEF StopWatching, Holding
  <2>2. StateOK' /\ SessionOK'
    BY <1>3 DEF IInv, StateOK, SessionOK, OneSession, StopWatching, dataVars, Sessions
  <2> QED
    BY <1>3, <2>1, <2>2 DEF IInv, FixesOK, StopWatching, dataVars
<1>4. CASE Redial
  <2>1. cur \in Sessions /\ ~Holding
    BY <1>4 DEF IInv, StateOK, SessionOK, Redial, Sessions, Holding
  <2>2. StateOK' /\ SessionOK' /\ ~Holding'
    BY <1>4, <2>1 DEF IInv, StateOK, SessionOK, OneSession, Redial, Sessions, dataVars, Holding
  <2> QED
    BY <1>4, <2>1, <2>2 DEF IInv, FixesOK, Redial, dataVars
<1> QED
  BY <1>1, <1>2, <1>3, <1>4 DEF Start

\* Only the watcher of the current session moves a fix.
LEMMA OnlyCurrent ==
    ASSUME IInv, NEW k \in Sessions, watcher[k] \in {"read", "send"} PROVE k = cur /\ cur > 0
  BY DEF IInv, StateOK, SessionOK, OneSession, Sessions

\* A fix is reported to a watcher that holds none, and gets the next number.
LEMMA InvReport == ASSUME IInv, NEW k \in Sessions, Report(k) PROVE IInv'
<1>1. k = cur /\ cur > 0 /\ cur \in Nat
  BY OnlyCurrent DEF Report, IInv, StateOK
<1>2. ~Holding /\ Holding' /\ holds'[cur'] = fixes + 1 /\ fixes \in Nat
  BY <1>1 DEF Report, Holding, IInv, StateOK, startVars
<1>3. StateOK'
  BY <1>1, GpsAssumption DEF Report, IInv, StateOK, startVars
<1>4. SessionOK'
  BY <1>1 DEF Report, IInv, StateOK, SessionOK, OneSession, startVars, Sessions
<1>5. FixesOK'
  BY <1>2, LenProperties DEF Report, IInv, FixesOK
<1> QED
  BY <1>3, <1>4, <1>5 DEF IInv

\* The fix a watcher sends is the one after the last in gpsRxCh.
LEMMA InvSend == ASSUME IInv, NEW k \in Sessions, Send(k) PROVE IInv'
<1>1. k = cur /\ cur > 0 /\ cur \in Nat
  BY OnlyCurrent DEF Send, IInv, StateOK
<1>2. Holding /\ ~Holding' /\ holds[k] = fixes /\ fixes \in Nat
  BY <1>1 DEF Send, Holding, IInv, StateOK, FixesOK, startVars
<1>3. StateOK'
  BY <1>1 DEF Send, IInv, StateOK, startVars
<1>4. SessionOK'
  BY <1>1 DEF Send, IInv, StateOK, SessionOK, OneSession, startVars, Sessions
<1>5. /\ gpsRxCh' \in Seq(Nat) /\ Len(gpsRxCh') = Len(gpsRxCh) + 1
      /\ Len(gpsRxCh) \in Nat /\ Len(taken) \in Nat
      /\ \A i \in 1 .. Len(gpsRxCh) : gpsRxCh'[i] = gpsRxCh[i]
      /\ gpsRxCh'[Len(gpsRxCh) + 1] = fixes
  BY <1>2, AppendProperties, LenProperties DEF Send, IInv, FixesOK
<1>6. FixesOK'
  <2>1. fixes = Len(taken) + Len(gpsRxCh) + 1
    BY <1>2 DEF IInv, FixesOK
  <2>2. ASSUME NEW i \in 1 .. Len(gpsRxCh') PROVE gpsRxCh'[i] = Len(taken) + i
    <3>1. CASE i \in 1 .. Len(gpsRxCh)
      BY <1>5, <3>1 DEF IInv, FixesOK
    <3>2. CASE i = Len(gpsRxCh) + 1
      BY <1>5, <2>1, <3>2
    <3> QED
      BY <1>5, <3>1, <3>2
  <2>3. Len(gpsRxCh') <= GpsRxCap
    BY <1>5, GpsAssumption DEF Send
  <2>4. UNCHANGED <<taken, fixes>>
    BY DEF Send
  <2> QED
    BY <1>2, <1>5, <2>1, <2>2, <2>3, <2>4 DEF IInv, FixesOK
<1> QED
  BY <1>3, <1>4, <1>6 DEF IInv

\* A watcher whose read fails holds no fix.
LEMMA InvReadFails == ASSUME IInv, NEW k \in Sessions, ReadFails(k) PROVE IInv'
<1>1. k = cur /\ cur > 0 /\ cur \in Nat
  BY OnlyCurrent DEF ReadFails, IInv, StateOK
<1>2. ~Holding /\ ~Holding'
  BY <1>1 DEF ReadFails, Holding, IInv, StateOK, startVars
<1>3. StateOK' /\ SessionOK'
  BY <1>1 DEF ReadFails, IInv, StateOK, SessionOK, OneSession, startVars, dataVars, Sessions
<1> QED
  BY <1>2, <1>3 DEF ReadFails, IInv, FixesOK, dataVars

\* The publisher takes the oldest fix.
LEMMA InvTake == ASSUME IInv, Take PROVE IInv'
<1>1. /\ Head(gpsRxCh) = gpsRxCh[1] /\ Head(gpsRxCh) \in Nat /\ Len(gpsRxCh) \in Nat \ {0}
      /\ gpsRxCh' \in Seq(Nat) /\ Len(gpsRxCh') = Len(gpsRxCh) - 1
      /\ \A i \in 1 .. Len(gpsRxCh') : gpsRxCh'[i] = gpsRxCh[i + 1]
  BY HeadTailProperties, EmptySeq DEF Take, IInv, FixesOK
<1>2. /\ taken' \in Seq(Nat) /\ Len(taken') = Len(taken) + 1 /\ Len(taken) \in Nat
      /\ \A i \in 1 .. Len(taken) : taken'[i] = taken[i]
      /\ taken'[Len(taken) + 1] = gpsRxCh[1]
  BY <1>1, AppendProperties, LenProperties DEF Take, IInv, FixesOK
<1>3. gpsRxCh[1] = Len(taken) + 1
  BY <1>1 DEF IInv, FixesOK
<1>4. ASSUME NEW i \in 1 .. Len(taken') PROVE taken'[i] = i
  <2>1. i \in 1 .. Len(taken) \/ i = Len(taken) + 1
    BY <1>2
  <2> QED
    BY <1>2, <1>3, <2>1 DEF IInv, FixesOK
<1>5. ASSUME NEW i \in 1 .. Len(gpsRxCh') PROVE gpsRxCh'[i] = Len(taken') + i
  <2>1. i + 1 \in 1 .. Len(gpsRxCh)
    BY <1>1
  <2> QED
    BY <1>1, <1>2, <2>1 DEF IInv, FixesOK
<1>6. (Holding' <=> Holding) /\ UNCHANGED <<fixes, holds, cur>>
  BY DEF Take, Holding, startVars
<1>7. FixesOK'
  <2>1. /\ fixes = Len(taken) + Len(gpsRxCh) + IF Holding THEN 1 ELSE 0
        /\ Holding => holds[cur] = fixes
        /\ Len(gpsRxCh) <= GpsRxCap /\ GpsRxCap \in Nat
    BY GpsAssumption DEF IInv, FixesOK
  <2>2. /\ fixes' = Len(taken') + Len(gpsRxCh') + IF Holding' THEN 1 ELSE 0
        /\ Holding' => holds'[cur'] = fixes'
        /\ Len(gpsRxCh') <= GpsRxCap
    <3>1. Len(taken') + Len(gpsRxCh') = Len(taken) + Len(gpsRxCh)
      BY <1>1, <1>2
    <3>2. Len(gpsRxCh') <= GpsRxCap
      BY <1>1, <2>1
    <3>3. CASE Holding
      BY <1>6, <2>1, <3>1, <3>2, <3>3
    <3>4. CASE ~Holding
      BY <1>6, <2>1, <3>1, <3>2, <3>4
    <3> QED
      BY <3>3, <3>4
  <2> QED
    BY <1>1, <1>2, <1>4, <1>5, <2>2 DEF FixesOK
<1> QED
  BY <1>7 DEF Take, IInv, StateOK, SessionOK, OneSession, startVars

\* Every step keeps the invariant.
LEMMA InvStep == IInv /\ [Next]_vars => IInv'
<1> SUFFICES ASSUME IInv, [Next]_vars PROVE IInv'
  OBVIOUS
<1>1. CASE Start
  BY <1>1, InvStart
<1>2. CASE \E k \in Sessions : Watcher(k)
  BY <1>2, InvReport, InvSend, InvReadFails DEF Watcher
<1>3. CASE Take
  BY <1>3, InvTake
<1>4. CASE LinkLost \/ Cancel \/ UNCHANGED vars
  BY <1>4 DEF LinkLost, Cancel, vars, IInv, StateOK, SessionOK, OneSession, FixesOK, Holding,
     startVars, dataVars
<1> QED
  BY <1>1, <1>2, <1>3, <1>4 DEF Next

LEMMA Invariance == Spec => []IInv
  BY InvInit, InvStep, PTL DEF Spec

-----------------------------------------------------------------------------
\* However often Start dials, no two sessions feed gpsRxCh and no socket of an old
\* session stays open.
THEOREM SessionsExclusive == Spec => []OneSession
<1>1. IInv => OneSession
  BY DEF IInv, SessionOK
<1> QED
  BY <1>1, Invariance, PTL

\* The publisher sees every fix once and in order, across any number of lost
\* connections and for any capacity of gpsRxCh.
THEOREM NoFixLost == Spec => []FixesInOrder
<1>1. ASSUME IInv PROVE FixesInOrder
  <2> DEFINE all == taken \o gpsRxCh
  <2>1. /\ Len(taken) \in Nat /\ Len(gpsRxCh) \in Nat
        /\ Len(all) = Len(taken) + Len(gpsRxCh)
        /\ \A i \in 1 .. Len(taken) + Len(gpsRxCh) :
             all[i] = IF i <= Len(taken) THEN taken[i] ELSE gpsRxCh[i - Len(taken)]
    BY <1>1, ConcatProperties, LenProperties DEF IInv, FixesOK
  <2>2. ASSUME NEW i \in 1 .. Len(all) PROVE all[i] = i
    <3>1. CASE i \in 1 .. Len(taken)
      BY <1>1, <2>1, <3>1 DEF IInv, FixesOK
    <3>2. CASE i > Len(taken)
      <4>1. i - Len(taken) \in 1 .. Len(gpsRxCh)
        BY <2>1, <3>2
      <4> QED
        BY <1>1, <2>1, <3>2, <4>1 DEF IInv, FixesOK
    <3> QED
      BY <2>1, <3>1, <3>2
  <2>3. CASE Holding
    BY <1>1, <2>1, <2>2, <2>3 DEF IInv, FixesOK, Holding, FixesInOrder
  <2>4. CASE ~Holding
    BY <1>1, <2>1, <2>2, <2>4 DEF IInv, FixesOK, FixesInOrder
  <2> QED
    BY <2>3, <2>4
<1> QED
  BY <1>1, Invariance, PTL
\* Every variable keeps its type, and gpsRxCh its capacity.
THEOREM TypeCorrect == Spec => []TypeOK
<1>1. ASSUME IInv PROVE TypeOK
  <2>1. /\ Len(taken) \in Nat /\ Len(gpsRxCh) \in Nat /\ fixes \in Nat
        /\ fixes >= Len(taken) + Len(gpsRxCh)
    BY <1>1, LenProperties DEF IInv, StateOK, FixesOK
  <2>2. \A i \in 1 .. Len(taken) : taken[i] \in 1 .. fixes
    BY <1>1, <2>1 DEF IInv, FixesOK
  <2>3. \A i \in 1 .. Len(gpsRxCh) : gpsRxCh[i] \in 1 .. fixes
    BY <1>1, <2>1 DEF IInv, FixesOK
  <2> QED
    BY <1>1, <2>2, <2>3 DEF IInv, StateOK, FixesOK, TypeOK
<1> QED
  BY <1>1, Invariance, PTL
=============================================================================
