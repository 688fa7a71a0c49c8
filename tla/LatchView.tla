----------------------------- MODULE LatchView -----------------------------
(***************************************************************************)
(* What the telemetry uplink promises to whoever reads the snapshots it    *)
(* publishes.  Frames arrive on every bus and fixes from gpsd; the program *)
(* absorbs them in arrival order; what it shows is, for every bus, a view  *)
(* of ONE prefix of that bus's frames: under each signal name the value of *)
(* the newest whitelisted frame of the prefix that carries the name.       *)
(*                                                                         *)
(* Values are represented by their origin.  The value of a signal is the   *)
(* number of the frame it was decoded from (0: never latched), the value   *)
(* of a position is the number of the fix (0: none yet).                   *)
(***************************************************************************)
EXTENDS Naturals, Sequences

CONSTANTS
    Bus,       \* configured SocketCAN interfaces
    FrameID,   \* CAN identifiers seen on them
    Signal,    \* signal names
    Latch      \* Latch[b]: the whitelisted identifiers of bus b

VARIABLES
    log,       \* log[b]: the frames read from bus b, oldest first
    fixes,     \* number of position fixes reported so far
    seen,      \* seen[b]: length of the prefix of log[b] absorbed so far
    seenFix,   \* number of the newest fix absorbed
    shown      \* the last snapshot the broker took

vars == <<log, fixes, seen, seenFix, shown>>

Frame == [id : FrameID, sigs : SUBSET Signal]

\* Frame n of bus b is whitelisted and carries a value for s.
Carries(b, s, n) ==
    /\ log[b][n].id \in Latch[b]
    /\ s \in log[b][n].sigs

\* n is the newest of the first k frames of bus b to carry s, or 0.
IsNewest(b, s, k, n) ==
    /\ n \in 0 .. k
    /\ n # 0 => Carries(b, s, n)
    /\ \A m \in 1 .. k : n < m => ~Carries(b, s, m)

Newest(b, s, k) == CHOOSE n \in 0 .. k : IsNewest(b, s, k, n)

View == [vehicle  |-> [b \in Bus |-> [s \in Signal |-> Newest(b, s, seen[b])]],
         location |-> seenFix]

Init ==
    /\ log = [b \in Bus |-> <<>>]
    /\ fixes = 0
    /\ seen = [b \in Bus |-> 0]
    /\ seenFix = 0
    /\ shown = [vehicle |-> [b \in Bus |-> [s \in Signal |-> 0]], location |-> 0]

\* A frame is read from bus b.
Arrive(b) ==
    /\ \E f \in Frame : log' = [log EXCEPT ![b] = Append(@, f)]
    /\ UNCHANGED <<fixes, seen, seenFix, shown>>

FixArrives ==
    /\ fixes' = fixes + 1
    /\ UNCHANGED <<log, seen, seenFix, shown>>

\* The absorbed prefix of bus b grows; it never shrinks or skips a carrier,
\* since a view is always computed from the whole prefix.
Absorb(b) ==
    /\ \E k \in seen[b] + 1 .. Len(log[b]) : seen' = [seen EXCEPT ![b] = k]
    /\ UNCHANGED <<log, fixes, seenFix, shown>>

AbsorbFix ==
    /\ \E f \in seenFix + 1 .. fixes : seenFix' = f
    /\ UNCHANGED <<log, fixes, seen, shown>>

\* A snapshot reaches the broker: it is the view of everything absorbed.
Show ==
    /\ shown' = View
    /\ UNCHANGED <<log, fixes, seen, seenFix>>

Next ==
    \/ \E b \in Bus : Arrive(b) \/ Absorb(b)
    \/ FixArrives
    \/ AbsorbFix
    \/ Show

Spec == Init /\ [][Next]_vars
=============================================================================
