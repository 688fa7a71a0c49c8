------------------------------ MODULE MCUplink ------------------------------
(* Instances of Uplink for TLC.                                            *)
EXTENDS Uplink, TLC

CONSTANTS b1, b2, f1, f2, s1, s2

\* On b1, f1 is multiplexed: it always carries s1 and sometimes s2; f2 shares
\* the name s1 and is not whitelisted.  On b2, f2 has no DBC definition.
OnB1 == f1 :> {{s1}, {s1, s2}} @@ f2 :> {{s1}}
OnB2 == f1 :> {{s2}} @@ f2 :> {{}}

MCDecodesTwo == b1 :> OnB1 @@ b2 :> OnB2
MCLatchTwo   == b1 :> {f1} @@ b2 :> {f1}

\* Every frame carries s1; b2 is not listed: its frames only take up room.
MCDecodesLive == [b \in {b1, b2} |-> f1 :> {{s1}}]
MCLatchLive   == b1 :> {f1} @@ b2 :> {}
=============================================================================
