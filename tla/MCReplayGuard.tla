--------------------------- MODULE MCReplayGuard ----------------------------
(* Small instances of ReplayGuard: one enabled device allowed one of two   *)
(* users, a disabled device, and two service instances.                    *)
EXTENDS ReplayGuard, TLC

CONSTANTS d1, d2, u1, u2, n1, n2, i1, i2

MCDevice == {d1, d2}
MCEnabled == {d1}
MCUser == {u1, u2}
MCAllowed == (d1 :> {u1} @@ d2 :> {u1, u2})
MCNonce == {n1}
MCInstance == {i1, i2}

\* The clock of i2 runs one second ahead of that of i1.
MCOffset == (i1 :> 0 @@ i2 :> 1)
=============================================================================
