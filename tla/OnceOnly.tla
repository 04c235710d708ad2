------------------------------ MODULE OnceOnly ------------------------------
(***************************************************************************)
(* What the cloud service promises about protocol-v2 requests: each is let *)
(* through to the unlock handlers at most once.  ReplayGuard implements it *)
(* for the keys of requests (a device and a nonce) split by instant: the   *)
(* last reading at which the request is fresh, and those before.           *)
(***************************************************************************)
EXTENDS Naturals

CONSTANT Key        \* what is let through once

VARIABLE served     \* how often each has been let through

Init == served = [k \in Key |-> 0]

Serve(k) ==
    /\ served[k] = 0
    /\ served' = [served EXCEPT ![k] = 1]

Next == \E k \in Key : Serve(k)

Spec == Init /\ [][Next]_served
=============================================================================
