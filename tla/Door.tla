--------------------------------- MODULE Door ---------------------------------
(***************************************************************************)
(* What the lock promises about its door, whatever fails on the way: it is *)
(* opened for one request at a time, only after the service approved that  *)
(* request, and never again for the same one.  LockDevice implements it.   *)
(***************************************************************************)
CONSTANTS
    Nonce,      \* the names of requests
    Shut        \* the door is open for no request

VARIABLES
    approved,   \* requests answered UNLOCK
    used,       \* requests the door was opened for
    open        \* the request the door is open for

vars == <<approved, used, open>>

Init == approved = {} /\ used = {} /\ open = Shut

\* The service approves, be the device still waiting or not.
Approve(n) ==
    /\ n \notin approved
    /\ approved' = approved \cup {n}
    /\ UNCHANGED <<used, open>>

Open(n) ==
    /\ open = Shut
    /\ n \in approved \ used
    /\ open' = n
    /\ used' = used \cup {n}
    /\ UNCHANGED approved

\* The pulse is over or the device is reset.
Close ==
    /\ open # Shut
    /\ open' = Shut
    /\ UNCHANGED <<approved, used>>

Next == Close \/ \E n \in Nonce : Approve(n) \/ Open(n)

Spec == Init /\ [][Next]_vars
=============================================================================
