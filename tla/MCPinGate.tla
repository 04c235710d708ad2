------------------------------ MODULE MCPinGate ------------------------------
(* A small instance of PinGate: three calls and two administrators on one   *)
(* user's PIN.                                                              *)
EXTENDS PinGate, TLC

CallSymmetry == Permutations(Slot) \cup Permutations(Admin)

\* Calls alone, which have seen no change of the user or the PIN: every
\* interleaving of the calls, and the clock.
CallsOnly ==
    /\ users = User /\ pins \in [User -> Pin]
    /\ \A a \in Admin : admin[a] = Idle
    /\ \A s \in Slot : attempt[s] # Idle => past[s] = Look(UserOf(s), users, pins)

\* Administrators at work: one call at a time, and the clock stands still.
OneCall == now = 0 /\ \A s, t \in Slot : attempt[s] # Idle /\ attempt[t] # Idle => s = t

\* What is explored: PIN changes and removals under one call, and what
\* follows them once the user is back.
Bound == CallsOnly \/ OneCall
=============================================================================
