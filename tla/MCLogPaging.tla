------------------------------ MODULE MCLogPaging ------------------------------
(* LogPaging on a few entries of two users.                                 *)
EXTENDS LogPaging, TLC

CONSTANTS u1, u2

MCUsers == {u1, u2}
MCOwner == [e \in Entry |-> IF e = 2 THEN u2 ELSE u1]
LoadSymmetry == Permutations(Load)
=============================================================================
