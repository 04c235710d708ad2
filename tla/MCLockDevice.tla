---------------------------- MODULE MCLockDevice -----------------------------
(* Small instances of LockDevice.                                           *)
EXTENDS LockDevice, TLC

RequestSymmetry == Permutations(Nonce)
=============================================================================
