---------------------------- MODULE MCFaceUnlock -----------------------------
(* Faces of two people and of look-alikes between them, for TLC.            *)
EXTENDS FaceUnlock, TLC

CONSTANTS f1, f2, mid, far

\* mid resembles both people's enrolled faces f1 and f2 equally, far resembles
\* mid only.
Similar ==
    (<<f1, f2>> :> 50) @@ (<<f1, mid>> :> 72) @@ (<<f2, mid>> :> 72) @@
    (<<mid, far>> :> 70)

MCSim ==
    [p \in Face \X Face |->
        CASE p[1] = p[2] -> 100
          [] p \in DOMAIN Similar -> Similar[p]
          [] <<p[2], p[1]>> \in DOMAIN Similar -> Similar[<<p[2], p[1]>>]
          [] OTHER -> 20]

MCAlike == {p \in Face \X Face : MCSim[p] >= 99}

MCEnrolments == {{f1}, {f2}} \cap SUBSET Face

\* One unit of time is HALF_LIFE_SECONDS.
MCDecay == [age \in 0..MaxTime |-> 100 \div 2^age]

CallSymmetry == Permutations(Call)
=============================================================================
