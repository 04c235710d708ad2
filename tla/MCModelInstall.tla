---------------------------- MODULE MCModelInstall -----------------------------
(* ModelInstall with two expected files, two versions and bad manifests.   *)
EXTENDS ModelInstall, TLC

CONSTANTS det, rec, age, v1, v2

MCFile == {det, rec, age}
MCExpected == {det, rec}
MCManifest == {[f \in MCExpected |-> v1], [f \in MCExpected |-> v2],
               [f \in {det} |-> v1], [f \in MCFile |-> v1]}
ProcessSymmetry == Permutations(Process)
=============================================================================
