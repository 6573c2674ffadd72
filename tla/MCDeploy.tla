------------------------------ MODULE MCDeploy ------------------------------
(* Small instances of Deploy for TLC. *)
EXTENDS Deploy, TLC

CONSTANTS v1, v2, k1, k2

Alike == Permutations(Keys) \cup Permutations(Versions)
=============================================================================
