----------------------------- MODULE MCPersist ------------------------------
(* Small instances of Persist for TLC. *)
EXTENDS Persist

CONSTANTS x, y, i1, i2

\* Two files, each under its own name.
TwoFiles == [n \in Names |-> IF n = x THEN i1 ELSE i2]
=============================================================================
