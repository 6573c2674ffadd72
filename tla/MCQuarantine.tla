---------------------------- MODULE MCQuarantine ----------------------------
(* Small instances of Quarantine for TLC. *)
EXTENDS Quarantine
=============================================================================
