---------------------------- MODULE MCManualMode ----------------------------
(* Instances of ManualMode for TLC. *)
EXTENDS ManualMode
=============================================================================
