--------------------------- MODULE MCEventRouting ---------------------------
(* Instances of EventRouting for TLC. *)
EXTENDS EventRouting, TLC

CONSTANTS e1, k1

OneKey == e1 :> k1
=============================================================================
