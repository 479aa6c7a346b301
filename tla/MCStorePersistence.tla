------------------------- MODULE MCStorePersistence -------------------------
(* Instances of StorePersistence for TLC. *)
EXTENDS StorePersistence, TLC
=============================================================================
