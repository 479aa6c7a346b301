--------------------------- MODULE MCPostgresQueue --------------------------
(* Instances of PostgresQueue for TLC. *)
EXTENDS PostgresQueue, TLC

PoolSymmetry == Permutations(Sessions) \cup Permutations(Owners)

NoDeltas == {}
Up == {1}
=============================================================================
