---------------------------- MODULE MCPaperQueue ----------------------------
(* Instances of PaperQueue for TLC. *)
EXTENDS PaperQueue, TLC

ClientSymmetry == Permutations(Owners)

NoDeltas == {}
UpAndDown == {-2, 2}
=============================================================================
