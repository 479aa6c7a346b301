--------------------------- MODULE MCQueueActions ---------------------------
(* Instances of QueueActions for TLC. *)
EXTENDS QueueActions, TLC

CONSTANTS p1, p2, k1, k2, t1, t3

\* Two papers, a token each.
KeyOfPaper == p1 :> k1 @@ p2 :> k2
TwoPapers == t1 :> p1 @@ t3 :> p2
=============================================================================
