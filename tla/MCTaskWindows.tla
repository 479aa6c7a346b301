--------------------------- MODULE MCTaskWindows ---------------------------
(* Two windows, two tasks: one has a workspace, the other was created with a
   layout of its own.  The title of the second window names the second task. *)
EXTENDS TaskWindows, TLC

CONSTANTS a, b, t, u, v, w

MCHome == t :> a @@ u :> None
MCCreatedOn == t :> None @@ u :> b
MCDesks == {[at |-> v :> a @@ w :> a, ws |-> a]}
MCSeen == {{v, w} \X {a, b}}
MCTag == v :> None @@ w :> u
=============================================================================
