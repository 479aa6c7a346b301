------------------------ MODULE MCWorkspaceRestore ------------------------
(* Two windows, two workspaces.  The desktops found are few, the snapshots all
   that can be saved of any desktop: with or without frames, with or without
   layouts, of all windows or of one workspace. *)
EXTENDS WorkspaceRestore, TLC

CONSTANTS a, b

Placed == [ws : {a, b}, layout : {"tiles"}, frame : {1}]
          \cup [ws : {a, b}, layout : {"floating"}, frame : {1, 2}]

AllDesktops ==
    {d \in [wins : [1..N -> Placed], ws : {a, b}, win : 1..N \cup {Nothing}] :
        IF In(d, d.ws) = {} THEN d.win = Nothing ELSE d.win \in In(d, d.ws)}

MCDesktops ==
    {[wins |-> <<[ws |-> a, layout |-> "tiles", frame |-> 1], [ws |-> a, layout |-> "tiles", frame |-> 1]>>,
      ws |-> a, win |-> 1],
     [wins |-> <<[ws |-> a, layout |-> "floating", frame |-> 1], [ws |-> b, layout |-> "floating", frame |-> 1]>>,
      ws |-> b, win |-> 2]}

MCSnapshots ==
    UNION {{[wins |-> [w \in kept |-> [ws |-> d.wins[w].ws,
                                       layout |-> IF layouts THEN d.wins[w].layout ELSE Nothing,
                                       frame |-> IF w \in framed THEN Frame(d, w) ELSE Nothing]],
             ws |-> d.ws, win |-> d.win] :
              kept \in {1..N, In(d, d.ws)}, framed \in {{}, 1..N}, layouts \in BOOLEAN} :
           d \in AllDesktops}
=============================================================================
