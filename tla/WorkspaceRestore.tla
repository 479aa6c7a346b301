-------------------------- MODULE WorkspaceRestore --------------------------
(***************************************************************************)
(* Restoring a workspace (POST /workspace/restore): the plan made of the    *)
(* snapshot and the windows there are, its commands one by one, and up to   *)
(* four more plans made of what a fresh capture still finds different.  The *)
(* user, and AeroSpace, may move things between any two commands.           *)
(*                                                                         *)
(* Windows are their ids.  One monitor; frames are places on it, compared   *)
(* with a tolerance in the code and exactly here.  No two windows share app  *)
(* and title, by which frames are read and set.                             *)
(***************************************************************************)
EXTENDS Naturals, Sequences, FiniteSets

CONSTANTS
    N,             \* windows 1..N
    Workspaces,
    Places,        \* frames a floating window may have
    Desktops,      \* desktops a restore may find
    Snapshots,     \* snapshots it may be asked for
    Retries,       \* restoreVerifyRetries
    MaxMoves,      \* bound: what the user does meanwhile
    MaxFaults,     \* bound: commands and reads that fail
    Nothing

Windows == 1..N

In(d, ws) == {w \in DOMAIN d.wins : d.wins[w].ws = ws}

\* What is known of some windows: their workspaces, layouts and frames, and the focus.
View(d) ==
    /\ d = [wins |-> d.wins, ws |-> d.ws, win |-> d.win]
    /\ DOMAIN d.wins \subseteq Windows
    /\ d.wins = [w \in DOMAIN d.wins |-> [ws |-> d.wins[w].ws, layout |-> d.wins[w].layout,
                                          frame |-> d.wins[w].frame]]

\* AeroSpace's focus is on a window of the focused workspace, if it has one.
Desktop(d) ==
    /\ View(d)
    /\ IF In(d, d.ws) = {} THEN d.win = Nothing ELSE d.win \in In(d, d.ws)

\* A snapshot tells of one desktop, filterSnapshotForTaskSave included: its focus is on
\* one of its windows, which is on its workspace.
Saved(s) ==
    /\ View(s)
    /\ s.win # Nothing => s.win \in DOMAIN s.wins /\ s.ws \in {Nothing, s.wins[s.win].ws}

ASSUME WorkspaceAssumption ==
    /\ N \in Nat /\ Retries \in Nat /\ MaxMoves \in Nat /\ MaxFaults \in Nat /\ Nothing \notin Windows
    /\ \A d \in Desktops : Desktop(d)
    /\ \A s \in Snapshots : Saved(s)

VARIABLES
    desk,          \* [wins |-> where each open window is, ws, win |-> what has focus]
    snapshot,      \* what is to be restored
    step,          \* "plan", "exec", "look", "back", "judge", "done" or "failed"
    commands,      \* commands left of the plan being executed
    tries,         \* retries so far
    captured,      \* the capture being made to verify
    verified,      \* the verdict
    moves,         \* how often the user interfered
    faults         \* how many commands and reads failed for reasons of their own

rvars == <<desk, snapshot, step, commands, tries, captured, verified, moves, faults>>

Open == DOMAIN desk.wins
Tiled(d, ws) == {w \in In(d, ws) : d.wins[w].layout # "floating"}

\* What AeroSpace makes of a window's frame: tiles share the screen.
Frame(d, w) ==
    IF d.wins[w].layout = "floating" THEN d.wins[w].frame
    ELSE 10 + Cardinality(Tiled(d, d.wins[w].ws))

-----------------------------------------------------------------------------
(* Plans.  cur is [wins |-> [window -> [ws, layout, frame]], ws, win]. *)

Cmd(do, win, to) == [do |-> do, win |-> win, to |-> to]

\* The commands of each window, one window after the other.
Joining(part) ==
    LET upTo[n \in 0..N] == IF n = 0 THEN <<>> ELSE upTo[n - 1] \o part[n]
    IN  upTo
Joined(part) == Joining(part)[N]

MoveCommands(s, cur, w) ==
    IF s.wins[w].ws # cur.wins[w].ws THEN <<Cmd("move", w, s.wins[w].ws)>> ELSE <<>>

LayoutCommandsMutant(s, cur, w) ==
    IF s.wins[w].layout \notin {Nothing, cur.wins[w].layout}
    THEN <<Cmd("layout", w, s.wins[w].layout)>> ELSE <<>>
LayoutCommands(s, cur, w) ==
    IF s.wins[w].layout \notin {Nothing, cur.wins[w].layout}
    THEN <<Cmd("layout", w, s.wins[w].layout)>>
    ELSE IF s.wins[w].frame # Nothing /\ cur.wins[w].layout # "floating"
    THEN <<Cmd("layout", w, "floating")>> ELSE <<>>

NeedsFrameMutant(s, cur, w) ==
    s.wins[w].frame # Nothing /\ cur.wins[w].frame \notin {Nothing, s.wins[w].frame}
\* needsFrameRestore: a frame that could not be read is not taken for right.
NeedsFrame(s, cur, w) ==
    s.wins[w].frame # Nothing /\ cur.wins[w].frame # s.wins[w].frame

Latest(S) == CHOOSE w \in S : \A v \in S : v <= w

\* appendWorkspaceFrameRestoreCommands: the workspace is focused before its frames are set.
FrameCommands(s, framed, w) ==
    LET before == {v \in framed : v < w}
    IN  (IF before # {} /\ s.wins[Latest(before)].ws = s.wins[w].ws THEN <<>>
         ELSE <<Cmd("focusWs", w, s.wins[w].ws)>>)
        \o <<Cmd("frame", w, s.wins[w].frame)>>

There(s, cur) == DOMAIN s.wins \cap DOMAIN cur.wins
ToFrame(s, cur, first) ==
    {w \in There(s, cur) : IF first THEN s.wins[w].frame # Nothing ELSE NeedsFrame(s, cur, w)}

Arranging(s, cur) ==
    Joined([w \in Windows |-> IF w \in There(s, cur)
                              THEN MoveCommands(s, cur, w) \o LayoutCommands(s, cur, w) ELSE <<>>])
Framing(s, framed) ==
    Joined([w \in Windows |-> IF w \in framed THEN FrameCommands(s, framed, w) ELSE <<>>])
Focusing(s, cur, first, framed) ==
    LET last == IF framed = {} THEN Nothing ELSE s.wins[Latest(framed)].ws
    IN  (IF s.ws # Nothing /\ last # s.ws /\ (first \/ last # Nothing \/ cur.ws # s.ws)
         THEN <<Cmd("focusWs", Nothing, s.ws)>> ELSE <<>>)
        \o (IF s.win \in DOMAIN cur.wins /\ (first \/ cur.win # s.win)
            THEN <<Cmd("focusWin", s.win, Nothing)>> ELSE <<>>)

\* restoreWorkspacePlan (first) and restoreWorkspaceResidualPlan
PlanOf(s, cur, first) ==
    LET framed == ToFrame(s, cur, first)
    IN  Arranging(s, cur) \o Framing(s, framed) \o Focusing(s, cur, first, framed)

Skipped(s, cur) == DOMAIN s.wins \ DOMAIN cur.wins

-----------------------------------------------------------------------------
(* What AeroSpace does *)

\* Focus on a workspace falls on one of its windows.
Focused(d, ws) ==
    {[d EXCEPT !.ws = ws, !.win = w] : w \in IF In(d, ws) = {} THEN {Nothing} ELSE In(d, ws)}

\* The focus is on a window of the focused workspace, if it has one.
Refocus(d) == IF d.win \in In(d, d.ws) THEN {d} ELSE Focused(d, d.ws)

\* What a command makes of the desktop; nothing if it fails.
Run(d, c) ==
    CASE c.do = "move" /\ c.win \in DOMAIN d.wins -> Refocus([d EXCEPT !.wins[c.win].ws = c.to])
      [] c.do = "layout" /\ c.win \in DOMAIN d.wins ->
            {[d EXCEPT !.wins[c.win] = [ws |-> @.ws, layout |-> c.to, frame |-> Frame(d, c.win)]]}
      [] c.do = "frame" /\ c.win \in DOMAIN d.wins -> {[d EXCEPT !.wins[c.win].frame = c.to]}
      [] c.do = "frame" /\ c.win \notin DOMAIN d.wins -> {d}
      [] c.do = "focusWs" -> Focused(d, c.to)
      [] c.do = "focusWin" /\ c.win \in DOMAIN d.wins ->
            {[d EXCEPT !.ws = d.wins[c.win].ws, !.win = c.win]}
      [] OTHER -> {}

-----------------------------------------------------------------------------
Unseen == [wins |-> <<>>, ws |-> Nothing, win |-> Nothing, at |-> 0, faults |-> 0]

InitRestore ==
    /\ desk \in Desktops /\ snapshot \in Snapshots
    /\ step = "plan" /\ commands = <<>> /\ tries = 0
    /\ captured = Unseen /\ verified = FALSE
    /\ moves = 0 /\ faults = 0

Fault == faults < MaxFaults /\ faults' = faults + 1
FaultIf(failed) == IF failed THEN Fault ELSE faults' = faults

\* The first plan is made of a capture without frames, which may fail.
Plan ==
    /\ step = "plan"
    /\ \/ step' = "exec" /\ commands' = PlanOf(snapshot, desk, TRUE) /\ UNCHANGED faults
       \/ step' = "failed" /\ commands' = commands /\ Fault
    /\ UNCHANGED <<desk, snapshot, tries, captured, verified, moves>>

\* executeRestorePlan, one command.  A command fails when its window is gone, or for a
\* reason of its own (a timed out one may still have worked).  Focusing a window that
\* raced the focus is let pass; any other failure ends the request.
Execute ==
    /\ step = "exec" /\ commands # <<>>
    /\ LET c == Head(commands) IN
       \/ /\ desk' \in Run(desk, c)
          /\ commands' = Tail(commands) /\ step' = step
          /\ UNCHANGED faults
       \/ /\ c.do = "focusWin"
          /\ commands' = Tail(commands) /\ step' = step
          /\ FaultIf(Run(desk, c) # {})
          /\ UNCHANGED desk
       \/ /\ step' = "failed"
          /\ FaultIf(Run(desk, c) # {})
          /\ desk' \in {desk} \cup Run(desk, c)
          /\ UNCHANGED commands
    /\ UNCHANGED <<snapshot, tries, captured, verified, moves>>

\* The windows whose frames verification looks for: those the snapshot has a frame of.
Framed == {w \in DOMAIN snapshot.wins \cap DOMAIN captured.wins : snapshot.wins[w].frame # Nothing}
Elsewhere == {captured.wins[w].ws : w \in Framed} \ {captured.ws}

\* verifyRestorePlan: the windows and the focus are listed first; no list ends the
\* request, while a focus that cannot be read is left out ...
List ==
    /\ step = "exec" /\ commands = <<>>
    /\ \/ /\ step' = "look"
          /\ \E ws \in {desk.ws, Nothing}, win \in {desk.win, Nothing} :
               /\ FaultIf(ws # desk.ws \/ win # desk.win)
               /\ captured' = [wins |-> [w \in Open |-> [desk.wins[w] EXCEPT !.frame = Nothing]],
                                ws |-> ws, win |-> win, at |-> moves, faults |-> faults']
       \/ step' = "failed" /\ captured' = captured /\ Fault
    /\ UNCHANGED <<desk, snapshot, commands, tries, verified, moves>>

\* ... then the frames are read, on each workspace in turn: some may stay unread, and
\* no workspace may have been focused for it.
Look ==
    /\ step = "look"
    /\ \E read \in SUBSET (Framed \cap Open) :
         /\ FaultIf(read # Framed \cap Open)
         /\ captured' = [wins |-> [w \in DOMAIN captured.wins |->
                            IF w \in read THEN [captured.wins[w] EXCEPT !.frame = Frame(desk, w)] ELSE captured.wins[w]],
                         ws |-> captured.ws, win |-> captured.win, at |-> captured.at, faults |-> faults']
         /\ \/ /\ \A w \in read : captured.wins[w].ws = captured.ws
               /\ step' = "judge" /\ desk' = desk
            \/ /\ Elsewhere # {}
               /\ step' = "back"
               /\ \E ws \in {captured.wins[w].ws : w \in Framed} : desk' \in Focused(desk, ws)
    /\ UNCHANGED <<snapshot, commands, tries, verified, moves>>

BackMutant ==
    /\ step = "back"
    /\ step' = "judge"
    /\ IF captured.ws # Nothing THEN desk' \in Focused(desk, captured.ws) ELSE desk' = desk
    /\ UNCHANGED <<snapshot, commands, tries, captured, verified, moves, faults>>
\* restoreFrameCaptureFocus: the window that had the focus, or else its workspace, as
\* far as they are known; a failure is swallowed.
GivenBack ==
    IF captured.win # Nothing
    THEN IF captured.win \in Open THEN Run(desk, Cmd("focusWin", captured.win, Nothing)) ELSE {desk}
    ELSE IF captured.ws # Nothing THEN Focused(desk, captured.ws) ELSE {desk}
Back ==
    /\ step = "back"
    /\ step' = "judge"
    /\ \/ desk' \in GivenBack /\ UNCHANGED faults
       \/ {captured.win, captured.ws} # {Nothing} /\ desk' = desk /\ Fault
    /\ UNCHANGED <<snapshot, commands, tries, captured, verified, moves>>

\* executeRestorePlanVerified: done when nothing is left over, or no retry is.
Judge ==
    LET rest == PlanOf(snapshot, captured, FALSE)
        right == rest = <<>> /\ Skipped(snapshot, captured) = {}
    IN  /\ step = "judge"
        /\ verified' = right
        /\ IF right \/ tries = Retries
           THEN step' = "done" /\ UNCHANGED <<tries, commands>>
           ELSE step' = "exec" /\ tries' = tries + 1 /\ commands' = rest
        /\ UNCHANGED <<desk, snapshot, captured, moves, faults>>

\* The user closes, moves, floats or tiles, or focuses a window.
Interfere ==
    /\ step \notin {"done", "failed"} /\ moves < MaxMoves
    /\ moves' = moves + 1
    /\ \E w \in Open :
         \/ desk' \in Refocus([desk EXCEPT !.wins = [v \in Open \ {w} |-> desk.wins[v]]])
         \/ \E ws \in Workspaces : desk' \in Run(desk, Cmd("move", w, ws))
         \/ \E layout \in {"floating", "tiles"} : desk' \in Run(desk, Cmd("layout", w, layout))
         \/ \E frame \in Places : desk' \in Run(desk, Cmd("frame", w, frame))
         \/ desk' \in Run(desk, Cmd("focusWin", w, Nothing))
    /\ desk' # desk
    /\ UNCHANGED <<snapshot, step, commands, tries, captured, verified, faults>>

NextRestore == Plan \/ Execute \/ List \/ Look \/ Back \/ Judge \/ Interfere

SpecRestore == InitRestore /\ [][NextRestore]_rvars

-----------------------------------------------------------------------------
\* A snapshot with a window both tiled and framed: its two halves cannot both be met.
Flips == \E w \in DOMAIN snapshot.wins :
            snapshot.wins[w].layout \notin {Nothing, "floating"} /\ snapshot.wins[w].frame # Nothing

\* A restore that nothing interfered with and in which no command or read failed, of
\* windows that are all there, ends verified at the first look, whatever the desktop was.
SettlesVerified ==
    (step = "done" /\ moves = 0 /\ faults = 0 /\ DOMAIN snapshot.wins \subseteq Open /\ ~Flips) =>
        verified /\ tries = 0

\* The verdict is true, whatever failed on the way: if nothing moved since the capture it
\* was made of, every window of the snapshot is where the snapshot has it, and so is the
\* focus, unless it could not be given back after that capture (the verdict stays then).
VerifiedIsTrue ==
    (step = "done" /\ verified /\ moves = captured.at) =>
        /\ \A w \in DOMAIN snapshot.wins :
             /\ w \in Open
             /\ desk.wins[w].ws = snapshot.wins[w].ws
             /\ snapshot.wins[w].layout \in {Nothing, desk.wins[w].layout}
             /\ snapshot.wins[w].frame \in {Nothing, Frame(desk, w)}
        /\ faults = captured.faults =>
             /\ snapshot.ws \in {Nothing, desk.ws}
             /\ snapshot.win \in Open => desk.win = snapshot.win

\* Looking for frames on other workspaces gives the focus back as far as it was read, to
\* the window or at least the workspace that had it, also when the frames could not be
\* read, unless something moved or the one command that gives it back failed.
LookKeepsFocus ==
    (step = "judge" /\ moves = captured.at /\ faults = captured.faults) =>
        captured.ws \in {Nothing, desk.ws} /\ captured.win \in {Nothing, desk.win}
=============================================================================
