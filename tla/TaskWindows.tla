---------------------------- MODULE TaskWindows ----------------------------
(***************************************************************************)
(* The two loops of the gateway that watch and move the user's windows: the *)
(* ambient saver, which stores the current task's desktop once two captures *)
(* in a row agree, and the follows-window orchestrator, which sends windows *)
(* claimed by other tasks home and takes shared windows along when the user *)
(* focuses another workspace.  Each tick is a chain of awaits; the user, the *)
(* app and the other loop act between any two.                              *)
(*                                                                         *)
(* Windows have app and title of their own, so a window is its own slot.     *)
(* Claims, observations and exclusions do not expire, and the store's reads  *)
(* do not fail.  The saver also compares the window that had the focus and   *)
(* the frames; here two captures agree when workspace and windows do.        *)
(***************************************************************************)
EXTENDS Naturals, FiniteSets

CONSTANTS
    Windows, Tasks, Workspaces,
    Home,          \* [Tasks -> Workspaces \cup {None}]: aerospace_workspace_id
    CreatedOn,     \* the same of the layout a task was created with
    Tag,           \* [Windows -> Tasks \cup {None}]: the [task:...] in a title
    Desks, Seen,   \* desktops, and stored observations, the gateway may start with
    Threshold,     \* minWorkspaceCount
    Retries,       \* FOREIGN_FOCUS_RESTORE_RETRIES
    MaxActs,       \* bound: acts of the user, the app and agents, and failures
    MemoryStore,   \* TRUE for the in-memory store, FALSE for Postgres
    None

ASSUME TaskWindowsAssumption == Threshold >= 2 /\ Retries \in Nat /\ MaxActs \in Nat

VARIABLES
    desk,          \* [at |-> [Windows -> Workspaces], ws |-> the focused one]
    manual, current,
    snapshots,     \* taskWorkspaceSnapshots, with who stored them
    layouts,       \* taskLayouts: the activeWorkspace of each
    lastSaved,     \* lastSavedSnapshotByTask, the saver's memory
    claims,        \* task window claims, as pairs
    observed,      \* window-workspace observations on a task workspace, as pairs
    excluded,      \* windows under a follows exclusion
    pending,       \* the saver's pending change
    saver,         \* the saver's tick
    lastFocused, follower,
    acts,
    late           \* history: saves since manual mode was entered

user == <<manual, current, excluded>>
stored == <<snapshots, layouts, lastSaved>>
saverVars == <<stored, observed, pending, saver, late>>
followerVars == <<lastFocused, follower>>
wvars == <<desk, user, claims, saverVars, followerVars, acts>>

Fails == acts < MaxActs /\ acts' = acts + 1
Works == acts' = acts

Owners(w, cl) == {t \in Tasks : <<t, w>> \in cl}

\* listFollowsWindows.  The in-memory store looks at exclusions for slots only.
Often == {w \in Windows : Cardinality({ws \in Workspaces : <<w, ws>> \in observed}) >= Threshold}
BySlot == Often \ excluded
Follows == BySlot \cup (IF MemoryStore THEN Often \ BySlot ELSE {})

\* What a capture tells: which windows are on the focused workspace, and whose they say they are.
SeenOn(ws) == {<<w, ws>> : w \in {v \in Windows : desk.at[v] = ws}}
TaggedClaims == {<<Tag[w], w>> : w \in {v \in Windows : Tag[v] # None}}

Eligible(w, t, cl) == Tag[w] \in {None, t} /\ Owners(w, cl) \subseteq {t}
\* filterSnapshotForTaskSave
Kept(raw, t, follows, cl) ==
    IF raw.ws = None THEN Windows
    ELSE {w \in Windows : (raw.at[w] = raw.ws \/ w \in follows) /\ Eligible(w, t, cl)}
Snap(raw, t, follows, cl) ==
    [ws |-> raw.ws, at |-> [w \in Kept(raw, t, follows, cl) |-> raw.at[w]]]

Resting == [pc |-> "idle"]

\* Postgres keeps manual mode over a restart.
InitWindows ==
    /\ desk \in Desks
    /\ manual \in (IF MemoryStore THEN {FALSE} ELSE BOOLEAN) /\ current \in Tasks
    /\ snapshots = [t \in Tasks |-> None] /\ layouts = CreatedOn /\ lastSaved = [t \in Tasks |-> None]
    /\ claims = {} /\ observed \in Seen /\ excluded = {}
    /\ pending = None /\ saver = Resting
    /\ lastFocused = None /\ follower = Resting
    /\ acts = 0 /\ late = 0

-----------------------------------------------------------------------------
(* Everybody else *)

FocusWorkspace ==
    \E ws \in Workspaces \ {desk.ws} :
        /\ desk' = [desk EXCEPT !.ws = ws]
        /\ UNCHANGED <<user, claims, saverVars>>

MoveWindow ==
    \E w \in Windows, ws \in Workspaces :
        /\ desk.at[w] # ws /\ desk' = [desk EXCEPT !.at[w] = ws]
        /\ UNCHANGED <<user, claims, saverVars>>

SetManualMode ==
    /\ manual' = ~manual /\ late' = 0
    /\ UNCHANGED <<desk, current, excluded, claims, stored, observed, pending, saver>>

\* POST /tasks/current
SetCurrentTask ==
    \E t \in (Tasks \cup {None}) \ {current} :
        /\ current' = t
        /\ UNCHANGED <<desk, manual, excluded, claims, saverVars>>

\* The app saves what it captured for the task of the paper it shows, unfiltered.
AppSaves ==
    \E t \in Tasks :
        /\ snapshots' = [snapshots EXCEPT ![t] = [by |-> "app", snap |-> [ws |-> desk.ws, at |-> desk.at]]]
        /\ UNCHANGED <<desk, user, claims, layouts, lastSaved, observed, pending, saver, late>>

\* PUT /tasks/:id/layout, with any snapshot
PutLayout ==
    \E t \in Tasks, ws \in Workspaces \cup {None} :
        /\ layouts[t] # ws /\ layouts' = [layouts EXCEPT ![t] = ws]
        /\ UNCHANGED <<desk, user, claims, snapshots, lastSaved, observed, pending, saver, late>>

ClaimTaskWindow ==
    \E t \in Tasks, w \in Windows :
        /\ <<t, w>> \notin claims /\ claims' = claims \cup {<<t, w>>}
        /\ UNCHANGED <<desk, user, saverVars>>

AddExclusion ==
    \E w \in Windows \ excluded :
        /\ excluded' = excluded \cup {w}
        /\ UNCHANGED <<desk, manual, current, claims, saverVars>>

Act ==
    /\ acts < MaxActs /\ acts' = acts + 1
    /\ \/ FocusWorkspace \/ MoveWindow \/ SetManualMode \/ SetCurrentTask
       \/ AppSaves \/ PutLayout \/ ClaimTaskWindow \/ AddExclusion
    /\ UNCHANGED followerVars

-----------------------------------------------------------------------------
(* The saver's tick *)

SaverStartMutant ==
    /\ saver = Resting
    /\ saver' = [pc |-> "task"]
    /\ UNCHANGED <<desk, user, claims, stored, observed, pending, late, followerVars, acts>>
SaverStart ==
    /\ saver = Resting
    /\ IF manual THEN pending' = None /\ saver' = Resting
       ELSE pending' = pending /\ saver' = [pc |-> "task"]
    /\ UNCHANGED <<desk, user, claims, stored, observed, late, followerVars, acts>>

SaverTask ==
    /\ saver.pc = "task"
    /\ IF current = None THEN pending' = None /\ saver' = Resting
       ELSE pending' = pending /\ saver' = [pc |-> "capture", task |-> current]
    /\ UNCHANGED <<desk, user, claims, stored, observed, late, followerVars, acts>>

\* The focused workspace may be unreadable; the capture itself may fail.
SaverCapture ==
    /\ saver.pc = "capture"
    /\ \/ /\ Fails /\ saver' = Resting
          /\ UNCHANGED <<claims, observed, pending>>
       \/ \E ws \in {desk.ws, None} :
            /\ IF ws = None THEN Fails ELSE Works
            /\ IF Home[saver.task] # None /\ ws \notin {None, Home[saver.task]}
               THEN /\ pending' = None /\ saver' = Resting
                    /\ UNCHANGED <<claims, observed>>
               ELSE /\ observed' = observed \cup SeenOn(ws)
                    /\ claims' = claims \cup TaggedClaims
                    /\ saver' = [pc |-> "filter", task |-> saver.task, raw |-> [ws |-> ws, at |-> desk.at]]
                    /\ pending' = pending
    /\ UNCHANGED <<desk, user, stored, late, followerVars>>

Comparing(task, snap, missing) == [pc |-> "compare", task |-> task, snap |-> snap, missing |-> missing]

\* The windows whose frames are saved: those of the focused workspace.
Framed(snap) == {w \in DOMAIN snap.at : snap.at[w] = snap.ws}

\* Filtered; then recaptureMissingActiveWorkspaceFrames captures again, for the frames.
\* It looks for windows that have moved since where they are now, or for all of them if
\* it cannot tell which workspace has the focus.
SaverFilter ==
    LET snap == Snap(saver.raw, saver.task, Follows, claims)
        there == {desk.at[w] : w \in Framed(snap)}
        wins == {w \in Windows : desk.at[w] = desk.ws}
    IN  /\ saver.pc = "filter"
        /\ \/ there = {} /\ Works /\ saver' = Comparing(saver.task, snap, FALSE)
           \/ there # {} /\ Fails /\ saver' = Resting
           \/ /\ there # {}
              /\ \E ws \in {desk.ws, None}, win \in wins \cup {None} :
                   /\ IF ws = None \/ (win = None /\ wins # {}) THEN Fails ELSE Works
                   /\ saver' = IF there = {ws} THEN Comparing(saver.task, snap, FALSE)
                               ELSE [pc |-> "look", task |-> saver.task, snap |-> snap, missing |-> FALSE,
                                     todo |-> there, on |-> ws, changed |-> FALSE, ws |-> ws, win |-> win]
        /\ UNCHANGED <<desk, user, claims, stored, observed, pending, late, followerVars>>

\* captureWindowFramesAcrossWorkspaces focuses the workspaces in turn; without the focus
\* the frames are missing.
SaverLook ==
    /\ saver.pc = "look"
    /\ \/ /\ saver.todo = {} /\ Works
          /\ saver' = IF saver.changed THEN [saver EXCEPT !.pc = "back"]
                      ELSE Comparing(saver.task, saver.snap, saver.missing)
          /\ desk' = desk
       \/ \E ws \in saver.todo :
            LET left == [saver EXCEPT !.todo = @ \ {ws}] IN
            \/ /\ ws = saver.on /\ Works
               /\ saver' = left /\ desk' = desk
            \/ /\ ws # saver.on /\ Works
               /\ saver' = [left EXCEPT !.on = ws, !.changed = TRUE] /\ desk' = [desk EXCEPT !.ws = ws]
            \/ /\ ws # saver.on /\ Fails
               /\ saver' = [left EXCEPT !.missing = TRUE] /\ desk' = desk
    /\ UNCHANGED <<user, claims, stored, observed, pending, late, followerVars>>

\* restoreFrameCaptureFocus: the window that had the focus takes it to where it is, else
\* its workspace gets it back; a failure is swallowed.
SaverBack ==
    LET to == IF saver.win # None THEN desk.at[saver.win]
              ELSE IF saver.ws # None THEN saver.ws ELSE desk.ws
    IN  /\ saver.pc = "back"
        /\ \/ Works /\ desk' = [desk EXCEPT !.ws = to]
           \/ Fails /\ desk' = desk
        /\ saver' = Comparing(saver.task, saver.snap, saver.missing)
        /\ UNCHANGED <<user, claims, stored, observed, pending, late, followerVars>>

\* Compared with what was saved last and what is pending.  Frames may be missing, which
\* nothing is saved without; a second equal capture may come too early.
SaverCompare ==
    LET task == saver.task
        now == [task |-> task, snap |-> saver.snap]
    IN  /\ saver.pc = "compare"
        /\ \/ /\ IF saver.missing THEN Works ELSE Framed(now.snap) # {} /\ Fails
              /\ pending' = None /\ saver' = Resting
           \/ /\ ~saver.missing /\ now.snap = lastSaved[task] /\ Works
              /\ pending' = None /\ saver' = Resting
           \/ /\ ~saver.missing /\ now.snap # lastSaved[task] /\ pending # now /\ Works
              /\ pending' = now /\ saver' = Resting
           \/ /\ ~saver.missing /\ now.snap # lastSaved[task] /\ pending = now
              /\ pending' = pending
              /\ \/ Works /\ saver' = [pc |-> "write", task |-> task, snap |-> now.snap]
                 \/ Fails /\ saver' = Resting
        /\ UNCHANGED <<desk, user, claims, stored, observed, late, followerVars>>

SaverWriteMutant ==
    /\ saver.pc = "write"
    /\ \/ /\ Fails /\ saver' = Resting
          /\ UNCHANGED <<layouts, lastSaved, late>>
       \/ /\ Works /\ saver' = [saver EXCEPT !.pc = "store"]
          /\ layouts' = [layouts EXCEPT ![saver.task] = saver.snap.ws]
          /\ lastSaved' = [lastSaved EXCEPT ![saver.task] = saver.snap]
          /\ late' = IF manual THEN late + 1 ELSE late
    /\ UNCHANGED <<desk, user, claims, snapshots, observed, pending, followerVars>>
\* Saved in two writes, the task's layout first; either may fail, and only the second
\* makes the saver remember.
SaverWrite ==
    /\ saver.pc = "write"
    /\ \/ /\ Fails /\ saver' = Resting
          /\ UNCHANGED <<layouts, late>>
       \/ /\ Works /\ saver' = [saver EXCEPT !.pc = "store"]
          /\ layouts' = [layouts EXCEPT ![saver.task] = saver.snap.ws]
          /\ late' = IF manual THEN late + 1 ELSE late
    /\ UNCHANGED <<desk, user, claims, snapshots, lastSaved, observed, pending, followerVars>>

\* The second write of a save that counts already is no save of its own.
SaverStore ==
    /\ saver.pc = "store"
    /\ saver' = Resting
    /\ \/ /\ Fails
          /\ UNCHANGED <<snapshots, lastSaved, pending, late>>
       \/ /\ Works
          /\ snapshots' = [snapshots EXCEPT ![saver.task] = [by |-> "saver", snap |-> saver.snap]]
          /\ lastSaved' = [lastSaved EXCEPT ![saver.task] = saver.snap]
          /\ pending' = None
          /\ late' = IF manual /\ late = 0 THEN 1 ELSE late
    /\ UNCHANGED <<desk, user, claims, layouts, observed, followerVars>>

SaverTick ==
    \/ SaverStart \/ SaverTask \/ SaverCapture \/ SaverFilter \/ SaverLook \/ SaverBack
    \/ SaverCompare \/ SaverWrite \/ SaverStore

-----------------------------------------------------------------------------
(* The follower's tick *)

\* ownerWorkspaceForTask
HomeOf(t) == IF Home[t] # None THEN Home[t] ELSE layouts[t]

\* A tick reads the home of an owner once, and the current task's until it has one.
Unread == "unread"
HomeFor(f, t) ==
    IF f.homes[t] = Unread \/ (t = f.task /\ f.homes[t] = None) THEN HomeOf(t) ELSE f.homes[t]

\* restoreFocusWindowId: some window the tick's capture saw there, unless it was moved.
Refocusing(f, ws, then) ==
    LET wins == {w \in Windows \ f.moved : f.at[w] = ws}
    IN  {[pc |-> "refocus", to |-> ws, win |-> w, tries |-> 1, then |-> then] :
            w \in IF wins = {} THEN {None} ELSE wins}

FollowerStart ==
    /\ follower = Resting
    /\ follower' = IF manual THEN Resting ELSE [pc |-> "task"]
    /\ UNCHANGED <<desk, user, claims, saverVars, lastFocused, acts>>

FollowerTask ==
    /\ follower.pc = "task"
    /\ follower' = IF current = None THEN Resting ELSE [pc |-> "focus", task |-> current]
    /\ UNCHANGED <<desk, user, claims, saverVars, lastFocused, acts>>

FollowerFocus ==
    /\ follower.pc = "focus"
    /\ \/ Fails /\ follower' = Resting
       \/ Works /\ follower' = [pc |-> "look", task |-> follower.task, ws |-> desk.ws]
    /\ UNCHANGED <<desk, user, claims, saverVars, lastFocused>>

FollowerLookMutant ==
    LET f == follower
        foreign == {w \in Windows : \E t \in Tasks \ {f.task} : Owners(w, claims) = {t}}
    IN  /\ f.pc = "look"
        /\ lastFocused' = f.ws
        /\ IF lastFocused = f.ws
           THEN follower' = Resting /\ Works
           ELSE \/ Fails /\ follower' = Resting
                \/ /\ Works
                   /\ follower' = [pc |-> "redirect", task |-> f.task, ws |-> f.ws, at |-> desk.at, cl |-> claims,
                                   homes |-> [t \in Tasks |-> Unread], switched |-> TRUE, moved |-> {},
                                   todo |-> {w \in foreign : desk.at[w] = f.ws}]
        /\ UNCHANGED <<desk, user, claims, saverVars>>
FollowerLookMutant2 ==
    LET f == follower
        foreign == {w \in Windows : \E t \in Tasks \ {f.task} : Owners(w, claims) = {t}}
    IN  /\ f.pc = "look"
        /\ lastFocused' = lastFocused
        /\ \/ Fails /\ follower' = Resting
           \/ /\ Works
              /\ follower' = [pc |-> "redirect", task |-> f.task, ws |-> f.ws, at |-> desk.at, cl |-> claims,
                              homes |-> [t \in Tasks |-> Unread], switched |-> lastFocused # f.ws, moved |-> {},
                              todo |-> {w \in foreign : desk.at[w] = f.ws}]
        /\ UNCHANGED <<desk, user, claims, saverVars>>
\* The switch counts as handled before the capture, which may fail.  Without a switch
\* only foreign claims make a capture worth while.  A window with two owners is left alone.
FollowerLook ==
    LET f == follower
        foreign == {w \in Windows : \E t \in Tasks \ {f.task} : Owners(w, claims) = {t}}
    IN  /\ f.pc = "look"
        /\ lastFocused' = f.ws
        /\ IF lastFocused = f.ws /\ \A c \in claims : c[1] = f.task
           THEN follower' = Resting /\ Works
           ELSE \/ Fails /\ follower' = Resting
                \/ /\ Works
                   /\ follower' = [pc |-> "redirect", task |-> f.task, ws |-> f.ws, at |-> desk.at, cl |-> claims,
                                   homes |-> [t \in Tasks |-> Unread], switched |-> lastFocused # f.ws, moved |-> {},
                                   todo |-> {w \in foreign : desk.at[w] = f.ws}]
        /\ UNCHANGED <<desk, user, claims, saverVars>>

\* redirectForeignClaimedWindows, one window.  AeroSpace may take the focus along; a
\* window that is home, while the task that is worked on is not, sends the user back.
FollowerRedirect ==
    /\ follower.pc = "redirect"
    /\ \E w \in follower.todo :
         LET f == [follower EXCEPT !.todo = @ \ {w}]
             owner == CHOOSE t \in Owners(w, f.cl) : TRUE
             to == HomeFor(f, owner)
             g == [f EXCEPT !.homes[owner] = to]
             back == HomeFor(f, f.task)
             h == [g EXCEPT !.homes[f.task] = back]
         IN  \/ /\ to = None
                /\ follower' = g /\ desk' = desk /\ Works
             \/ /\ to = f.ws
                /\ follower' \in IF back \in {None, f.ws} THEN {h} ELSE Refocusing(h, back, h)
                /\ desk' = desk /\ Works
             \/ /\ to \notin {None, f.ws}
                /\ \/ Fails /\ follower' = g /\ desk' = desk
                   \/ /\ Works
                      /\ follower' = [g EXCEPT !.moved = @ \cup {w}]
                      /\ \E ws \in {desk.ws, to} : desk' = [at |-> [desk.at EXCEPT ![w] = to], ws |-> ws]
    /\ UNCHANGED <<user, claims, saverVars, lastFocused>>

\* All redirected: if windows were moved, the focus goes back.
FollowerRedirected ==
    LET f == follower
        list == IF f.switched THEN [pc |-> "list", ws |-> f.ws, away |-> {w \in Windows \ f.moved : f.at[w] # f.ws}]
                ELSE Resting
    IN  /\ f.pc = "redirect" /\ f.todo = {}
        /\ follower' \in IF f.moved = {} THEN {list} ELSE Refocusing(f, f.ws, list)
        /\ UNCHANGED <<desk, user, claims, saverVars, lastFocused, acts>>

\* restoreFocusAfterForeignRedirect: an attempt focuses the workspace, then the window,
\* which drags the focus to where it is, then captures; any of them may fail.
NextAttempt ==
    IF follower.tries = Retries THEN follower.then ELSE [follower EXCEPT !.pc = "refocus", !.tries = @ + 1]

FollowerRefocus ==
    /\ follower.pc = "refocus"
    /\ \/ Fails /\ follower' = NextAttempt /\ desk' = desk
       \/ /\ Works
          /\ follower' = [follower EXCEPT !.pc = IF follower.win = None THEN "check" ELSE "window"]
          /\ desk' = [desk EXCEPT !.ws = follower.to]
    /\ UNCHANGED <<user, claims, saverVars, lastFocused>>

FollowerRefocusWindow ==
    /\ follower.pc = "window"
    /\ \/ Fails /\ follower' = NextAttempt /\ desk' = desk
       \/ /\ Works
          /\ follower' = [follower EXCEPT !.pc = "check"]
          /\ desk' = [desk EXCEPT !.ws = desk.at[follower.win]]
    /\ UNCHANGED <<user, claims, saverVars, lastFocused>>

FollowerCheck ==
    /\ follower.pc = "check"
    /\ \/ Fails /\ follower' = NextAttempt
       \/ Works /\ follower' = IF desk.ws = follower.to THEN follower.then ELSE NextAttempt
    /\ UNCHANGED <<desk, user, claims, saverVars, lastFocused>>

\* After a switch the shared windows follow, as they are listed now.
FollowerList ==
    /\ follower.pc = "list"
    /\ follower' = [pc |-> "follow", ws |-> follower.ws, todo |-> Follows \cap follower.away]
    /\ UNCHANGED <<desk, user, claims, saverVars, lastFocused, acts>>

FollowerFollow ==
    /\ follower.pc = "follow"
    /\ \/ follower.todo = {} /\ follower' = Resting /\ desk' = desk /\ Works
       \/ \E w \in follower.todo :
            /\ follower' = [follower EXCEPT !.todo = @ \ {w}]
            /\ \/ Fails /\ desk' = desk
               \/ Works /\ desk' = [desk EXCEPT !.at[w] = follower.ws]
    /\ UNCHANGED <<user, claims, saverVars, lastFocused>>

FollowerTick ==
    \/ FollowerStart \/ FollowerTask \/ FollowerFocus \/ FollowerLook \/ FollowerRedirect
    \/ FollowerRedirected \/ FollowerRefocus \/ FollowerRefocusWindow \/ FollowerCheck
    \/ FollowerList \/ FollowerFollow

NextWindows == Act \/ SaverTick \/ FollowerTick

SpecWindows == InitWindows /\ [][NextWindows]_wvars

\* Both loops are driven by setInterval as long as the gateway runs.
FairWindows == SpecWindows /\ WF_wvars(SaverTick) /\ WF_wvars(FollowerTick)

-----------------------------------------------------------------------------
\* Manual mode: the tick that was under way when it was entered may save once, no other.
ManualSavesOne == manual => late <= 1

\* If the user settles down in a task, out of manual mode, and the desktop comes to rest,
\* what is stored for the task becomes that desktop - unless the app stored something else
\* and the desktop is what the saver stored last, which it then takes for unchanged.  A
\* failure between the two writes of a save only delays it.
Settled(t) == ~manual /\ current = t /\ (Home[t] = None \/ desk.ws = Home[t])
DesktopIsSaved ==
    \A t \in Tasks :
        <>[]Settled(t) /\ <>[][desk' = desk]_wvars =>
            <>[](LET snap == Snap(desk, t, Follows, claims)
                 IN  /\ lastSaved[t] = snap /\ snapshots[t] # None
                     /\ snapshots[t].by = "saver" => snapshots[t].snap = snap)

\* A window that only another task claims, and whose home is elsewhere, does not stay on
\* the workspace the user works on.
ForeignHere(w) ==
    /\ ~manual /\ current # None /\ desk.at[w] = desk.ws
    /\ \E t \in Tasks \ {current} : Owners(w, claims) = {t} /\ HomeOf(t) \notin {None, desk.ws}
ForeignGoesHome == \A w \in Windows : ForeignHere(w) ~> ~ForeignHere(w)

\* The saver's look takes the focus away and gives it back.  When the follower does not act
\* during a look any more, both come to rest: neither undoes for ever what the other, or it
\* itself, does to the desktop.  Without that condition they may chase each other: a look that
\* overlaps a redirect gives the focus back to a window the follower has just sent away.
Undisturbed == saver.pc \in {"look", "back"} => follower = Resting
NoTugOfWar == <>[]Undisturbed => <>[][desk' = desk]_wvars

\* An exclusion stops a window from following (the stale list of a tick under way aside).
ExcludedStays == [][\A w \in excluded : (follower.pc # "follow" /\ follower'.pc = "follow") => w \notin follower'.todo]_wvars
=============================================================================
