----------------------------- MODULE ManualMode -----------------------------
(***************************************************************************)
(* Manual Mode, as the Mac client and the gateway keep it between them: the *)
(* client's mode, the gateway's flag that pauses leasing, and the keys that *)
(* enter, return, pull a paper and restore the manual desktop.  The view    *)
(* model runs on one actor, so a key's work is cut into steps at its awaits  *)
(* and other keys' steps fall between them.  shouldRestoreWorkspace is       *)
(* written wherever mode is and equals mode = "loop".                        *)
(***************************************************************************)
EXTENDS Naturals, FiniteSets

CONSTANTS
    Slots,        \* keys whose work may be under way at once
    MaxPresses    \* bound: keys pressed, the start of the app included

ASSUME ManualModeAssumption == IsFiniteSet(Slots) /\ MaxPresses \in Nat

VARIABLES
    mode,         \* the client's mode
    paused,       \* the gateway's manual-mode flag
    saved,        \* the client holds a manual workspace snapshot
    restoring,    \* workspaceRestoreInFlight
    recent,       \* what lastWorkspaceRestore is about, while it is fresh (2 s)
    timedOut,     \* what timedOutWorkspaceRestore is about, while it is fresh (12 s)
    work,         \* what each key's work has come to
    presses,      \* keys pressed so far
    handed,       \* history: papers handed out since the pause began
    returning     \* history: the last mode key asked for the loop, and nothing that
                  \* could undo it was still to start when it was pressed

vars == <<mode, paused, saved, restoring, recent, timedOut, work, presses, handed, returning>>

ModeKeys == {"enter", "return", "keep", "manualRestore", "boot"}
PaperKeys == {"pull", "next"}
Keys == ModeKeys \cup PaperKeys

\* was: the mode, or for a start the flag, that the work read before an await.
Idle == [key |-> "none", step |-> "idle", was |-> FALSE]

At(s, step) == work[s].step = step
Goto(s, step) == work' = [work EXCEPT ![s].step = step]
End(s) == work' = [work EXCEPT ![s] = Idle]
PaperActionInFlight == \E s \in Slots : work[s].key \in PaperKeys

Begin(s, key, step) ==
    /\ At(s, "idle") /\ presses < MaxPresses
    /\ presses' = presses + 1
    /\ work' = [work EXCEPT ![s] = [key |-> key, step |-> step, was |-> mode = "manual"]]

\* Work that may still start, or is about to finish, something that sets the mode to manual.
MayEnter(s) ==
    \/ work[s].key = "enter" /\ work[s].step \in {"sent", "reached", "saving"}
    \/ At(s, "restoringManual") /\ ~work[s].was
    \/ work[s].key = "boot"

AsksForLoop == returning' = (\A s \in Slots : ~MayEnter(s))

-----------------------------------------------------------------------------
Init ==
    /\ mode = "loop" /\ paused \in BOOLEAN
    /\ saved = FALSE /\ restoring = FALSE
    /\ recent = "none" /\ timedOut = "none"
    /\ work = [s \in Slots |-> Idle]
    /\ presses = 0 /\ handed = 0 /\ returning = FALSE

\* enterManualMode: the mode first, then the request.
PressEnter(s) ==
    /\ Begin(s, "enter", "sent")
    /\ mode' = "manual" /\ returning' = FALSE
    /\ UNCHANGED <<paused, saved, restoring, recent, timedOut, handed>>

\* returnToEventLoopModeAndPrepareWorkspaceRestore and ...KeepingCurrentLayout: the
\* manual desktop is captured first.  In the loop neither key changes anything here.
PressReturn(s, key) ==
    /\ key \in {"return", "keep"} /\ mode = "manual"
    /\ Begin(s, key, "capturing")
    /\ AsksForLoop
    /\ UNCHANGED <<mode, paused, saved, restoring, recent, timedOut, handed>>

\* beginPaperAction
PressPaper(s, key) ==
    /\ key \in PaperKeys
    /\ ~PaperActionInFlight /\ ~restoring /\ timedOut = "none"
    /\ Begin(s, key, IF key = "next" THEN "completing"
                     ELSE IF mode = "manual" \/ ~saved THEN "capturing" ELSE "asking")
    /\ UNCHANGED <<mode, paused, saved, restoring, recent, timedOut, handed, returning>>

\* confirmManualWorkspaceRestore up to its request, from work w: the guards in their order.
\* A remembered restore counts only if it was of the snapshot held now (same).
Confirm(s, w) ==
    \E same \in BOOLEAN :
       LET again == saved /\ ~restoring /\ same /\ recent = "manual"
           sends == saved /\ ~restoring /\ ~(same /\ "manual" \in {recent, timedOut})
       IN  /\ restoring' = (restoring \/ sends)
           /\ mode' = IF again THEN "manual" ELSE mode
           /\ work' = [work EXCEPT ![s] = IF sends THEN [w EXCEPT !.step = "restoringManual",
                                                                  !.was = mode = "manual"]
                                         ELSE Idle]

\* The menu's Restore Manual Workspace
PressManualRestore(s) ==
    /\ At(s, "idle") /\ presses < MaxPresses /\ saved
    /\ presses' = presses + 1
    /\ Confirm(s, [Idle EXCEPT !.key = "manualRestore"])
    /\ returning' = FALSE
    /\ UNCHANGED <<paused, saved, recent, timedOut, handed>>

\* The app is quit and started again; what its last requests asked for may or may not
\* have reached the gateway.  bootstrap then asks for the flag.
Relaunch(s) ==
    /\ presses < MaxPresses
    /\ presses' = presses + 1
    /\ mode' = "loop" /\ saved' = FALSE /\ restoring' = FALSE
    /\ recent' = "none" /\ timedOut' = "none"
    /\ paused' \in {paused} \cup {TRUE : r \in {r \in Slots : At(r, "sent")}}
                            \cup {FALSE : r \in {r \in Slots : At(r, "exiting")}}
    /\ handed' = (IF paused' /\ ~paused THEN 0 ELSE handed)
                 + (IF paused' /\ \E r \in Slots : At(r, "granting") THEN 1 ELSE 0)
    /\ work' = [r \in Slots |-> IF r = s THEN [Idle EXCEPT !.key = "boot", !.step = "asking"] ELSE Idle]
    /\ returning' = FALSE

-----------------------------------------------------------------------------
(* POST /modes/manual, the flag and its two answers *)

\* The gateway takes the request; a pause that begins starts the count of what it lets out.
Reach(s, sent, reached, flag) ==
    /\ At(s, sent) /\ Goto(s, reached)
    /\ paused' = flag
    /\ handed' = IF flag /\ ~paused THEN 0 ELSE handed
    /\ UNCHANGED <<mode, saved, restoring, recent, timedOut, presses, returning>>

EnterReaches(s) == Reach(s, "sent", "reached", TRUE)
ExitReaches(s) == Reach(s, "exiting", "exited", FALSE)

\* The answer to an entry: unless the mode changed meanwhile, the task's layout is saved.
EnterAnswered(s) ==
    /\ At(s, "reached")
    /\ IF mode = "manual" THEN Goto(s, "saving") ELSE End(s)
    /\ UNCHANGED <<mode, paused, saved, restoring, recent, timedOut, presses, handed, returning>>

\* The request or its answer is lost: the mode goes back.
EnterFails(s) ==
    /\ work[s].step \in {"sent", "reached"}
    /\ mode' = IF work[s].was THEN mode ELSE "loop"
    /\ IF mode' = "manual" THEN Goto(s, "saving") ELSE End(s)
    /\ UNCHANGED <<paused, saved, restoring, recent, timedOut, presses, handed, returning>>

\* The layout is saved or not; then the manual desktop is restored if there is one.
LayoutSaved(s) ==
    /\ At(s, "saving")
    /\ Confirm(s, work[s])
    /\ UNCHANGED <<paused, saved, recent, timedOut, presses, handed, returning>>

\* An exit is answered or lost: its mode was set before it was sent.  A pull goes on.
ExitEnds(s) ==
    /\ work[s].step \in {"exiting", "exited"}
    /\ IF work[s].key = "pull" THEN Goto(s, "asking") ELSE End(s)
    /\ UNCHANGED <<mode, paused, saved, restoring, recent, timedOut, presses, handed, returning>>

\* syncManualModeFromServer; the flag's value when it was asked for is what comes back.
BootAsks(s) ==
    /\ At(s, "asking") /\ work[s].key = "boot"
    /\ work' = [work EXCEPT ![s].step = "answered", ![s].was = paused]
    /\ UNCHANGED <<mode, paused, saved, restoring, recent, timedOut, presses, handed, returning>>

BootAnswered(s) ==
    /\ At(s, "answered") /\ End(s)
    /\ mode' = IF work[s].was THEN "manual" ELSE "loop"
    /\ UNCHANGED <<paused, saved, restoring, recent, timedOut, presses, handed, returning>>

BootFails(s) ==
    /\ work[s].key = "boot" /\ End(s)
    /\ UNCHANGED <<mode, paused, saved, restoring, recent, timedOut, presses, handed, returning>>

-----------------------------------------------------------------------------
(* Returning, and pulling a paper *)

\* What follows when a paper's restore is over or is not to be: a return tells the gateway.
Leave(s) ==
    IF work[s].key = "return" /\ work[s].was THEN Goto(s, "exiting") ELSE End(s)

\* prepareSelectedWorkspaceRestore: nothing without a snapshot or in manual mode m.
Prepare(s, m) == Leave(s) \/ (m = "loop" /\ Goto(s, "planning"))

\* captureManualWorkspaceSnapshot, done or failed.  A pull looks at the mode again.
Captured(s) ==
    /\ At(s, "capturing")
    /\ saved' \in BOOLEAN
    /\ mode' = IF work[s].was THEN "loop" ELSE mode
    /\ \/ work[s].key = "keep" /\ Goto(s, "exiting")
       \/ work[s].key = "return" /\ restoring /\ Goto(s, "waiting")
       \/ work[s].key = "return" /\ ~restoring /\ Prepare(s, "loop")
       \/ work[s].key = "pull" /\ Goto(s, IF work[s].was /\ mode = "manual" THEN "exiting" ELSE "asking")
    /\ UNCHANGED <<paused, restoring, recent, timedOut, presses, handed, returning>>

\* waitForWorkspaceRestoreInFlightToFinish, for six seconds at most
Waited(s) ==
    /\ At(s, "waiting")
    /\ Prepare(s, mode)
    /\ UNCHANGED <<mode, paused, saved, restoring, recent, timedOut, presses, handed, returning>>

\* The decision on the paper at hand: done, or refused.
Completed(s) ==
    /\ At(s, "completing")
    /\ Goto(s, "asking") \/ End(s)
    /\ UNCHANGED <<mode, paused, saved, restoring, recent, timedOut, presses, handed, returning>>

LeaseAskMutant(s) ==
    /\ At(s, "asking") /\ work[s].key \in PaperKeys
    /\ Goto(s, "granting")
    /\ UNCHANGED <<mode, paused, saved, restoring, recent, timedOut, presses, handed, returning>>
LeaseAskMutant2(s) ==
    /\ At(s, "asking") /\ work[s].key \in PaperKeys /\ ~paused
    /\ Goto(s, "granting")
    /\ UNCHANGED <<mode, paused, saved, restoring, recent, timedOut, presses, handed, returning>>
\* POST /queue/lease-next checks the flag.  A pull whose selected paper's lease could be
\* renewed does not ask; a request may fail.
LeaseAsk(s) ==
    /\ At(s, "asking") /\ work[s].key \in PaperKeys
    /\ \/ Goto(s, IF paused THEN "fetching" ELSE "granting")
       \/ work[s].key = "pull" /\ Goto(s, "fetching")
       \/ End(s)
    /\ UNCHANGED <<mode, paused, saved, restoring, recent, timedOut, presses, handed, returning>>

\* ... and leases in a later await.
Grant(s) ==
    /\ At(s, "granting")
    /\ Goto(s, "fetching")
    /\ handed' = IF paused THEN handed + 1 ELSE handed
    /\ UNCHANGED <<mode, paused, saved, restoring, recent, timedOut, presses, returning>>

\* fetchQueue, then the paper's workspace
Fetched(s) ==
    /\ At(s, "fetching")
    /\ Prepare(s, mode)
    /\ UNCHANGED <<mode, paused, saved, restoring, recent, timedOut, presses, handed, returning>>

-----------------------------------------------------------------------------
(* Restores *)

\* The plan arrives, or fails, or asks for nothing; executeWorkspaceRestore then looks at
\* what is in flight or remembered, not at the mode.
Planned(s) ==
    /\ At(s, "planning")
    /\ \/ /\ ~restoring
          /\ restoring' = TRUE /\ Goto(s, "restoring")
       \/ /\ restoring' = restoring /\ Leave(s)
    /\ UNCHANGED <<mode, paused, saved, recent, timedOut, presses, handed, returning>>

RestoredMutant(s) ==
    /\ At(s, "restoring")
    /\ recent' = "paper"
    /\ Leave(s)
    /\ UNCHANGED <<mode, paused, saved, restoring, timedOut, presses, handed, returning>>
\* executeWorkspaceRestore's answer: restored, failed, or timed out.
Restored(s) ==
    /\ At(s, "restoring")
    /\ restoring' = FALSE
    /\ \/ recent' = "paper" /\ timedOut' \in {timedOut, IF timedOut = "paper" THEN "none" ELSE timedOut}
       \/ recent' = recent /\ timedOut' \in {timedOut, "paper"}
    /\ Leave(s)
    /\ UNCHANGED <<mode, paused, saved, presses, handed, returning>>

ManualRestoredMutant(s) ==
    /\ At(s, "restoringManual")
    /\ restoring' = FALSE /\ recent' = "manual" /\ mode' = "manual"
    /\ End(s)
    /\ UNCHANGED <<paused, saved, timedOut, presses, handed, returning>>
\* confirmManualWorkspaceRestore's answer: unless it began in manual mode and the user has
\* returned, the mode is manual now, and the gateway is not told.
ManualRestored(s) ==
    LET left == work[s].was /\ mode # "manual"
    IN  /\ At(s, "restoringManual")
        /\ restoring' = FALSE
        /\ \/ /\ recent' = "manual"
              /\ timedOut' \in {timedOut, IF timedOut = "manual" THEN "none" ELSE timedOut}
              /\ mode' = IF left THEN mode ELSE "manual"
           \/ /\ timedOut' \in {timedOut, IF left THEN timedOut ELSE "manual"}
              /\ UNCHANGED <<recent, mode>>
        /\ End(s)
        /\ UNCHANGED <<paused, saved, presses, handed, returning>>

\* The two seconds, or the twelve, are over.
Forget ==
    /\ \/ recent # "none" /\ recent' = "none" /\ timedOut' = timedOut
       \/ timedOut # "none" /\ timedOut' = "none" /\ recent' = recent
    /\ UNCHANGED <<mode, paused, saved, restoring, work, presses, handed, returning>>

-----------------------------------------------------------------------------
Press(s) ==
    \/ PressEnter(s) /\ mode = "loop"
    \/ \E key \in {"return", "keep"} : PressReturn(s, key)
    \/ \E key \in PaperKeys : PressPaper(s, key)
    \/ PressManualRestore(s)
    \/ Relaunch(s)

Work(s) ==
    \/ EnterReaches(s) \/ EnterAnswered(s) \/ EnterFails(s) \/ LayoutSaved(s)
    \/ ExitReaches(s) \/ ExitEnds(s)
    \/ BootAsks(s) \/ BootAnswered(s) \/ BootFails(s)
    \/ Captured(s) \/ Waited(s) \/ Completed(s)
    \/ LeaseAsk(s) \/ Grant(s) \/ Fetched(s)
    \/ Planned(s) \/ Restored(s) \/ ManualRestored(s)

Next == (\E s \in Slots : Press(s) \/ Work(s)) \/ Forget

Spec == Init /\ [][Next]_vars

\* Every await comes back: the requests have time limits, the waits are bounded.
FairSpec == Spec /\ \A s \in Slots : WF_vars(Work(s))

-----------------------------------------------------------------------------
Steps == {"idle", "sent", "reached", "saving", "exiting", "exited", "asking", "answered",
          "capturing", "waiting", "completing", "granting", "fetching", "planning",
          "restoring", "restoringManual"}

Job == [key : Keys \cup {"none"}, step : Steps, was : BOOLEAN]

\* Every variable holds a value of its type.
TypeOK ==
    /\ mode \in {"loop", "manual"}
    /\ paused \in BOOLEAN /\ saved \in BOOLEAN
    /\ restoring \in BOOLEAN /\ returning \in BOOLEAN
    /\ recent \in {"none", "paper", "manual"} /\ timedOut \in {"none", "paper", "manual"}
    /\ work \in [Slots -> Job]
    /\ presses \in 0..MaxPresses
    /\ handed \in Nat

\* A pause lets out at most the one paper whose request had passed the check when it began
\* (the check and the lease are separate awaits; the client has one paper action at a time).
PauseHandsOutOne == handed <= 1

\* One restore runs at a time, and restoring says whether one does: a key that finds it
\* set is refused, so it must not be left set, nor be cleared by another restore's end.
OneRestore ==
    /\ Cardinality({s \in Slots : work[s].step \in {"restoring", "restoringManual"}}) <= 1
    /\ restoring = \E s \in Slots : work[s].step \in {"restoring", "restoringManual"}

\* Once the user returned to the loop, what was under way does not put the app into manual
\* mode again, such as a manual restore begun in manual mode that ends late.  Only
\* a return counts that finds no entry, no start of the app and no manual restore begun
\* outside manual mode still in progress (MayEnter), since those may still set the mode.
ReturnSticks ==
    (returning /\ \A s \in Slots : ~(work[s].key \in {"return", "keep"} /\ At(s, "capturing")))
        => mode = "loop"

\* Every key's work ends, so the keys that wait for it are not refused for ever.
KeysComeBack == \A s \in Slots : work[s].key # "none" ~> work[s].key = "none"
=============================================================================
