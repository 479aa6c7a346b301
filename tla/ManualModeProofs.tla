-------------------------- MODULE ManualModeProofs --------------------------
(***************************************************************************)
(* Proofs about ManualMode, for any number of keys under way and pressed,   *)
(* and, at the end, about what manual mode means to the saver's loop.       *)
(* The invariants need what the code never writes down: which keys a step   *)
(* belongs to, that one paper action is under way at a time, and that       *)
(* nothing that could enter manual mode is left when a return counts.       *)
(***************************************************************************)
EXTENDS ManualMode, TaskWindows, FiniteSetTheorems, TLAPS

Restores(s) == work[s].step \in {"restoring", "restoringManual"}

WorkOK == work \in [Slots -> Job]

RestOK ==
    /\ mode \in {"loop", "manual"}
    /\ paused \in BOOLEAN /\ saved \in BOOLEAN
    /\ restoring \in BOOLEAN /\ returning \in BOOLEAN
    /\ recent \in {"none", "paper", "manual"} /\ timedOut \in {"none", "paper", "manual"}
    /\ presses \in 0..MaxPresses
    /\ handed \in Nat

\* The keys a step belongs to.
Shaped ==
    \A s \in Slots :
       /\ work[s].step \in {"sent", "reached", "saving"} => work[s].key = "enter"
       /\ At(s, "answered") => work[s].key = "boot"
       /\ work[s].key = "boot" => work[s].step \in {"asking", "answered"}
       /\ At(s, "granting") => work[s].key \in PaperKeys
       /\ At(s, "capturing") /\ work[s].key \in {"return", "keep"} => work[s].was

OnePaperAction ==
    \A s, z \in Slots : work[s].key \in PaperKeys /\ work[z].key \in PaperKeys => s = z

Alone ==
    /\ \A s, z \in Slots : Restores(s) /\ Restores(z) => s = z
    /\ restoring <=> \E s \in Slots : Restores(s)

\* While the gateway is paused, a paper that is still to be let out is the first.
FewHanded ==
    /\ handed <= 1
    /\ paused /\ (\E s \in Slots : At(s, "granting")) => handed = 0

\* After a return that counts, nothing is left that could enter manual mode, and the mode
\* is manual only until the return has captured the desktop.
Returned ==
    returning => /\ \A s \in Slots : ~MayEnter(s)
                 /\ mode = "manual" =>
                       \E s \in Slots : work[s].key \in {"return", "keep"} /\ At(s, "capturing")

IInv == TypeOK /\ Shaped /\ OnePaperAction /\ Alone /\ FewHanded /\ Returned

-----------------------------------------------------------------------------
\* A slot's work changes as a record.
LEMMA Jobs ==
    ASSUME IInv, NEW s \in Slots, NEW job \in Job
    PROVE  [work EXCEPT ![s] = job] \in [Slots -> Job]
  BY DEF IInv, TypeOK

LEMMA IdleOK == Idle \in Job
  BY DEF Idle, Job, Steps

LEMMA GotoOK == ASSUME IInv, NEW s \in Slots, NEW step \in Steps, Goto(s, step) PROVE WorkOK'
<1>1. [work[s] EXCEPT !.step = step] \in Job
  BY DEF IInv, TypeOK, Job
<1> QED
  BY <1>1, Jobs DEF Goto, WorkOK, IInv, TypeOK

LEMMA EndOK == ASSUME IInv, NEW s \in Slots, End(s) PROVE WorkOK'
  BY IdleOK, Jobs DEF End, WorkOK

LEMMA BeginOK ==
    ASSUME IInv, NEW s \in Slots, NEW key \in Keys, NEW step \in Steps, Begin(s, key, step)
    PROVE  WorkOK'
<1>1. [key |-> key, step |-> step, was |-> (mode = "manual")] \in Job
  BY DEF Job
<1> QED
  BY <1>1, Jobs DEF Begin, WorkOK

LEMMA ConfirmOK ==
    ASSUME IInv, NEW s \in Slots, NEW w \in Job, Confirm(s, w)
    PROVE  WorkOK'
<1>1. [w EXCEPT !.step = "restoringManual", !.was = (mode = "manual")] \in Job
  BY DEF Job, Steps
<1>2. \/ work' = [work EXCEPT ![s] = [w EXCEPT !.step = "restoringManual", !.was = (mode = "manual")]]
      \/ work' = [work EXCEPT ![s] = Idle]
  BY DEF Confirm
<1> QED
  BY <1>1, <1>2, IdleOK, Jobs DEF WorkOK

LEMMA ConfirmAlone ==
    ASSUME IInv, NEW s \in Slots, NEW w \in Job, Confirm(s, w), ~Restores(s)
    PROVE  Alone'
<1>1. [w EXCEPT !.step = "restoringManual", !.was = (mode = "manual")].step = "restoringManual"
  BY DEF Job
<1>2. PICK job : /\ work' = [work EXCEPT ![s] = job]
                 /\ \/ job.step = "restoringManual" /\ ~restoring /\ restoring'
                    \/ job.step = "idle" /\ (restoring' <=> restoring)
  <2>1. Idle.step = "idle"
    BY DEF Idle
  <2> QED
    BY <1>1, <2>1 DEF Confirm
<1>3. work'[s] = job /\ \A z \in Slots \ {s} : work'[z] = work[z]
  BY <1>2 DEF IInv, TypeOK
<1> QED
  BY <1>2, <1>3 DEF IInv, Alone, Restores

LEMMA InitOK == Init => IInv
<1> SUFFICES ASSUME Init PROVE IInv
  OBVIOUS
<1>1. TypeOK
  <2>1. \A s \in Slots : Idle \in Job
    BY IdleOK
  <2>2. work \in [Slots -> Job]
    BY <2>1 DEF Init
  <2>3. 0 \in 0..MaxPresses
    BY ManualModeAssumption
  <2> QED
    BY <2>2, <2>3 DEF Init, TypeOK
<1>2. \A s \in Slots : work[s] = Idle
  BY DEF Init
<1> QED
  BY <1>1, <1>2
     DEF Init, IInv, Shaped, OnePaperAction, Alone, FewHanded, Returned, Restores,
         At, Idle, Job, Steps, Keys, ModeKeys, PaperKeys, MayEnter

\* What a key's work may come to.
LEMMA WorkStep == IInv /\ [Next]_vars => WorkOK'
<1> SUFFICES ASSUME IInv, [Next]_vars PROVE WorkOK'
  OBVIOUS
<1>1. ASSUME NEW s \in Slots, PressEnter(s) PROVE WorkOK'
  BY <1>1, Jobs, BeginOK, GotoOK, EndOK DEF IInv, PressEnter, Keys, ModeKeys, PaperKeys,
     Steps
<1>2. ASSUME NEW s \in Slots, NEW key \in {"return", "keep"}, PressReturn(s, key) PROVE WorkOK'
  BY <1>2, Jobs, BeginOK, GotoOK, EndOK DEF IInv, PressReturn, Keys, ModeKeys, PaperKeys,
     Steps
<1>3. ASSUME NEW s \in Slots, NEW key \in PaperKeys, PressPaper(s, key) PROVE WorkOK'
  BY <1>3, Jobs, BeginOK, GotoOK, EndOK DEF IInv, PressPaper, Keys, ModeKeys, PaperKeys,
     Steps
<1>4. ASSUME NEW s \in Slots, PressManualRestore(s) PROVE WorkOK'
  <2>1. [Idle EXCEPT !.key = "manualRestore"] \in Job
    BY DEF Idle, Job, Steps, Keys, ModeKeys
  <2> QED
    BY <1>4, <2>1, ConfirmOK DEF PressManualRestore
<1>5. ASSUME NEW s \in Slots, EnterReaches(s) PROVE WorkOK'
  BY <1>5, Jobs, BeginOK, GotoOK, EndOK DEF IInv, EnterReaches, Reach, Keys, ModeKeys,
     PaperKeys, Steps
<1>6. ASSUME NEW s \in Slots, EnterAnswered(s) PROVE WorkOK'
  BY <1>6, Jobs, BeginOK, GotoOK, EndOK DEF IInv, EnterAnswered, Keys, ModeKeys,
     PaperKeys, Steps
<1>7. ASSUME NEW s \in Slots, EnterFails(s) PROVE WorkOK'
  BY <1>7, Jobs, BeginOK, GotoOK, EndOK DEF IInv, EnterFails, Keys, ModeKeys, PaperKeys,
     Steps
<1>8. ASSUME NEW s \in Slots, LayoutSaved(s) PROVE WorkOK'
  <2>1. work[s] \in Job
    BY DEF IInv, TypeOK
  <2> QED
    BY <1>8, <2>1, ConfirmOK DEF LayoutSaved
<1>9. ASSUME NEW s \in Slots, ExitReaches(s) PROVE WorkOK'
  BY <1>9, Jobs, BeginOK, GotoOK, EndOK DEF IInv, ExitReaches, Reach, Keys, ModeKeys,
     PaperKeys, Steps
<1>10. ASSUME NEW s \in Slots, ExitEnds(s) PROVE WorkOK'
  BY <1>10, Jobs, BeginOK, GotoOK, EndOK DEF IInv, ExitEnds, Keys, ModeKeys, PaperKeys,
     Steps
<1>11. ASSUME NEW s \in Slots, BootAsks(s) PROVE WorkOK'
  <2>1. [work[s] EXCEPT !.step = "answered", !.was = paused] \in Job
    BY DEF IInv, TypeOK, Job, Steps
  <2> QED
    BY <1>11, <2>1, Jobs DEF BootAsks, WorkOK, IInv, TypeOK
<1>12. ASSUME NEW s \in Slots, BootAnswered(s) PROVE WorkOK'
  BY <1>12, Jobs, BeginOK, GotoOK, EndOK DEF IInv, BootAnswered, Keys, ModeKeys,
     PaperKeys, Steps
<1>13. ASSUME NEW s \in Slots, BootFails(s) PROVE WorkOK'
  BY <1>13, Jobs, BeginOK, GotoOK, EndOK DEF IInv, BootFails, Keys, ModeKeys, PaperKeys,
     Steps
<1>14. ASSUME NEW s \in Slots, Captured(s) PROVE WorkOK'
  BY <1>14, Jobs, BeginOK, GotoOK, EndOK DEF IInv, Captured, Prepare, Leave, Keys,
     ModeKeys, PaperKeys, Steps
<1>15. ASSUME NEW s \in Slots, Waited(s) PROVE WorkOK'
  BY <1>15, Jobs, BeginOK, GotoOK, EndOK DEF IInv, Waited, Prepare, Leave, Keys, ModeKeys,
     PaperKeys, Steps
<1>16. ASSUME NEW s \in Slots, Completed(s) PROVE WorkOK'
  BY <1>16, Jobs, BeginOK, GotoOK, EndOK DEF IInv, Completed, Keys, ModeKeys, PaperKeys,
     Steps
<1>17. ASSUME NEW s \in Slots, LeaseAsk(s) PROVE WorkOK'
  BY <1>17, Jobs, BeginOK, GotoOK, EndOK DEF IInv, LeaseAsk, Keys, ModeKeys, PaperKeys,
     Steps
<1>18. ASSUME NEW s \in Slots, Grant(s) PROVE WorkOK'
  BY <1>18, Jobs, BeginOK, GotoOK, EndOK DEF IInv, Grant, Keys, ModeKeys, PaperKeys, Steps
<1>19. ASSUME NEW s \in Slots, Fetched(s) PROVE WorkOK'
  BY <1>19, Jobs, BeginOK, GotoOK, EndOK DEF IInv, Fetched, Prepare, Leave, Keys,
     ModeKeys, PaperKeys, Steps
<1>20. ASSUME NEW s \in Slots, Planned(s) PROVE WorkOK'
  BY <1>20, Jobs, BeginOK, GotoOK, EndOK DEF IInv, Planned, Leave, Keys, ModeKeys,
     PaperKeys, Steps
<1>21. ASSUME NEW s \in Slots, Restored(s) PROVE WorkOK'
  BY <1>21, Jobs, BeginOK, GotoOK, EndOK DEF IInv, Restored, Leave, Keys, ModeKeys,
     PaperKeys, Steps
<1>22. ASSUME NEW s \in Slots, ManualRestored(s) PROVE WorkOK'
  BY <1>22, Jobs, BeginOK, GotoOK, EndOK DEF IInv, ManualRestored, Keys, ModeKeys,
     PaperKeys, Steps
<1>23. ASSUME NEW s \in Slots, Relaunch(s) PROVE WorkOK'
  <2>1. [Idle EXCEPT !.key = "boot", !.step = "asking"] \in Job
    BY DEF Idle, Job, Steps, Keys, ModeKeys
  <2> QED
    BY <1>23, <2>1, IdleOK DEF Relaunch, WorkOK
<1>24. CASE Forget
  BY <1>24 DEF IInv, Forget, TypeOK, WorkOK
<1>25. CASE UNCHANGED vars
  BY <1>25 DEF IInv, vars, TypeOK, WorkOK
<1> QED
BY <1>1, <1>2, <1>3, <1>4, <1>5, <1>6, <1>7, <1>8, <1>9, <1>10, <1>11, <1>12, <1>13,
     <1>14, <1>15, <1>16, <1>17, <1>18, <1>19, <1>20, <1>21, <1>22, <1>23, <1>24, <1>25
     DEF Next, Press, Work

\* The types of the other variables.
LEMMA RestStep == IInv /\ [Next]_vars => RestOK'
<1> SUFFICES ASSUME IInv, [Next]_vars PROVE RestOK'
  OBVIOUS
<1>1. ASSUME NEW s \in Slots, PressEnter(s) PROVE RestOK'
  <2>1. presses' \in 0..MaxPresses
    BY <1>1, ManualModeAssumption DEF IInv, TypeOK, PressEnter, Begin
  <2>2. mode' = "manual" /\ returning' = FALSE
        /\ UNCHANGED <<paused, saved, restoring, recent, timedOut, handed>>
    BY <1>1 DEF PressEnter
  <2> QED
    BY <2>1, <2>2 DEF IInv, TypeOK, RestOK
<1>2. ASSUME NEW s \in Slots, NEW key \in {"return", "keep"}, PressReturn(s, key) PROVE RestOK'
  BY <1>2, ManualModeAssumption DEF IInv, PressReturn, Begin, AsksForLoop, TypeOK, RestOK
<1>3. ASSUME NEW s \in Slots, NEW key \in PaperKeys, PressPaper(s, key) PROVE RestOK'
  BY <1>3, ManualModeAssumption DEF IInv, PressPaper, Begin, TypeOK, RestOK
<1>4. ASSUME NEW s \in Slots, PressManualRestore(s) PROVE RestOK'
  <2>1. presses' \in 0..MaxPresses
    BY <1>4, ManualModeAssumption DEF IInv, TypeOK, PressManualRestore
  <2>2. restoring' \in BOOLEAN /\ mode' \in {"loop", "manual"}
    BY <1>4 DEF IInv, TypeOK, PressManualRestore, Confirm
  <2>3. returning' = FALSE /\ UNCHANGED <<paused, saved, recent, timedOut, handed>>
    BY <1>4 DEF PressManualRestore
  <2> QED
    BY <2>1, <2>2, <2>3 DEF IInv, TypeOK, RestOK
<1>5. ASSUME NEW s \in Slots, EnterReaches(s) PROVE RestOK'
  BY <1>5 DEF IInv, EnterReaches, Reach, Goto, TypeOK, RestOK
<1>6. ASSUME NEW s \in Slots, EnterAnswered(s) PROVE RestOK'
  BY <1>6 DEF IInv, EnterAnswered, Goto, End, Idle, TypeOK, RestOK
<1>7. ASSUME NEW s \in Slots, EnterFails(s) PROVE RestOK'
  BY <1>7 DEF IInv, EnterFails, Goto, End, Idle, TypeOK, RestOK
<1>8. ASSUME NEW s \in Slots, LayoutSaved(s) PROVE RestOK'
  BY <1>8 DEF IInv, LayoutSaved, Confirm, Idle, TypeOK, RestOK
<1>9. ASSUME NEW s \in Slots, ExitReaches(s) PROVE RestOK'
  BY <1>9 DEF IInv, ExitReaches, Reach, Goto, TypeOK, RestOK
<1>10. ASSUME NEW s \in Slots, ExitEnds(s) PROVE RestOK'
  BY <1>10 DEF IInv, ExitEnds, Goto, End, Idle, TypeOK, RestOK
<1>11. ASSUME NEW s \in Slots, BootAsks(s) PROVE RestOK'
  BY <1>11 DEF IInv, BootAsks, TypeOK, RestOK
<1>12. ASSUME NEW s \in Slots, BootAnswered(s) PROVE RestOK'
  BY <1>12 DEF IInv, BootAnswered, End, Idle, TypeOK, RestOK
<1>13. ASSUME NEW s \in Slots, BootFails(s) PROVE RestOK'
  BY <1>13 DEF IInv, BootFails, End, Idle, TypeOK, RestOK
<1>14. ASSUME NEW s \in Slots, Captured(s) PROVE RestOK'
  BY <1>14 DEF IInv, Captured, Prepare, Leave, Goto, End, Idle, TypeOK, RestOK
<1>15. ASSUME NEW s \in Slots, Waited(s) PROVE RestOK'
  BY <1>15 DEF IInv, Waited, Prepare, Leave, Goto, End, Idle, TypeOK, RestOK
<1>16. ASSUME NEW s \in Slots, Completed(s) PROVE RestOK'
  BY <1>16 DEF IInv, Completed, Goto, End, Idle, TypeOK, RestOK
<1>17. ASSUME NEW s \in Slots, LeaseAsk(s) PROVE RestOK'
  BY <1>17 DEF IInv, LeaseAsk, Goto, End, Idle, TypeOK, RestOK
<1>18. ASSUME NEW s \in Slots, Grant(s) PROVE RestOK'
  BY <1>18 DEF IInv, Grant, Goto, TypeOK, RestOK
<1>19. ASSUME NEW s \in Slots, Fetched(s) PROVE RestOK'
  BY <1>19 DEF IInv, Fetched, Prepare, Leave, Goto, End, Idle, TypeOK, RestOK
<1>20. ASSUME NEW s \in Slots, Planned(s) PROVE RestOK'
  BY <1>20 DEF IInv, Planned, Leave, Goto, End, Idle, TypeOK, RestOK
<1>21. ASSUME NEW s \in Slots, Restored(s) PROVE RestOK'
  BY <1>21 DEF IInv, Restored, Leave, Goto, End, Idle, TypeOK, RestOK
<1>22. ASSUME NEW s \in Slots, ManualRestored(s) PROVE RestOK'
  BY <1>22 DEF IInv, ManualRestored, End, Idle, TypeOK, RestOK
<1>23. ASSUME NEW s \in Slots, Relaunch(s) PROVE RestOK'
  <2>1. presses' \in 0..MaxPresses
    BY <1>23, ManualModeAssumption DEF IInv, TypeOK, Relaunch
  <2>2. paused' \in BOOLEAN
    BY <1>23 DEF IInv, TypeOK, Relaunch
  <2>3. handed' \in Nat
    BY <1>23 DEF IInv, TypeOK, Relaunch
  <2>4. /\ mode' = "loop" /\ saved' = FALSE /\ restoring' = FALSE /\ returning' = FALSE
        /\ recent' = "none" /\ timedOut' = "none"
    BY <1>23 DEF Relaunch
  <2> QED
    BY <2>1, <2>2, <2>3, <2>4 DEF RestOK
<1>24. CASE Forget
  BY <1>24 DEF IInv, Forget, TypeOK, RestOK
<1>25. CASE UNCHANGED vars
  BY <1>25 DEF IInv, vars, TypeOK, RestOK
<1> QED
BY <1>1, <1>2, <1>3, <1>4, <1>5, <1>6, <1>7, <1>8, <1>9, <1>10, <1>11, <1>12, <1>13,
     <1>14, <1>15, <1>16, <1>17, <1>18, <1>19, <1>20, <1>21, <1>22, <1>23, <1>24, <1>25
     DEF Next, Press, Work

\* The keys of the steps.
LEMMA ShapeStep == IInv /\ [Next]_vars => Shaped'
<1> SUFFICES ASSUME IInv, [Next]_vars PROVE Shaped'
  OBVIOUS
<1>1. ASSUME NEW s \in Slots, PressEnter(s) PROVE Shaped'
  BY <1>1 DEF IInv, PressEnter, Begin, TypeOK, Job, Shaped, At, PaperKeys
<1>2. ASSUME NEW s \in Slots, NEW key \in {"return", "keep"}, PressReturn(s, key) PROVE Shaped'
  BY <1>2 DEF IInv, PressReturn, Begin, AsksForLoop, TypeOK, Job, Shaped, At, PaperKeys
<1>3. ASSUME NEW s \in Slots, NEW key \in PaperKeys, PressPaper(s, key) PROVE Shaped'
  BY <1>3 DEF IInv, PressPaper, Begin, TypeOK, Job, Shaped, At, PaperKeys
<1>4. ASSUME NEW s \in Slots, PressManualRestore(s) PROVE Shaped'
  BY <1>4 DEF IInv, PressManualRestore, Confirm, Idle, TypeOK, Job, Shaped, At, PaperKeys
<1>5. ASSUME NEW s \in Slots, EnterReaches(s) PROVE Shaped'
  BY <1>5 DEF IInv, EnterReaches, Reach, Goto, TypeOK, Job, Shaped, At, PaperKeys
<1>6. ASSUME NEW s \in Slots, EnterAnswered(s) PROVE Shaped'
  BY <1>6 DEF IInv, EnterAnswered, Goto, End, Idle, TypeOK, Job, Shaped, At, PaperKeys
<1>7. ASSUME NEW s \in Slots, EnterFails(s) PROVE Shaped'
  BY <1>7 DEF IInv, EnterFails, Goto, End, Idle, TypeOK, Job, Shaped, At, PaperKeys
<1>8. ASSUME NEW s \in Slots, LayoutSaved(s) PROVE Shaped'
  BY <1>8 DEF IInv, LayoutSaved, Confirm, Idle, TypeOK, Job, Shaped, At, PaperKeys
<1>9. ASSUME NEW s \in Slots, ExitReaches(s) PROVE Shaped'
  BY <1>9 DEF IInv, ExitReaches, Reach, Goto, TypeOK, Job, Shaped, At, PaperKeys
<1>10. ASSUME NEW s \in Slots, ExitEnds(s) PROVE Shaped'
  BY <1>10 DEF IInv, ExitEnds, Goto, End, Idle, TypeOK, Job, Shaped, At, PaperKeys
<1>11. ASSUME NEW s \in Slots, BootAsks(s) PROVE Shaped'
  BY <1>11 DEF IInv, BootAsks, TypeOK, Job, Shaped, At, PaperKeys
<1>12. ASSUME NEW s \in Slots, BootAnswered(s) PROVE Shaped'
  BY <1>12 DEF IInv, BootAnswered, End, Idle, TypeOK, Job, Shaped, At, PaperKeys
<1>13. ASSUME NEW s \in Slots, BootFails(s) PROVE Shaped'
  BY <1>13 DEF IInv, BootFails, End, Idle, TypeOK, Job, Shaped, At, PaperKeys
<1>14. ASSUME NEW s \in Slots, Captured(s) PROVE Shaped'
  BY <1>14 DEF IInv, Captured, Prepare, Leave, Goto, End, Idle, TypeOK, Job, Shaped, At,
     PaperKeys
<1>15. ASSUME NEW s \in Slots, Waited(s) PROVE Shaped'
  BY <1>15 DEF IInv, Waited, Prepare, Leave, Goto, End, Idle, TypeOK, Job, Shaped, At,
     PaperKeys
<1>16. ASSUME NEW s \in Slots, Completed(s) PROVE Shaped'
  BY <1>16 DEF IInv, Completed, Goto, End, Idle, TypeOK, Job, Shaped, At, PaperKeys
<1>17. ASSUME NEW s \in Slots, LeaseAsk(s) PROVE Shaped'
  BY <1>17 DEF IInv, LeaseAsk, Goto, End, Idle, TypeOK, Job, Shaped, At, PaperKeys
<1>18. ASSUME NEW s \in Slots, Grant(s) PROVE Shaped'
  BY <1>18 DEF IInv, Grant, Goto, TypeOK, Job, Shaped, At, PaperKeys
<1>19. ASSUME NEW s \in Slots, Fetched(s) PROVE Shaped'
  BY <1>19 DEF IInv, Fetched, Prepare, Leave, Goto, End, Idle, TypeOK, Job, Shaped, At,
     PaperKeys
<1>20. ASSUME NEW s \in Slots, Planned(s) PROVE Shaped'
  BY <1>20 DEF IInv, Planned, Leave, Goto, End, Idle, TypeOK, Job, Shaped, At, PaperKeys
<1>21. ASSUME NEW s \in Slots, Restored(s) PROVE Shaped'
  BY <1>21 DEF IInv, Restored, Leave, Goto, End, Idle, TypeOK, Job, Shaped, At, PaperKeys
<1>22. ASSUME NEW s \in Slots, ManualRestored(s) PROVE Shaped'
  BY <1>22 DEF IInv, ManualRestored, End, Idle, TypeOK, Job, Shaped, At, PaperKeys
<1>23. ASSUME NEW s \in Slots, Relaunch(s) PROVE Shaped'
  BY <1>23 DEF IInv, Relaunch, Idle, TypeOK, Job, Shaped, At, PaperKeys
<1>24. CASE Forget
  BY <1>24 DEF IInv, Forget, TypeOK, Job, Shaped, At, PaperKeys
<1>25. CASE UNCHANGED vars
  BY <1>25 DEF IInv, vars, TypeOK, Job, Shaped, At, PaperKeys
<1> QED
BY <1>1, <1>2, <1>3, <1>4, <1>5, <1>6, <1>7, <1>8, <1>9, <1>10, <1>11, <1>12, <1>13,
     <1>14, <1>15, <1>16, <1>17, <1>18, <1>19, <1>20, <1>21, <1>22, <1>23, <1>24, <1>25
     DEF Next, Press, Work

\* One paper action is under way at a time.
LEMMA PaperStep == IInv /\ [Next]_vars => OnePaperAction'
<1> SUFFICES ASSUME IInv, [Next]_vars PROVE OnePaperAction'
  OBVIOUS
<1>1. ASSUME NEW s \in Slots, PressEnter(s) PROVE OnePaperAction'
  BY <1>1 DEF IInv, PressEnter, Begin, TypeOK, Job, OnePaperAction, PaperActionInFlight,
     PaperKeys
<1>2. ASSUME NEW s \in Slots, NEW key \in {"return", "keep"}, PressReturn(s, key) PROVE OnePaperAction'
  BY <1>2 DEF IInv, PressReturn, Begin, AsksForLoop, TypeOK, Job, OnePaperAction,
     PaperActionInFlight, PaperKeys
<1>3. ASSUME NEW s \in Slots, NEW key \in PaperKeys, PressPaper(s, key) PROVE OnePaperAction'
  BY <1>3 DEF IInv, PressPaper, Begin, TypeOK, Job, OnePaperAction, PaperActionInFlight,
     PaperKeys
<1>4. ASSUME NEW s \in Slots, PressManualRestore(s) PROVE OnePaperAction'
  BY <1>4 DEF IInv, PressManualRestore, Confirm, Idle, TypeOK, Job, OnePaperAction,
     PaperActionInFlight, PaperKeys
<1>5. ASSUME NEW s \in Slots, EnterReaches(s) PROVE OnePaperAction'
  BY <1>5 DEF IInv, EnterReaches, Reach, Goto, TypeOK, Job, OnePaperAction,
     PaperActionInFlight, PaperKeys
<1>6. ASSUME NEW s \in Slots, EnterAnswered(s) PROVE OnePaperAction'
  BY <1>6 DEF IInv, EnterAnswered, Goto, End, Idle, TypeOK, Job, OnePaperAction,
     PaperActionInFlight, PaperKeys
<1>7. ASSUME NEW s \in Slots, EnterFails(s) PROVE OnePaperAction'
  BY <1>7 DEF IInv, EnterFails, Goto, End, Idle, TypeOK, Job, OnePaperAction,
     PaperActionInFlight, PaperKeys
<1>8. ASSUME NEW s \in Slots, LayoutSaved(s) PROVE OnePaperAction'
  BY <1>8 DEF IInv, LayoutSaved, Confirm, Idle, TypeOK, Job, OnePaperAction,
     PaperActionInFlight, PaperKeys
<1>9. ASSUME NEW s \in Slots, ExitReaches(s) PROVE OnePaperAction'
  BY <1>9 DEF IInv, ExitReaches, Reach, Goto, TypeOK, Job, OnePaperAction,
     PaperActionInFlight, PaperKeys
<1>10. ASSUME NEW s \in Slots, ExitEnds(s) PROVE OnePaperAction'
  BY <1>10 DEF IInv, ExitEnds, Goto, End, Idle, TypeOK, Job, OnePaperAction,
     PaperActionInFlight, PaperKeys
<1>11. ASSUME NEW s \in Slots, BootAsks(s) PROVE OnePaperAction'
  BY <1>11 DEF IInv, BootAsks, TypeOK, Job, OnePaperAction, PaperActionInFlight, PaperKeys
<1>12. ASSUME NEW s \in Slots, BootAnswered(s) PROVE OnePaperAction'
  BY <1>12 DEF IInv, BootAnswered, End, Idle, TypeOK, Job, OnePaperAction,
     PaperActionInFlight, PaperKeys
<1>13. ASSUME NEW s \in Slots, BootFails(s) PROVE OnePaperAction'
  BY <1>13 DEF IInv, BootFails, End, Idle, TypeOK, Job, OnePaperAction,
     PaperActionInFlight, PaperKeys
<1>14. ASSUME NEW s \in Slots, Captured(s) PROVE OnePaperAction'
  BY <1>14 DEF IInv, Captured, Prepare, Leave, Goto, End, Idle, TypeOK, Job,
     OnePaperAction, PaperActionInFlight, PaperKeys
<1>15. ASSUME NEW s \in Slots, Waited(s) PROVE OnePaperAction'
  BY <1>15 DEF IInv, Waited, Prepare, Leave, Goto, End, Idle, TypeOK, Job, OnePaperAction,
     PaperActionInFlight, PaperKeys
<1>16. ASSUME NEW s \in Slots, Completed(s) PROVE OnePaperAction'
  BY <1>16 DEF IInv, Completed, Goto, End, Idle, TypeOK, Job, OnePaperAction,
     PaperActionInFlight, PaperKeys
<1>17. ASSUME NEW s \in Slots, LeaseAsk(s) PROVE OnePaperAction'
  BY <1>17 DEF IInv, LeaseAsk, Goto, End, Idle, TypeOK, Job, OnePaperAction,
     PaperActionInFlight, PaperKeys
<1>18. ASSUME NEW s \in Slots, Grant(s) PROVE OnePaperAction'
  BY <1>18 DEF IInv, Grant, Goto, TypeOK, Job, OnePaperAction, PaperActionInFlight,
     PaperKeys
<1>19. ASSUME NEW s \in Slots, Fetched(s) PROVE OnePaperAction'
  BY <1>19 DEF IInv, Fetched, Prepare, Leave, Goto, End, Idle, TypeOK, Job,
     OnePaperAction, PaperActionInFlight, PaperKeys
<1>20. ASSUME NEW s \in Slots, Planned(s) PROVE OnePaperAction'
  BY <1>20 DEF IInv, Planned, Leave, Goto, End, Idle, TypeOK, Job, OnePaperAction,
     PaperActionInFlight, PaperKeys
<1>21. ASSUME NEW s \in Slots, Restored(s) PROVE OnePaperAction'
  BY <1>21 DEF IInv, Restored, Leave, Goto, End, Idle, TypeOK, Job, OnePaperAction,
     PaperActionInFlight, PaperKeys
<1>22. ASSUME NEW s \in Slots, ManualRestored(s) PROVE OnePaperAction'
  BY <1>22 DEF IInv, ManualRestored, End, Idle, TypeOK, Job, OnePaperAction,
     PaperActionInFlight, PaperKeys
<1>23. ASSUME NEW s \in Slots, Relaunch(s) PROVE OnePaperAction'
  BY <1>23 DEF IInv, Relaunch, Idle, TypeOK, Job, OnePaperAction, PaperActionInFlight,
     PaperKeys
<1>24. CASE Forget
  BY <1>24 DEF IInv, Forget, TypeOK, Job, OnePaperAction, PaperActionInFlight, PaperKeys
<1>25. CASE UNCHANGED vars
  BY <1>25 DEF IInv, vars, TypeOK, Job, OnePaperAction, PaperActionInFlight, PaperKeys
<1> QED
BY <1>1, <1>2, <1>3, <1>4, <1>5, <1>6, <1>7, <1>8, <1>9, <1>10, <1>11, <1>12, <1>13,
     <1>14, <1>15, <1>16, <1>17, <1>18, <1>19, <1>20, <1>21, <1>22, <1>23, <1>24, <1>25
     DEF Next, Press, Work

\* One restore runs at a time.
LEMMA AloneStep == IInv /\ [Next]_vars => Alone'
<1> SUFFICES ASSUME IInv, [Next]_vars PROVE Alone'
  OBVIOUS
<1>1. ASSUME NEW s \in Slots, PressEnter(s) PROVE Alone'
  BY <1>1 DEF IInv, PressEnter, Begin, TypeOK, Job, Alone, Restores, At
<1>2. ASSUME NEW s \in Slots, NEW key \in {"return", "keep"}, PressReturn(s, key) PROVE Alone'
  BY <1>2 DEF IInv, PressReturn, Begin, AsksForLoop, TypeOK, Job, Alone, Restores, At
<1>3. ASSUME NEW s \in Slots, NEW key \in PaperKeys, PressPaper(s, key) PROVE Alone'
  BY <1>3 DEF IInv, PressPaper, Begin, TypeOK, Job, Alone, Restores, At
<1>4. ASSUME NEW s \in Slots, PressManualRestore(s) PROVE Alone'
  <2>1. At(s, "idle") /\ Confirm(s, [Idle EXCEPT !.key = "manualRestore"])
    BY <1>4 DEF PressManualRestore
  <2>2. [Idle EXCEPT !.key = "manualRestore"] \in Job
    BY DEF Idle, Job, Steps, Keys, ModeKeys
  <2>3. ~Restores(s)
    BY <2>1 DEF At, Restores
  <2> QED
    BY <2>1, <2>2, <2>3, ConfirmAlone
<1>5. ASSUME NEW s \in Slots, EnterReaches(s) PROVE Alone'
  BY <1>5 DEF IInv, EnterReaches, Reach, Goto, TypeOK, Job, Alone, Restores, At
<1>6. ASSUME NEW s \in Slots, EnterAnswered(s) PROVE Alone'
  BY <1>6 DEF IInv, EnterAnswered, Goto, End, Idle, TypeOK, Job, Alone, Restores, At
<1>7. ASSUME NEW s \in Slots, EnterFails(s) PROVE Alone'
  BY <1>7 DEF IInv, EnterFails, Goto, End, Idle, TypeOK, Job, Alone, Restores, At
<1>8. ASSUME NEW s \in Slots, LayoutSaved(s) PROVE Alone'
  <2>1. At(s, "saving") /\ Confirm(s, work[s]) /\ work[s] \in Job
    BY <1>8 DEF LayoutSaved, IInv, TypeOK
  <2>2. ~Restores(s)
    BY <2>1 DEF At, Restores
  <2> QED
    BY <2>1, <2>2, ConfirmAlone
<1>9. ASSUME NEW s \in Slots, ExitReaches(s) PROVE Alone'
  BY <1>9 DEF IInv, ExitReaches, Reach, Goto, TypeOK, Job, Alone, Restores, At
<1>10. ASSUME NEW s \in Slots, ExitEnds(s) PROVE Alone'
  BY <1>10 DEF IInv, ExitEnds, Goto, End, Idle, TypeOK, Job, Alone, Restores, At
<1>11. ASSUME NEW s \in Slots, BootAsks(s) PROVE Alone'
  BY <1>11 DEF IInv, BootAsks, TypeOK, Job, Alone, Restores, At
<1>12. ASSUME NEW s \in Slots, BootAnswered(s) PROVE Alone'
  BY <1>12 DEF IInv, BootAnswered, End, Idle, TypeOK, Job, Alone, Restores, At
<1>13. ASSUME NEW s \in Slots, BootFails(s) PROVE Alone'
  BY <1>13 DEF IInv, BootFails, End, Idle, TypeOK, Job, Shaped, Alone, Restores, At
<1>14. ASSUME NEW s \in Slots, Captured(s) PROVE Alone'
  BY <1>14 DEF IInv, Captured, Prepare, Leave, Goto, End, Idle, TypeOK, Job, Alone,
     Restores, At
<1>15. ASSUME NEW s \in Slots, Waited(s) PROVE Alone'
  BY <1>15 DEF IInv, Waited, Prepare, Leave, Goto, End, Idle, TypeOK, Job, Alone,
     Restores, At
<1>16. ASSUME NEW s \in Slots, Completed(s) PROVE Alone'
  BY <1>16 DEF IInv, Completed, Goto, End, Idle, TypeOK, Job, Alone, Restores, At
<1>17. ASSUME NEW s \in Slots, LeaseAsk(s) PROVE Alone'
  BY <1>17 DEF IInv, LeaseAsk, Goto, End, Idle, TypeOK, Job, Alone, Restores, At
<1>18. ASSUME NEW s \in Slots, Grant(s) PROVE Alone'
  BY <1>18 DEF IInv, Grant, Goto, TypeOK, Job, Alone, Restores, At
<1>19. ASSUME NEW s \in Slots, Fetched(s) PROVE Alone'
  BY <1>19 DEF IInv, Fetched, Prepare, Leave, Goto, End, Idle, TypeOK, Job, Alone,
     Restores, At
<1>20. ASSUME NEW s \in Slots, Planned(s) PROVE Alone'
  BY <1>20 DEF IInv, Planned, Leave, Goto, End, Idle, TypeOK, Job, Alone, Restores, At
<1>21. ASSUME NEW s \in Slots, Restored(s) PROVE Alone'
  BY <1>21 DEF IInv, Restored, Leave, Goto, End, Idle, TypeOK, Job, Alone, Restores, At
<1>22. ASSUME NEW s \in Slots, ManualRestored(s) PROVE Alone'
  BY <1>22 DEF IInv, ManualRestored, End, Idle, TypeOK, Job, Alone, Restores, At
<1>23. ASSUME NEW s \in Slots, Relaunch(s) PROVE Alone'
  BY <1>23 DEF IInv, Relaunch, Idle, TypeOK, Job, Alone, Restores, At
<1>24. CASE Forget
  BY <1>24 DEF IInv, Forget, TypeOK, Job, Alone, Restores, At
<1>25. CASE UNCHANGED vars
  BY <1>25 DEF IInv, vars, TypeOK, Job, Alone, Restores, At
<1> QED
BY <1>1, <1>2, <1>3, <1>4, <1>5, <1>6, <1>7, <1>8, <1>9, <1>10, <1>11, <1>12, <1>13,
     <1>14, <1>15, <1>16, <1>17, <1>18, <1>19, <1>20, <1>21, <1>22, <1>23, <1>24, <1>25
     DEF Next, Press, Work

\* The papers a pause lets out.
LEMMA HandedStep == IInv /\ [Next]_vars => FewHanded'
<1> SUFFICES ASSUME IInv, [Next]_vars PROVE FewHanded'
  OBVIOUS
<1>1. ASSUME NEW s \in Slots, PressEnter(s) PROVE FewHanded'
  BY <1>1 DEF IInv, PressEnter, Begin, TypeOK, Job, Shaped, OnePaperAction, FewHanded, At,
     PaperKeys
<1>2. ASSUME NEW s \in Slots, NEW key \in {"return", "keep"}, PressReturn(s, key) PROVE FewHanded'
  BY <1>2 DEF IInv, PressReturn, Begin, AsksForLoop, TypeOK, Job, Shaped, OnePaperAction,
     FewHanded, At, PaperKeys
<1>3. ASSUME NEW s \in Slots, NEW key \in PaperKeys, PressPaper(s, key) PROVE FewHanded'
  BY <1>3 DEF IInv, PressPaper, Begin, TypeOK, Job, Shaped, OnePaperAction, FewHanded, At,
     PaperKeys
<1>4. ASSUME NEW s \in Slots, PressManualRestore(s) PROVE FewHanded'
  BY <1>4 DEF IInv, PressManualRestore, Confirm, Idle, TypeOK, Job, Shaped,
     OnePaperAction, FewHanded, At, PaperKeys
<1>5. ASSUME NEW s \in Slots, EnterReaches(s) PROVE FewHanded'
  BY <1>5 DEF IInv, EnterReaches, Reach, Goto, TypeOK, Job, Shaped, OnePaperAction,
     FewHanded, At, PaperKeys
<1>6. ASSUME NEW s \in Slots, EnterAnswered(s) PROVE FewHanded'
  BY <1>6 DEF IInv, EnterAnswered, Goto, End, Idle, TypeOK, Job, Shaped, OnePaperAction,
     FewHanded, At, PaperKeys
<1>7. ASSUME NEW s \in Slots, EnterFails(s) PROVE FewHanded'
  BY <1>7 DEF IInv, EnterFails, Goto, End, Idle, TypeOK, Job, Shaped, OnePaperAction,
     FewHanded, At, PaperKeys
<1>8. ASSUME NEW s \in Slots, LayoutSaved(s) PROVE FewHanded'
  BY <1>8 DEF IInv, LayoutSaved, Confirm, Idle, TypeOK, Job, Shaped, OnePaperAction,
     FewHanded, At, PaperKeys
<1>9. ASSUME NEW s \in Slots, ExitReaches(s) PROVE FewHanded'
  BY <1>9 DEF IInv, ExitReaches, Reach, Goto, TypeOK, Job, Shaped, OnePaperAction,
     FewHanded, At, PaperKeys
<1>10. ASSUME NEW s \in Slots, ExitEnds(s) PROVE FewHanded'
  BY <1>10 DEF IInv, ExitEnds, Goto, End, Idle, TypeOK, Job, Shaped, OnePaperAction,
     FewHanded, At, PaperKeys
<1>11. ASSUME NEW s \in Slots, BootAsks(s) PROVE FewHanded'
  BY <1>11 DEF IInv, BootAsks, TypeOK, Job, Shaped, OnePaperAction, FewHanded, At, PaperKeys
<1>12. ASSUME NEW s \in Slots, BootAnswered(s) PROVE FewHanded'
  BY <1>12 DEF IInv, BootAnswered, End, Idle, TypeOK, Job, Shaped, OnePaperAction,
     FewHanded, At, PaperKeys
<1>13. ASSUME NEW s \in Slots, BootFails(s) PROVE FewHanded'
  BY <1>13 DEF IInv, BootFails, End, Idle, TypeOK, Job, Shaped, OnePaperAction, FewHanded,
     At, PaperKeys
<1>14. ASSUME NEW s \in Slots, Captured(s) PROVE FewHanded'
  BY <1>14 DEF IInv, Captured, Prepare, Leave, Goto, End, Idle, TypeOK, Job, Shaped,
     OnePaperAction, FewHanded, At, PaperKeys
<1>15. ASSUME NEW s \in Slots, Waited(s) PROVE FewHanded'
  BY <1>15 DEF IInv, Waited, Prepare, Leave, Goto, End, Idle, TypeOK, Job, Shaped,
     OnePaperAction, FewHanded, At, PaperKeys
<1>16. ASSUME NEW s \in Slots, Completed(s) PROVE FewHanded'
  BY <1>16 DEF IInv, Completed, Goto, End, Idle, TypeOK, Job, Shaped, OnePaperAction,
     FewHanded, At, PaperKeys
<1>17. ASSUME NEW s \in Slots, LeaseAsk(s) PROVE FewHanded'
  BY <1>17 DEF IInv, LeaseAsk, Goto, End, Idle, TypeOK, Job, Shaped, OnePaperAction,
     FewHanded, At, PaperKeys
<1>18. ASSUME NEW s \in Slots, Grant(s) PROVE FewHanded'
  BY <1>18 DEF IInv, Grant, Goto, TypeOK, Job, Shaped, OnePaperAction, FewHanded, At,
     PaperKeys
<1>19. ASSUME NEW s \in Slots, Fetched(s) PROVE FewHanded'
  BY <1>19 DEF IInv, Fetched, Prepare, Leave, Goto, End, Idle, TypeOK, Job, Shaped,
     OnePaperAction, FewHanded, At, PaperKeys
<1>20. ASSUME NEW s \in Slots, Planned(s) PROVE FewHanded'
  BY <1>20 DEF IInv, Planned, Leave, Goto, End, Idle, TypeOK, Job, Shaped, OnePaperAction,
     FewHanded, At, PaperKeys
<1>21. ASSUME NEW s \in Slots, Restored(s) PROVE FewHanded'
  BY <1>21 DEF IInv, Restored, Leave, Goto, End, Idle, TypeOK, Job, Shaped,
     OnePaperAction, FewHanded, At, PaperKeys
<1>22. ASSUME NEW s \in Slots, ManualRestored(s) PROVE FewHanded'
  BY <1>22 DEF IInv, ManualRestored, End, Idle, TypeOK, Job, Shaped, OnePaperAction,
     FewHanded, At, PaperKeys
<1>23. ASSUME NEW s \in Slots, Relaunch(s) PROVE FewHanded'
  BY <1>23 DEF IInv, Relaunch, Idle, TypeOK, Job, Shaped, OnePaperAction, FewHanded, At,
     PaperKeys
<1>24. CASE Forget
  BY <1>24 DEF IInv, Forget, TypeOK, Job, Shaped, OnePaperAction, FewHanded, At, PaperKeys
<1>25. CASE UNCHANGED vars
  BY <1>25 DEF IInv, vars, TypeOK, Job, Shaped, OnePaperAction, FewHanded, At, PaperKeys
<1> QED
BY <1>1, <1>2, <1>3, <1>4, <1>5, <1>6, <1>7, <1>8, <1>9, <1>10, <1>11, <1>12, <1>13,
     <1>14, <1>15, <1>16, <1>17, <1>18, <1>19, <1>20, <1>21, <1>22, <1>23, <1>24, <1>25
     DEF Next, Press, Work

\* What is left after a return.
LEMMA ReturnedStep == IInv /\ [Next]_vars => Returned'
<1> SUFFICES ASSUME IInv, [Next]_vars PROVE Returned'
  OBVIOUS
<1>1. ASSUME NEW s \in Slots, PressEnter(s) PROVE Returned'
  BY <1>1 DEF IInv, PressEnter, Begin, TypeOK, Job, Shaped, Returned, MayEnter, At,
     PaperKeys
<1>2. ASSUME NEW s \in Slots, NEW key \in {"return", "keep"}, PressReturn(s, key) PROVE Returned'
  BY <1>2 DEF IInv, PressReturn, Begin, AsksForLoop, TypeOK, Job, Shaped, Returned,
     MayEnter, At, PaperKeys
<1>3. ASSUME NEW s \in Slots, NEW key \in PaperKeys, PressPaper(s, key) PROVE Returned'
  BY <1>3 DEF IInv, PressPaper, Begin, TypeOK, Job, Shaped, Returned, MayEnter, At,
     PaperKeys
<1>4. ASSUME NEW s \in Slots, PressManualRestore(s) PROVE Returned'
  BY <1>4 DEF IInv, PressManualRestore, Confirm, Idle, TypeOK, Job, Shaped, Returned,
     MayEnter, At, PaperKeys
<1>5. ASSUME NEW s \in Slots, EnterReaches(s) PROVE Returned'
  BY <1>5 DEF IInv, EnterReaches, Reach, Goto, TypeOK, Job, Shaped, Returned, MayEnter,
     At, PaperKeys
<1>6. ASSUME NEW s \in Slots, EnterAnswered(s) PROVE Returned'
  BY <1>6 DEF IInv, EnterAnswered, Goto, End, Idle, TypeOK, Job, Shaped, Returned,
     MayEnter, At, PaperKeys
<1>7. ASSUME NEW s \in Slots, EnterFails(s) PROVE Returned'
  BY <1>7 DEF IInv, EnterFails, Goto, End, Idle, TypeOK, Job, Shaped, Returned, MayEnter,
     At, PaperKeys
<1>8. ASSUME NEW s \in Slots, LayoutSaved(s) PROVE Returned'
  BY <1>8 DEF IInv, LayoutSaved, Confirm, Idle, TypeOK, Job, Shaped, Returned, MayEnter,
     At, PaperKeys
<1>9. ASSUME NEW s \in Slots, ExitReaches(s) PROVE Returned'
  BY <1>9 DEF IInv, ExitReaches, Reach, Goto, TypeOK, Job, Shaped, Returned, MayEnter, At,
     PaperKeys
<1>10. ASSUME NEW s \in Slots, ExitEnds(s) PROVE Returned'
  BY <1>10 DEF IInv, ExitEnds, Goto, End, Idle, TypeOK, Job, Shaped, Returned, MayEnter,
     At, PaperKeys
<1>11. ASSUME NEW s \in Slots, BootAsks(s) PROVE Returned'
  BY <1>11 DEF IInv, BootAsks, TypeOK, Job, Shaped, Returned, MayEnter, At, PaperKeys
<1>12. ASSUME NEW s \in Slots, BootAnswered(s) PROVE Returned'
  BY <1>12 DEF IInv, BootAnswered, End, Idle, TypeOK, Job, Shaped, Returned, MayEnter, At,
     PaperKeys
<1>13. ASSUME NEW s \in Slots, BootFails(s) PROVE Returned'
  BY <1>13 DEF IInv, BootFails, End, Idle, TypeOK, Job, Shaped, Returned, MayEnter, At,
     PaperKeys
<1>14. ASSUME NEW s \in Slots, Captured(s) PROVE Returned'
  BY <1>14 DEF IInv, Captured, Prepare, Leave, Goto, End, Idle, TypeOK, Job, Shaped,
     Returned, MayEnter, At, PaperKeys
<1>15. ASSUME NEW s \in Slots, Waited(s) PROVE Returned'
  BY <1>15 DEF IInv, Waited, Prepare, Leave, Goto, End, Idle, TypeOK, Job, Shaped,
     Returned, MayEnter, At, PaperKeys
<1>16. ASSUME NEW s \in Slots, Completed(s) PROVE Returned'
  BY <1>16 DEF IInv, Completed, Goto, End, Idle, TypeOK, Job, Shaped, Returned, MayEnter,
     At, PaperKeys
<1>17. ASSUME NEW s \in Slots, LeaseAsk(s) PROVE Returned'
  BY <1>17 DEF IInv, LeaseAsk, Goto, End, Idle, TypeOK, Job, Shaped, Returned, MayEnter,
     At, PaperKeys
<1>18. ASSUME NEW s \in Slots, Grant(s) PROVE Returned'
  BY <1>18 DEF IInv, Grant, Goto, TypeOK, Job, Shaped, Returned, MayEnter, At, PaperKeys
<1>19. ASSUME NEW s \in Slots, Fetched(s) PROVE Returned'
  BY <1>19 DEF IInv, Fetched, Prepare, Leave, Goto, End, Idle, TypeOK, Job, Shaped,
     Returned, MayEnter, At, PaperKeys
<1>20. ASSUME NEW s \in Slots, Planned(s) PROVE Returned'
  BY <1>20 DEF IInv, Planned, Leave, Goto, End, Idle, TypeOK, Job, Shaped, Returned,
     MayEnter, At, PaperKeys
<1>21. ASSUME NEW s \in Slots, Restored(s) PROVE Returned'
  BY <1>21 DEF IInv, Restored, Leave, Goto, End, Idle, TypeOK, Job, Shaped, Returned,
     MayEnter, At, PaperKeys
<1>22. ASSUME NEW s \in Slots, ManualRestored(s) PROVE Returned'
  BY <1>22 DEF IInv, ManualRestored, End, Idle, TypeOK, Job, Shaped, Returned, MayEnter,
     At, PaperKeys
<1>23. ASSUME NEW s \in Slots, Relaunch(s) PROVE Returned'
  BY <1>23 DEF IInv, Relaunch, Idle, TypeOK, Job, Shaped, Returned, MayEnter, At, PaperKeys
<1>24. CASE Forget
  BY <1>24 DEF IInv, Forget, TypeOK, Job, Shaped, Returned, MayEnter, At, PaperKeys
<1>25. CASE UNCHANGED vars
  BY <1>25 DEF IInv, vars, TypeOK, Job, Shaped, Returned, MayEnter, At, PaperKeys
<1> QED
BY <1>1, <1>2, <1>3, <1>4, <1>5, <1>6, <1>7, <1>8, <1>9, <1>10, <1>11, <1>12, <1>13,
     <1>14, <1>15, <1>16, <1>17, <1>18, <1>19, <1>20, <1>21, <1>22, <1>23, <1>24, <1>25
     DEF Next, Press, Work

LEMMA Invariance == Spec => []IInv
<1>1. IInv /\ [Next]_vars => IInv'
  BY WorkStep, RestStep, ShapeStep, PaperStep, AloneStep, HandedStep, ReturnedStep
     DEF IInv, TypeOK, WorkOK, RestOK
<1> QED
  BY <1>1, InitOK, PTL DEF Spec

\* Every variable keeps its type.
THEOREM TypeCorrect == Spec => []TypeOK
<1>1. IInv => TypeOK
  BY DEF IInv
<1> QED
  BY <1>1, Invariance, PTL

\* restoring is set exactly while one restore runs.
THEOREM OneRestoreAtATime == Spec => []OneRestore
<1>1. IInv => OneRestore
  <2> SUFFICES ASSUME IInv PROVE OneRestore
    OBVIOUS
  <2> DEFINE running == {s \in Slots : work[s].step \in {"restoring", "restoringManual"}}
  <2>0. \A s, z \in running : s = z
    BY DEF IInv, Alone, Restores
  <2>1. Cardinality(running) <= 1
    <3>1. CASE running = {}
      BY <3>1, FS_EmptySet
    <3>2. CASE running # {}
      <4>1. PICK s \in running : TRUE
        BY <3>2
      <4>2. running = {s}
        BY <2>0, <4>1
      <4> HIDE DEF running
      <4>3. Cardinality({s}) = 1
        BY FS_Singleton
      <4> QED
        BY <4>2, <4>3
    <3> QED
      BY <3>1, <3>2
  <2>2. restoring = \E s \in Slots : work[s].step \in {"restoring", "restoringManual"}
    BY DEF IInv, Alone, Restores, TypeOK
  <2> QED
    BY <2>1, <2>2 DEF OneRestore
<1> QED
  BY <1>1, Invariance, PTL

\* A pause lets out one paper at most.
THEOREM PausesHandOutOne == Spec => []PauseHandsOutOne
<1>1. IInv => PauseHandsOutOne
  BY DEF IInv, FewHanded, PauseHandsOutOne
<1> QED
  BY <1>1, Invariance, PTL

\* A return to the loop is not undone by what was under way.
THEOREM ReturnsStick == Spec => []ReturnSticks
<1>1. IInv => ReturnSticks
  BY DEF IInv, TypeOK, Returned, ReturnSticks
<1> QED
  BY <1>1, Invariance, PTL
-----------------------------------------------------------------------------
(* TaskWindows: manual mode and the saver's loop *)

\* After the one save that was under way, the saver rests until manual mode ends, but for
\* the second write of that save.
SavedLate == manual => late = 0 \/ (late = 1 /\ (saver = Resting \/ saver.pc = "store"))

WindowsInv == manual \in BOOLEAN /\ SavedLate

LEMMA WindowsInit == InitWindows => WindowsInv
  BY DEF InitWindows, WindowsInv, SavedLate

\* Only a save counts, and after it the saver has at most its second write to do.
LEMMA SaverKeeps == WindowsInv /\ SaverTick => WindowsInv'
<1> SUFFICES ASSUME WindowsInv, SaverTick PROVE WindowsInv'
  OBVIOUS
<1>1. CASE SaverStart
  BY <1>1 DEF SaverStart, Resting, WindowsInv, SavedLate, user
<1>2. CASE SaverTask
  BY <1>2 DEF SaverTask, Resting, WindowsInv, SavedLate, user
<1>3. CASE SaverCapture \/ SaverFilter \/ SaverLook \/ SaverBack \/ SaverCompare
  <2>1. saver.pc \in {"capture", "filter", "look", "back", "compare"}
    BY <1>3 DEF SaverCapture, SaverFilter, SaverLook, SaverBack, SaverCompare
  <2>2. saver # Resting /\ saver.pc # "store"
    BY <2>1 DEF Resting
  <2>3. UNCHANGED <<manual, late>>
    BY <1>3 DEF SaverCapture, SaverFilter, SaverLook, SaverBack, SaverCompare, user
  <2> QED
    BY <2>2, <2>3 DEF WindowsInv, SavedLate
<1>4. CASE SaverWrite
  <2>1. saver # Resting /\ saver.pc # "store" /\ manual' = manual
    BY <1>4 DEF SaverWrite, Resting, user
  <2>2. CASE UNCHANGED late
    BY <2>1, <2>2 DEF WindowsInv, SavedLate
  <2>3. CASE saver' = [saver EXCEPT !.pc = "store"] /\ late' = IF manual THEN late + 1 ELSE late
    <3>1. manual => late = 0
      BY <2>1 DEF WindowsInv, SavedLate
    <3>2. manual => late' = 1
      BY <2>3, <3>1
    <3> QED
      BY <2>1, <2>3, <3>2 DEF WindowsInv, SavedLate
  <2> QED
    BY <1>4, <2>2, <2>3 DEF SaverWrite
<1>5. CASE SaverStore
  BY <1>5 DEF SaverStore, WindowsInv, SavedLate, user
<1> QED
  BY <1>1, <1>2, <1>3, <1>4, <1>5 DEF SaverTick

LEMMA ActKeeps == WindowsInv /\ Act => WindowsInv'
<1> SUFFICES ASSUME WindowsInv, Act PROVE WindowsInv'
  OBVIOUS
<1>1. CASE UNCHANGED <<manual, late, saver>>
  BY <1>1 DEF WindowsInv, SavedLate
<1>2. CASE SetManualMode
  BY <1>2 DEF SetManualMode, WindowsInv, SavedLate
<1> QED
  BY <1>1, <1>2
     DEF Act, FocusWorkspace, MoveWindow, SetCurrentTask, AppSaves, PutLayout, ClaimTaskWindow,
         AddExclusion, user, saverVars

LEMMA FollowerKeeps == WindowsInv /\ FollowerTick => WindowsInv'
<1> SUFFICES ASSUME WindowsInv, FollowerTick PROVE WindowsInv'
  OBVIOUS
<1>1. UNCHANGED <<user, saverVars>>
  BY DEF FollowerTick, FollowerStart, FollowerTask, FollowerFocus, FollowerLook,
         FollowerRedirect, FollowerRedirected, FollowerRefocus, FollowerRefocusWindow,
         FollowerCheck, FollowerList, FollowerFollow
<1> QED
  BY <1>1 DEF user, saverVars, WindowsInv, SavedLate

LEMMA WindowsInvariance == SpecWindows => []WindowsInv
<1>1. WindowsInv /\ UNCHANGED wvars => WindowsInv'
  BY DEF wvars, user, saverVars, WindowsInv, SavedLate
<1>2. WindowsInv /\ [NextWindows]_wvars => WindowsInv'
  BY <1>1, SaverKeeps, ActKeeps, FollowerKeeps DEF NextWindows
<1> QED
  BY <1>2, WindowsInit, PTL DEF SpecWindows

\* Manual mode lets out the one save that was under way when it was entered.
THEOREM ManualModeSavesOne == SpecWindows => []ManualSavesOne
<1>1. WindowsInv => ManualSavesOne
  BY DEF WindowsInv, SavedLate, ManualSavesOne
<1> QED
  BY <1>1, WindowsInvariance, PTL
=============================================================================
