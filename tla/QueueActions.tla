---------------------------- MODULE QueueActions ----------------------------
(***************************************************************************)
(* POST /queue/:id/actions/recommended: carry out what a paper recommends.  *)
(* An attempt is recorded under the client's idempotency key, a follow-up   *)
(* goes to the task's session (TaskFollowup, under a key of the paper and   *)
(* its action), a keystroke goes to the session's terminal, the paper is    *)
(* marked done and the attempt completed.  Each is an await, so another     *)
(* request may run and the gateway may die between any two of them, and each *)
(* may reject, which ends the request with an error (500).                  *)
(***************************************************************************)
EXTENDS TaskFollowup

CONSTANTS
    Tokens,        \* idempotency keys clients send the action under
    PaperOf,       \* the paper whose action a token asks for
    Resumes,       \* papers whose recommended action is resume_agent
    MaxCrashes,    \* bound: how often the gateway dies
    MaxFailures    \* bound: how often a request on a token fails past the keystroke

Papers == Texts            \* a paper's action sends one follow-up

ASSUME ActionAssumption ==
    /\ PaperOf \in [Tokens -> Papers] /\ None \notin Tokens /\ Resumes \subseteq Papers
    /\ MaxCrashes \in Nat /\ MaxFailures \in Nat

VARIABLES
    attempts,      \* queue_action_attempts under each token
    done,          \* papers marked done
    keystrokes,    \* how often each token's text was typed into the terminal
    acts,          \* where each request stands
    failures,      \* how many requests on each token failed past the keystroke
    crashes

avars == <<attempts, done, keystrokes, acts, failures, crashes>>
qvars == <<fvars, avars>>

\* typed is terminal_send_ok
NoAttempt == [known |-> FALSE, typed |-> FALSE, completed |-> FALSE]
\* prior: the keystroke was recorded before this request looked
NoAct == [step |-> "idle", token |-> None, prior |-> FALSE]

At(r, step) == acts[r].step = step
Step(r, step) == acts' = [acts EXCEPT ![r].step = step]
End(r) == acts' = [acts EXCEPT ![r] = NoAct]
Paper(r) == PaperOf[acts[r].token]

-----------------------------------------------------------------------------
InitActions ==
    /\ Init
    /\ attempts = [t \in Tokens |-> NoAttempt]
    /\ done = {}
    /\ keystrokes = [t \in Tokens |-> 0]
    /\ acts = [r \in Requests |-> NoAct]
    /\ failures = [t \in Tokens |-> 0]
    /\ crashes = 0

\* findQueueItem finds the paper, in whatever state it is.
FindPaper(r, t) ==
    /\ At(r, "idle")
    /\ acts' = [acts EXCEPT ![r] = [step |-> "recording", token |-> t, prior |-> FALSE]]
    /\ UNCHANGED <<fvars, attempts, done, keystrokes, failures, crashes>>

\* recordQueueActionAttempt: an attempt that is not completed is taken up again.
RecordAttempt(r) ==
    /\ At(r, "recording") /\ ~attempts[acts[r].token].completed
    /\ attempts' = [attempts EXCEPT ![acts[r].token].known = TRUE]
    /\ acts' = [acts EXCEPT ![r].step = "choosing", ![r].prior = attempts[acts[r].token].typed]
    /\ UNCHANGED <<fvars, done, keystrokes, failures, crashes>>

\* A completed attempt is answered with its cached result.
Replay(r) ==
    /\ At(r, "recording") /\ attempts[acts[r].token].completed
    /\ End(r)
    /\ UNCHANGED <<fvars, attempts, done, keystrokes, failures, crashes>>

\* executeQueueAction refuses: another kind of action, no task, no session.
RefuseAction(r) ==
    /\ At(r, "choosing") /\ End(r)
    /\ UNCHANGED <<fvars, attempts, done, keystrokes, failures, crashes>>

\* mark_done needs nobody.
ChooseMarkDone(r) ==
    /\ At(r, "choosing") /\ Paper(r) \notin Resumes /\ Step(r, "finishing")
    /\ UNCHANGED <<fvars, attempts, done, keystrokes, failures, crashes>>

\* resume_agent sends the follow-up.
ChooseResume(r) ==
    /\ At(r, "choosing") /\ Paper(r) \in Resumes /\ Ask(r, Paper(r)) /\ Step(r, "sending")
    /\ UNCHANGED <<attempts, done, keystrokes, failures, crashes>>

\* A blocked follow-up is a 409; a failed or undecided one goes on.  Without a terminal
\* there is nothing to type.
FollowupAnswered(r) ==
    /\ At(r, "sending") /\ Leave(r)
    /\ IF calls[r].verdict = "blocked" THEN End(r)
       ELSE \E step \in {"typing", "finishing"} : Step(r, step)
    /\ UNCHANGED <<attempts, done, keystrokes, failures, crashes>>

\* The keystroke was recorded by an earlier request.
ReuseKeystroke(r) ==
    /\ At(r, "typing") /\ acts[r].prior /\ Step(r, "finishing")
    /\ UNCHANGED <<fvars, attempts, done, keystrokes, failures, crashes>>

\* triggerTerminalKeystroke: off, failed (perhaps after typing) or typed.
Keystroke(r) ==
    /\ At(r, "typing") /\ ~acts[r].prior
    /\ \E typed \in BOOLEAN, reported \in BOOLEAN :
          /\ reported => typed
          /\ keystrokes' = [keystrokes EXCEPT ![acts[r].token] = IF typed THEN @ + 1 ELSE @]
          /\ Step(r, IF reported THEN "noting" ELSE "finishing")
    /\ UNCHANGED <<fvars, attempts, done, failures, crashes>>

\* markQueueActionTerminalSent
MarkTerminalSent(r) ==
    /\ At(r, "noting") /\ Step(r, "finishing")
    /\ attempts' = [attempts EXCEPT ![acts[r].token].typed = TRUE]
    /\ UNCHANGED <<fvars, done, keystrokes, failures, crashes>>

MarkDoneMutant(r) ==
    /\ At(r, "finishing") /\ Step(r, "completing")
    /\ IF acts[r].prior THEN UNCHANGED done ELSE done' = done \cup {Paper(r)}
    /\ UNCHANGED <<fvars, attempts, keystrokes, failures, crashes>>
\* markQueueItemDone
MarkDone(r) ==
    /\ At(r, "finishing") /\ Step(r, "completing")
    /\ done' = done \cup {Paper(r)}
    /\ UNCHANGED <<fvars, attempts, keystrokes, failures, crashes>>

MarkCompletedMutant(r) ==
    /\ At(r, "completing") /\ End(r)
    /\ UNCHANGED <<fvars, attempts, done, keystrokes, failures, crashes>>
\* markQueueActionCompleted
MarkCompleted(r) ==
    /\ At(r, "completing") /\ End(r)
    /\ attempts' = [attempts EXCEPT ![acts[r].token].completed = TRUE]
    /\ UNCHANGED <<fvars, done, keystrokes, failures, crashes>>

\* A write of the request rejects, or the follow-up throws: an error is the answer, and
\* the attempt stays as it was recorded.  (A write that is stored though its call rejects
\* is that step and then this one.)
PastKeystroke == {"noting", "finishing", "completing"}
Fail(r) ==
    /\ ~At(r, "idle") /\ End(r)
    /\ IF At(r, "sending") THEN Throw(r) ELSE UNCHANGED fvars
    /\ IF acts[r].step \in PastKeystroke
       THEN /\ failures[acts[r].token] < MaxFailures
            /\ failures' = [failures EXCEPT ![acts[r].token] = @ + 1]
       ELSE UNCHANGED failures
    /\ UNCHANGED <<attempts, done, keystrokes, crashes>>

\* The steps of the follow-up itself, and the reconciliation of stale attempts.
Followup ==
    /\ (\E r \in Requests : Proceed(r)) \/ Reconcile
    /\ UNCHANGED avars

CrashGateway ==
    /\ crashes < MaxCrashes /\ crashes' = crashes + 1
    /\ Crash
    /\ acts' = [r \in Requests |-> NoAct]
    /\ UNCHANGED <<attempts, done, keystrokes, failures>>

-----------------------------------------------------------------------------
Work(r) ==
    \/ RecordAttempt(r) \/ Replay(r) \/ RefuseAction(r) \/ ChooseMarkDone(r) \/ ChooseResume(r)
    \/ FollowupAnswered(r) \/ ReuseKeystroke(r) \/ Keystroke(r)
    \/ MarkTerminalSent(r) \/ MarkDone(r) \/ MarkCompleted(r) \/ Fail(r)

NextActions ==
    \/ \E r \in Requests, t \in Tokens : FindPaper(r, t)
    \/ \E r \in Requests : Work(r)
    \/ Followup
    \/ CrashGateway

SpecActions == InitActions /\ [][NextActions]_qvars

-----------------------------------------------------------------------------
ActionTypeOK ==
    /\ TypeOK
    /\ attempts \in [Tokens -> [known : BOOLEAN, typed : BOOLEAN, completed : BOOLEAN]]
    /\ done \subseteq Papers
    /\ keystrokes \in [Tokens -> Nat]
    /\ failures \in [Tokens -> 0..MaxFailures] /\ crashes \in 0..MaxCrashes
    /\ \A r \in Requests : /\ At(r, "idle") <=> acts[r].token = None
                           /\ At(r, "sending") <=> calls[r].step # "idle"
                           /\ ~At(r, "idle") /\ ~At(r, "recording") => attempts[acts[r].token].known

\* A replay tells the client the truth: a completed attempt's paper was taken off the
\* stack, and a keystroke recorded as typed was typed.
ReplayIsTrue ==
    \A t \in Tokens : /\ attempts[t].completed => PaperOf[t] \in done
                      /\ attempts[t].typed => keystrokes[t] > 0

\* "Idempotency keys on side-effecting routes (so retries are safe)"
\* (docs/ai-engineering-principles.md:113, which names this route at :116), as far as the
\* code goes.  A retry that comes after an answer of success never types again.  What can
\* make a token type more than once is requests that overlap (once each, and once each
\* again after a crash) and an error answered past the keystroke, once for each: the
\* rejected record of a keystroke (routes/queue.ts:710) leaves a token that types again
\* when it is retried.
KeystrokesBounded ==
    \A t \in Tokens : keystrokes[t] <= (1 + crashes) * Cardinality(Requests) + failures[t]
=============================================================================
