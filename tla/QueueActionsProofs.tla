------------------------- MODULE QueueActionsProofs -------------------------
(***************************************************************************)
(* For any requests, tokens and papers: the recommended action drives the   *)
(* follow-up only through its own steps; a replay tells the truth; a token   *)
(* types at most once for each request that may be open at a time, once more *)
(* for each after every crash, and once more for each error answered after   *)
(* the keystroke.                                                           *)
(***************************************************************************)
EXTENDS QueueActions, TaskFollowupProofs

ActSteps == {"idle", "recording", "choosing", "sending", "typing", "noting", "finishing", "completing"}
ActRecord == [step : ActSteps, token : Tokens \cup {None}, prior : BOOLEAN]
Attempt == [known : BOOLEAN, typed : BOOLEAN, completed : BOOLEAN]

ActTables ==
    /\ attempts \in [Tokens -> Attempt]
    /\ done \subseteq Papers
    /\ keystrokes \in [Tokens -> Nat]
    /\ failures \in [Tokens -> 0..MaxFailures] /\ crashes \in 0..MaxCrashes
    /\ acts \in [Requests -> ActRecord]

\* A request about to note a keystroke saw one typed; one about to complete its attempt
\* has taken its paper off the stack.
ActOK(act) ==
    /\ act.step = "idle" <=> act.token = None
    /\ act.step \notin {"idle", "recording"} => attempts[act.token].known
    /\ act.step = "noting" => keystrokes[act.token] > 0
    /\ act.step = "completing" => PaperOf[act.token] \in done

AInv == ActTables /\ ReplayIsTrue /\ \A r \in Requests : ActOK(acts[r])

-----------------------------------------------------------------------------
LEMMA ActInit == InitActions => AInv
<1> SUFFICES ASSUME InitActions PROVE AInv
  OBVIOUS
<1>1. NoAct \in ActRecord /\ NoAct.step = "idle" /\ NoAct.token = None
  BY DEF NoAct, ActRecord, ActSteps
<1>2. NoAttempt \in Attempt /\ ~NoAttempt.typed /\ ~NoAttempt.completed
  BY DEF NoAttempt, Attempt
<1>3. ActTables
  BY <1>1, <1>2, ActionAssumption DEF InitActions, ActTables
<1>4. ReplayIsTrue /\ \A r \in Requests : ActOK(acts[r])
  BY <1>1, <1>2 DEF InitActions, ReplayIsTrue, ActOK
<1> QED BY <1>3, <1>4 DEF AInv

\* What the tables may do in a step: records, decisions and keystrokes only grow.
Grows ==
    /\ attempts' \in [Tokens -> Attempt] /\ done' \subseteq Papers
    /\ keystrokes' \in [Tokens -> Nat]
    /\ failures' \in [Tokens -> 0..MaxFailures] /\ crashes' \in 0..MaxCrashes
    /\ done \subseteq done'
    /\ \A t \in Tokens : /\ attempts[t].known => attempts'[t].known
                         /\ keystrokes[t] <= keystrokes'[t]

\* A step of one request.
LEMMA ActStep ==
    ASSUME AInv, NEW r \in Requests, NEW act \in ActRecord, acts' = [acts EXCEPT ![r] = act],
           Grows, ReplayIsTrue',
           act.step = "idle" <=> act.token = None,
           act.step \notin {"idle", "recording"} => attempts'[act.token].known,
           act.step = "noting" => keystrokes'[act.token] > 0,
           act.step = "completing" => PaperOf[act.token] \in done'
    PROVE  AInv'
<1>1. acts \in [Requests -> ActRecord] /\ attempts \in [Tokens -> Attempt] /\ keystrokes \in [Tokens -> Nat]
  BY DEF AInv, ActTables
<1>2. ActTables'
  BY <1>1 DEF ActTables, Grows
<1>3. ASSUME NEW q \in Requests PROVE ActOK(acts[q])'
  <2>1. CASE q = r
    BY <2>1, <1>1 DEF ActOK
  <2>2. CASE q # r
    <3>1. acts'[q] = acts[q] /\ acts[q] \in ActRecord /\ ActOK(acts[q])
      BY <2>2, <1>1 DEF AInv
    <3>2. acts[q].step # "idle" => acts[q].token \in Tokens
      BY <3>1 DEF ActOK, ActRecord
    <3>3. /\ acts[q].step \notin {"idle", "recording"} => attempts'[acts[q].token].known
          /\ acts[q].step = "completing" => PaperOf[acts[q].token] \in done'
      BY <3>1, <3>2 DEF ActOK, Grows
    <3>4. acts[q].step = "noting" => keystrokes'[acts[q].token] > 0
      BY <3>1, <3>2, <1>1 DEF ActOK, Grows
    <3> QED BY <3>1, <3>3, <3>4 DEF ActOK
  <2> QED BY <2>1, <2>2
<1> QED BY <1>2, <1>3 DEF AInv

\* An open request: its token, its paper.
LEMMA OpenAct ==
    ASSUME AInv, NEW r \in Requests, acts[r].step # "idle"
    PROVE  /\ acts \in [Requests -> ActRecord] /\ acts[r] \in ActRecord /\ ActOK(acts[r])
           /\ acts[r].token \in Tokens /\ acts[r].token # None
           /\ Paper(r) = PaperOf[acts[r].token] /\ Paper(r) \in Papers
<1>1. acts \in [Requests -> ActRecord] /\ acts[r] \in ActRecord /\ ActOK(acts[r])
  BY DEF AInv, ActTables
<1>2. acts[r].token \in Tokens /\ acts[r].token # None
  BY <1>1, ActionAssumption DEF ActOK, ActRecord
<1> QED BY <1>1, <1>2, ActionAssumption DEF Paper

LEMMA SameGrows ==
    ASSUME AInv, UNCHANGED <<attempts, done, keystrokes, failures, crashes>>
    PROVE  Grows /\ ReplayIsTrue'
<1>1. ReplayIsTrue'
  BY DEF AInv, ReplayIsTrue
<1> QED BY <1>1 DEF AInv, ActTables, Grows

\* An open request that goes on without touching the tables, or ends.
LEMMA QuietStep ==
    ASSUME AInv, NEW r \in Requests, acts[r].step \notin {"idle", "recording"},
           NEW step \in {"sending", "typing", "finishing"}, Step(r, step) \/ End(r),
           UNCHANGED <<attempts, done, keystrokes, failures, crashes>>
    PROVE  AInv'
<1>1. Grows /\ ReplayIsTrue'
  BY SameGrows
<1>2. acts[r] \in ActRecord /\ ActOK(acts[r]) /\ acts[r].token # None /\ acts[r].token \in Tokens
  BY OpenAct
<1>3. CASE Step(r, step)
  <2> DEFINE act == [acts[r] EXCEPT !.step = step]
  <2>1. /\ act \in ActRecord /\ act.step = step /\ act.token = acts[r].token
    BY <1>2 DEF ActRecord, ActSteps
  <2>2. acts' = [acts EXCEPT ![r] = act]
    BY <1>2, <1>3, OpenAct DEF Step
  <2>3. attempts'[act.token].known
    BY <1>2, <2>1 DEF ActOK
  <2> HIDE DEF act
  <2> QED BY <1>1, <1>2, <2>1, <2>2, <2>3, ActStep
<1>4. CASE End(r)
  <2>1. NoAct \in ActRecord /\ NoAct.step = "idle" /\ NoAct.token = None
    BY DEF NoAct, ActRecord, ActSteps
  <2> QED BY <2>1, <1>1, <1>4, ActStep DEF End
<1> QED BY <1>3, <1>4

LEMMA FindPaperAInv == ASSUME AInv, NEW r \in Requests, NEW t \in Tokens, FindPaper(r, t) PROVE AInv'
<1> DEFINE act == [step |-> "recording", token |-> t, prior |-> FALSE]
<1>1. acts' = [acts EXCEPT ![r] = act] /\ Grows /\ ReplayIsTrue'
  BY SameGrows DEF FindPaper
<1>2. act \in ActRecord /\ act.step = "recording" /\ act.token # None
  BY ActionAssumption DEF ActRecord, ActSteps
<1> HIDE DEF act
<1> QED BY <1>1, <1>2, ActStep

LEMMA RecordAttemptAInv == ASSUME AInv, NEW r \in Requests, RecordAttempt(r) PROVE AInv'
<1>1. /\ acts[r].step = "recording"
      /\ attempts' = [attempts EXCEPT ![acts[r].token].known = TRUE]
      /\ acts' = [acts EXCEPT ![r].step = "choosing", ![r].prior = attempts[acts[r].token].typed]
      /\ UNCHANGED <<done, keystrokes, failures, crashes>>
  BY DEF RecordAttempt, At
<1>2. acts[r] \in ActRecord /\ acts[r].token \in Tokens /\ acts[r].token # None
  BY <1>1, OpenAct
<1>3. attempts \in [Tokens -> Attempt]
  BY DEF AInv, ActTables
<1> DEFINE act == [acts[r] EXCEPT !.step = "choosing", !.prior = attempts[acts[r].token].typed]
<1>4. acts' = [acts EXCEPT ![r] = act]
  BY <1>1, OpenAct
<1>5. act \in ActRecord /\ act.step = "choosing" /\ act.token = acts[r].token
  BY <1>2, <1>3 DEF ActRecord, ActSteps, Attempt
<1>6. /\ attempts' \in [Tokens -> Attempt] /\ attempts'[acts[r].token].known
      /\ \A t \in Tokens : /\ attempts[t].known => attempts'[t].known
                           /\ attempts'[t].typed = attempts[t].typed
                           /\ attempts'[t].completed = attempts[t].completed
  BY <1>1, <1>2, <1>3 DEF Attempt
<1>7. Grows /\ ReplayIsTrue'
  BY <1>1, <1>6 DEF AInv, ActTables, Grows, ReplayIsTrue
<1> HIDE DEF act
<1> QED BY <1>2, <1>4, <1>5, <1>6, <1>7, ActStep

LEMMA KeystrokeAInv == ASSUME AInv, NEW r \in Requests, Keystroke(r) PROVE AInv'
<1>1. PICK typed \in BOOLEAN, reported \in BOOLEAN :
        /\ reported => typed
        /\ keystrokes' = [keystrokes EXCEPT ![acts[r].token] = IF typed THEN @ + 1 ELSE @]
        /\ Step(r, IF reported THEN "noting" ELSE "finishing")
  BY DEF Keystroke
<1>2. acts[r].step = "typing" /\ UNCHANGED <<attempts, done, failures, crashes>>
  BY DEF Keystroke, At
<1>3. /\ acts[r] \in ActRecord /\ acts[r].token \in Tokens /\ acts[r].token # None
      /\ attempts[acts[r].token].known
  BY <1>2, OpenAct DEF ActOK
<1> DEFINE step == IF reported THEN "noting" ELSE "finishing"
           act == [acts[r] EXCEPT !.step = step]
<1>4. acts' = [acts EXCEPT ![r] = act]
  BY <1>1, <1>2, OpenAct DEF Step
<1>5. act \in ActRecord /\ act.token = acts[r].token /\ act.step = step
  BY <1>3 DEF ActRecord, ActSteps
<1>6. keystrokes \in [Tokens -> Nat]
  BY DEF AInv, ActTables
<1>7. /\ keystrokes' \in [Tokens -> Nat] /\ \A t \in Tokens : keystrokes[t] <= keystrokes'[t]
      /\ reported => keystrokes'[acts[r].token] > 0
  BY <1>1, <1>3, <1>6
<1>8. Grows
  BY <1>2, <1>7 DEF AInv, ActTables, Grows
<1>9. ReplayIsTrue'
  BY <1>2, <1>6, <1>7 DEF AInv, ReplayIsTrue
<1> HIDE DEF act
<1> QED BY <1>2, <1>3, <1>4, <1>5, <1>7, <1>8, <1>9, ActStep

LEMMA MarkTerminalSentAInv == ASSUME AInv, NEW r \in Requests, MarkTerminalSent(r) PROVE AInv'
<1>1. /\ acts[r].step = "noting" /\ Step(r, "finishing")
      /\ attempts' = [attempts EXCEPT ![acts[r].token].typed = TRUE]
      /\ UNCHANGED <<done, keystrokes, failures, crashes>>
  BY DEF MarkTerminalSent, At
<1>2. /\ acts[r] \in ActRecord /\ acts[r].token \in Tokens /\ acts[r].token # None
      /\ attempts[acts[r].token].known /\ keystrokes[acts[r].token] > 0
  BY <1>1, OpenAct DEF ActOK
<1>3. attempts \in [Tokens -> Attempt]
  BY DEF AInv, ActTables
<1> DEFINE act == [acts[r] EXCEPT !.step = "finishing"]
<1>4. acts' = [acts EXCEPT ![r] = act]
  BY <1>1, OpenAct DEF Step
<1>5. act \in ActRecord /\ act.step = "finishing" /\ act.token = acts[r].token
  BY <1>2 DEF ActRecord, ActSteps
<1>6. /\ attempts' \in [Tokens -> Attempt]
      /\ \A t \in Tokens : /\ attempts'[t].known = attempts[t].known
                           /\ attempts'[t].typed => attempts[t].typed \/ t = acts[r].token
                           /\ attempts'[t].completed = attempts[t].completed
  BY <1>1, <1>2, <1>3 DEF Attempt
<1>7. Grows
  BY <1>1, <1>6 DEF AInv, ActTables, Grows
<1>8. ReplayIsTrue'
  BY <1>1, <1>2, <1>6 DEF AInv, ReplayIsTrue
<1> HIDE DEF act
<1> QED BY <1>2, <1>4, <1>5, <1>6, <1>7, <1>8, ActStep

LEMMA MarkDoneAInv == ASSUME AInv, NEW r \in Requests, MarkDone(r) PROVE AInv'
<1>1. /\ acts[r].step = "finishing" /\ Step(r, "completing")
      /\ done' = done \cup {Paper(r)} /\ UNCHANGED <<attempts, keystrokes, failures, crashes>>
  BY DEF MarkDone, At
<1>2. /\ acts[r] \in ActRecord /\ acts[r].token \in Tokens /\ acts[r].token # None
      /\ attempts[acts[r].token].known /\ Paper(r) = PaperOf[acts[r].token] /\ Paper(r) \in Papers
  BY <1>1, OpenAct DEF ActOK
<1> DEFINE act == [acts[r] EXCEPT !.step = "completing"]
<1>3. acts' = [acts EXCEPT ![r] = act]
  BY <1>1, OpenAct DEF Step
<1>4. act \in ActRecord /\ act.step = "completing" /\ act.token = acts[r].token
  BY <1>2 DEF ActRecord, ActSteps
<1>5. Grows
  BY <1>1, <1>2 DEF AInv, ActTables, Grows
<1>6. ReplayIsTrue'
  BY <1>1 DEF AInv, ReplayIsTrue
<1> HIDE DEF act
<1> QED BY <1>1, <1>2, <1>3, <1>4, <1>5, <1>6, ActStep

LEMMA MarkCompletedAInv == ASSUME AInv, NEW r \in Requests, MarkCompleted(r) PROVE AInv'
<1>1. /\ acts[r].step = "completing" /\ acts' = [acts EXCEPT ![r] = NoAct]
      /\ attempts' = [attempts EXCEPT ![acts[r].token].completed = TRUE]
      /\ UNCHANGED <<done, keystrokes, failures, crashes>>
  BY DEF MarkCompleted, At, End
<1>2. acts[r].token \in Tokens /\ PaperOf[acts[r].token] \in done
  BY <1>1, OpenAct DEF ActOK
<1>3. attempts \in [Tokens -> Attempt]
  BY DEF AInv, ActTables
<1>4. /\ attempts' \in [Tokens -> Attempt]
      /\ \A t \in Tokens : /\ attempts'[t].known = attempts[t].known
                           /\ attempts'[t].typed = attempts[t].typed
                           /\ attempts'[t].completed => attempts[t].completed \/ t = acts[r].token
  BY <1>1, <1>2, <1>3 DEF Attempt
<1>5. NoAct \in ActRecord /\ NoAct.step = "idle" /\ NoAct.token = None
  BY DEF NoAct, ActRecord, ActSteps
<1>6. Grows
  BY <1>1, <1>4 DEF AInv, ActTables, Grows
<1>7. ReplayIsTrue'
  BY <1>1, <1>2, <1>4 DEF AInv, ReplayIsTrue
<1> QED BY <1>1, <1>5, <1>6, <1>7, ActStep

\* An error ends the request; it counts when the keystroke is behind it.
LEMMA FailAInv == ASSUME AInv, NEW r \in Requests, Fail(r) PROVE AInv'
<1>1. /\ acts[r].step # "idle" /\ acts' = [acts EXCEPT ![r] = NoAct]
      /\ UNCHANGED <<attempts, done, keystrokes, crashes>>
  BY DEF Fail, At, End
<1>2. NoAct \in ActRecord /\ NoAct.step = "idle" /\ NoAct.token = None
  BY DEF NoAct, ActRecord, ActSteps
<1>3. failures' \in [Tokens -> 0..MaxFailures]
  <2>1. failures \in [Tokens -> 0..MaxFailures] /\ acts[r].token \in Tokens
    BY <1>1, OpenAct DEF AInv, ActTables
  <2>2. CASE failures' = failures
    BY <2>1, <2>2
  <2>3. CASE /\ failures[acts[r].token] < MaxFailures
             /\ failures' = [failures EXCEPT ![acts[r].token] = @ + 1]
    <3>1. failures[acts[r].token] + 1 \in 0..MaxFailures
      BY <2>1, <2>3, ActionAssumption
    <3> QED BY <2>1, <2>3, <3>1
  <2> QED BY <2>2, <2>3 DEF Fail
<1>4. Grows /\ ReplayIsTrue'
  BY <1>1, <1>3 DEF AInv, ActTables, Grows, ReplayIsTrue
<1> QED BY <1>1, <1>2, <1>4, ActStep

LEMMA CrashAInv == ASSUME AInv, CrashGateway PROVE AInv'
<1>1. /\ acts' = [r \in Requests |-> NoAct] /\ crashes' \in 0..MaxCrashes
      /\ UNCHANGED <<attempts, done, keystrokes, failures>>
  BY ActionAssumption DEF AInv, ActTables, CrashGateway
<1>2. NoAct \in ActRecord /\ NoAct.step = "idle" /\ NoAct.token = None
  BY DEF NoAct, ActRecord, ActSteps
<1> QED BY <1>1, <1>2 DEF AInv, ActTables, ActOK, ReplayIsTrue

LEMMA WorkAInv == ASSUME AInv, NEW r \in Requests, Work(r) PROVE AInv'
<1>1. CASE Replay(r)
  <2>1. NoAct \in ActRecord /\ NoAct.step = "idle" /\ NoAct.token = None
    BY DEF NoAct, ActRecord, ActSteps
  <2> QED BY <1>1, <2>1, SameGrows, ActStep DEF Replay, End
<1>2. CASE RefuseAction(r) \/ ChooseMarkDone(r) \/ ChooseResume(r) \/ ReuseKeystroke(r)
  BY <1>2, QuietStep DEF RefuseAction, ChooseMarkDone, ChooseResume, ReuseKeystroke, At
<1>3. CASE FollowupAnswered(r)
  <2>1. \E step \in {"typing", "finishing"} : Step(r, step) \/ End(r)
    BY <1>3 DEF FollowupAnswered
  <2> QED BY <1>3, <2>1, QuietStep DEF FollowupAnswered, At
<1> QED BY <1>1, <1>2, <1>3, RecordAttemptAInv, KeystrokeAInv, MarkTerminalSentAInv, MarkDoneAInv,
           MarkCompletedAInv, FailAInv DEF Work

LEMMA SameAInv == ASSUME AInv, UNCHANGED avars PROVE AInv'
  BY DEF avars, AInv, ActTables, ActOK, ReplayIsTrue

LEMMA NextAInv == AInv /\ [NextActions]_qvars => AInv'
<1> SUFFICES ASSUME AInv, [NextActions]_qvars PROVE AInv'
  OBVIOUS
<1>1. CASE Followup
  BY <1>1, SameAInv DEF Followup
<1>2. CASE UNCHANGED qvars
  BY <1>2, SameAInv DEF qvars
<1> QED BY <1>1, <1>2, FindPaperAInv, WorkAInv, CrashAInv DEF NextActions

\* A replay of a completed action tells the truth: the paper is off the stack, and what is
\* recorded as typed was typed (POST /queue/:id/actions/recommended).
THEOREM ReplaysAreTrue == SpecActions => []ReplayIsTrue
<1>1. AInv => ReplayIsTrue
  BY DEF AInv
<1> QED BY ActInit, NextAInv, <1>1, PTL DEF SpecActions

-----------------------------------------------------------------------------
\* What the action does to the follow-up is a step of the follow-up.
LEMMA FollowupOfAction == AInv /\ [NextActions]_qvars => [Next]_fvars
<1> SUFFICES ASSUME AInv, [NextActions]_qvars PROVE [Next]_fvars
  OBVIOUS
<1>1. ASSUME NEW r \in Requests, NEW t \in Tokens, FindPaper(r, t) PROVE UNCHANGED fvars
  BY <1>1 DEF FindPaper
<1>2. ASSUME NEW r \in Requests, ChooseResume(r) PROVE Next
  <2>1. Paper(r) \in Texts /\ Ask(r, Paper(r))
    BY <1>2, OpenAct DEF ChooseResume, At, Papers
  <2> QED BY <2>1 DEF Next
<1>3. ASSUME NEW r \in Requests, FollowupAnswered(r) PROVE Next
  BY <1>3 DEF FollowupAnswered, Next
<1>8. ASSUME NEW r \in Requests, Fail(r) PROVE Next \/ UNCHANGED fvars
  BY <1>8 DEF Fail, Next
<1>4. ASSUME NEW r \in Requests, Work(r), ~ChooseResume(r), ~FollowupAnswered(r), ~Fail(r)
      PROVE  UNCHANGED fvars
  BY <1>4 DEF Work, RecordAttempt, Replay, RefuseAction, ChooseMarkDone, ReuseKeystroke, Keystroke,
              MarkTerminalSent, MarkDone, MarkCompleted
<1>5. CASE Followup
  BY <1>5 DEF Followup, Next
<1>6. CASE CrashGateway
  BY <1>6 DEF CrashGateway, Next
<1>7. CASE UNCHANGED qvars
  BY <1>7 DEF qvars
<1> QED BY <1>1, <1>2, <1>3, <1>4, <1>5, <1>6, <1>7, <1>8 DEF NextActions

\* Recommended actions, too, are one of the ways to call the follow-up, so what they record
\* as sent reached an agent and only overlapping requests resend
\* (executeQueueAction's sendTaskFollowupWithActivity).
THEOREM ActionsSendFollowups == SpecActions => Spec
<1>1. InitActions => Init
  BY DEF InitActions
<1> QED BY <1>1, ActInit, NextAInv, FollowupOfAction, PTL DEF SpecActions, Spec

-----------------------------------------------------------------------------
\* A request waits for its follow-up exactly while that is open.
Waits(r) == acts[r].step = "sending" <=> calls[r].step # "idle"
AllWait == \A r \in Requests : Waits(r)

LEMMA WaitStep ==
    ASSUME AInv, Inv, AllWait, NEW r \in Requests, NEW act, NEW call,
           acts' = [acts EXCEPT ![r] = act], calls' = [calls EXCEPT ![r] = call],
           act.step = "sending" <=> call.step # "idle"
    PROVE  AllWait'
<1>1. acts \in [Requests -> ActRecord] /\ calls \in [Requests -> CallRecord]
  BY DEF AInv, ActTables, Inv
<1> QED BY <1>1 DEF AllWait, Waits

\* A step of a request that neither asks for a follow-up nor waits for one.
LEMMA WaitPlain ==
    ASSUME AInv, Inv, AllWait, NEW r \in Requests, acts[r].step # "sending", calls' = calls,
           \A q \in Requests : q # r => acts'[q] = acts[q], acts'[r].step # "sending"
    PROVE  AllWait'
  BY DEF AllWait, Waits

LEMMA WorkWaits == ASSUME AInv, Inv, AllWait, NEW r \in Requests, Work(r) PROVE AllWait'
<1>0. acts \in [Requests -> ActRecord] /\ calls \in [Requests -> CallRecord] /\ NoAct.step = "idle"
  BY DEF AInv, ActTables, Inv, NoAct
<1>1. CASE ChooseResume(r)
  <2>1. PICK call : calls' = [calls EXCEPT ![r] = call] /\ call.step # "idle"
    <3> DEFINE known == messages[KeyOf[Paper(r)]]
               call == [step |-> IF known = "none" THEN "claim" ELSE "answered", text |-> Paper(r),
                        verdict |-> known]
    <3>1. calls' = [calls EXCEPT ![r] = call]
      BY <1>1 DEF ChooseResume, Ask
    <3>2. call.step # "idle"
      OBVIOUS
    <3> HIDE DEF call
    <3> QED BY <3>1, <3>2
  <2>2. acts' = [acts EXCEPT ![r] = [acts[r] EXCEPT !.step = "sending"]]
    BY <1>0, <1>1 DEF ChooseResume, Step
  <2>3. [acts[r] EXCEPT !.step = "sending"].step = "sending"
    BY <1>0 DEF ActRecord
  <2> QED BY <2>1, <2>2, <2>3, WaitStep
<1>2. CASE FollowupAnswered(r)
  <2>1. calls' = [calls EXCEPT ![r] = Free] /\ Free.step = "idle"
    BY <1>2 DEF FollowupAnswered, Leave, Free
  <2>2. PICK act : acts' = [acts EXCEPT ![r] = act] /\ act.step # "sending"
    <3>1. CASE End(r)
      BY <3>1, <1>0 DEF End
    <3>2. ASSUME NEW step \in {"typing", "finishing"}, Step(r, step)
          PROVE  \E act : acts' = [acts EXCEPT ![r] = act] /\ act.step # "sending"
      <4>1. acts' = [acts EXCEPT ![r] = [acts[r] EXCEPT !.step = step]]
        BY <3>2, <1>0 DEF Step
      <4>2. [acts[r] EXCEPT !.step = step].step = step
        BY <1>0 DEF ActRecord
      <4> QED BY <4>1, <4>2
    <3> QED BY <1>2, <3>1, <3>2 DEF FollowupAnswered
  <2> QED BY <2>1, <2>2, WaitStep
<1>4. CASE Fail(r)
  <2>1. acts' = [acts EXCEPT ![r] = NoAct] /\ Free.step = "idle"
    BY <1>4 DEF Fail, End, Free
  <2>2. CASE acts[r].step = "sending"
    <3>1. calls' = [calls EXCEPT ![r] = Free]
      BY <1>4, <2>2 DEF Fail, At, Throw
    <3> QED BY <1>0, <2>1, <3>1, WaitStep
  <2>3. CASE acts[r].step # "sending"
    <3>1. calls' = calls
      BY <1>4, <2>3 DEF Fail, At, fvars
    <3> QED BY <1>0, <2>1, <2>3, <3>1, WaitPlain
  <2> QED BY <2>2, <2>3
<1>3. ASSUME ~ChooseResume(r), ~FollowupAnswered(r), ~Fail(r) PROVE AllWait'
  <2>1. calls' = calls /\ acts[r].step # "sending"
    BY <1>3 DEF Work, RecordAttempt, Replay, RefuseAction, ChooseMarkDone, ReuseKeystroke, Keystroke,
                MarkTerminalSent, MarkDone, MarkCompleted, fvars, At
  <2>2. CASE Replay(r) \/ RefuseAction(r) \/ MarkCompleted(r)
    <3>1. acts' = [acts EXCEPT ![r] = NoAct]
      BY <2>2 DEF Replay, RefuseAction, MarkCompleted, End
    <3> QED BY <1>0, <2>1, <3>1, WaitPlain
  <2>3. CASE RecordAttempt(r)
    <3>1. acts' = [acts EXCEPT ![r].step = "choosing", ![r].prior = attempts[acts[r].token].typed]
      BY <2>3 DEF RecordAttempt
    <3>2. acts'[r].step = "choosing" /\ \A q \in Requests : q # r => acts'[q] = acts[q]
      BY <1>0, <3>1 DEF ActRecord
    <3> QED BY <2>1, <3>2, WaitPlain
  <2>4. CASE ChooseMarkDone(r) \/ ReuseKeystroke(r) \/ Keystroke(r) \/ MarkTerminalSent(r) \/ MarkDone(r)
    <3>1. PICK step \in {"noting", "finishing", "completing"} : Step(r, step)
      BY <2>4 DEF ChooseMarkDone, ReuseKeystroke, Keystroke, MarkTerminalSent, MarkDone
    <3>2. acts'[r].step = step /\ \A q \in Requests : q # r => acts'[q] = acts[q]
      BY <1>0, <3>1 DEF Step, ActRecord
    <3> QED BY <2>1, <3>2, WaitPlain
  <2> QED BY <1>3, <2>2, <2>3, <2>4 DEF Work
<1> QED BY <1>1, <1>2, <1>3, <1>4

\* The follow-up's own steps keep a call open.
LEMMA ProceedStaysOpen ==
    ASSUME Inv, NEW r \in Requests, Proceed(r)
    PROVE  \A q \in Requests : calls'[q].step = "idle" <=> calls[q].step = "idle"
<1>1. PICK step, verdict :
        step \in Steps \ {"idle"} /\ Goto(r, step, verdict) /\ calls[r].step # "idle"
  <2>1. CASE Turn(r)
    <3>1. \E verdict : Goto(r, "settle", verdict)
      BY <2>1 DEF Turn
    <3> QED BY <2>1, <3>1 DEF Turn, Steps
  <2>2. CASE Reach(r)
    <3>1. \E step, verdict : step \in {"turn", "settle"} /\ Goto(r, step, verdict)
      BY <2>2 DEF Reach
    <3> QED BY <2>2, <3>1 DEF Reach, Steps
  <2> QED BY <2>1, <2>2 DEF Proceed, Claim, Refuse, Settle, Steps
<1>2. calls \in [Requests -> CallRecord]
  BY DEF Inv
<1> QED BY <1>1, <1>2 DEF Goto, CallRecord

LEMMA NextWaits == ASSUME AInv, Inv, AllWait, [NextActions]_qvars PROVE AllWait'
<1>1. CASE UNCHANGED qvars
  BY <1>1 DEF qvars, fvars, avars, AllWait, Waits
<1>2. ASSUME NEW r \in Requests, NEW t \in Tokens, FindPaper(r, t) PROVE AllWait'
  <2>1. /\ acts' = [acts EXCEPT ![r] = [step |-> "recording", token |-> t, prior |-> FALSE]]
        /\ acts[r].step = "idle" /\ calls' = calls /\ acts \in [Requests -> ActRecord]
    BY <1>2 DEF FindPaper, fvars, AInv, ActTables, At
  <2> QED BY <2>1, WaitPlain
<1>3. CASE Followup
  <2>1. UNCHANGED acts /\ \A q \in Requests : calls'[q].step = "idle" <=> calls[q].step = "idle"
    <3>1. CASE Reconcile
      BY <3>1, <1>3 DEF Reconcile, ListStale, FailStale, Followup, avars
    <3> QED BY <3>1, <1>3, ProceedStaysOpen DEF Followup, avars
  <2> QED BY <2>1 DEF AllWait, Waits
<1>4. CASE CrashGateway
  <2>1. \A q \in Requests : calls'[q] = Free /\ acts'[q] = NoAct
    BY <1>4 DEF CrashGateway, Crash
  <2> QED BY <2>1 DEF AllWait, Waits, Free, NoAct
<1> QED BY <1>1, <1>2, <1>3, <1>4, WorkWaits DEF NextActions

\* The types of the action's records; a request that went on has its attempt on record,
\* and waits for the follow-up it asked for.
THEOREM ActionTypeCorrect == SpecActions => []ActionTypeOK
<1>1. InitActions => AInv /\ Inv /\ AllWait
  <2>1. InitActions => AllWait
    BY DEF InitActions, Init, Free, NoAct, AllWait, Waits
  <2> QED BY <2>1, ActInit, InitInv DEF InitActions
<1>2. AInv /\ Inv /\ AllWait /\ [NextActions]_qvars => (AInv /\ Inv /\ AllWait)'
  BY NextAInv, FollowupOfAction, NextInv, NextWaits
<1>3. AInv /\ Inv /\ AllWait => ActionTypeOK
  BY InvTyped DEF AInv, ActTables, ActOK, Attempt, AllWait, Waits, At, ActionTypeOK
<1> QED BY <1>1, <1>2, <1>3, PTL DEF SpecActions

-----------------------------------------------------------------------------
\* The requests on a token that have yet to type, and those that are past it.
Before(t) == {r \in Requests : acts[r].token = t /\ acts[r].step \in {"choosing", "sending", "typing"}}
After(t) == {r \in Requests : acts[r].token = t /\ acts[r].step \in {"noting", "finishing", "completing"}}

\* What may have been typed since the last crash by requests that answered no error: once
\* for each that is past the keystroke; once the attempt is completed no other request gets
\* that far.
Spent(t) == IF attempts[t].completed THEN Cardinality(Requests) - Cardinality(Before(t))
            ELSE Cardinality(After(t))

Bound(t) == crashes * Cardinality(Requests) + failures[t]
Count == \A t \in Tokens : keystrokes[t] <= Bound(t) + Spent(t)

\* A completed attempt stays so, and finite sets have sizes.
LEMMA Sizes ==
    ASSUME NEW P \in SUBSET Requests, NEW Q \in SUBSET Requests
    PROVE  /\ IsFiniteSet(P) /\ Cardinality(P) \in Nat /\ Cardinality(P) <= Cardinality(Requests)
           /\ Cardinality(Requests) \in Nat
           /\ P \subseteq Q => Cardinality(P) <= Cardinality(Q)
           /\ P \cap Q = {} => Cardinality(P) + Cardinality(Q) <= Cardinality(Requests)
<1>1. IsFiniteSet(Requests) /\ IsFiniteSet(P) /\ IsFiniteSet(Q)
  BY FollowupAssumption, FS_Subset
<1>2. P \cap Q = {} => Cardinality(P \cup Q) = Cardinality(P) + Cardinality(Q)
  <2>1. Cardinality(P \cup Q) = Cardinality(P) + Cardinality(Q) - Cardinality(P \cap Q)
    BY <1>1, FS_Union
  <2>2. Cardinality(P) \in Nat /\ Cardinality(Q) \in Nat
    BY <1>1, FS_CardinalityType
  <2>3. P \cap Q = {} => Cardinality(P \cap Q) = 0
    BY FS_EmptySet, Zenon
  <2> QED BY <2>1, <2>2, <2>3
<1>3. P \cup Q \in SUBSET Requests
  OBVIOUS
<1>4. Cardinality(P \cup Q) <= Cardinality(Requests) /\ Cardinality(P) <= Cardinality(Requests)
  BY <1>1, <1>3, FS_Subset
<1>5. P \subseteq Q => Cardinality(P) <= Cardinality(Q)
  BY <1>1, FS_Subset
<1>6. Cardinality(P) \in Nat /\ Cardinality(Q) \in Nat /\ Cardinality(Requests) \in Nat
  BY <1>1, FS_CardinalityType
<1> QED BY <1>1, <1>2, <1>4, <1>5, <1>6

LEMMA SpentRange ==
    ASSUME NEW t \in Tokens
    PROVE  /\ Before(t) \in SUBSET Requests /\ After(t) \in SUBSET Requests /\ Before(t) \cap After(t) = {}
           /\ Spent(t) \in Nat /\ Spent(t) <= Cardinality(Requests) /\ Cardinality(Requests) \in Nat
<1>1. Before(t) \in SUBSET Requests /\ After(t) \in SUBSET Requests /\ Before(t) \cap After(t) = {}
  BY DEF Before, After
<1>2. /\ Cardinality(Before(t)) \in Nat /\ Cardinality(Before(t)) <= Cardinality(Requests)
      /\ Cardinality(After(t)) \in Nat /\ Cardinality(After(t)) <= Cardinality(Requests)
      /\ Cardinality(Requests) \in Nat
  BY <1>1, Sizes
<1> QED BY <1>1, <1>2 DEF Spent

LEMMA BoundRange ==
    ASSUME AInv, NEW t \in Tokens
    PROVE  /\ Bound(t) \in Nat /\ failures[t] \in Nat /\ crashes * Cardinality(Requests) \in Nat
           /\ crashes \in Nat /\ keystrokes[t] \in Nat
<1>1. crashes \in Nat /\ failures[t] \in Nat /\ keystrokes[t] \in Nat
  BY ActionAssumption DEF AInv, ActTables
<1>2. Cardinality(Requests) \in Nat
  BY SpentRange
<1>3. crashes * Cardinality(Requests) \in Nat
  BY <1>1, <1>2
<1> QED BY <1>1, <1>3 DEF Bound

\* A step that types nothing under t and lets no request past a completed attempt.
LEMMA SpentGrows ==
    ASSUME NEW t \in Tokens,
           attempts[t].completed => attempts'[t].completed,
           attempts'[t].completed => Before(t)' \subseteq Before(t),
           attempts'[t].completed \/ After(t) \subseteq After(t)'
    PROVE  Spent(t)' \in Nat /\ Spent(t) <= Spent(t)'
<1>1. /\ Before(t) \in SUBSET Requests /\ After(t) \in SUBSET Requests /\ Before(t) \cap After(t) = {}
      /\ Before(t)' \in SUBSET Requests /\ After(t)' \in SUBSET Requests
  BY DEF Before, After
<1> DEFINE b == Cardinality(Before(t))
           c == Cardinality(Before(t)')
           d == Cardinality(After(t))
           e == Cardinality(After(t)')
           n == Cardinality(Requests)
<1>2. /\ b \in Nat /\ c \in Nat /\ d \in Nat /\ e \in Nat /\ n \in Nat /\ c <= n /\ b + d <= n
  BY <1>1, Sizes
<1>3. attempts'[t].completed => c <= b
  BY <1>1, Sizes
<1>4. ~attempts'[t].completed => d <= e
  BY <1>1, Sizes
<1>5. /\ Spent(t) = IF attempts[t].completed THEN n - b ELSE d
      /\ Spent(t)' = IF attempts'[t].completed THEN n - c ELSE e
  BY DEF Spent
<1> HIDE DEF b, c, d, e, n
<1> QED BY <1>2, <1>3, <1>4, <1>5

\* A keystroke takes a request of the token past it.
LEMMA KeystrokeCount == ASSUME AInv, Count, NEW r \in Requests, Keystroke(r) PROVE Count'
<1>1. PICK typed \in BOOLEAN, step \in {"noting", "finishing"} :
        /\ keystrokes' = [keystrokes EXCEPT ![acts[r].token] = IF typed THEN @ + 1 ELSE @]
        /\ Step(r, step)
  BY DEF Keystroke
<1>2. acts[r].step = "typing" /\ UNCHANGED <<attempts, failures, crashes>>
  BY DEF Keystroke, At
<1>3. /\ acts \in [Requests -> ActRecord] /\ keystrokes \in [Tokens -> Nat] /\ acts[r].token \in Tokens
      /\ crashes \in Nat
  BY <1>2, OpenAct DEF AInv, ActTables
<1>4. /\ acts'[r].step = step /\ acts'[r].token = acts[r].token
      /\ \A q \in Requests : q # r => acts'[q] = acts[q]
  BY <1>1, <1>3 DEF Step, ActRecord
<1> SUFFICES ASSUME NEW t \in Tokens PROVE keystrokes'[t] <= Bound(t)' + Spent(t)'
  BY DEF Count
<1> DEFINE n == Bound(t)
<1>5. /\ keystrokes[t] <= n + Spent(t) /\ Spent(t) \in Nat /\ Cardinality(Requests) \in Nat
  BY SpentRange DEF Count
<1>6. n \in Nat
  BY BoundRange
<1>7. Bound(t)' = n
  BY <1>2 DEF Bound
<1> HIDE DEF n
<1>8. CASE t # acts[r].token
  <2>1. keystrokes'[t] = keystrokes[t]
    BY <1>1, <1>3, <1>8
  <2>2. Before(t)' = Before(t) /\ After(t)' = After(t)
    BY <1>4, <1>8 DEF Before, After
  <2>3. Spent(t)' = Spent(t)
    BY <1>2, <2>2 DEF Spent
  <2> QED BY <1>5, <1>7, <2>1, <2>3
<1>9. CASE t = acts[r].token
  <2>1. keystrokes'[t] \in Nat /\ keystrokes'[t] <= keystrokes[t] + 1
    BY <1>1, <1>3, <1>9
  <2>2. /\ r \in Before(t) /\ Before(t)' = Before(t) \ {r}
        /\ r \notin After(t) /\ After(t)' = After(t) \cup {r}
    BY <1>2, <1>4, <1>9 DEF Before, After
  <2>3. IsFiniteSet(Before(t)) /\ IsFiniteSet(After(t)) /\ Cardinality(Before(t)) \in Nat /\ Cardinality(After(t)) \in Nat
    BY SpentRange, Sizes
  <2>4. Cardinality(Before(t)') = Cardinality(Before(t)) - 1
    BY <2>2, <2>3, FS_RemoveElement
  <2>5. Cardinality(After(t)') = Cardinality(After(t)) + 1
    BY <2>2, <2>3, FS_AddElement
  <2>6. Spent(t)' = Spent(t) + 1
    BY <1>2, <1>5, <2>3, <2>4, <2>5 DEF Spent
  <2> QED BY <1>3, <1>5, <1>6, <1>7, <2>1, <2>6
<1> QED BY <1>8, <1>9

\* Every other step types nothing.
LEMMA QuietCount ==
    ASSUME AInv, Count, UNCHANGED <<keystrokes, failures, crashes>>,
           \A t \in Tokens : /\ attempts[t].completed => attempts'[t].completed
                             /\ attempts'[t].completed => Before(t)' \subseteq Before(t)
                             /\ attempts'[t].completed \/ After(t) \subseteq After(t)'
    PROVE  Count'
<1> SUFFICES ASSUME NEW t \in Tokens PROVE keystrokes'[t] <= Bound(t)' + Spent(t)'
  BY DEF Count
<1> DEFINE n == Bound(t)
<1>1. Spent(t)' \in Nat /\ Spent(t) <= Spent(t)'
  BY SpentGrows
<1>2. /\ keystrokes[t] <= n + Spent(t) /\ Spent(t) \in Nat /\ n \in Nat /\ keystrokes[t] \in Nat
  BY SpentRange, BoundRange DEF Count
<1>3. Bound(t)' = n /\ keystrokes'[t] = keystrokes[t]
  BY DEF Bound
<1> HIDE DEF n
<1> QED BY <1>1, <1>2, <1>3

\* A step of one request r from one stage to another, on its token.
LEMMA StageCount ==
    ASSUME AInv, Count, UNCHANGED <<keystrokes, failures, crashes>>, NEW r \in Requests, NEW act \in ActRecord,
           acts' = [acts EXCEPT ![r] = act],
           \A t \in Tokens : attempts'[t].completed = attempts[t].completed,
           act.step \in {"choosing", "sending", "typing"} =>
              /\ act.token = acts[r].token
              /\ acts[r].step \in {"choosing", "sending", "typing"} \/ ~attempts[act.token].completed,
           acts[r].step \in {"noting", "finishing", "completing"} =>
              act.step \in {"noting", "finishing", "completing"} /\ act.token = acts[r].token
    PROVE  Count'
<1>1. acts \in [Requests -> ActRecord]
  BY DEF AInv, ActTables
<1>2. acts'[r] = act /\ \A q \in Requests : q # r => acts'[q] = acts[q]
  BY <1>1
<1>3. ASSUME NEW t \in Tokens, attempts'[t].completed PROVE Before(t)' \subseteq Before(t)
  BY <1>2, <1>3 DEF Before
<1>4. ASSUME NEW t \in Tokens PROVE After(t) \subseteq After(t)'
  BY <1>2 DEF After
<1> QED BY <1>3, <1>4, QuietCount

\* An error takes a request off those past the keystroke, and counts for it.
LEMMA FailCount == ASSUME AInv, Count, NEW r \in Requests, Fail(r) PROVE Count'
<1>1. /\ acts[r].step # "idle" /\ acts' = [acts EXCEPT ![r] = NoAct]
      /\ UNCHANGED <<attempts, keystrokes, crashes>>
      /\ NoAct \in ActRecord /\ NoAct.step = "idle"
  BY DEF Fail, At, End, NoAct, ActRecord, ActSteps
<1>2. CASE acts[r].step \notin PastKeystroke
  <2>1. UNCHANGED failures
    BY <1>2 DEF Fail
  <2> QED BY <1>1, <1>2, <2>1, StageCount DEF PastKeystroke
<1>3. CASE acts[r].step \in PastKeystroke
  <2>1. /\ acts \in [Requests -> ActRecord] /\ failures \in [Tokens -> 0..MaxFailures]
        /\ acts[r].token \in Tokens
    BY <1>1, OpenAct DEF AInv, ActTables
  <2>2. /\ failures' = [failures EXCEPT ![acts[r].token] = @ + 1]
        /\ acts'[r] = NoAct /\ \A q \in Requests : q # r => acts'[q] = acts[q]
    BY <1>1, <1>3, <2>1 DEF Fail
  <2> SUFFICES ASSUME NEW t \in Tokens PROVE keystrokes'[t] <= Bound(t)' + Spent(t)'
    BY DEF Count
  <2>3. keystrokes[t] <= Bound(t) + Spent(t) /\ Spent(t) \in Nat
    BY SpentRange DEF Count
  <2>4. /\ Bound(t) \in Nat /\ failures[t] \in Nat /\ keystrokes[t] \in Nat
        /\ crashes * Cardinality(Requests) \in Nat
    BY BoundRange
  <2>5. Before(t)' = Before(t)
    BY <1>1, <1>3, <2>2 DEF Before, PastKeystroke
  <2>6. CASE t # acts[r].token
    <3>1. After(t)' = After(t)
      BY <1>1, <2>2, <2>6 DEF After
    <3>2. Spent(t)' = Spent(t)
      BY <1>1, <2>5, <3>1 DEF Spent
    <3>3. Bound(t)' = Bound(t)
      BY <1>1, <2>1, <2>2, <2>6 DEF Bound
    <3> QED BY <1>1, <2>3, <3>2, <3>3
  <2>7. CASE t = acts[r].token
    <3>1. r \in After(t) /\ After(t)' = After(t) \ {r}
      BY <1>1, <1>3, <2>2, <2>7 DEF After, PastKeystroke
    <3>2. IsFiniteSet(After(t)) /\ Cardinality(After(t)) \in Nat
      BY SpentRange, Sizes
    <3>3. Cardinality(After(t)') = Cardinality(After(t)) - 1
      BY <3>1, <3>2, FS_RemoveElement
    <3>4. Spent(t)' \in Int /\ Spent(t) <= Spent(t)' + 1
      BY <1>1, <2>3, <2>5, <3>2, <3>3 DEF Spent
    <3>5. failures'[t] = failures[t] + 1
      BY <2>1, <2>2, <2>7
    <3>6. Bound(t)' = Bound(t) + 1
      BY <1>1, <2>4, <3>5 DEF Bound
    <3> QED BY <1>1, <2>3, <2>4, <3>4, <3>6
  <2> QED BY <2>6, <2>7
<1> QED BY <1>2, <1>3

LEMMA WorkCount == ASSUME AInv, Count, NEW r \in Requests, Work(r) PROVE Count'
<1>0. /\ acts \in [Requests -> ActRecord] /\ attempts \in [Tokens -> Attempt]
      /\ NoAct \in ActRecord /\ NoAct.step = "idle"
  BY DEF AInv, ActTables, NoAct, ActRecord, ActSteps
<1>1. CASE Replay(r) \/ RefuseAction(r)
  <2>1. /\ acts' = [acts EXCEPT ![r] = NoAct] /\ UNCHANGED <<attempts, keystrokes, failures, crashes>>
        /\ acts[r].step \in {"recording", "choosing"}
    BY <1>1 DEF Replay, RefuseAction, End, At
  <2> QED BY <1>0, <2>1, StageCount
<1>2. CASE RecordAttempt(r)
  <2> DEFINE act == [acts[r] EXCEPT !.step = "choosing", !.prior = attempts[acts[r].token].typed]
  <2>1. /\ acts[r].step = "recording" /\ ~attempts[acts[r].token].completed
        /\ attempts' = [attempts EXCEPT ![acts[r].token].known = TRUE]
        /\ UNCHANGED <<keystrokes, failures, crashes>>
    BY <1>2 DEF RecordAttempt, At
  <2>2. acts[r] \in ActRecord /\ acts[r].token \in Tokens
    BY <2>1, OpenAct
  <2>3. acts' = [acts EXCEPT ![r] = act]
    BY <1>0, <1>2 DEF RecordAttempt
  <2>4. act \in ActRecord /\ act.step = "choosing" /\ act.token = acts[r].token
    BY <1>0, <2>2 DEF ActRecord, ActSteps, Attempt
  <2>5. \A t \in Tokens : attempts'[t].completed = attempts[t].completed
    BY <1>0, <2>1, <2>2 DEF Attempt
  <2> HIDE DEF act
  <2> QED BY <2>1, <2>3, <2>4, <2>5, StageCount
<1>3. ASSUME NEW step \in ActSteps, Step(r, step), UNCHANGED <<keystrokes, failures, crashes>>,
             \A t \in Tokens : attempts'[t].completed = attempts[t].completed,
             step \in {"sending", "typing"} => acts[r].step \in {"choosing", "sending", "typing"},
             step \in {"sending", "typing", "finishing", "completing"},
             acts[r].step \in {"noting", "finishing", "completing"} => step \in {"finishing", "completing"}
      PROVE  Count'
  <2> DEFINE act == [acts[r] EXCEPT !.step = step]
  <2>1. acts' = [acts EXCEPT ![r] = act] /\ act \in ActRecord /\ act.step = step /\ act.token = acts[r].token
    BY <1>0, <1>3 DEF Step, ActRecord
  <2> HIDE DEF act
  <2> QED BY <1>3, <2>1, StageCount
<1>4. CASE ChooseMarkDone(r) \/ ChooseResume(r) \/ ReuseKeystroke(r)
  BY <1>3, <1>4 DEF ChooseMarkDone, ChooseResume, ReuseKeystroke, At, ActSteps
<1>5. CASE FollowupAnswered(r)
  <2>1. acts[r].step = "sending" /\ UNCHANGED <<attempts, keystrokes, failures, crashes>>
    BY <1>5 DEF FollowupAnswered, At
  <2>2. CASE End(r)
    BY <1>0, <2>1, <2>2, StageCount DEF End
  <2>3. ASSUME NEW step \in {"typing", "finishing"}, Step(r, step) PROVE Count'
    BY <1>3, <2>1, <2>3 DEF ActSteps
  <2> QED BY <1>5, <2>2, <2>3 DEF FollowupAnswered
<1>6. CASE MarkTerminalSent(r)
  <2>1. /\ acts[r].step = "noting" /\ Step(r, "finishing") /\ UNCHANGED <<keystrokes, failures, crashes>>
        /\ attempts' = [attempts EXCEPT ![acts[r].token].typed = TRUE]
    BY <1>6 DEF MarkTerminalSent, At
  <2>2. \A t \in Tokens : attempts'[t].completed = attempts[t].completed
    BY <1>0, <2>1 DEF Attempt
  <2> QED BY <1>3, <2>1, <2>2 DEF ActSteps
<1>7. CASE MarkDone(r)
  BY <1>3, <1>7 DEF MarkDone, At, ActSteps
<1>8. CASE MarkCompleted(r)
  <2>1. /\ acts[r].step = "completing" /\ acts' = [acts EXCEPT ![r] = NoAct] /\ UNCHANGED <<keystrokes, failures, crashes>>
        /\ attempts' = [attempts EXCEPT ![acts[r].token].completed = TRUE]
    BY <1>8 DEF MarkCompleted, At, End
  <2>2. /\ acts'[r].step = "idle" /\ \A q \in Requests : q # r => acts'[q] = acts[q]
        /\ acts[r].token \in Tokens
    BY <1>0, <2>1, OpenAct
  <2>3. ASSUME NEW t \in Tokens
        PROVE  /\ attempts[t].completed => attempts'[t].completed
               /\ Before(t)' \subseteq Before(t)
               /\ attempts'[t].completed \/ After(t) \subseteq After(t)'
    <3>1. Before(t)' \subseteq Before(t)
      BY <2>2 DEF Before
    <3>2. CASE t = acts[r].token
      <4>1. attempts'[t].completed
        BY <1>0, <2>1, <3>2 DEF Attempt
      <4> QED BY <3>1, <4>1
    <3>3. CASE t # acts[r].token
      <4>1. attempts'[t] = attempts[t] /\ After(t) \subseteq After(t)'
        BY <1>0, <2>1, <2>2, <3>3 DEF After
      <4> QED BY <3>1, <4>1
    <3> QED BY <3>2, <3>3
  <2> QED BY <2>1, <2>3, QuietCount
<1> QED BY <1>1, <1>2, <1>4, <1>5, <1>6, <1>7, <1>8, KeystrokeCount, FailCount DEF Work

LEMMA CrashCount == ASSUME AInv, Count, CrashGateway PROVE Count'
<1> SUFFICES ASSUME NEW t \in Tokens PROVE keystrokes'[t] <= Bound(t)' + Spent(t)'
  BY DEF Count
<1>1. crashes' = crashes + 1 /\ UNCHANGED <<keystrokes, failures>>
  BY DEF CrashGateway
<1>2. crashes \in Nat /\ keystrokes[t] \in Nat /\ failures[t] \in Nat
  BY BoundRange
<1>3. keystrokes[t] <= crashes * Cardinality(Requests) + failures[t] + Spent(t)
  BY DEF Count, Bound
<1>4. Spent(t) \in Nat /\ Spent(t) <= Cardinality(Requests) /\ Cardinality(Requests) \in Nat
  BY SpentRange
<1>5. Spent(t)' \in Nat
  <2>1. Before(t)' \in SUBSET Requests /\ After(t)' \in SUBSET Requests
    BY DEF Before, After
  <2> QED BY <2>1, Sizes DEF Spent
<1>6. crashes' * Cardinality(Requests) = crashes * Cardinality(Requests) + Cardinality(Requests)
  BY <1>1, <1>2, <1>4
<1>7. crashes * Cardinality(Requests) \in Nat
  BY <1>2, <1>4
<1>8. Bound(t)' = crashes * Cardinality(Requests) + Cardinality(Requests) + failures[t]
  BY <1>1, <1>6 DEF Bound
<1> HIDE DEF Bound
<1> QED BY <1>1, <1>2, <1>3, <1>4, <1>5, <1>7, <1>8

LEMMA NextCount == AInv /\ Count /\ [NextActions]_qvars => Count'
<1> SUFFICES ASSUME AInv, Count, [NextActions]_qvars PROVE Count'
  OBVIOUS
<1>1. ASSUME UNCHANGED avars PROVE Count'
  BY <1>1 DEF avars, Count, Bound, Spent, Before, After
<1>2. ASSUME NEW r \in Requests, NEW t \in Tokens, FindPaper(r, t) PROVE Count'
  <2> DEFINE act == [step |-> "recording", token |-> t, prior |-> FALSE]
  <2>1. /\ acts' = [acts EXCEPT ![r] = act] /\ acts[r].step = "idle"
        /\ UNCHANGED <<attempts, keystrokes, failures, crashes>> /\ act \in ActRecord /\ act.step = "recording"
    BY <1>2 DEF FindPaper, At, ActRecord, ActSteps
  <2> HIDE DEF act
  <2> QED BY <2>1, StageCount
<1>3. CASE Followup
  BY <1>1, <1>3 DEF Followup
<1>4. CASE UNCHANGED qvars
  BY <1>1, <1>4 DEF qvars
<1> QED BY <1>2, <1>3, <1>4, WorkCount, CrashCount DEF NextActions

\* A retry that comes after an answer of success never types again; one after a crash at
\* most once more for each request that was open, and one after an error that was answered
\* past the keystroke at most once more for it (recordQueueActionAttempt's completed
\* attempts are replayed; markQueueActionTerminalSent may reject).
THEOREM KeystrokesAreBounded == SpecActions => []KeystrokesBounded
<1>1. InitActions => Count
  <2> SUFFICES ASSUME InitActions, NEW t \in Tokens
               PROVE  keystrokes[t] <= Bound(t) + Spent(t)
    BY DEF Count
  <2>1. keystrokes[t] = 0
    BY DEF InitActions
  <2>2. Spent(t) \in Nat /\ Bound(t) \in Nat
    BY ActInit, SpentRange, BoundRange
  <2> QED BY <2>1, <2>2
<1>2. AInv /\ Count => KeystrokesBounded
  <2> SUFFICES ASSUME AInv, Count, NEW t \in Tokens
               PROVE  keystrokes[t] <= (1 + crashes) * Cardinality(Requests) + failures[t]
    BY DEF KeystrokesBounded
  <2>1. /\ crashes \in Nat /\ keystrokes[t] \in Nat /\ failures[t] \in Nat
        /\ keystrokes[t] <= crashes * Cardinality(Requests) + failures[t] + Spent(t)
    BY BoundRange DEF Count, Bound
  <2>2. Spent(t) \in Nat /\ Spent(t) <= Cardinality(Requests) /\ Cardinality(Requests) \in Nat
    BY SpentRange
  <2>3. /\ (1 + crashes) * Cardinality(Requests) = crashes * Cardinality(Requests) + Cardinality(Requests)
        /\ crashes * Cardinality(Requests) \in Nat
    BY <2>1, <2>2
  <2> QED BY <2>1, <2>2, <2>3
<1>3. AInv /\ Count /\ [NextActions]_qvars => (AInv /\ Count)'
  BY NextAInv, NextCount
<1> QED BY ActInit, <1>1, <1>2, <1>3, PTL DEF SpecActions
=============================================================================
