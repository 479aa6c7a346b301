---------------------------- MODULE EventProofs ----------------------------
(***************************************************************************)
(* Events on their way into the gateway: EventRouting, and McpPolling before *)
(* it.  For any requests, events and keys, routing drives the follow-up only *)
(* through its own steps, so what is recorded as sent was sent; the first   *)
(* recorded route of an event stands; a trigger fires at most once.  For any *)
(* number of items, any window and any answers, a poll that ends leaves     *)
(* nothing in the store as seen that was not routed or, before the first    *)
(* commit, skipped by a poll that failed.                                   *)
(*                                                                         *)
(* An answer's items are taken in a loop, which the model writes as a        *)
(* recursive function.  That it is one (AcceptingTurns), and what it has     *)
(* done after any number of turns (AnswerTold), is proved from the least     *)
(* turn at which it could fail.                                             *)
(***************************************************************************)
EXTENDS EventRouting, McpPolling, TaskFollowupProofs, SequenceTheorems, WellFoundedInduction

JobSteps == {"idle", "matching", "sending", "recording", "queueing", "claiming", "triggering",
             "firing"}
JobRecord == [step : JobSteps, event : Events \cup {None}]
JobOK(job) == job \in JobRecord /\ (job.step # "idle" => job.event \in Events)

JobTables ==
    /\ routes \in [Events -> {"none", "injected", "queued", "stored", "attached"}]
    /\ firings \subseteq Keys /\ fires \in [Events -> Nat]
    /\ jobs \in [Requests -> JobRecord] /\ \A r \in Requests : JobOK(jobs[r])

\* A request that claimed a firing is the only one under its key, and no paper was made yet.
FiringIsExclusive ==
    /\ \A r \in Requests : At(r, "firing") =>
          /\ KeyOf[Event(r)] \in firings
          /\ \A e \in Events : KeyOf[e] = KeyOf[Event(r)] => fires[e] = 0
    /\ \A r, s \in Requests :
          At(r, "firing") /\ At(s, "firing") /\ KeyOf[Event(r)] = KeyOf[Event(s)] => r = s
    /\ \A e \in Events : fires[e] > 0 => KeyOf[e] \in firings
    /\ \A e \in Events : fires[e] <= 1

RInv == JobTables /\ FiringIsExclusive

-----------------------------------------------------------------------------
LEMMA RoutingInit == InitRouting => Init /\ RInv
<1> SUFFICES ASSUME InitRouting PROVE Init /\ RInv
  OBVIOUS
<1>1. NoJob \in JobRecord /\ JobOK(NoJob) /\ NoJob.step # "firing"
  BY DEF NoJob, JobRecord, JobSteps, JobOK
<1>2. JobTables
  BY <1>1 DEF InitRouting, JobTables
<1>3. FiringIsExclusive
  BY <1>1 DEF InitRouting, FiringIsExclusive, At
<1> QED BY <1>2, <1>3 DEF InitRouting, RInv

\* A step of one request that does not touch the triggers.
LEMMA JobStep ==
    ASSUME RInv, NEW r \in Requests, NEW job, jobs' = [jobs EXCEPT ![r] = job], JobOK(job),
           job.step # "firing", UNCHANGED <<firings, fires>>,
           routes' \in [Events -> {"none", "injected", "queued", "stored", "attached"}]
    PROVE  RInv'
<1>1. job \in JobRecord /\ jobs \in [Requests -> JobRecord]
  BY DEF RInv, JobTables, JobOK
<1>2. /\ jobs' \in [Requests -> JobRecord] /\ jobs'[r] = job
      /\ \A q \in Requests : q # r => jobs'[q] = jobs[q]
  BY <1>1
<1>3. JobTables'
  BY <1>2 DEF RInv, JobTables, JobOK
<1>4. \A q \in Requests : At(q, "firing")' => q # r /\ At(q, "firing") /\ Event(q)' = Event(q)
  BY <1>2 DEF At, Event
<1>5. FiringIsExclusive'
  BY <1>4 DEF RInv, FiringIsExclusive
<1> QED BY <1>3, <1>5 DEF RInv

\* The request goes on to another step.
LEMMA StepOK ==
    ASSUME RInv, NEW r \in Requests, ~At(r, "idle"), NEW step \in JobSteps, Step(r, step)
    PROVE  LET job == [jobs[r] EXCEPT !.step = step] IN
           jobs' = [jobs EXCEPT ![r] = job] /\ JobOK(job) /\ job.step = step
<1>1. jobs \in [Requests -> JobRecord] /\ jobs[r] \in JobRecord /\ jobs[r].event \in Events
  BY DEF RInv, JobTables, JobOK, At
<1> QED BY <1>1 DEF Step, JobOK, JobRecord

LEMMA PlainStep ==
    ASSUME RInv, NEW r \in Requests, ~At(r, "idle"), NEW step \in JobSteps \ {"firing"},
           Step(r, step), UNCHANGED <<firings, fires>>,
           routes' \in [Events -> {"none", "injected", "queued", "stored", "attached"}]
    PROVE  RInv'
<1> DEFINE job == [jobs[r] EXCEPT !.step = step]
<1>1. jobs' = [jobs EXCEPT ![r] = job] /\ JobOK(job) /\ job.step = step
  BY StepOK
<1> HIDE DEF job
<1> QED BY <1>1, JobStep

LEMMA EndStep ==
    ASSUME RInv, NEW r \in Requests, End(r), UNCHANGED <<routes, firings, fires>>
    PROVE  RInv'
<1>1. jobs' = [jobs EXCEPT ![r] = NoJob]
  BY DEF End
<1>2. JobOK(NoJob) /\ NoJob.step # "firing"
  BY DEF NoJob, JobRecord, JobSteps, JobOK
<1>3. routes' \in [Events -> {"none", "injected", "queued", "stored", "attached"}]
  BY DEF RInv, JobTables
<1> QED BY <1>1, <1>2, <1>3, JobStep

LEMMA ReceiveRInv ==
    ASSUME RInv, NEW r \in Requests, NEW e \in Events, Receive(r, e)
    PROVE  RInv'
<1> DEFINE job == [step |-> "matching", event |-> e]
<1>1. jobs' = [jobs EXCEPT ![r] = job] /\ UNCHANGED <<routes, firings, fires>>
  BY DEF Receive
<1>2. JobOK(job) /\ job.step # "firing"
  BY DEF JobOK, JobRecord, JobSteps
<1>3. routes' \in [Events -> {"none", "injected", "queued", "stored", "attached"}]
  BY <1>1 DEF RInv, JobTables
<1> HIDE DEF job
<1> QED BY <1>1, <1>2, <1>3, JobStep

LEMMA RecordRInv ==
    ASSUME RInv, NEW r \in Requests, RecordEventRoute(r) \/ IngestEventAsReviewPacket(r)
    PROVE  RInv'
<1>1. PICK route \in {"injected", "queued", "stored", "attached"} :
        routes' = [routes EXCEPT ![Event(r)] = IF @ = "none" THEN route ELSE @]
  BY DEF RecordEventRoute, IngestEventAsReviewPacket
<1>2. ~At(r, "idle") /\ Step(r, "claiming") /\ UNCHANGED <<firings, fires>>
  BY DEF RecordEventRoute, IngestEventAsReviewPacket, At
<1>3. routes \in [Events -> {"none", "injected", "queued", "stored", "attached"}]
  BY DEF RInv, JobTables
<1>4. routes' \in [Events -> {"none", "injected", "queued", "stored", "attached"}]
  BY <1>1, <1>3
<1>5. "claiming" \in JobSteps \ {"firing"}
  BY DEF JobSteps
<1> QED BY <1>2, <1>4, <1>5, PlainStep

LEMMA ClaimTriggerRInv ==
    ASSUME RInv, NEW r \in Requests, ClaimTrigger(r)
    PROVE  RInv'
<1> DEFINE job == [jobs[r] EXCEPT !.step = "firing"]
<1>1. /\ ~At(r, "idle") /\ Step(r, "firing") /\ KeyOf[Event(r)] \notin firings
      /\ firings' = firings \cup {KeyOf[Event(r)]} /\ UNCHANGED <<routes, fires>>
  BY DEF ClaimTrigger, At
<1>2. jobs' = [jobs EXCEPT ![r] = job] /\ JobOK(job) /\ job.step = "firing"
  BY <1>1, StepOK DEF JobSteps
<1>3. /\ job.event = Event(r) /\ Event(r) \in Events /\ KeyOf[Event(r)] \in Keys
      /\ jobs \in [Requests -> JobRecord] /\ jobs[r] \in JobRecord
  BY <1>1, FollowupAssumption DEF RInv, JobTables, JobOK, JobRecord, At, Event, Events
<1> HIDE DEF job
<1>4. /\ jobs' \in [Requests -> JobRecord] /\ jobs'[r] = job
      /\ \A q \in Requests : q # r => jobs'[q] = jobs[q]
  BY <1>2, <1>3 DEF JobOK
<1>5. JobTables'
  BY <1>1, <1>2, <1>3, <1>4 DEF RInv, JobTables, JobOK
<1>6. /\ Event(r)' = Event(r)
      /\ \A q \in Requests : q # r => (At(q, "firing")' <=> At(q, "firing")) /\ Event(q)' = Event(q)
  BY <1>3, <1>4 DEF At, Event
<1>7. \A q \in Requests : q # r /\ At(q, "firing") => KeyOf[Event(q)] # KeyOf[Event(r)]
  BY <1>1 DEF RInv, FiringIsExclusive
<1>8. \A e \in Events : KeyOf[e] = KeyOf[Event(r)] => fires[e] = 0
  BY <1>1 DEF RInv, FiringIsExclusive, JobTables
<1>9. FiringIsExclusive'
  <2>1. ASSUME NEW q \in Requests, At(q, "firing")'
        PROVE  /\ KeyOf[Event(q)'] \in firings'
               /\ \A e \in Events : KeyOf[e] = KeyOf[Event(q)'] => fires'[e] = 0
    <3>1. CASE q = r
      BY <3>1, <1>1, <1>6, <1>8
    <3>2. CASE q # r
      BY <3>2, <2>1, <1>1, <1>6 DEF RInv, FiringIsExclusive
    <3> QED BY <3>1, <3>2
  <2>2. ASSUME NEW q \in Requests, NEW s \in Requests, At(q, "firing")', At(s, "firing")',
               KeyOf[Event(q)'] = KeyOf[Event(s)']
        PROVE  q = s
    BY <2>2, <1>6, <1>7 DEF RInv, FiringIsExclusive
  <2>3. \A e \in Events : (fires'[e] > 0 => KeyOf[e] \in firings') /\ fires'[e] <= 1
    BY <1>1 DEF RInv, FiringIsExclusive
  <2> QED BY <2>1, <2>2, <2>3 DEF FiringIsExclusive
<1> QED BY <1>5, <1>9 DEF RInv

LEMMA FireTriggerRInv ==
    ASSUME RInv, NEW r \in Requests, FireTrigger(r)
    PROVE  RInv'
<1>1. PICK e \in Events :
        /\ e = Event(r) /\ At(r, "firing") /\ fires[e] = 0 /\ KeyOf[e] \in firings
        /\ fires' = [fires EXCEPT ![e] = @ + 1] /\ UNCHANGED <<routes, firings>>
        /\ jobs' = [jobs EXCEPT ![r] = NoJob]
  <2>1. At(r, "firing") /\ Event(r) \in Events
    BY DEF FireTrigger, RInv, JobTables, JobOK, At, Event
  <2>2. fires[Event(r)] = 0 /\ KeyOf[Event(r)] \in firings
    BY <2>1 DEF RInv, FiringIsExclusive
  <2> QED BY <2>1, <2>2 DEF FireTrigger, End
<1>2. NoJob \in JobRecord /\ JobOK(NoJob) /\ NoJob.step # "firing"
  BY DEF NoJob, JobRecord, JobSteps, JobOK
<1>3. /\ jobs \in [Requests -> JobRecord] /\ fires \in [Events -> Nat] /\ firings \subseteq Keys
      /\ routes \in [Events -> {"none", "injected", "queued", "stored", "attached"}]
  BY DEF RInv, JobTables
<1>4. jobs' \in [Requests -> JobRecord] /\ jobs'[r] = NoJob /\ \A q \in Requests : q # r => jobs'[q] = jobs[q]
  BY <1>1, <1>2, <1>3
<1>5. fires' \in [Events -> Nat] /\ fires'[e] = 1 /\ \A d \in Events : d # e => fires'[d] = fires[d]
  BY <1>1, <1>3
<1>6. JobTables'
  BY <1>1, <1>2, <1>3, <1>4, <1>5 DEF RInv, JobTables
<1>7. \A q \in Requests : At(q, "firing")' => q # r /\ At(q, "firing") /\ Event(q)' = Event(q)
  BY <1>2, <1>4 DEF At, Event
<1>8. \A q \in Requests : q # r /\ At(q, "firing") => KeyOf[Event(q)] # KeyOf[e]
  BY <1>1 DEF RInv, FiringIsExclusive
<1>9. FiringIsExclusive'
  <2>1. ASSUME NEW q \in Requests, At(q, "firing")'
        PROVE  /\ KeyOf[Event(q)'] \in firings'
               /\ \A d \in Events : KeyOf[d] = KeyOf[Event(q)'] => fires'[d] = 0
    BY <2>1, <1>1, <1>5, <1>7, <1>8 DEF RInv, FiringIsExclusive
  <2>2. ASSUME NEW q \in Requests, NEW s \in Requests, At(q, "firing")', At(s, "firing")',
               KeyOf[Event(q)'] = KeyOf[Event(s)']
        PROVE  q = s
    BY <2>2, <1>7 DEF RInv, FiringIsExclusive
  <2>3. \A d \in Events : (fires'[d] > 0 => KeyOf[d] \in firings') /\ fires'[d] <= 1
    BY <1>1, <1>5 DEF RInv, FiringIsExclusive
  <2> QED BY <2>1, <2>2, <2>3 DEF FiringIsExclusive
<1> QED BY <1>6, <1>9 DEF RInv

LEMMA CrashRInv == ASSUME RInv, CrashGateway PROVE RInv'
<1>1. jobs' = [r \in Requests |-> NoJob] /\ UNCHANGED <<routes, firings, fires>>
  BY DEF CrashGateway
<1>2. NoJob \in JobRecord /\ JobOK(NoJob) /\ NoJob.step # "firing"
  BY DEF NoJob, JobRecord, JobSteps, JobOK
<1>3. JobTables'
  BY <1>1, <1>2 DEF RInv, JobTables
<1>4. FiringIsExclusive'
  BY <1>1, <1>2 DEF RInv, FiringIsExclusive, At
<1> QED BY <1>3, <1>4 DEF RInv

LEMMA SameRInv == ASSUME RInv, UNCHANGED <<routes, firings, fires, jobs>> PROVE RInv'
<1>1. JobTables'
  BY DEF RInv, JobTables
<1>2. FiringIsExclusive'
  BY DEF RInv, FiringIsExclusive, At, Event
<1> QED BY <1>1, <1>2 DEF RInv

LEMMA WorkRInv == ASSUME RInv, NEW r \in Requests, Work(r) PROVE RInv'
<1>0. routes \in [Events -> {"none", "injected", "queued", "stored", "attached"}]
  BY DEF RInv, JobTables
<1>1. CASE NoTarget(r)
  BY <1>1, <1>0, PlainStep DEF NoTarget, At, JobSteps
<1>2. CASE Inject(r)
  BY <1>2, <1>0, PlainStep DEF Inject, At, JobSteps
<1>3. CASE FollowupAnswered(r)
  BY <1>3, <1>0, PlainStep DEF FollowupAnswered, At, JobSteps
<1>4. CASE AutoClaimRoutedWindows(r)
  BY <1>4, <1>0, PlainStep DEF AutoClaimRoutedWindows, At, JobSteps
<1>5. CASE SkipTriggers(r)
  BY <1>5, EndStep DEF SkipTriggers
<1> QED BY <1>1, <1>2, <1>3, <1>4, <1>5, RecordRInv, ClaimTriggerRInv, FireTriggerRInv DEF Work

LEMMA NextRInv == RInv /\ [NextRouting]_evars => RInv'
<1> SUFFICES ASSUME RInv, [NextRouting]_evars PROVE RInv'
  OBVIOUS
<1>1. ASSUME NEW r \in Requests, NEW e \in Events, AnswerKnown(r, e) \/ Receive(r, e) PROVE RInv'
  BY <1>1, ReceiveRInv, SameRInv DEF AnswerKnown, evars, rvars
<1>2. CASE Followup
  BY <1>2, SameRInv DEF Followup, rvars
<1>3. CASE UNCHANGED evars
  BY <1>3, SameRInv DEF evars, rvars
<1>4. ASSUME NEW r \in Requests, FollowupThrew(r) PROVE RInv'
  <2>1. routes \in [Events -> {"none", "injected", "queued", "stored", "attached"}]
    BY DEF RInv, JobTables
  <2> QED BY <1>4, <2>1, PlainStep DEF FollowupThrew, At, JobSteps
<1>5. ASSUME NEW r \in Requests, Reject(r) PROVE RInv'
  BY <1>5, EndStep DEF Reject
<1> QED BY <1>1, <1>2, <1>3, <1>4, <1>5, WorkRInv, CrashRInv DEF NextRouting

-----------------------------------------------------------------------------
\* What routing does to the follow-up is a step of the follow-up.
LEMMA FollowupStep == RInv /\ [NextRouting]_evars => [Next]_fvars
<1> SUFFICES ASSUME RInv, [NextRouting]_evars PROVE [Next]_fvars
  OBVIOUS
<1>1. ASSUME NEW r \in Requests, NEW e \in Events, AnswerKnown(r, e) \/ Receive(r, e)
      PROVE  UNCHANGED fvars
  BY <1>1 DEF AnswerKnown, Receive, evars
<1>2. ASSUME NEW r \in Requests, Inject(r) PROVE Next
  <2>1. Event(r) \in Texts /\ Ask(r, Event(r))
    BY <1>2 DEF Inject, RInv, JobTables, JobOK, At, Event, Events
  <2> QED BY <2>1 DEF Next
<1>3. ASSUME NEW r \in Requests, FollowupAnswered(r) PROVE Next
  BY <1>3 DEF FollowupAnswered, Next
<1>4. ASSUME NEW r \in Requests, Work(r), ~Inject(r), ~FollowupAnswered(r) PROVE UNCHANGED fvars
  BY <1>4 DEF Work, NoTarget, RecordEventRoute, IngestEventAsReviewPacket, AutoClaimRoutedWindows,
              SkipTriggers, ClaimTrigger, FireTrigger
<1>5. CASE Followup
  BY <1>5 DEF Followup, Next
<1>6. CASE CrashGateway
  BY <1>6 DEF CrashGateway, Next
<1>7. CASE UNCHANGED evars
  BY <1>7 DEF evars
<1>8. ASSUME NEW r \in Requests, FollowupThrew(r) PROVE Next
  BY <1>8 DEF FollowupThrew, Next
<1>9. ASSUME NEW r \in Requests, Reject(r) PROVE UNCHANGED fvars
  BY <1>9 DEF Reject
<1> QED BY <1>1, <1>2, <1>3, <1>4, <1>5, <1>6, <1>7, <1>8, <1>9 DEF NextRouting

\* Routing leaves the follow-up's promises intact: seen from the follow-up, it is one of
\* the ways to call it (injectEventIntoTaskSessionIfPossible).
THEOREM RoutingSendsFollowups == SpecRouting => Spec
<1> QED BY RoutingInit, NextRInv, FollowupStep, PTL DEF SpecRouting, Spec

\* So what is recorded or answered as sent while events are routed reached an agent.
THEOREM RoutedSendsAreTrue == SpecRouting => []SentIsTrue
<1> QED BY RoutingSendsFollowups, AlwaysTrue, PTL

\* And however often an event is delivered, it is injected at most once for each delivery
\* that may be under way at a time.
THEOREM RoutedOnce == SpecRouting => []OnlyOverlapsResend
<1> QED BY RoutingSendsFollowups, OnlyOverlaps, PTL

-----------------------------------------------------------------------------
\* A request and its follow-up agree.
Agrees(r) ==
    /\ At(r, "idle") <=> Event(r) = None
    /\ At(r, "sending") <=> calls[r].step # "idle"
    /\ At(r, "sending") => calls[r].text = Event(r)

Typed ==
    /\ claimed \subseteq Events /\ rejections \in 0..MaxRejections /\ crashes \in 0..MaxCrashes
    /\ \A r \in Requests : Agrees(r)

\* A step of one request; its call is touched only if it is or becomes the one sending.
LEMMA TypedStep ==
    ASSUME RInv, Inv, Typed, NEW r \in Requests, NEW job \in JobRecord, NEW call \in CallRecord,
           jobs' = [jobs EXCEPT ![r] = job], calls' = [calls EXCEPT ![r] = call],
           job.step = "idle" <=> job.event = None, job.step = "sending" <=> call.step # "idle",
           job.step = "sending" => call.text = job.event,
           claimed' \subseteq Events, rejections' \in 0..MaxRejections, crashes' = crashes
    PROVE  Typed'
<1>1. calls \in [Requests -> CallRecord] /\ jobs \in [Requests -> JobRecord]
  BY DEF Inv, RInv, JobTables
<1>2. ASSUME NEW q \in Requests PROVE Agrees(q)'
  <2>1. CASE q = r
    BY <2>1, <1>1 DEF Agrees, At, Event
  <2>2. CASE q # r
    BY <2>2, <1>1 DEF Typed, Agrees, At, Event
  <2> QED BY <2>1, <2>2
<1> QED BY <1>2 DEF Typed

\* A request that goes on, or ends, without a follow-up.
LEMMA TypedPlain ==
    ASSUME RInv, Inv, Typed, NEW r \in Requests, ~At(r, "idle"), calls[r].step = "idle" \/ calls'[r] = Free,
           \/ calls' = calls
           \/ calls' = [calls EXCEPT ![r] = Free],
           NEW step \in JobSteps \ {"idle", "sending"}, Step(r, step) \/ End(r),
           claimed' \subseteq Events, rejections' \in 0..MaxRejections, crashes' = crashes
    PROVE  Typed'
<1>1. /\ jobs \in [Requests -> JobRecord] /\ calls \in [Requests -> CallRecord]
      /\ JobOK(jobs[r]) /\ jobs[r].step # "idle"
  BY DEF Inv, RInv, JobTables, At
<1>2. None \notin Events /\ Free \in CallRecord /\ Free.step = "idle"
  BY FollowupAssumption DEF Events, Free, CallRecord, Steps, Verdicts
<1>3. PICK call \in CallRecord : calls' = [calls EXCEPT ![r] = call] /\ call.step = "idle"
  <2>1. CASE calls' = calls
    <3>1. calls' = [calls EXCEPT ![r] = calls[r]] /\ calls[r] \in CallRecord
      BY <1>1, <2>1
    <3>2. calls[r].step = "idle"
      BY <1>1, <1>2, <2>1
    <3> QED BY <3>1, <3>2
  <2> QED BY <2>1, <1>2
<1>4. CASE Step(r, step)
  <2> DEFINE job == [jobs[r] EXCEPT !.step = step]
  <2>1. jobs' = [jobs EXCEPT ![r] = job]
    BY <1>1, <1>4 DEF Step
  <2>2. job \in JobRecord /\ job.step = step /\ job.event \in Events
    BY <1>1 DEF JobOK, JobRecord
  <2> HIDE DEF job
  <2> QED BY <2>1, <2>2, <1>2, <1>3, TypedStep
<1>5. CASE End(r)
  <2>1. NoJob \in JobRecord /\ NoJob.step = "idle" /\ NoJob.event = None
    BY DEF NoJob, JobRecord, JobSteps
  <2> QED BY <2>1, <1>3, <1>5, TypedStep DEF End
<1> QED BY <1>4, <1>5

LEMMA WorkTyped == ASSUME RInv, Inv, Typed, NEW r \in Requests, Work(r) PROVE Typed'
<1>0. claimed \subseteq Events /\ rejections \in 0..MaxRejections /\ Agrees(r)
  BY DEF Typed
<1>1. CASE Inject(r)
  <2> DEFINE job == [jobs[r] EXCEPT !.step = "sending"]
             known == messages[KeyOf[Event(r)]]
             call == [step |-> IF known = "none" THEN "claim" ELSE "answered", text |-> Event(r),
                      verdict |-> known]
  <2>1. /\ jobs \in [Requests -> JobRecord] /\ JobOK(jobs[r]) /\ Event(r) \in Texts /\ Event(r) = jobs[r].event
    BY <1>1 DEF RInv, JobTables, Inject, At, JobOK, Event, Events
  <2>2. jobs' = [jobs EXCEPT ![r] = job] /\ calls' = [calls EXCEPT ![r] = call]
    BY <1>1, <2>1 DEF Inject, Step, Ask
  <2>3. known \in Verdicts \cup {"none", "attempted"}
    BY <2>1, FollowupAssumption DEF Inv, Tables
  <2>4. /\ job \in JobRecord /\ job.step = "sending" /\ job.event = Event(r)
        /\ call \in CallRecord /\ call.step # "idle" /\ call.text = Event(r) /\ Event(r) # None
    BY <2>1, <2>3, FollowupAssumption DEF JobOK, JobRecord, JobSteps, CallRecord, Steps
  <2>5. claimed' \subseteq Events /\ rejections' \in 0..MaxRejections /\ crashes' = crashes
    BY <1>0, <1>1 DEF Inject
  <2> HIDE DEF job, call
  <2> QED BY <2>2, <2>4, <2>5, TypedStep
<1>2. CASE FollowupAnswered(r)
  <2>1. calls' = [calls EXCEPT ![r] = Free] /\ claimed' = claimed /\ rejections' = rejections
        /\ crashes' = crashes /\ ~At(r, "idle")
    BY <1>2 DEF FollowupAnswered, Leave, At
  <2>2. PICK step \in {"queueing", "recording"} : Step(r, step)
    BY <1>2 DEF FollowupAnswered
  <2>3. calls'[r] = Free
    BY <2>1 DEF Inv
  <2> QED BY <2>1, <2>2, <2>3, <1>0, TypedPlain DEF JobSteps
<1>3. ASSUME ~Inject(r), ~FollowupAnswered(r) PROVE Typed'
  <2>1. /\ calls' = calls /\ rejections' = rejections /\ crashes' = crashes /\ ~At(r, "idle") /\ ~At(r, "sending")
    BY <1>3 DEF Work, NoTarget, RecordEventRoute, IngestEventAsReviewPacket, AutoClaimRoutedWindows,
                SkipTriggers, ClaimTrigger, FireTrigger, fvars, At
  <2>2. PICK step \in JobSteps \ {"idle", "sending"} : Step(r, step) \/ End(r)
    BY <1>3 DEF Work, NoTarget, RecordEventRoute, IngestEventAsReviewPacket, AutoClaimRoutedWindows,
                SkipTriggers, ClaimTrigger, FireTrigger, JobSteps
  <2>3. CASE AutoClaimRoutedWindows(r)
    <3>1. Event(r) \in Events
      BY <2>3 DEF AutoClaimRoutedWindows, RInv, JobTables, JobOK, At, Event
    <3>2. claimed' \subseteq Events
      BY <2>3, <3>1, <1>0 DEF AutoClaimRoutedWindows
    <3> QED BY <2>1, <2>2, <3>2, <1>0, TypedPlain DEF Agrees
  <2>4. CASE ~AutoClaimRoutedWindows(r)
    <3>1. claimed' = claimed
      BY <1>3, <2>4 DEF Work, NoTarget, RecordEventRoute, IngestEventAsReviewPacket,
                        SkipTriggers, ClaimTrigger, FireTrigger
    <3> QED BY <2>1, <2>2, <3>1, <1>0, TypedPlain DEF Agrees
  <2> QED BY <2>3, <2>4
<1> QED BY <1>1, <1>2, <1>3

\* The follow-up's own steps keep a call open and its text.
LEMMA ProceedKeeps ==
    ASSUME Inv, NEW r \in Requests, Proceed(r)
    PROVE  \A q \in Requests : calls'[q].text = calls[q].text /\ (calls'[q].step = "idle" <=> calls[q].step = "idle")
<1>1. PICK step, verdict :
        step \in Steps \ {"idle"} /\ Goto(r, step, verdict) /\ calls[r].step # "idle"
  <2>1. CASE Turn(r)
    <3>1. \E verdict : Goto(r, "settle", verdict)
      BY <2>1 DEF Turn
    <3> QED BY <2>1, <3>1 DEF Turn, Steps
  <2>2. CASE Reach(r)
    <3>1. \E step, verdict : step \in {"turn", "settle"} /\ Goto(r, step, verdict)
      BY <2>2 DEF Reach
    <3> QED BY <2>2, <3>1 DEF Reach, Steps
  <2> QED BY <2>1, <2>2 DEF Proceed, Claim, Refuse, Settle, Steps
<1>2. calls \in [Requests -> CallRecord]
  BY DEF Inv
<1> QED BY <1>1, <1>2 DEF Goto, CallRecord

LEMMA NextTyped == ASSUME RInv, Inv, Typed, [NextRouting]_evars PROVE Typed'
<1>0. /\ jobs \in [Requests -> JobRecord] /\ calls \in [Requests -> CallRecord]
      /\ NoJob \in JobRecord /\ NoJob.step = "idle" /\ NoJob.event = None
      /\ Free \in CallRecord /\ Free.step = "idle" /\ None \notin Events
  BY FollowupAssumption DEF RInv, JobTables, Inv, NoJob, JobRecord, JobSteps, Free, CallRecord, Steps, Verdicts, Events
<1>1. CASE UNCHANGED evars
  BY <1>1 DEF evars, fvars, rvars, Typed, Agrees, At, Event
<1>2. ASSUME NEW r \in Requests, NEW e \in Events, AnswerKnown(r, e) \/ Receive(r, e) PROVE Typed'
  <2>1. CASE AnswerKnown(r, e)
    BY <2>1, <1>1 DEF AnswerKnown
  <2>2. CASE Receive(r, e)
    <3> DEFINE job == [step |-> "matching", event |-> e]
    <3>1. /\ jobs' = [jobs EXCEPT ![r] = job] /\ calls' = [calls EXCEPT ![r] = calls[r]]
          /\ claimed' = claimed /\ rejections' = rejections /\ crashes' = crashes
      BY <2>2, <1>0 DEF Receive, fvars
    <3>2. calls[r] \in CallRecord /\ calls[r].step = "idle"
      BY <2>2, <1>0 DEF Receive, Typed, Agrees, At
    <3>3. job \in JobRecord /\ job.step = "matching" /\ job.event # None
      BY <1>0 DEF JobRecord, JobSteps
    <3> HIDE DEF job
    <3> QED BY <3>1, <3>2, <3>3, TypedStep DEF Typed
  <2> QED BY <1>2, <2>1, <2>2
<1>3. CASE Followup
  <2>1. UNCHANGED rvars /\ \A q \in Requests : calls'[q].text = calls[q].text /\ (calls'[q].step = "idle" <=> calls[q].step = "idle")
    <3>1. CASE Reconcile
      BY <3>1, <1>3 DEF Reconcile, ListStale, FailStale, Followup
    <3> QED BY <3>1, <1>3, ProceedKeeps DEF Followup
  <2> QED BY <2>1 DEF Typed, Agrees, At, Event, rvars
<1>4. CASE CrashGateway
  <2>1. /\ \A q \in Requests : calls'[q] = Free /\ jobs'[q] = NoJob
        /\ claimed' = claimed /\ rejections' = rejections /\ crashes' \in 0..MaxCrashes
    BY <1>4, CrashAssumption DEF CrashGateway, Crash, Typed
  <2> QED BY <2>1, <1>0 DEF Typed, Agrees, At, Event
<1>5. ASSUME NEW r \in Requests, FollowupThrew(r) PROVE Typed'
  <2>1. /\ calls' = [calls EXCEPT ![r] = Free] /\ claimed' = claimed /\ rejections' = rejections
        /\ crashes' = crashes /\ ~At(r, "idle") /\ Step(r, "queueing")
    BY <1>5 DEF FollowupThrew, Throw, At
  <2>2. calls'[r] = Free
    BY <1>0, <2>1
  <2> QED BY <2>1, <2>2, TypedPlain DEF JobSteps, Typed
<1>6. ASSUME NEW r \in Requests, Reject(r) PROVE Typed'
  <2>1. /\ calls' = calls /\ claimed' = claimed /\ rejections' = rejections + 1 /\ rejections < MaxRejections
        /\ crashes' = crashes /\ ~At(r, "idle") /\ ~At(r, "sending") /\ End(r)
    BY <1>6 DEF Reject, At, fvars
  <2>2. rejections' \in 0..MaxRejections
    BY <2>1, CrashAssumption DEF Typed
  <2>3. calls[r].step = "idle" /\ "matching" \in JobSteps
    BY <2>1 DEF Typed, Agrees, JobSteps
  <2> QED BY <2>1, <2>2, <2>3, TypedPlain DEF Typed
<1> QED BY <1>1, <1>2, <1>3, <1>4, <1>5, <1>6, WorkTyped DEF NextRouting

\* The types of routing's records, and that a request waits for the follow-up it asked
\* for, of its own event (routeEventThroughGateway's await of the injection).
THEOREM RoutingTypeCorrect == SpecRouting => []RoutingTypeOK
<1>1. InitRouting => RInv /\ Inv /\ Typed
  <2>1. InitRouting => Typed
    BY CrashAssumption DEF InitRouting, Init, NoJob, Free, Typed, Agrees, At, Event
  <2> QED BY <2>1, RoutingInit, InitInv
<1>2. RInv /\ Inv /\ Typed /\ [NextRouting]_evars => (RInv /\ Inv /\ Typed)'
  BY NextRInv, FollowupStep, NextInv, NextTyped
<1>3. RInv /\ Inv /\ Typed => RoutingTypeOK
  BY InvTyped DEF RInv, JobTables, Typed, Agrees, RoutingTypeOK
<1> QED BY <1>1, <1>2, <1>3, PTL DEF SpecRouting

-----------------------------------------------------------------------------

\* However many deliveries of an event overlap, and whenever the gateway dies, a trigger
\* makes at most one paper for it (fireMatchingPaperTriggers).
THEOREM TriggersFireOnce == SpecRouting => []TriggerFiresOnce
<1>1. RInv => TriggerFiresOnce
  BY DEF RInv, FiringIsExclusive, TriggerFiresOnce
<1> QED BY RoutingInit, NextRInv, <1>1, PTL DEF SpecRouting

-----------------------------------------------------------------------------
\* Only the two recording steps write a route, and each keeps one that is there.
LEMMA RouteStep ==
    ASSUME RInv, [NextRouting]_evars, NEW e \in Events, routes[e] # "none"
    PROVE  routes'[e] = routes[e]
<1>1. routes \in [Events -> {"none", "injected", "queued", "stored", "attached"}]
  BY DEF RInv, JobTables
<1>2. ASSUME NEW r \in Requests, RecordEventRoute(r) \/ IngestEventAsReviewPacket(r)
      PROVE  routes'[e] = routes[e]
  BY <1>1, <1>2 DEF RecordEventRoute, IngestEventAsReviewPacket
<1>3. ASSUME NEW r \in Requests, Work(r), ~RecordEventRoute(r), ~IngestEventAsReviewPacket(r)
      PROVE  routes' = routes
  BY <1>3 DEF Work, NoTarget, Inject, FollowupAnswered, AutoClaimRoutedWindows, SkipTriggers,
              ClaimTrigger, FireTrigger
<1>4. ASSUME NEW r \in Requests, NEW d \in Events, AnswerKnown(r, d) \/ Receive(r, d)
      PROVE  routes' = routes
  BY <1>4 DEF AnswerKnown, Receive, evars, rvars
<1>5. Followup \/ CrashGateway \/ UNCHANGED evars => routes' = routes
  BY DEF Followup, CrashGateway, evars, rvars
<1>6. ASSUME NEW r \in Requests, FollowupThrew(r) \/ Reject(r) PROVE routes' = routes
  BY <1>6 DEF FollowupThrew, Reject
<1> QED BY <1>2, <1>3, <1>4, <1>5, <1>6 DEF NextRouting

\* The first route recorded for an event stands, whatever other requests for it were half
\* way through (recordEventRoute, ingestEventAsReviewPacket).
THEOREM FirstRouteAlwaysStands == SpecRouting => FirstRouteStands
<1>1. RInv /\ [NextRouting]_evars =>
        [\A e \in Events : routes[e] # "none" => routes'[e] = routes[e]]_evars
  BY RouteStep
<1> QED BY RoutingInit, NextRInv, <1>1, PTL DEF SpecRouting, FirstRouteStands

-----------------------------------------------------------------------------
(* Polling *)

\* Every nonempty set of numbers has a least one: how facts about a loop's turns are proved
\* turn after turn.
LEMMA Least ==
    ASSUME NEW T \in SUBSET Nat, T # {}
    PROVE  \E n \in T : \A k \in T : n <= k
<1>1. IsWellFoundedOn(OpToRel(<, Nat), Nat)
  BY NatLessThanWellFounded
<1>2. PICK n \in T : \A k \in T : ~ (<<k, n>> \in OpToRel(<, Nat))
  BY <1>1, WFMin, Zenon
<1>3. \A k \in T : k < n => <<k, n>> \in OpToRel(<, Nat)
  BY DEF OpToRel
<1>4. \A k \in T : ~(k < n)
  BY <1>2, <1>3, Zenon
<1>5. n \in T
  BY <1>2, Zenon
<1> HIDE <1>1, <1>2, <1>3
<1> QED
  BY ONLY <1>4, <1>5, T \in SUBSET Nat

\* A set that holds 0 and with every number the next one, up to a bound, holds all up to it.
LEMMA UpTo ==
    ASSUME NEW T, NEW bound \in Nat, 0 \in T, \A n \in 0..bound : n \in T /\ n < bound => n + 1 \in T
    PROVE  0..bound \subseteq T
<1> DEFINE Missing == {n \in 0..bound : n \notin T}
<1>1. SUFFICES ASSUME Missing # {} PROVE FALSE
  OBVIOUS
<1>2. PICK n \in Missing : \A k \in Missing : n <= k
  <2>1. Missing \in SUBSET Nat
    OBVIOUS
  <2> HIDE DEF Missing
  <2> QED
    BY <1>1, <2>1, Least
<1>3. n # 0 /\ n - 1 \in 0..bound /\ n - 1 \notin Missing
  BY <1>2
<1> QED
  BY <1>2, <1>3

\* What Accepting computes, turn after turn.
LEMMA AcceptingTurns ==
    ASSUME NEW state, NEW from \in Nat, produced \in Nat, from <= produced
    PROVE  /\ Accepting(state, from)[0] = [state |-> state, events |-> <<>>]
           /\ \A n \in 1..(produced - from) :
                 Accepting(state, from)[n] = Accept(Accepting(state, from)[n - 1], from + n)
<1> DEFINE bound == produced - from
           After(run, n) == IF n = 0 THEN [state |-> state, events |-> <<>>] ELSE Accept(run[n - 1], from + n)
           Runs(run, k) == run = [n \in 0..k |-> After(run, n)]
           Has == {k \in 0..bound : \E run : Runs(run, k)}
<1>1. bound \in Nat
  OBVIOUS
<1>2. 0 \in Has
  <2> DEFINE first == [n \in 0..0 |-> [state |-> state, events |-> <<>>]]
  <2>1. \A n \in 0..0 : After(first, n) = [state |-> state, events |-> <<>>]
    OBVIOUS
  <2>2. Runs(first, 0)
    BY <2>1
  <2>3. \E run : Runs(run, 0)
    <3> HIDE DEF first, Runs
    <3> QED
      BY <2>2
  <2> HIDE DEF Runs, first
  <2> QED
    BY <1>1, <2>3
<1>3. ASSUME NEW k \in 0..bound, k \in Has, k < bound PROVE k + 1 \in Has
  <2>1. PICK run : Runs(run, k)
    BY <1>3
  <2> DEFINE longer == [n \in 0..(k + 1) |-> After(run, n)]
  <2>2. \A n \in 0..k : longer[n] = run[n]
    BY <2>1
  <2>3. ASSUME NEW n \in 0..(k + 1) PROVE After(longer, n) = After(run, n)
    <3>1. n # 0 => n - 1 \in 0..k
      OBVIOUS
    <3> HIDE DEF longer
    <3> QED
      BY <2>2, <3>1
  <2>4. Runs(longer, k + 1)
    <3>1. [n \in 0..(k + 1) |-> After(longer, n)] = [n \in 0..(k + 1) |-> After(run, n)]
      <4> HIDE DEF longer, After
      <4> QED
        BY <2>3
    <3> QED
      BY <3>1
  <2>5. \E r : Runs(r, k + 1)
    <3> HIDE DEF longer, Runs
    <3> QED
      BY <2>4
  <2> HIDE DEF Runs, longer
  <2> QED
    BY <1>1, <1>3, <2>5
<1>4. \E run : Runs(run, bound)
  <2>1. bound \in Has
    <3> HIDE DEF Has, bound
    <3> QED
      BY <1>1, <1>2, <1>3, UpTo
  <2> HIDE DEF Runs
  <2> QED
    BY <2>1
<1>5. Accepting(state, from) = [n \in 0..bound |-> After(Accepting(state, from), n)]
  BY <1>4, Zenon DEF Accepting
<1> QED
  BY <1>1, <1>5

Taken == [state : CursorState, events : Seq(Nat)]

LEMMA AppendValues ==
    ASSUME NEW seq \in Seq(Nat), NEW i \in Nat
    PROVE  Append(seq, i) \in Seq(Nat) /\ Range(Append(seq, i)) = Range(seq) \cup {i}
<1>1. DOMAIN Append(seq, i) = 1..(Len(seq) + 1) /\ DOMAIN seq = 1..Len(seq) /\ Len(seq) \in Nat
  OBVIOUS
<1>2. Append(seq, i)[Len(seq) + 1] = i /\ \A n \in 1..Len(seq) : Append(seq, i)[n] = seq[n]
  OBVIOUS
<1> QED
  BY <1>1, <1>2 DEF Range

\* trimSeen keeps only what was there.
LEMMA NewestValues ==
    ASSUME NEW seen \in Seq(Nat)
    PROVE  Newest(seen) \in Seq(Nat) /\ Range(Newest(seen)) \subseteq Range(seen)
<1> DEFINE first == IF Len(seen) > Window THEN Len(seen) - Window + 1 ELSE 1
<1>1. first \in Nat \ {0} /\ Len(seen) \in Nat
  BY PollingAssumption
<1>2. \A n \in first..Len(seen) : seen[n] \in Nat
  BY <1>1, ElementOfSeq
<1>3. /\ SubSeq(seen, first, Len(seen)) \in Seq(Nat)
      /\ Len(SubSeq(seen, first, Len(seen))) = IF first <= Len(seen) THEN Len(seen) - first + 1 ELSE 0
      /\ \A n \in 1..(Len(seen) - first + 1) : SubSeq(seen, first, Len(seen))[n] = seen[first + n - 1]
  <2> HIDE DEF first
  <2> QED
    BY <1>1, <1>2, SubSeqProperties
<1> HIDE DEF first
<1>4. ASSUME NEW n \in DOMAIN SubSeq(seen, first, Len(seen))
      PROVE  SubSeq(seen, first, Len(seen))[n] \in Range(seen)
  <2>1. n \in 1..(Len(seen) - first + 1) /\ first + n - 1 \in 1..Len(seen)
    BY <1>1, <1>3
  <2> QED
    BY <1>3, <2>1 DEF Range
<1> QED
  BY <1>3, <1>4 DEF Newest, Range, first

\* acceptItem: an item is known or becomes an event, and what is marked as seen was seen or
\* becomes an event.
LEMMA AcceptOne ==
    ASSUME NEW acc \in Taken, NEW i \in Nat
    PROVE  LET next == Accept(acc, i) IN
           /\ next \in Taken
           /\ Range(acc.events) \subseteq Range(next.events)
           /\ i \in Range(acc.state.seen) \cup Range(next.events)
           /\ Range(next.state.seen) \subseteq Range(acc.state.seen) \cup Range(next.events)
           /\ next.state.cursor \in {acc.state.cursor, i}
<1>1. CASE Saw(acc.state, i)
  BY <1>1 DEF Accept, Saw, Range, Taken
<1>2. CASE ~Saw(acc.state, i)
  <2> DEFINE seen == Newest(Append(acc.state.seen, i))
             events == Append(acc.events, i)
  <2>1. acc.state.seen \in Seq(Nat) /\ acc.events \in Seq(Nat)
    BY DEF Taken, CursorState
  <2>2. seen \in Seq(Nat) /\ Range(seen) \subseteq Range(acc.state.seen) \cup {i}
    <3>1. Append(acc.state.seen, i) \in Seq(Nat) /\ Range(Append(acc.state.seen, i)) = Range(acc.state.seen) \cup {i}
      BY <2>1, AppendValues
    <3> QED
      BY <3>1, NewestValues
  <2>3. events \in Seq(Nat) /\ Range(events) = Range(acc.events) \cup {i}
    BY <2>1, AppendValues
  <2>4. Accept(acc, i) = [state |-> [cursor |-> i, seen |-> seen], events |-> events]
    BY <1>2 DEF Accept
  <2> HIDE DEF seen, events
  <2> QED
    BY <2>2, <2>3, <2>4 DEF Taken, CursorState
<1> QED
  BY <1>1, <1>2

\* What an answer leaves: everything in it, and everything marked as seen, was seen before or
\* is an event, and the cursor is where it was or on an item of the answer.
Told(state, from, n, acc) ==
    /\ acc \in Taken
    /\ \A i \in 1..n : from + i \in Range(state.seen) \cup Range(acc.events)
    /\ Range(acc.state.seen) \subseteq Range(state.seen) \cup Range(acc.events)
    /\ acc.state.cursor = state.cursor \/ acc.state.cursor \in (from + 1)..(from + n)

LEMMA AnswerTold ==
    ASSUME NEW state \in CursorState, NEW from \in Nat, produced \in Nat, from <= produced
    PROVE  Told(state, from, produced - from, Accepting(state, from)[produced - from])
<1> DEFINE bound == produced - from
           Has == {n \in 0..bound : Told(state, from, n, Accepting(state, from)[n])}
<1>1. bound \in Nat
  OBVIOUS
<1>2. 0 \in Has
  <2>1. Accepting(state, from)[0] = [state |-> state, events |-> <<>>]
    BY AcceptingTurns
  <2>2. Range(<<>>) = {} /\ <<>> \in Seq(Nat)
    BY DEF Range
  <2>3. Told(state, from, 0, [state |-> state, events |-> <<>>])
    BY <2>2 DEF Told, Taken, CursorState
  <2> QED
    BY <1>1, <2>1, <2>3
<1>3. ASSUME NEW n \in 0..bound, n \in Has, n < bound PROVE n + 1 \in Has
  <2> DEFINE acc == Accepting(state, from)[n]
             next == Accept(acc, from + (n + 1))
  <2>1. acc \in Taken /\ Told(state, from, n, acc)
    BY <1>3 DEF Told
  <2>2. Accepting(state, from)[n + 1] = next
    <3>1. n + 1 \in 1..(produced - from) /\ (n + 1) - 1 = n
      BY <1>1, <1>3
    <3> QED
      BY <3>1, AcceptingTurns
  <2>3. /\ next \in Taken
        /\ Range(acc.events) \subseteq Range(next.events)
        /\ from + (n + 1) \in Range(acc.state.seen) \cup Range(next.events)
        /\ Range(next.state.seen) \subseteq Range(acc.state.seen) \cup Range(next.events)
        /\ next.state.cursor \in {acc.state.cursor, from + (n + 1)}
    <3>1. from + (n + 1) \in Nat
      OBVIOUS
    <3> HIDE DEF acc
    <3> QED
      BY <2>1, <3>1, AcceptOne
  <2>4. Told(state, from, n + 1, next)
    <3> HIDE DEF acc, next
    <3>1. \A i \in 1..(n + 1) : i = n + 1 \/ i \in 1..n
      OBVIOUS
    <3>2. \A i \in 1..(n + 1) : from + i \in Range(state.seen) \cup Range(next.events)
      BY <2>1, <2>3, <3>1 DEF Told
    <3>3. Range(next.state.seen) \subseteq Range(state.seen) \cup Range(next.events)
      BY <2>1, <2>3 DEF Told
    <3>4. next.state.cursor = state.cursor \/ next.state.cursor \in (from + 1)..(from + (n + 1))
      BY <2>1, <2>3 DEF Told, Taken, CursorState
    <3> QED
      BY <2>3, <3>2, <3>3, <3>4 DEF Told
  <2> HIDE DEF next
  <2> QED
    BY <1>1, <1>3, <2>2, <2>4
<1> HIDE DEF Has, bound
<1>4. 0..bound \subseteq Has
  BY <1>1, <1>2, <1>3, UpTo
<1> QED
  BY <1>1, <1>4 DEF Has, bound

-----------------------------------------------------------------------------
\* Everything the state marks as seen or its cursor has passed is among these items.
Covers(items, state) == Range(state.seen) \subseteq items /\ 1..state.cursor \subseteq items

PollRecord == [step : {"idle", "calling", "routing"}, asked : Nat, todo : Seq(Nat), result : CursorState]

Settled == routed \cup skipped

\* A cursor state that passes over nothing but these items.
StateOK(items, state) == state \in CursorState /\ state.cursor <= produced /\ Covers(items, state)

\* What the next poll starts from, if nothing overwrites it, passes over nothing but what
\* is settled; while a poll routes, it is that poll's result.
PollOK(poll) ==
    /\ poll.step = "idle" /\ stored = NoSnapshot => StateOK(Settled, shared)
    /\ poll.step = "calling" => StateOK(Settled, shared) /\ poll.asked = shared.cursor
    /\ poll.step = "routing" => /\ StateOK(Settled \cup Range(poll.todo), poll.result)
                                /\ stored = NoSnapshot => shared = poll.result
    /\ poll.step # "routing" => poll.todo = <<>>

\* The store has what is settled; a poll asks from there, or from what the registry has if
\* there is no snapshot, and holds what is settled or is still to be.
PollInv ==
    /\ produced \in Nat
    /\ stored # NoSnapshot => StateOK(Settled, stored)
    /\ polls \in [Polls -> PollRecord]
    /\ \A q \in Polls : PollOK(polls[q])

\* One poll of the source at a time.
PollsInTurn == \A q, other \in Polls : q = other

LEMMA FreshOK ==
    /\ Fresh \in CursorState /\ NoPoll \in PollRecord /\ NoPoll.step = "idle" /\ NoPoll.todo = <<>>
    /\ Fresh.cursor = 0 /\ \A items : Covers(items, Fresh)
<1>1. <<>> \in Seq(Nat) /\ Range(<<>>) = {}
  BY DEF Range
<1> QED
  BY <1>1 DEF Fresh, NoPoll, CursorState, PollRecord, Covers

LEMMA InitPollInv == InitPolling => PollInv
<1> SUFFICES ASSUME InitPolling PROVE PollInv
  OBVIOUS
<1>1. StateOK(Settled, Fresh) /\ produced \in Nat
  BY FreshOK DEF InitPolling, StateOK
<1>2. PollOK(NoPoll)
  BY <1>1, FreshOK DEF InitPolling, PollOK
<1> QED
  BY <1>1, <1>2, FreshOK DEF InitPolling, PollInv

\* A step of one poll: it keeps the invariant if the poll's new record does, since there is
\* no other poll.
LEMMA PollStep ==
    ASSUME PollInv, PollsInTurn, NEW q \in Polls, NEW poll \in PollRecord,
           polls' = [polls EXCEPT ![q] = poll], UNCHANGED produced,
           (stored # NoSnapshot => StateOK(Settled, stored))', PollOK(poll)'
    PROVE  PollInv'
<1>1. polls' \in [Polls -> PollRecord] /\ \A other \in Polls : polls'[other] = poll
  BY DEF PollInv, PollsInTurn
<1>2. \A other \in Polls : PollOK(polls[other])'
  BY <1>1
<1> QED
  BY <1>1, <1>2 DEF PollInv

LEMMA BeginInv ==
    ASSUME PollInv, PollsInTurn, NEW q \in Polls, Begin(q) PROVE PollInv'
<1>1. StateOK(Settled, shared')
  BY DEF PollInv, PollOK, Begin, PollAt
<1>2. PICK poll \in PollRecord : poll = [NoPoll EXCEPT !.step = "calling", !.asked = shared'.cursor]
  BY <1>1, FreshOK DEF PollRecord, CursorState, NoPoll, StateOK
<1>3. poll.step = "calling" /\ poll.asked = shared'.cursor /\ poll.todo = <<>>
  BY <1>1, <1>2 DEF NoPoll
<1>4. UNCHANGED <<produced, stored, routed, skipped>> /\ polls' = [polls EXCEPT ![q] = poll]
  BY <1>2 DEF Begin
<1>5. StateOK(Settled, shared)'
  BY <1>1, <1>4 DEF StateOK, Settled
<1>6. PollOK(poll)'
  BY <1>3, <1>5 DEF PollOK
<1>7. (stored # NoSnapshot => StateOK(Settled, stored))'
  BY <1>4 DEF PollInv, StateOK, Settled
<1> QED
  BY <1>4, <1>6, <1>7, PollStep

LEMMA TakeAnswerInv ==
    ASSUME PollInv, PollsInTurn, NEW q \in Polls, TakeAnswer(q) PROVE PollInv'
<1>1. /\ polls[q] \in PollRecord /\ polls[q].step = "calling" /\ StateOK(Settled, shared)
      /\ polls[q].asked = shared.cursor
  BY DEF PollInv, PollOK, TakeAnswer, PollAt
<1>2. produced \in Nat /\ shared \in CursorState /\ shared.cursor \in Nat /\ shared.cursor <= produced
      /\ Covers(Settled, shared)
  BY <1>1 DEF PollInv, StateOK, CursorState
<1>3. PICK from \in 0..shared.cursor :
         LET end == Accepting(shared, from)[produced - from]
         IN  /\ shared' \in {end.state, [end.state EXCEPT !.cursor = produced]}
             /\ polls' = [polls EXCEPT ![q].step = "routing", ![q].todo = end.events,
                                       ![q].result = shared']
  BY <1>1 DEF TakeAnswer
<1>4. from \in Nat /\ from <= produced
  BY <1>2
<1> DEFINE end == Accepting(shared, from)[produced - from]
<1>5. Told(shared, from, produced - from, end)
  BY <1>2, <1>4, AnswerTold
<1> DEFINE items == Settled \cup Range(end.events)
<1>6. polls' = [polls EXCEPT ![q] = [polls[q] EXCEPT !.step = "routing", !.todo = end.events, !.result = shared']]
  BY <1>3
<1> HIDE DEF end
<1>7. end.state \in CursorState /\ end.events \in Seq(Nat) /\ end.state.cursor \in Nat
  BY <1>5 DEF Told, Taken, CursorState
<1>8. 1..produced \subseteq items
  <2>1. ASSUME NEW i \in 1..produced PROVE i \in items
    <3>1. CASE i <= shared.cursor
      BY <1>2, <3>1 DEF Covers
    <3>2. CASE i > shared.cursor
      <4>1. i - from \in 1..(produced - from) /\ from + (i - from) = i
        BY <1>2, <1>4, <3>2
      <4> QED
        BY <1>2, <1>5, <4>1 DEF Told, Covers
    <3> QED
      BY <1>2, <3>1, <3>2
  <2> QED
    BY <2>1
<1>9. Range(end.state.seen) \subseteq items /\ end.state.cursor <= produced
  BY <1>2, <1>4, <1>5 DEF Told, Covers
<1>10. /\ shared' \in CursorState /\ shared'.seen = end.state.seen
       /\ shared'.cursor \in {end.state.cursor, produced}
  BY <1>2, <1>3, <1>7 DEF CursorState, end
<1>11. StateOK(items, shared')
  BY <1>2, <1>7, <1>8, <1>9, <1>10 DEF Covers, StateOK
<1>12. PICK poll \in PollRecord :
          poll = [polls[q] EXCEPT !.step = "routing", !.todo = end.events, !.result = shared']
  BY <1>1, <1>7, <1>10 DEF PollRecord
<1>13. /\ UNCHANGED <<produced, stored, routed, skipped>> /\ polls' = [polls EXCEPT ![q] = poll]
       /\ poll.step = "routing" /\ poll.todo = end.events /\ poll.result = shared'
  BY <1>1, <1>6, <1>12 DEF TakeAnswer, PollRecord
<1>14. PollOK(poll)'
  <2>1. Settled' \cup Range(poll.todo) = items
    BY <1>13 DEF Settled
  <2>2. StateOK(Settled \cup Range(poll.todo), poll.result)'
    <3> HIDE DEF items
    <3> QED
      BY <1>11, <1>13, <2>1 DEF StateOK
  <2> QED
    BY <1>13, <2>2 DEF PollOK
<1>15. (stored # NoSnapshot => StateOK(Settled, stored))'
  BY <1>13 DEF PollInv, StateOK, Settled
<1> QED
  BY <1>13, <1>14, <1>15, PollStep

LEMMA RouteInv ==
    ASSUME PollInv, PollsInTurn, NEW q \in Polls, Route(q) PROVE PollInv'
<1> DEFINE todo == polls[q].todo
<1>1. /\ polls[q] \in PollRecord /\ polls[q].step = "routing" /\ todo \in Seq(Nat) /\ todo # <<>>
      /\ StateOK(Settled \cup Range(todo), polls[q].result)
      /\ stored = NoSnapshot => shared = polls[q].result
  BY DEF PollInv, PollOK, Route, PollAt, PollRecord
<1>2. polls' = [polls EXCEPT ![q] = [polls[q] EXCEPT !.todo = Tail(todo)]] /\ routed' = routed \cup {Head(todo)}
      /\ UNCHANGED <<produced, shared, stored, skipped>>
  BY DEF Route
<1>3. Tail(todo) \in Seq(Nat) /\ Range(todo) = Range(Tail(todo)) \cup {Head(todo)}
  <2> HIDE DEF todo
  <2>1. Len(todo) \in Nat \ {0} /\ DOMAIN todo = 1..Len(todo) /\ Head(todo) = todo[1]
    BY <1>1, EmptySeq
  <2>2. /\ Tail(todo) \in Seq(Nat) /\ DOMAIN Tail(todo) = 1..(Len(todo) - 1)
        /\ \A n \in 1..(Len(todo) - 1) : Tail(todo)[n] = todo[n + 1]
    BY <1>1, <2>1
  <2>4. Range(todo) \subseteq Range(Tail(todo)) \cup {Head(todo)}
    <3>1. ASSUME NEW n \in 1..Len(todo) PROVE todo[n] \in Range(Tail(todo)) \cup {Head(todo)}
      <4>1. CASE n = 1
        BY <2>1, <4>1
      <4>2. CASE n # 1
        <5> DEFINE m == n - 1
        <5>1. m \in DOMAIN Tail(todo) /\ Tail(todo)[m] = todo[m + 1] /\ m + 1 = n
          BY <2>1, <2>2, <4>2
        <5> HIDE DEF m
        <5> QED
          BY <5>1 DEF Range
      <4> QED
        BY <4>1, <4>2
    <3> QED
      BY <2>1, <3>1 DEF Range
  <2>5. \A n \in 1..(Len(todo) - 1) : n + 1 \in 1..Len(todo)
    BY <2>1
  <2>6. Range(Tail(todo)) \cup {Head(todo)} \subseteq Range(todo)
    BY <2>1, <2>2, <2>5 DEF Range
  <2> QED
    BY <2>2, <2>4, <2>6
<1>4. Settled' \cup Range(Tail(todo)) = Settled \cup Range(todo)
  BY <1>2, <1>3 DEF Settled
<1>5. PICK poll \in PollRecord : poll = [polls[q] EXCEPT !.todo = Tail(todo)]
  BY <1>1, <1>3 DEF PollRecord
<1>6. poll.step = "routing" /\ poll.todo = Tail(todo) /\ poll.result = polls[q].result
  BY <1>1, <1>5 DEF PollRecord
<1> HIDE DEF todo
<1>8. PollOK(poll)'
  <2>1. StateOK(Settled \cup Range(poll.todo), poll.result)'
    BY <1>1, <1>2, <1>4, <1>6 DEF StateOK
  <2> QED
    BY <1>1, <1>2, <1>6, <2>1 DEF PollOK
<1>7. (stored # NoSnapshot => StateOK(Settled, stored))'
  BY <1>2 DEF PollInv, StateOK, Settled, Covers
<1> QED
  BY <1>2, <1>5, <1>7, <1>8, PollStep

LEMMA CommitInv ==
    ASSUME PollInv, PollsInTurn, NEW q \in Polls, Commit(q) PROVE PollInv'
<1>1. /\ polls[q] \in PollRecord /\ polls[q].result \in CursorState /\ polls[q].todo = <<>>
      /\ StateOK(Settled \cup Range(polls[q].todo), polls[q].result)
  BY DEF PollInv, PollOK, Commit, PollAt, PollRecord
<1>2. Range(<<>>) = {}
  BY DEF Range
<1>3. StateOK(Settled, polls[q].result)
  BY <1>1, <1>2
<1>4. /\ stored' = polls[q].result /\ polls' = [polls EXCEPT ![q] = NoPoll]
      /\ UNCHANGED <<produced, shared, routed, skipped>>
  BY DEF Commit
<1>5. stored' # NoSnapshot
  BY <1>1, <1>4, PollingAssumption
<1>6. PollOK(NoPoll)'
  BY <1>5, FreshOK DEF PollOK
<1>7. (stored # NoSnapshot => StateOK(Settled, stored))'
  BY <1>3, <1>4 DEF StateOK, Settled
<1> QED
  BY <1>4, <1>6, <1>7, FreshOK, PollStep

\* What a failed poll marked as seen is settled: routed, skipped, or forgotten by the next
\* poll.
LEMMA FailInv ==
    ASSUME PollInv, PollsInTurn, NEW q \in Polls, Fail(q) PROVE PollInv'
<1>1. /\ polls' = [polls EXCEPT ![q] = NoPoll] /\ UNCHANGED <<produced, shared, stored, routed>>
      /\ skipped' = IF stored = NoSnapshot THEN skipped \cup Range(polls[q].todo) ELSE skipped
      /\ polls[q].step # "idle" /\ polls[q] \in PollRecord /\ PollOK(polls[q])
  BY DEF Fail, PollAt, PollInv, Range
<1>2. \A items, state : StateOK(items, state)' = StateOK(items, state)
  BY <1>1 DEF StateOK
<1>3. ASSUME stored = NoSnapshot PROVE StateOK(Settled', shared)
  <2>1. Settled' = Settled \cup Range(polls[q].todo)
    BY <1>1, <1>3 DEF Settled
  <2>2. CASE polls[q].step = "routing"
    BY <1>1, <1>3, <2>1, <2>2 DEF PollOK
  <2>3. CASE polls[q].step = "calling"
    <3>1. StateOK(Settled, shared)
      BY <1>1, <2>3 DEF PollOK
    <3> QED
      BY <2>1, <3>1 DEF StateOK, Covers
  <2> QED
    BY <1>1, <2>2, <2>3 DEF PollRecord
<1>4. PollOK(NoPoll)'
  <2>1. stored' = NoSnapshot => StateOK(Settled, shared)'
    BY <1>1, <1>3 DEF StateOK
  <2> QED
    BY <2>1, FreshOK DEF PollOK
<1>5. (stored # NoSnapshot => StateOK(Settled, stored))'
  BY <1>1 DEF PollInv, StateOK, Settled
<1> QED
  BY <1>1, <1>4, <1>5, FreshOK, PollStep

\* The source goes its way, or the gateway dies and forgets.
LEMMA QuietInv ==
    ASSUME PollInv, UNCHANGED <<stored, routed, skipped>>, produced' \in Nat, produced <= produced',
           \/ UNCHANGED <<polls, shared>>
           \/ polls' = [q \in Polls |-> NoPoll] /\ shared' = Fresh
    PROVE  PollInv'
<1>1. Settled' = Settled /\ produced \in Nat
  BY DEF Settled, PollInv
<1>2. ASSUME NEW items, NEW state, StateOK(items, state)
      PROVE  state \in CursorState /\ state.cursor <= produced' /\ Covers(items, state)
  BY <1>1, <1>2 DEF StateOK, CursorState
<1>3. (stored # NoSnapshot => StateOK(Settled, stored))'
  BY <1>1, <1>2 DEF PollInv, StateOK
<1>4. CASE UNCHANGED <<polls, shared>>
  <2>1. ASSUME NEW q \in Polls PROVE PollOK(polls[q])'
    <3>1. PollOK(polls[q])
      BY DEF PollInv
    <3> QED
      BY <1>1, <1>2, <1>4, <3>1 DEF PollOK, StateOK
  <2> QED
    BY <1>3, <1>4, <2>1 DEF PollInv
<1>5. CASE polls' = [q \in Polls |-> NoPoll] /\ shared' = Fresh
  <2>1. StateOK(Settled, shared)'
    BY <1>5, FreshOK DEF StateOK
  <2>2. PollOK(NoPoll)'
    BY <2>1, FreshOK DEF PollOK
  <2> QED
    BY <1>3, <1>5, <2>2, FreshOK DEF PollInv
<1> QED
  BY <1>4, <1>5

LEMMA NextPollInv == PollsInTurn /\ PollInv /\ [NextPolling]_mvars => PollInv'
<1> SUFFICES ASSUME PollsInTurn, PollInv, [NextPolling]_mvars PROVE PollInv'
  OBVIOUS
<1>0. produced \in Nat
  BY DEF PollInv
<1>1. CASE Produce
  BY <1>0, <1>1, QuietInv DEF Produce
<1>2. ASSUME NEW q \in Polls, Begin(q) \/ TakeAnswer(q) \/ Route(q) \/ Commit(q) \/ Fail(q) PROVE PollInv'
  BY <1>2, BeginInv, TakeAnswerInv, RouteInv, CommitInv, FailInv
<1>3. CASE CrashPolling
  BY <1>0, <1>3, QuietInv DEF CrashPolling
<1>4. CASE UNCHANGED mvars
  BY <1>0, <1>4, QuietInv DEF mvars
<1> QED
  BY <1>1, <1>2, <1>3, <1>4 DEF NextPolling

\* Of a source that is polled by one poll at a time: what the store says was seen, or passed
\* by the cursor, was routed, whatever failed or died at whatever point.  The one exception
\* is in the statement: a poll that fails before the first commit skips what it had marked
\* as seen and not routed (hydrateCursorState has nothing to overwrite the mark with).
THEOREM CommittedWasAlwaysRouted == PollsInTurn => (SpecPolling => []CommittedWasRouted)
<1> SUFFICES ASSUME PollsInTurn PROVE SpecPolling => []CommittedWasRouted
  OBVIOUS
<1>1. InitPolling => PollInv
  BY InitPollInv
<1>2. PollInv /\ [NextPolling]_mvars => PollInv'
  BY NextPollInv
<1>3. PollInv => CommittedWasRouted
  BY DEF PollInv, CommittedWasRouted, StateOK, Settled, Covers, Range
<1> QED
  BY <1>1, <1>2, <1>3, PTL DEF SpecPolling
=============================================================================
