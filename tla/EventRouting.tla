---------------------------- MODULE EventRouting ----------------------------
(***************************************************************************)
(* Routing an event through the gateway (routeEventThroughGateway): an event *)
(* already recorded is answered from the record; otherwise the gateway tries *)
(* to inject it into a task session, falls back to a paper for the human     *)
(* when the follow-up fails or is blocked, records the route, claims the     *)
(* routed windows and fires the paper triggers that match.  A follow-up that *)
(* throws is caught and falls back to the human; any other write that       *)
(* rejects ends the request with an error.                                  *)
(*                                                                         *)
(* The follow-up is TaskFollowup's, under the key "inject_<idempotency key>" *)
(* which, unlike the event's record, leaves the event's source out.  Sources *)
(* retry, so one event may be routed by several requests at once.            *)
(***************************************************************************)
EXTENDS TaskFollowup

CONSTANTS
    MaxCrashes,    \* bound: how often the gateway dies
    MaxRejections  \* bound: how often a store write of a request rejects

ASSUME CrashAssumption == MaxCrashes \in Nat /\ MaxRejections \in Nat

Events == Texts            \* an event is told apart by (source, idempotency key)

VARIABLES
    routes,        \* the recorded route decision of each event
    claimed,       \* events whose windows were claimed for their task
    firings,       \* paper_trigger_firings: keys, whoever sent them, that claimed the trigger
    fires,         \* how often the trigger made a paper for an event
    jobs,          \* where each request stands
    rejections,
    crashes

rvars == <<routes, claimed, firings, fires, jobs, rejections, crashes>>
evars == <<fvars, rvars>>

NoJob == [step |-> "idle", event |-> None]
Event(r) == jobs[r].event
At(r, step) == jobs[r].step = step
Step(r, step) == jobs' = [jobs EXCEPT ![r].step = step]
End(r) == jobs' = [jobs EXCEPT ![r] = NoJob]

-----------------------------------------------------------------------------
InitRouting ==
    /\ Init
    /\ routes = [e \in Events |-> "none"]
    /\ claimed = {} /\ firings = {}
    /\ fires = [e \in Events |-> 0]
    /\ jobs = [r \in Requests |-> NoJob]
    /\ rejections = 0 /\ crashes = 0

\* getEventByIdempotencyKey finds a record: the event is answered from it at once.
AnswerKnown(r, e) == At(r, "idle") /\ routes[e] # "none" /\ UNCHANGED evars

\* It finds none.
Receive(r, e) ==
    /\ At(r, "idle") /\ routes[e] = "none"
    /\ jobs' = [jobs EXCEPT ![r] = [step |-> "matching", event |-> e]]
    /\ UNCHANGED <<fvars, routes, claimed, firings, fires, rejections, crashes>>

\* No session takes the event, or looking for one failed.
NoTarget(r) ==
    /\ At(r, "matching") /\ Step(r, "queueing")
    /\ UNCHANGED <<fvars, routes, claimed, firings, fires, rejections, crashes>>

\* injectEventIntoTaskSessionIfPossible found a session.
Inject(r) ==
    /\ At(r, "matching") /\ Ask(r, Event(r)) /\ Step(r, "sending")
    /\ UNCHANGED <<routes, claimed, firings, fires, rejections, crashes>>

FollowupAnsweredMutant(r) ==
    /\ At(r, "sending") /\ Leave(r)
    /\ IF calls[r].verdict \in {"blocked", "failed"} THEN End(r) ELSE Step(r, "recording")
    /\ UNCHANGED <<routes, claimed, firings, fires, rejections, crashes>>
\* The follow-up returned; only a blocked or failed one falls back to the human.
FollowupAnswered(r) ==
    /\ At(r, "sending") /\ Leave(r)
    /\ Step(r, IF calls[r].verdict \in {"blocked", "failed"} THEN "queueing" ELSE "recording")
    /\ UNCHANGED <<routes, claimed, firings, fires, rejections, crashes>>

RecordEventRouteMutant(r) ==
    /\ At(r, "recording") /\ Step(r, "claiming")
    /\ routes' = [routes EXCEPT ![Event(r)] = "injected"]
    /\ UNCHANGED <<fvars, claimed, firings, fires, rejections, crashes>>
\* The follow-up threw: caught, as a failed one.
FollowupThrew(r) ==
    /\ At(r, "sending") /\ Throw(r) /\ Step(r, "queueing")
    /\ UNCHANGED <<routes, claimed, firings, fires, rejections, crashes>>

\* recordEventRoute: a route recorded meanwhile stands.
RecordEventRoute(r) ==
    /\ At(r, "recording") /\ Step(r, "claiming")
    /\ routes' = [routes EXCEPT ![Event(r)] = IF @ = "none" THEN "injected" ELSE @]
    /\ UNCHANGED <<fvars, claimed, firings, fires, rejections, crashes>>

\* ingestEventAsReviewPacket: likewise; decideRouteForEvent queues a paper, stores the
\* event or attaches it to a task.
IngestEventAsReviewPacket(r) ==
    /\ At(r, "queueing") /\ Step(r, "claiming")
    /\ \E route \in {"queued", "stored", "attached"} :
          routes' = [routes EXCEPT ![Event(r)] = IF @ = "none" THEN route ELSE @]
    /\ UNCHANGED <<fvars, claimed, firings, fires, rejections, crashes>>

\* autoClaimRoutedWindows, if the task exists and the event names windows.
AutoClaimRoutedWindows(r) ==
    /\ At(r, "claiming") /\ Step(r, "triggering")
    /\ \/ UNCHANGED claimed
       \/ routes[Event(r)] \in {"injected", "attached"} /\ claimed' = claimed \cup {Event(r)}
    /\ UNCHANGED <<fvars, routes, firings, fires, rejections, crashes>>

\* fireMatchingPaperTriggers: manual mode is on, no trigger matches, or an event under
\* this key has fired it before.
SkipTriggers(r) ==
    /\ At(r, "triggering") /\ End(r)
    /\ UNCHANGED <<fvars, routes, claimed, firings, fires, rejections, crashes>>

ClaimTriggerMutant(r) ==
    /\ At(r, "triggering") /\ Step(r, "firing")
    /\ firings' = firings \cup {KeyOf[Event(r)]}
    /\ UNCHANGED <<fvars, routes, claimed, fires, rejections, crashes>>
\* tryRegisterPaperTriggerFiring wins.
ClaimTrigger(r) ==
    /\ At(r, "triggering") /\ Step(r, "firing")
    /\ KeyOf[Event(r)] \notin firings
    /\ firings' = firings \cup {KeyOf[Event(r)]}
    /\ UNCHANGED <<fvars, routes, claimed, fires, rejections, crashes>>

\* The trigger's paper is ingested and the firing counted.
FireTrigger(r) ==
    /\ At(r, "firing") /\ End(r)
    /\ fires' = [fires EXCEPT ![Event(r)] = @ + 1]
    /\ UNCHANGED <<fvars, routes, claimed, firings, rejections, crashes>>

\* A write rejects: the source gets an error, and what was written stays.
Reject(r) ==
    /\ jobs[r].step \in {"recording", "queueing", "claiming", "triggering", "firing"} /\ End(r)
    /\ rejections < MaxRejections /\ rejections' = rejections + 1
    /\ UNCHANGED <<fvars, routes, claimed, firings, fires, crashes>>

\* The steps of the follow-up itself, and the reconciliation of stale attempts.
Followup ==
    /\ (\E r \in Requests : Proceed(r)) \/ Reconcile
    /\ UNCHANGED rvars

\* The requests in flight die with the gateway.
CrashGateway ==
    /\ crashes < MaxCrashes /\ crashes' = crashes + 1
    /\ Crash
    /\ jobs' = [r \in Requests |-> NoJob]
    /\ UNCHANGED <<routes, claimed, firings, fires, rejections>>

-----------------------------------------------------------------------------
\* What a request does by itself once it has arrived.
Work(r) ==
    \/ NoTarget(r) \/ Inject(r) \/ FollowupAnswered(r)
    \/ RecordEventRoute(r) \/ IngestEventAsReviewPacket(r) \/ AutoClaimRoutedWindows(r)
    \/ SkipTriggers(r) \/ ClaimTrigger(r) \/ FireTrigger(r)

NextRouting ==
    \/ \E r \in Requests, e \in Events : AnswerKnown(r, e) \/ Receive(r, e)
    \/ \E r \in Requests : Work(r) \/ FollowupThrew(r) \/ Reject(r)
    \/ Followup
    \/ CrashGateway

SpecRouting == InitRouting /\ [][NextRouting]_evars

\* The source of each event retries until the event is recorded, requests go on, and
\* somebody reconciles stale attempts.
FairRouting ==
    /\ SpecRouting
    /\ \A e \in Events : SF_evars(\E r \in Requests : Receive(r, e))
    /\ \A r \in Requests : WF_evars(Work(r)) /\ WF_evars(Proceed(r) /\ UNCHANGED rvars)
    /\ WF_evars(ListStale /\ UNCHANGED rvars)
    /\ \A k \in Keys : WF_evars(FailStale(k) /\ UNCHANGED rvars)

-----------------------------------------------------------------------------
\* The variables have their types, and a request is sending exactly while its follow-up
\* is open, for the same event.
RoutingTypeOK ==
    /\ TypeOK
    /\ routes \in [Events -> {"none", "injected", "queued", "stored", "attached"}]
    /\ claimed \subseteq Events /\ firings \subseteq Keys
    /\ fires \in [Events -> Nat]
    /\ rejections \in 0..MaxRejections /\ crashes \in 0..MaxCrashes
    /\ \A r \in Requests : /\ At(r, "idle") <=> Event(r) = None
                           /\ At(r, "sending") <=> calls[r].step # "idle"
                           /\ At(r, "sending") => calls[r].text = Event(r)

\* The first route recorded for an event stands, whatever other requests for the same
\* event were half way through ("a duplicate event that already queued human review
\* cannot later inject", docs/planning/14-current-mvp-state.md:150).
FirstRouteStands ==
    [][\A e \in Events : routes[e] # "none" => routes'[e] = routes[e]]_evars

\* Several deliveries of an event fire a trigger once.
TriggerFiresOnce == \A e \in Events : fires[e] <= 1

\* An event recorded as injected into an agent thread is delivered there, or in the end
\* its task message says that it failed or was blocked, where a person can find it.  The
\* record may be made on the word of an attempt that is still undecided, or whose request
\* died or threw (an "attempted" answer is taken for an injection, routes/events.ts:491);
\* no such event vanishes.  It holds for events under keys of their own.
NoEventVanishes ==
    \A e \in Events :
        routes[e] = "injected" ~> turns[e] > 0 \/ messages[KeyOf[e]] \in {"failed", "blocked"}

\* Every event is routed in the end, whatever failed on the way.
EveryEventRouted == \A e \in Events : <>(routes[e] # "none")
=============================================================================
