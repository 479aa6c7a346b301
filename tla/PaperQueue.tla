----------------------------- MODULE PaperQueue -----------------------------
(***************************************************************************)
(* The human-attention queue of the gateway as the in-memory store serves   *)
(* it: papers are ingested from events, from agent runs or from the seed    *)
(* fixture, leased by clients, renewed, decided (done, defer, ignore),      *)
(* re-ranked, and returned by the two reapers.                              *)
(*                                                                         *)
(* The gateway is one JavaScript process, so every store operation is one   *)
(* atomic step.  Its `now` is not: a request reads the clock when it is     *)
(* routed and reaches the store only when its body has arrived, so an       *)
(* operation runs with a `now` up to MaxLag ticks old.                      *)
(***************************************************************************)
EXTENDS QueueItems

VARIABLES
    clock,         \* the gateway's clock, in ticks
    queue,         \* store.queue, by paper; state "absent" when never pushed
    runs,          \* store.agentRuns: the last status reported for a run
    events         \* store.eventsByIdempotencyKey: what an event was recorded as

vars == <<clock, queue, runs, events>>

TypeOK ==
    /\ clock \in 0..MaxClock
    /\ queue \in [Papers -> QueueItem]
    /\ runs \in [Runs -> RunStatus]
    /\ events \in [Events -> EventRecord]

-----------------------------------------------------------------------------
(* The pure parts of the store. *)

Present(p) == queue[p].state # "absent"

\* The `now` values a request that reaches the store at this moment may carry.
Instants == {t \in 0..clock : clock - t <= MaxLag}

ReapExpiredMutant(q, now) ==
    [p \in Papers |-> IF q[p].state = "leased" /\ q[p].expires # None
                      THEN Unleased(q[p], "ready") ELSE q[p]]
ReapExpired(q, now) ==
    [p \in Papers |-> IF /\ q[p].state = "leased"
                         /\ q[p].expires # None
                         /\ q[p].expires <= now
                      THEN Unleased(q[p], "ready") ELSE q[p]]

ReapDueMutant(q, now) ==
    [p \in Papers |-> IF q[p].due # None /\ q[p].due <= now
                      THEN Unleased(q[p], "ready") ELSE q[p]]
ReapDueMutant2(q, now) ==
    [p \in Papers |-> IF /\ q[p].state = "deferred"
                         /\ q[p].due # None
                         /\ q[p].due > now
                      THEN [q[p] EXCEPT !.state = "ready"] ELSE q[p]]
ReapDue(q, now) ==
    [p \in Papers |-> IF /\ q[p].state = "deferred"
                         /\ q[p].due # None
                         /\ q[p].due <= now
                      THEN [q[p] EXCEPT !.state = "ready"] ELSE q[p]]

-----------------------------------------------------------------------------
Init ==
    /\ clock = 0
    /\ queue = [p \in Papers |-> IF p \in Seeded THEN NewItem(SeedScore, 0) ELSE NoItem]
    /\ runs = [r \in Runs |-> "unknown"]
    /\ events = [e \in Events |-> "unknown"]

Tick ==
    /\ clock < MaxClock
    /\ clock' = clock + 1
    /\ UNCHANGED <<queue, runs, events>>

\* GET /queue: brings due deferred papers back, then lists.
ListQueue(now) ==
    /\ queue' = ReapDue(queue, now)
    /\ UNCHANGED <<clock, runs, events>>

\* GET /queue/next: runs both reapers, then peeks.
NextQueueItem(now) ==
    /\ queue' = ReapDue(ReapExpired(queue, now), now)
    /\ UNCHANGED <<clock, runs, events>>

Leasable(q, now, excluded) ==
    {p \in Papers : q[p].state = "ready" /\ p # excluded /\ Due(q[p], now)}

\* The papers the sort may put first.
TopMutant(q, candidates) ==
    {p \in candidates : \A r \in candidates : q[p].created <= q[r].created}
Top(q, candidates) ==
    {p \in candidates : \A r \in candidates : ~Outranks(q[r], q[p])}

LeaseNextMutant(owner, now, leaseMs, excluded) ==
    LET candidates == Leasable(queue, now, excluded)
    IN  /\ \E p \in Top(queue, candidates) :
              queue' = [queue EXCEPT ![p].state = "leased",
                                     ![p].owner = owner,
                                     ![p].expires = now + leaseMs]
        /\ UNCHANGED <<clock, runs, events>>
\* POST /queue/lease-next by `owner`, skipping the paper `excluded` (or None).
LeaseNextQueueItem(owner, now, leaseMs, excluded) ==
    LET q == ReapDue(ReapExpired(queue, now), now)
        candidates == Leasable(q, now, excluded)
    IN  /\ \/ candidates = {} /\ queue' = q
           \/ \E p \in Top(q, candidates) :
                queue' = [q EXCEPT ![p].state = "leased",
                                   ![p].owner = owner,
                                   ![p].expires = now + leaseMs]
        /\ UNCHANGED <<clock, runs, events>>

\* POST /queue/:id/lease/renew.  The holder's lease need not be unexpired.
RenewQueueLease(p, owner, now, leaseMs) ==
    /\ queue[p].state = "leased" /\ queue[p].owner = owner
    /\ queue' = [queue EXCEPT ![p].expires = now + leaseMs]
    /\ UNCHANGED <<clock, runs, events>>

\* POST /queue/:id/done: any caller, whatever the paper's state.
MarkQueueItemDone(p) ==
    /\ Present(p)
    /\ queue' = [queue EXCEPT ![p] = Unleased(@, "done")]
    /\ UNCHANGED <<clock, runs, events>>

\* POST /queue/:id/defer: any caller, whatever the paper's state; the route
\* refuses a due_at that is not after the request's now.
DeferQueueItem(p, due, now) ==
    /\ Present(p)
    /\ due > now
    /\ queue' = [queue EXCEPT ![p] = [Unleased(@, "deferred") EXCEPT !.due = due]]
    /\ UNCHANGED <<clock, runs, events>>

\* POST /queue/:id/ignore.
IgnoreQueueItem(p) ==
    /\ Present(p)
    /\ queue' = [queue EXCEPT ![p] = Unleased(@, "dead")]
    /\ UNCHANGED <<clock, runs, events>>

\* POST /queue/:id/priority: an absolute score wins over a delta.
BumpQueueItemPriority(p) ==
    /\ Present(p)
    /\ \E next \in Scores \cup {queue[p].score + d : d \in Deltas} :
         queue' = [queue EXCEPT ![p].score = Clamp(next)]
    /\ UNCHANGED <<clock, runs, events>>

\* ingestEventAsReviewPacket: an event seen before returns what was recorded;
\* a new one is stored, with or without a paper (decideRouteForEvent).
IngestEventAsReviewPacket(e, now) ==
    /\ events[e] = "unknown"
    /\ \/ /\ events' = [events EXCEPT ![e] = "stored"]
          /\ UNCHANGED queue
       \/ /\ events' = [events EXCEPT ![e] = "queued"]
          /\ queue' = [queue EXCEPT ![e] = NewItem(EventScore, now)]
    /\ UNCHANGED <<clock, runs>>

RunNeedsHumanMutant(r, status, now) ==
    /\ status \in NeedsHuman
    /\ runs' = [runs EXCEPT ![r] = status]
    /\ queue' = [queue EXCEPT ![r] =
                    IF @.state = "absent" THEN NewItem(RunScore(status), now)
                    ELSE [Unleased(@, "ready") EXCEPT !.score = RunScore(status)]]
    /\ UNCHANGED <<clock, events>>

\* upsertAgentRun with a status that needs a human: the run's one paper is
\* pushed, or reactivated whatever state it is in.
RunNeedsHuman(r, status, now) ==
    /\ status \in NeedsHuman
    /\ runs' = [runs EXCEPT ![r] = status]
    /\ queue' = [queue EXCEPT ![r] =
                    IF @.state = "absent" THEN NewItem(RunScore(status), now)
                    ELSE [Unleased(@, "ready") EXCEPT !.score = RunScore(status), !.due = None]]
    /\ UNCHANGED <<clock, events>>

\* upsertAgentRun with any other status: clearAgentRunQueueItem.
RunNeedsNobody(r) ==
    /\ runs' = [runs EXCEPT ![r] = "working"]
    /\ queue' = [queue EXCEPT ![r] =
                    IF @.state \in Terminal \cup {"absent"} THEN @
                    ELSE [Unleased(@, "done") EXCEPT !.due = None]]
    /\ UNCHANGED <<clock, events>>

-----------------------------------------------------------------------------
Next ==
    \/ Tick
    \/ \E now \in Instants : ListQueue(now) \/ NextQueueItem(now)
    \/ \E owner \in Owners, now \in Instants, leaseMs \in LeaseTimes,
          excluded \in Papers \cup {None} : LeaseNextQueueItem(owner, now, leaseMs, excluded)
    \/ \E p \in Papers, owner \in Owners, now \in Instants, leaseMs \in LeaseTimes :
          RenewQueueLease(p, owner, now, leaseMs)
    \/ \E p \in Papers : MarkQueueItemDone(p) \/ IgnoreQueueItem(p) \/ BumpQueueItemPriority(p)
    \/ \E p \in Papers, due \in 1..(MaxClock + 1), now \in Instants : DeferQueueItem(p, due, now)
    \/ \E e \in Events, now \in Instants : IngestEventAsReviewPacket(e, now)
    \/ \E r \in Runs, status \in NeedsHuman, now \in Instants : RunNeedsHuman(r, status, now)
    \/ \E r \in Runs : RunNeedsNobody(r)

Spec == Init /\ [][Next]_vars

\* Some client pulls a paper, for some time, skipping none.
Pull == \E owner \in Owners, leaseMs \in LeaseTimes :
            LeaseNextQueueItem(owner, clock, leaseMs, None)

\* The clock runs, the Mac app keeps refreshing its list (every 5 s) and somebody
\* keeps pulling papers; nobody is assumed to renew, to decide or to peek.
FairSpec == Spec /\ WF_vars(Tick) /\ WF_vars(ListQueue(clock)) /\ WF_vars(Pull)

-----------------------------------------------------------------------------
(* Safety. *)

LeaseHeld(p) == queue[p].state = "leased"

\* A lease is all there or not there at all: exactly the leased papers have an
\* owner and an expiry.  Nine operations write these fields; one that forgets to
\* clear them leaves a paper that looks held in GET /queue, or one the reaper
\* skips for ever because it has no expiry.
LeaseFieldsAgree ==
    \A p \in Papers : /\ LeaseHeld(p) <=> queue[p].owner # None
                      /\ LeaseHeld(p) <=> queue[p].expires # None

\* A deferred paper does not come back early: whatever deferrals, reapings, lease
\* expiries and agent-run updates happened, a paper on offer or in somebody's
\* hands is due, by the gateway's clock.
NoEarlyReturn ==
    \A p \in Papers : queue[p].state \in {"ready", "leased"} => Due(queue[p], clock)

\* A paper never passes from one client to another while the first one's lease
\* runs: the lease has expired by the gateway's clock, however stale the `now` of
\* the request that reaped it.
LeaseExclusive ==
    [][\A p \in Papers :
          LeaseHeld(p) /\ LeaseHeld(p)' /\ queue[p].owner # queue'[p].owner
            => queue[p].expires <= clock]_vars

\* A decided paper is not offered again by itself: no reaper, lease, renewal,
\* re-ranking or retried ingestion revives a done or ignored paper, although both
\* keep their due_at; only a deferral or an agent run that waits again does.
DecidedStaysDecided ==
    [][\A p \in Papers :
          queue[p].state \in Terminal /\ queue'[p].state \notin Terminal
            => \/ queue'[p].state = "deferred"
               \/ p \in Runs /\ runs'[p] \in NeedsHuman]_vars

Granted(p) == LeaseHeld(p)' /\ queue'[p].owner # queue[p].owner

\* A client is handed the paper that matters most: when a pull is granted a paper, every
\* paper left on offer that was due when the request read the clock ranks no higher, but
\* for the one the client asked to skip.
BestPaperFirst ==
    [][\A owner \in Owners, now \in Instants, leaseMs \in LeaseTimes,
          excluded \in Papers \cup {None}, p \in Papers :
          LeaseNextQueueItem(owner, now, leaseMs, excluded) /\ Granted(p) =>
             \A r \in Papers \ {excluded} :
                queue'[r].state = "ready" /\ Due(queue'[r], now) => ~Outranks(queue'[r], queue'[p])]_vars

-----------------------------------------------------------------------------
(* The store implements PaperLifecycle. *)

Life == INSTANCE PaperLifecycle WITH
            Recallable <- Runs, now <- clock, paper <- [p \in Papers |-> LifeOf(queue[p])]

\* Whatever its reapers, stale clocks and re-rankings do, the in-memory store never
\* ends a hold or a deferral before its time, except by a decision or a recall.
ImplementsLifecycle == Life!LifeSpec

-----------------------------------------------------------------------------
(* Liveness, under FairSpec. *)

\* A lease whose holder is gone is reclaimed: once expired it does not stay expired.
ExpiredLeaseReclaimed ==
    \A p \in Papers :
       (LeaseHeld(p) /\ queue[p].expires <= clock)
          ~> ~(LeaseHeld(p) /\ queue[p].expires <= clock)

\* A deferred paper comes back: once due it does not stay deferred.
DuePaperReturns ==
    \A p \in Papers :
       (queue[p].state = "deferred" /\ queue[p].due <= clock)
          ~> ~(queue[p].state = "deferred" /\ queue[p].due <= clock)
=============================================================================
