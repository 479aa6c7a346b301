---------------------------- MODULE PostgresQueue ---------------------------
(***************************************************************************)
(* The queue as the Postgres store serves it.  Every write runs in its own  *)
(* transaction on a pooled connection (a session): its statements, its      *)
(* COMMIT and a possible ROLLBACK are separate steps, and between them every *)
(* other session may run.  The isolation level is READ COMMITTED: statements *)
(* see committed rows, a written or FOR UPDATE row stays locked until the    *)
(* transaction ends, an UPDATE waits for the lock and evaluates its WHERE    *)
(* again, and lease-next skips locked rows.                                 *)
(*                                                                         *)
(* A multi-row UPDATE is one step: it waits until all its rows are free.    *)
(***************************************************************************)
EXTENDS QueueItems

CONSTANT Sessions      \* the connections of the pool

VARIABLES
    clock,             \* the gateway's clock
    rows,              \* queue_items as committed; state "absent": no such row
    runs,              \* agent_runs.status as committed
    events,            \* events and route_decisions as committed
    txn                \* the open transaction of each session

pvars == <<clock, rows, runs, events, txn>>

-----------------------------------------------------------------------------
NoWrites == [p \in {} |-> NoItem]

\* stage:  "idle", "bumping" and "reporting" (between two statements), "writing"
\*         (everything is written, COMMIT is next)
\* writes: the rows this transaction holds locked, with their uncommitted values
\* paper, before, delta: the row a re-ranking read, its score, and the delta asked for
\* run, status, event, record: the uncommitted agent_runs and events rows
Idle == [stage |-> "idle", writes |-> NoWrites, paper |-> None, before |-> 0, delta |-> None,
         run |-> None, status |-> "unknown", event |-> None, record |-> "unknown"]

Exists(p) == rows[p].state # "absent"
Locks(s) == DOMAIN txn[s].writes
Locked(p) == \E s \in Sessions : p \in Locks(s)

Instants == {t \in 0..clock : clock - t <= MaxLag}

\* Session s runs its last statement and now holds locks on the rows it wrote.
Write(s, ws) == txn' = [txn EXCEPT ![s] = [@ EXCEPT !.stage = "writing", !.writes = ws]]

-----------------------------------------------------------------------------
Init ==
    /\ clock = 0
    /\ rows = [p \in Papers |-> IF p \in Seeded THEN NewItem(SeedScore, 0) ELSE NoItem]
    /\ runs = [r \in Runs |-> "unknown"]
    /\ events = [e \in Events |-> "unknown"]
    /\ txn = [s \in Sessions |-> Idle]

Tick ==
    /\ clock < MaxClock
    /\ clock' = clock + 1
    /\ UNCHANGED <<rows, runs, events, txn>>

LeaseNextMutant(s, owner, now, leaseMs, excluded) ==
    /\ txn[s] = Idle
    /\ LET candidates == {p \in Papers : rows[p].state = "ready" /\ Due(rows[p], now)}
       IN  \E p \in candidates \ {excluded} :
             /\ \A r \in candidates \ {excluded} : ~Outranks(rows[r], rows[p])
             /\ Write(s, [x \in {p} |-> [rows[p] EXCEPT !.state = "leased", !.owner = owner,
                                                        !.expires = now + leaseMs]])
    /\ UNCHANGED <<clock, rows, runs, events>>
\* leaseNext: SELECT ... FOR UPDATE SKIP LOCKED and UPDATE, in one statement.
LeaseNext(s, owner, now, leaseMs, excluded) ==
    /\ txn[s] = Idle
    /\ LET candidates == {p \in Papers : /\ rows[p].state = "ready" /\ Due(rows[p], now)
                                         /\ p # excluded /\ ~Locked(p)}
       IN  \E p \in candidates :
             /\ \A r \in candidates : ~Outranks(rows[r], rows[p])
             /\ Write(s, [x \in {p} |-> [rows[p] EXCEPT !.state = "leased", !.owner = owner,
                                                        !.expires = now + leaseMs]])
    /\ UNCHANGED <<clock, rows, runs, events>>

\* renewLease: the lease need not be unexpired.
RenewLease(s, p, owner, now, leaseMs) ==
    /\ txn[s] = Idle /\ ~Locked(p)
    /\ rows[p].state = "leased" /\ rows[p].owner = owner
    /\ Write(s, [x \in {p} |-> [rows[p] EXCEPT !.expires = now + leaseMs]])
    /\ UNCHANGED <<clock, rows, runs, events>>

\* markDone and ignoreQueueItem: any caller, whatever the row's state.
MarkDone(s, p) ==
    /\ txn[s] = Idle /\ Exists(p) /\ ~Locked(p)
    /\ Write(s, [x \in {p} |-> Unleased(rows[p], "done")])
    /\ UNCHANGED <<clock, rows, runs, events>>

IgnoreQueueItem(s, p) ==
    /\ txn[s] = Idle /\ Exists(p) /\ ~Locked(p)
    /\ Write(s, [x \in {p} |-> Unleased(rows[p], "dead")])
    /\ UNCHANGED <<clock, rows, runs, events>>

\* deferQueueItem; the route has checked due against the request's now.
DeferQueueItem(s, p, due, now) ==
    /\ txn[s] = Idle /\ Exists(p) /\ ~Locked(p)
    /\ due > now
    /\ Write(s, [x \in {p} |-> [Unleased(rows[p], "deferred") EXCEPT !.due = due]])
    /\ UNCHANGED <<clock, rows, runs, events>>

BumpReadMutant(s, p, delta) ==
    /\ txn[s] = Idle /\ Exists(p)
    /\ txn' = [txn EXCEPT ![s] = [Idle EXCEPT !.stage = "bumping", !.paper = p, !.delta = delta,
                                              !.before = rows[p].score]]
    /\ UNCHANGED <<clock, rows, runs, events>>
\* bumpPriority, first statement: SELECT ... FOR UPDATE.
BumpRead(s, p, delta) ==
    /\ txn[s] = Idle /\ Exists(p) /\ ~Locked(p)
    /\ txn' = [txn EXCEPT ![s] = [Idle EXCEPT !.stage = "bumping", !.paper = p, !.delta = delta,
                                              !.before = rows[p].score,
                                              !.writes = [x \in {p} |-> rows[p]]]]
    /\ UNCHANGED <<clock, rows, runs, events>>

\* bumpPriority, second statement: UPDATE with what was computed from the score read.
BumpWrite(s) ==
    /\ txn[s].stage = "bumping"
    /\ LET p == txn[s].paper
       IN  /\ \A z \in Sessions \ {s} : p \notin Locks(z)
           /\ \E next \in IF txn[s].delta = None THEN Scores
                          ELSE {txn[s].before + txn[s].delta} :
                Write(s, [x \in {p} |-> [rows[p] EXCEPT !.score = Clamp(next)]])
    /\ UNCHANGED <<clock, rows, runs, events>>

\* reapStaleLeases, run by GET /queue/next only.
ReapStaleLeases(s, now) ==
    /\ txn[s] = Idle
    /\ LET stale == {p \in Papers : rows[p].state = "leased" /\ rows[p].expires <= now}
       IN  /\ stale # {} /\ \A p \in stale : ~Locked(p)
           /\ Write(s, [p \in stale |-> Unleased(rows[p], "ready")])
    /\ UNCHANGED <<clock, rows, runs, events>>

\* reapDueDeferredItems, run by GET /queue only.
ReapDueDeferredItems(s, now) ==
    /\ txn[s] = Idle
    /\ LET back == {p \in Papers : /\ rows[p].state = "deferred"
                                   /\ rows[p].due # None /\ rows[p].due <= now}
       IN  /\ back # {} /\ \A p \in back : ~Locked(p)
           /\ Write(s, [p \in back |-> [rows[p] EXCEPT !.state = "ready"]])
    /\ UNCHANGED <<clock, rows, runs, events>>

\* upsertAgentRun, first statement: the run's row is inserted or updated, and locked.
ReportRun(s, r, status) ==
    /\ txn[s] = Idle /\ \A z \in Sessions : txn[z].run # r
    /\ txn' = [txn EXCEPT ![s] = [Idle EXCEPT !.stage = "reporting", !.run = r,
                                              !.status = status]]
    /\ UNCHANGED <<clock, rows, runs, events>>

OnStack == {"ready", "leased", "deferred"}

\* upsertAgentRun, last statement for a run that needs nobody: clearAgentRunQueueItem,
\* whose WHERE finds only rows still on the stack.
ClearRunPaper(s) ==
    /\ txn[s].stage = "reporting" /\ txn[s].status \notin NeedsHuman
    /\ LET r == txn[s].run
       IN  IF rows[r].state \in OnStack
           THEN /\ ~Locked(r)
                /\ Write(s, [x \in {r} |-> [Unleased(rows[r], "done") EXCEPT !.due = None]])
           ELSE Write(s, NoWrites)
    /\ UNCHANGED <<clock, rows, runs, events>>

OfferRunPaperMutant(s, now) ==
    /\ txn[s].stage = "reporting" /\ txn[s].status \in NeedsHuman
    /\ LET r == txn[s].run
           score == RunScore(txn[s].status)
       IN  /\ ~Locked(r)
           /\ Write(s, [x \in {r} |->
                 IF Exists(r) THEN [rows[r] EXCEPT !.state = "ready", !.score = score,
                                                   !.due = None]
                 ELSE NewItem(score, now)])
    /\ UNCHANGED <<clock, rows, runs, events>>
\* upsertAgentRun, last statement for a run that needs a human: its row is inserted,
\* or reactivated whatever its state.
OfferRunPaper(s, now) ==
    /\ txn[s].stage = "reporting" /\ txn[s].status \in NeedsHuman
    /\ LET r == txn[s].run
           score == RunScore(txn[s].status)
       IN  /\ ~Locked(r)
           /\ Write(s, [x \in {r} |->
                 IF Exists(r) THEN [Unleased(rows[r], "ready") EXCEPT !.score = score, !.due = None]
                 ELSE NewItem(score, now)])
    /\ UNCHANGED <<clock, rows, runs, events>>

\* recordRoutedEvent: an event whose key is new is stored, with or without a paper; a
\* concurrent insert of the same key waits on the unique index.
RecordEvent(s, e, now) ==
    /\ txn[s] = Idle /\ events[e] = "unknown"
    /\ \A z \in Sessions : txn[z].event # e
    /\ \E record \in {"queued", "stored"} :
         txn' = [txn EXCEPT ![s] = [Idle EXCEPT !.stage = "writing", !.event = e, !.record = record,
                    !.writes = IF record = "stored" THEN NoWrites
                               ELSE [x \in {e} |-> NewItem(EventScore, now)]]]
    /\ UNCHANGED <<clock, rows, runs, events>>

Commit(s) ==
    /\ txn[s].stage = "writing"
    /\ rows' = [p \in Papers |-> IF p \in Locks(s) THEN txn[s].writes[p] ELSE rows[p]]
    /\ runs' = [r \in Runs |-> IF txn[s].run = r THEN txn[s].status ELSE runs[r]]
    /\ events' = [e \in Events |-> IF txn[s].event = e THEN txn[s].record ELSE events[e]]
    /\ txn' = [txn EXCEPT ![s] = Idle]
    /\ UNCHANGED clock

\* A statement fails, the connection is lost or the gateway crashes.
Rollback(s) ==
    /\ txn[s] # Idle
    /\ txn' = [txn EXCEPT ![s] = Idle]
    /\ UNCHANGED <<clock, rows, runs, events>>

-----------------------------------------------------------------------------
Next ==
    \/ Tick
    \/ \E s \in Sessions, owner \in Owners, now \in Instants, leaseMs \in LeaseTimes,
          excluded \in Papers \cup {None} : LeaseNext(s, owner, now, leaseMs, excluded)
    \/ \E s \in Sessions, p \in Papers, owner \in Owners, now \in Instants, leaseMs \in LeaseTimes :
          RenewLease(s, p, owner, now, leaseMs)
    \/ \E s \in Sessions, p \in Papers : MarkDone(s, p) \/ IgnoreQueueItem(s, p)
    \/ \E s \in Sessions, p \in Papers, due \in 1..(MaxClock + 1), now \in Instants :
          DeferQueueItem(s, p, due, now)
    \/ \E s \in Sessions, p \in Papers,
          delta \in Deltas \cup (IF Scores = {} THEN {} ELSE {None}) : BumpRead(s, p, delta)
    \/ \E s \in Sessions, now \in Instants :
          ReapStaleLeases(s, now) \/ ReapDueDeferredItems(s, now) \/ OfferRunPaper(s, now)
    \/ \E s \in Sessions, r \in Runs, status \in RunStatus \ {"unknown"} : ReportRun(s, r, status)
    \/ \E s \in Sessions, e \in Events, now \in Instants : RecordEvent(s, e, now)
    \/ \E s \in Sessions : BumpWrite(s) \/ ClearRunPaper(s) \/ Commit(s) \/ Rollback(s)

Spec == Init /\ [][Next]_pvars

-----------------------------------------------------------------------------
\* A transaction that holds locks on the rows of ps.
Transaction(ps) == [stage : {"idle", "bumping", "reporting", "writing"},
                    writes : [ps -> QueueItem],
                    paper : Papers \cup {None},
                    before : 0..MaxScore,
                    delta : Deltas \cup {None},
                    run : Runs \cup {None},
                    status : RunStatus,
                    event : Events \cup {None},
                    record : EventRecord]

TypeOK ==
    /\ clock \in 0..MaxClock
    /\ rows \in [Papers -> QueueItem]
    /\ runs \in [Runs -> RunStatus]
    /\ events \in [Events -> EventRecord]
    /\ txn = [s \in Sessions |-> txn[s]]
    /\ \A s \in Sessions : \E ps \in SUBSET Papers : txn[s] \in Transaction(ps)

LeaseHeld(p) == rows[p].state = "leased"

\* Committed rows never show half a lease, although every writer saw the row before the
\* transaction it waited for had committed.
LeaseFieldsAgree ==
    \A p \in Papers : /\ LeaseHeld(p) <=> rows[p].owner # None
                      /\ LeaseHeld(p) <=> rows[p].expires # None

\* Re-rankings add up: a delta is applied to the score committed when it lands, not to
\* the one some earlier statement read, and touches nothing else in the row.
BumpsAddUp ==
    [][\A s \in Sessions, p \in Papers :
          txn[s].delta # None /\ p = txn[s].paper /\ txn'[s] = Idle /\ rows'[p] # rows[p]
            => rows'[p] = [rows[p] EXCEPT !.score = Clamp(@ + txn[s].delta)]]_pvars

Life == INSTANCE PaperLifecycle WITH
            Recallable <- Runs, now <- clock, paper <- [p \in Papers |-> LifeOf(rows[p])]

\* The committed rows keep the promises the in-memory store keeps: two clients that pull
\* at the same time are not granted the same paper, a lease passes on only after it
\* expired, a deferral never ends early, and half a lease is never seen.
ImplementsLifecycle == Life!LifeSpec
=============================================================================
