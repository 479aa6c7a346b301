# Formal specifications of eventloopOS

eventloopOS keeps one human's attention queue.  Background events and agent runs
that need a human become *review packets* ("papers"); a Mac app, a browser
extension and the agents themselves talk to one HTTP gateway (the
*orchestrator*), which routes events, keeps the stack of papers, sends follow-ups
to task sessions and drives the restoring of windows and browser contexts.

These modules model the gateway's stores, the routes that use them, the loops that move
and save windows and the app's keys, where the order of steps of several actors decides
whether a paper, a message, a lease or a desktop is lost, repeated or handed out twice.

## 1. The system: components, state, operations

Paths are under `src/app/` unless they start with `docs/`.

| Component | State it keeps | Operations | What makes it correct |
|---|---|---|---|
| In-memory queue store (`orchestrator/src/store.ts`) | queue items, review packets, agent runs, events by idempotency key | list, peek, lease-next, renew, done, defer, ignore, re-rank, ingest event, upsert agent run, two reapers | a lease is exclusive and whole, a deferral is never early, a decision sticks, the best paper is handed out, a dead client's lease comes back |
| Postgres queue store (`orchestrator/src/db/postgres_queue_store.ts`) | the same, in tables; row locks while a transaction runs | the same, each a transaction; `FOR UPDATE SKIP LOCKED` | the same promises with every `await` an interleaving point |
| Queue routes (`orchestrator/src/routes/queue.ts`, `agent_runs.ts`) | none, one activation per request | validation, manual-mode pause, find-then-decide, recommended action | a pause stops leasing, a reply tells the truth, an action is carried out once |
| Gateway store adapters (`orchestrator/src/gateway_store.ts`) | queue-action attempts, task messages, workspace receipts, MCP poll cursors, manual mode | one interface over both stores | both adapters keep the same promises |
| File persistence (`orchestrator/src/persistent_in_memory_gateway_store.ts`) | one JSON snapshot on disk, a chain of saves | save after every mutating call, load at start | an acknowledged call survives a crash, a loaded store is consistent |
| Context restore requests (`orchestrator/src/store/context_restore_store.ts`, `routes/context_restore.ts`) | requests pending / leased / done / failed | create (idempotent), peek, claim-next, done, failed, retry, reap | one claimant at a time, a request ends once, expired claims are reclaimed |
| Task follow-ups (`orchestrator/src/task_sessions/task_followup_audit.ts`, `routes/task_sessions.ts`) | task messages by idempotency key | claim key, send, finalize, reconcile stale attempts | a key sends at most once, every attempt ends with a verdict |
| Terminal send (`orchestrator/src/task_sessions/terminal_send.ts`) | none | keystrokes into a terminal | external effect |
| Event routing (`orchestrator/src/routes/events.ts`, `orchestrator/src/routing/`) | route decisions | dedupe, match a task session, inject or queue for the human | an event has one route |
| MCP polling (`orchestrator/src/integrations/mcp_poll/`, `mcp_sources/`) | a cursor per source | poll, route each event, commit the cursor | no event is skipped |
| Window loops (`orchestrator/src/agents/ambient_workspace_saver.ts`, `follows_window_orchestrator.ts`) | the pending capture, the last saved one, the last focused workspace | a tick each: capture and save the task's desktop; send foreign windows home, take shared ones along | what is stored is the task's desktop, the loops do not fight |
| Automatic papers, agent hooks (`orchestrator/src/agents/auto_paper_codex_idle.ts`, `hooks/`) | last seen state per agent | watch transcripts, raise attention papers | one paper per wait |
| Codex task sessions (`orchestrator/src/task_sessions/codex_*.ts`) | pending JSON-RPC calls | stdio / websocket request-reply | every call is answered or fails |
| Workspace control (`orchestrator/src/workspace/`, `routes/workspace.ts`, `restore_plans/`) | snapshots, restore receipts | observe, plan, execute, verify and retry, record a receipt | a restore settles, its verdict is true |
| Follows windows, exclusions, task-window claims (`store.ts`, `routes/follows_windows.ts`, `routes/task_window_claims.ts`, `ownership/`) | observations, exclusions, claims | record, list, exclude, claim | one owner per window |
| Manual mode (`orchestrator/src/manual/`, `routes/modes.ts`) | one flag | enter, exit | automation is paused |
| Triggers, reading queue, master fan-out, onboarding, voice (`orchestrator/src/triggers/`, `routes/*.ts`, `master/`, `voice/`) | small stores | create-read-update | - |
| Receipts and autonomy grants (`orchestrator/src/receipts/`) | append-only receipts | append, check | - |
| Mac client (`macos/Sources/`) | view model, its current paper | list every 5 s, pull, renew, decide; enter and leave manual mode, restore desktops | one restore at a time, a return sticks, keys come back |
| Browser extension and native host (`browser-extension/`, `native-host/`) | captured tabs, profile lease owner | capture, poll for restore requests, restore | one restore per request |
| Shared contracts, test harness, scripts (`shared/`, `test-harness/`, `bin/`) | none | - | - |

### How the parts meet

- The gateway is one JavaScript process.  A synchronous function runs to its end; every
  `await` (a body that arrives, a database statement, a file write, a runtime's reply) is a
  point where any other request may run.  The in-memory store has no `await` inside an
  operation, the Postgres store has one at every statement, and most routes have several.
- The Mac app sends `GET /queue` every 5 s, `POST /queue/lease-next` when the human asks for
  a paper, renews while it is open, and decides.  It never sends `GET /queue/next`.
- Events come from MCP polls and `POST /events`.  Routing one may send a follow-up into an
  agent's thread; a paper's recommended action sends one too, and so does the direct API.
  All three go through `sendTaskFollowupWithActivity`.
- The app's mode and the gateway's manual-mode flag are two copies of one fact.  The app sets
  its own first and sends the change; leasing, triggers and the window loops look at the flag.
- The saver and the follower each run on an interval, capture the windows through AeroSpace
  and act on what they saw; claims come from titles, from routed events and from the API.
- The browser extension polls for restore requests on an alarm and reports on what it did.
- Everything the in-memory store keeps is saved to one JSON file by a proxy around the store.

### What is hard

1. Order: two requests that each look before they act (keys, events, papers, receipts).
2. Time: a request's `now` is read when it is routed and used after its body has arrived, so
   reapers and leases see clocks that disagree.
3. Crashes between an effect outside (a turn, a keystroke, a restored tab) and its record.
4. Clients that die with something in their hands: a lease, an attempt, a restore request.
5. State kept in memory beside state in a store: poll cursors, the runtime's keys, saves, the
   saver's idea of what it stored, the app's mode.
6. The world moves: windows close, move and lose the focus between a plan and its last command.

`PROJECT.json` lists the hazards one by one, each at the line where it bites, with the
properties that would catch it.

## 2. Modules

| Module | Models | Its state is | Its actions are |
|---|---|---|---|
| `PaperLifecycle` | nothing of the code: the promise both queue stores make | a clock and each paper's phase, holder and time limit | grant, extend, return, decide, hide, offer |
| `QueueItems` | a queue item, its order and its clearing, common to both stores | - | - |
| `PaperQueue` | `store.ts`' queue and the routes in front of it | `queue`, `runs`, `events`, the gateway's `clock` | one per store operation; the two GETs and lease-next run the reapers they run in the code |
| `PostgresQueue` | the queue part of `postgres_queue_store.ts` | committed `rows`, `runs`, `events`, one `txn` per pooled connection | one per statement, plus `Commit` and `Rollback` |
| `TaskFollowup` | `task_followup_audit.ts`, the reconciliation route and what a runtime may report | `messages` (durable), the runtime's `cache`, `turns` (effect), `calls`, `stale` | one per await |
| `EventRouting` | `routes/events.ts` around `TaskFollowup` | `routes`, `claimed`, `firings`, `fires`, `jobs` | one per await, a rejected write, a crash |
| `QueueActions` | `POST /queue/:id/actions/recommended` around `TaskFollowup` | `attempts`, `done`, `keystrokes` (effect), `acts`, `failures` | one per await, an error, a crash |
| `StorePersistence` | `persistent_in_memory_gateway_store.ts` | `memory`, `disk`, the `chain` of saves, the `image` being written | calls, the three steps of a save, its failure, a crash |
| `ContextRestore` | `context_restore_store.ts` and the extension's poller | `requests`, `pollers`, `restored` (effect) | the store's operations, the poller's steps, its death |
| `McpPolling` | `development_registry.ts`, `poller.ts`, the cursor stores and the poll-and-route routes | the registry's `shared` state, the `stored` snapshot, `polls`, `routed` | begin, take an answer, route one item, commit, fail, crash |
| `ManualMode` | the view model's mode, paper and restore keys (`QueueViewModel.swift`), `routes/modes.ts` and lease-next's check (`routes/queue.ts`) | the app's `mode`, the gateway's flag `paused`, `saved`, `restoring`, `recent`, `timedOut`, one `work` per key under way | the keys, and one action per await of their work |
| `WorkspaceRestore` | `controller.ts`' verified restore and `aerospace.ts`' plans, execution and verification | `desk`, the `snapshot`, the `commands` left, `tries`, what was `captured`, the verdict `verified`, how much went wrong (`moves`, `faults`) | plan, one command, list, look for frames, focus back, judge, interference |
| `TaskWindows` | `ambient_workspace_saver.ts`, `follows_window_orchestrator.ts`, `listFollowsWindows` | `desk`, the stored `snapshots` and `layouts`, `claims`, `observed`, `excluded`, each loop's memory and tick | one per await of each loop that others can tell apart; the user, the app and agents |

Each `MC...` module instantiates one of these for TLC.  Proofs are in `...Proofs` modules
(section 4).

`EventRouting` and `QueueActions` EXTEND `TaskFollowup` and hold its steps inside their own
next-state relations: a request that asks for a follow-up waits in step "sending" until the
follow-up's own steps have answered it.  `PaperQueue` and `PostgresQueue` EXTEND `QueueItems`
and INSTANCE `PaperLifecycle` under the same mapping, `LifeOf`.  Definitions named
`...Mutant` are faulty variants of the definition that follows them, kept to show that the
properties can fail; no specification uses them.

What the models abstract everywhere: texts, titles and payloads (model values), logging and
metrics, validation that only refuses malformed input, and the choice of a session, a task or
a trigger for an event, which is a nondeterministic choice.

Ghost variables, which no guard reads but a bound's: `turns`, `keystrokes`, `restored`, `fires`,
`told`, `routed`, `skipped`, `failures`, `handed`, `returning` and `late`.  They record what happened outside the gateway or what
somebody was told, so that a property can compare it with the records.

### Correspondence, module by module

**PaperQueue.**  `clock` counts abstract ticks.  An operation takes `now` from `Instants`, the
instants at most `MaxLag` ticks old.  A paper is one of a seed fixture, an event or an agent
run; the sort of its source decides which operation creates it.  `lease_ms` of the requests is
`LeaseTimes`, the clamp `10_000` is `MaxScore`.  Ties that the sort breaks by creation time
stay ties when that is equal too, and any of them may be chosen.

**PostgresQueue.**  A statement that finds a row locked waits: its action is not enabled.
`LeaseNext` skips locked rows.  A transaction's writes are invisible until `Commit`, which is
a separate step, so two requests may be anywhere in theirs.  `Rollback` stands for an error of
a statement, a lost connection and the death of the gateway.  The reapers run in the requests
in which they run in `gateway_store.ts`: expired leases in `GET /queue/next` only, deferrals
in `GET /queue` only.

**TaskFollowup.**  `Ask` is the look-up of the key, `Claim` the record of the attempt (insert
or keep), `Refuse` the hook's denial, `Reach` and `Turn` the runtime's `sendFollowupMessage`
with its own memory of keys, `Settle` the record of the verdict.  A runtime may report a
failure although the turn took place, and never the reverse.  A send that a time limit or an
error cut short is recorded as failed, whatever the agent read.  `Throw` is a write of the store
or of the audit that rejects: the call ends, and its last record may be made or not.  `ListStale`/`FailStale` are the
reconciliation: it lists once and then fails one message after the other.

**EventRouting.**  `Receive` is a request that found no record of the event; from there on it
goes on whatever others record.  `RecordEventRoute` and `IngestEventAsReviewPacket` keep a
record made meanwhile.  The follow-up's key is the event's idempotency key without its source,
and so is the trigger's; `KeyOf` says which events share one.  `FollowupThrew` is the catch around
the injection, after which the event goes to the human; `Reject` is any later write that rejects,
which ends the request with an error.

**QueueActions.**  `prior` is the attempt as the request saw it, which is what the code looks
at after its awaits.  `Fail` is an error at any await, answered with a 500; past the keystroke it
leaves the attempt without the record of it, and is counted in `failures`.  A blocked follow-up ends the action with a 409, a failed one does not.

**StorePersistence.**  The maps and the queue array are separate fields of a store because the
save treats them differently: `TakeImage` copies both, `WriteImage` takes the queue again as
it is after `mkdir`.  A call is answered by its own save, in the order of the chain.

**ContextRestore.**  A lease has a flag for "its time is over" in place of a time.  A call that
reaps sees any subset of those leases as expired, which is what a `now` that is a little old
may see.

**McpPolling.**  Items are their position in the source.  An answer starts at or before the
cursor; `Accepting` is the loop over its items, as a recursive function of the number of items
taken.  `Begin` includes the hydration, which overwrites the registry's state only if the store
has a snapshot.  The store may start with or without one; `skipped` collects what a poll marked as
seen and did not route, when it failed before the first commit.

**ManualMode.**  A key's work is the asynchronous function it starts, cut at its awaits; the
view model runs on one actor, so nothing falls between two awaits.  `was` is what the function
read before an await and uses after it.  `shouldRestoreWorkspace` is written wherever `mode`
is, and always to `mode == .loop`, so it is not a variable.  A remembered restore counts for
the snapshot it was of; whether that is the one held now is a choice (`same`).  A restart of
the app leaves its requests in one of the two states the gateway may have brought them to.

**WorkspaceRestore.**  A snapshot says of each of its windows the workspace and perhaps the
layout and the frame.  `PlanOf` is both planners, which differ in what they leave out; the
commands run one by one against `Run`, which is AeroSpace and therefore external, as are
`Frame` (tiles share the screen: a tile's frame depends on how many there are) and `Interfere`.
A plan is `Arranging` (moves and layouts), `Framing` and `Focusing`, each made window after
window (`Joining` is that loop).  What a snapshot may be is stated by `Saved`, an assumption on
the constant `Snapshots`: it tells of one desktop, so its focus is on one of its windows, which
is on its workspace.  A capture lists windows and focus of one moment, and
`filterSnapshotForTaskSave` (`ambient_workspace_saver.ts:525`) drops a focus whose window it
drops.  `Desktop` says the same of AeroSpace: the focus is on a window of the focused workspace.
`List` and `Look` are the two halves of the verifying capture, with awaits between.  A fault may hit
the plan, any command, the list of windows, the look for frames, either read of the focus (which
then counts as unknown, `aerospace.ts:129`) and the command that gives the focus back, whose
failure the code swallows (`:315`); `faults` counts them.

**TaskWindows.**  A tick is a chain of awaits; each action is what runs between two of them,
with what it read before in the tick's record.  `Act` is everybody else: the user's windows and
focus, manual mode, the current task, the app's own saves, claims, exclusions.  `lastSaved` is the
saver's memory of what it stored; it lives beside the store.  A save is two writes, `SaverWrite` the
task's layout and `SaverStore` its workspace snapshot, and only after both does the saver remember:
a failure between them leaves the first new and the other two old.  The saver captures twice: if
something left the focused workspace in between, `SaverLook` focuses the workspaces its windows are
on now and `SaverBack` gives the focus back, so the saver moves the focus as the follower does.
`HomeOf` falls back on the stored layout, which the creation of a task (`CreatedOn`) and
`PUT /tasks/:id/layout` write as well as the saver.

## 3. What is checked

TLC runs, one configuration each.  A property is listed with the hazard it is for in
`PROJECT.json`; every property of a passing run also has a faulty variant of the code
(`mutants`) under which TLC finds it violated.

| Run | Question | Shows |
|---|---|---|
| `paper_queue` | what can go wrong between two clients, an event and an agent run, when requests carry clocks of different ages? | leases are whole and exclusive, no deferral ends early, decisions stick, and the store implements `PaperLifecycle` |
| `paper_queue_live` | who gets the best paper, and does everything come back? | best paper first; expired leases and due deferrals return |
| `postgres_queue` | does the same hold with every statement an interleaving point? | committed rows show whole leases, re-rankings add up, and the store implements `PaperLifecycle` |
| `event_routing` | overlapping deliveries, failing and throwing follow-ups, a rejected write, a crash | what is recorded as sent was sent; only overlapping requests resend; a trigger fires once; an event taken for injected is delivered or ends as failed or blocked; the first route stands; every event is routed and every attempt ends |
| `queue_actions` | overlapping and retried recommended actions, errors, a crash | replays tell the truth, keystrokes are bounded by the requests that overlap, the crashes and the errors past the keystroke |
| `store_persistence` | calls, failing saves, crashes | what was acknowledged is on disk; what is in memory gets there |
| `context_restore` | slow, dying and overlapping pollers | done means restored, a live lease is nobody else's, every request is answered |
| `mcp_polling` | failing polls and routes, crashes, a dedupe window smaller than an answer, first polls and later ones | what the snapshot marks as seen was routed; every item is routed; in both cases but for what a failed first poll skips |
| `manual_mode` | five keys, two at a time, lost requests, timeouts, restarts of the app | a pause lets out one paper at most, one restore runs at a time and the flag says so, a return is not undone by what was under way, every key's work ends |
| `workspace_restore` | every snapshot of two windows, on desktops that differ, with one interference and one fault anywhere | a restore without either ends verified at its first look, a verified one is right, looking for frames gives the focus back as far as it was read |
| `task_windows` | both loops, the user, the app, failures | manual mode lets out one save at most, a settled desktop is what is stored, foreign windows go home, the loops come to rest once no look of the saver overlaps a tick of the follower |
| `task_windows_excluded` | does an exclusion stop a window from following? | no, with the in-memory store: finding 1 |

### Bounds

- `paper_queue`: two clients, one event and one run (the two kinds of paper whose operations
  differ; a seeded paper is in `paper_queue_live`), three ticks and one tick of lag: enough for
  a lease to run out, be reaped by a stale request, be granted again and be renewed late.
- `paper_queue_live`: two papers, scores 0..2, re-ranked up, down and to an absolute value past
  the clamp; two ticks, so that a lease and a deferral run out in turn.
- `postgres_queue`: two sessions (a third adds only more of the same pairs), two owners, an
  event and a run, one tick; sessions and owners are symmetric, which is sound because no
  liveness is checked there.
- `event_routing`: two requests for one event, one crash and one rejected write.  Two requests
  cover every order of a look-up and a record; the crash and the rejection may fall at any await.
- `queue_actions`: two requests, two papers, of which one resumes an agent and one does not,
  one token each, one crash, one error past the keystroke (errors before it are not bounded).
- `store_persistence`: two papers, two open calls, one exclusion: a save of one call with
  another one's change in memory, and a chain of length two.
- `context_restore`: two requests and two pollers, any number of crashes and retries.
- `mcp_polling`: four items, a window of two, any number of failures and crashes, one poll at
  a time.  Two polls of one source that overlap share its state, and then a snapshot may cover
  items that the other poll has not routed; the poll loop does not send them.
- `manual_mode`: two keys' work at once, since every guard looks at one other; five keys, enough
  for a pause, a return, a restore, a pull and one more in any order.  Memories of restores
  (2 s, 12 s) may end at any time.
- `workspace_restore`: two windows, two workspaces, two frames, the code's four retries, one
  interference and one fault.  All snapshots that a capture of any such desktop can make: with or without
  frames and layouts, of all windows or of the focused workspace.  Two windows are enough for
  one command to change what another one's frame depends on.
- `task_windows`: two windows, two tasks, one with a workspace and one whose home is the layout it
  was created with, one window tagged with the second task and both shared, started in manual mode
  or out of it; one act or failure, at any await, before the loops are left to themselves.  The
  desktop moves a good deal more than that, since the loops move it.  With two acts there are
  some sixteen million states, too many for temporal properties.  `ManualSavesOne` is proved for any number.

Every constant that is a bound is named so in its module (`MaxClock`, `MaxLag`, `MaxCrashes`,
`MaxItems`, `MaxPresses`, `MaxMoves`, `MaxFaults`, `MaxFailures`, `MaxRejections`, `MaxActs`).  Deadlock is not checked where the system may
stop: `manual_mode` and `workspace_restore` end when the keys or the restore do, and
`task_windows` is quiet in manual mode.

### Fairness

- The clock runs.
- The app refreshes its list (`GET /queue`, every 5 s in `QueueViewModel`) and somebody keeps
  pulling papers.  Nobody is assumed to renew, to decide, or to send `GET /queue/next`.
- A source retries an event until it is recorded (strong fairness of its arrival, because other
  requests may occupy the gateway), a request in flight goes on, and somebody calls the
  reconciliation of stale attempts, which nothing in the gateway does by itself.
- Calls keep coming and neither a save, a poll's tool nor the routing of one item fails for
  ever: strong fairness, because each may fail any number of times.
- Every await of a key's work comes back (`ManualMode`): requests have time limits and waits are
  bounded.
- Both window loops run on an interval for as long as the gateway does.
- The extension's alarm fires, a browser is not killed over every request, and people stop
  retrying.

## 4. What is proved

TLAPS proves the following for every value of the constants, under the assumptions that the
modules name (`SortAssumption`, `NumberAssumption`, `FollowupAssumption`,
`PersistenceAssumption`, `RestoreAssumption`, `WorkspaceAssumption`, `ManualModeAssumption` and
the like), which TLC
evaluates in the runs.  Every module with proofs proves its type invariant, which is therefore
checked by a run only once.

- `PaperQueueProofs`: `TypeOK`, `LeaseFieldsAgree`, `NoEarlyReturn`, `LeaseExclusive`,
  `DecidedStaysDecided`, `BestPaperFirst` and the refinement of `PaperLifecycle`.  `NoEarlyReturn` alone is not
  inductive: a lease that ends makes a paper ready, so a leased paper must be due as well, and a
  paper that is decided may keep any due date.  The inductive invariant says of each item, by
  state, which of owner, expiry and due date it has and how they lie to the clock (`ItemOK`).
  The action properties follow from it, one case per operation, with lemmas on what each reaper
  may do to one item.  In the refinement each operation maps to a step of `PaperLifecycle` or to
  a stutter; lease-next, which may return several papers and grant one, maps to one `Grant`.
  For `BestPaperFirst` the reaper inside lease-next has to be shown to grant nothing itself
  (`ReapGrantsNothing`): the paper granted is then the one the sort put first.
- `PostgresQueueProofs`: `LeaseFieldsAgree`, `BumpsAddUp` and the same refinement, with any
  number of connections.  The invariant is the lock discipline: no two open transactions hold
  one row; a transaction changes only rows it holds; what it is about to commit was computed
  from, and is a legal step of, the row as committed.  Then a `Commit` is one abstract step.
  `NoEarlyReturn`, `LeaseLasts` and `DecidedStaysDecided` are proved of the committed rows as
  well: the module states them, because `PaperLifecycle` keeps neither due dates nor run states
  and so does not imply them.  Here a reaper or a lease may commit long after it read the clock;
  the strengthening (`DInv`) is that whatever an open transaction has prepared is already due,
  and takes the place of a row it may take the place of (`Welcome`), at every later time too.
  No run checks these three again: `paper_queue` checks their in-memory counterparts
  (`LeaseExclusive` for the second).
- `TaskFollowupProofs`: `SentIsTrue` and `OnlyOverlapsResend`.  For the first, what the runtime
  remembers as sent reached the agent too; for the second, the turns under a key are counted
  against the requests that found no record of it.
- `EventProofs`: routing refines the follow-up (`SpecRouting => Spec`), from which
  `SentIsTrue` and `OnlyOverlapsResend` carry over; `TriggerFiresOnce`, by "a request that
  claimed a firing is the only one under its key, and no paper was made yet"; and
  `FirstRouteStands`.
- `QueueActionsProofs`: actions refine the follow-up in the same way; `ReplayIsTrue`, whose
  strengthening ties each step of a request to what it already did; and `KeystrokesBounded`, by
  counting against each request, crash and error past the keystroke the one time it may type.
- `StorePersistenceProofs`: `Durable`.  It compares what callers were told with the file; what
  makes it inductive is a ladder, told within disk within image within memory, "the call that
  the save answers is in the image", which needs that the chain holds every open call once, and
  "a packet in a store is in its queue".
- `RestoreProofs`, requests: `DoneWasRestored` and `LiveLeaseHolds`.  The strengthening is that a
  poller about to report success has restored its request.
- `RestoreProofs`, workspaces: `LookKeepsFocus`, `VerifiedIsTrue` and `SettlesVerified`, for any
  number of windows, any desktops and any snapshots.  The lemmas come in three groups.  What is
  in a plan, and where: exactly the commands its windows need, layouts before frames, the right
  focus last; a residual plan is empty exactly when the capture agrees with the snapshot
  (`NothingLeft`).  What a command does to a desktop, tiles and focus included (`RunDoes`).  And
  what a plan half carried out is good for: `OnTrack` says of each part of each window's place
  that it is right, or that a command which puts it right is still to come and nothing after that
  spoils it, and the same of the focus; the first plan is on track (`PlanOnTrack`), each command
  keeps it so (`RunOnTrack`), and an empty plan on track has arrived (`ArrivedAgrees`).  The
  invariant `WorkspaceInv` adds that a capture matches the desktop while nothing has moved since
  it was made, and what of the focus it may have lost to a fault.  `SettlesVerified` excludes a snapshot with a window both tiled and framed, for
  which `OnTrack` fails at the first step and the promise is false (section 5).
- `ManualModeProofs`: `OneRestore`, `PauseHandsOutOne` and `ReturnSticks`, for any number of
  keys under way and pressed.  `Shaped` says which key may be in which step, `OnePaperAction`
  that one paper key is under way at a time (the client refuses the second), so that at most one
  request can have passed the gateway's check when a pause begins (`FewHanded`); `Alone` is
  `OneRestore`; `Returned` says that after a return nothing under way may still set the mode.
  About the saver's loop (`TaskWindows`), for any windows, tasks and number of acts:
  `ManualSavesOne`, by "after a save in manual mode the saver has at most its second write to do,
  and then rests until the mode ends" (`SavedLate`: a tick that begins then stops at the mode's
  check).

`EventProofs` also proves `CommittedWasRouted` of `McpPolling`, for any number of items, any
dedupe window and any answers, failures and crashes, with one poll under way at a time
(`PollsInTurn`), as the run has it.  Items that a poll marked as seen and did not route because it
failed before the first commit (`skipped`) are the exception in the property itself (section 5).
The inductive invariant, `PollInv`, says at each step
of a poll what the state it works with covers: in "calling" it is the store's snapshot, in
"routing" it covers only what was routed or is still to be.  `AnswerTold` says what the loop over an answer
computes: everything up to the item taken is routed, or among the events made.

Loops over data are recursive functions in the modules proved about.  That such a function exists
and what it computes after any number of turns is proved from the least counterexample (`Least`,
`UpTo`, from `WFMin` and `NatLessThanWellFounded`): the library's induction theorems take an
operator as a parameter, which the provers here cannot instantiate, but a set is enough.  RECURSIVE
operators stay out of reach, and no module with a theorem has one.

Only model-checked: the liveness properties (`ExpiredLeaseReclaimed`, `DuePaperReturns`,
`EveryEventRouted`, `NoEventVanishes`, `EveryAttemptEnds`, `MemoryReachesDisk`, `EveryRequestAnswered`,
`EveryItemRouted`, `KeysComeBack`, `DesktopIsSaved`, `ForeignGoesHome`, `NoTugOfWar`), since they
rest on fairness and ENABLED; and the two stores' agreement beyond `PaperLifecycle`.  Every safety
property of a passing run is a theorem.

## 5. Where the code and its documents disagree

1. **An excluded window still follows** (`task_windows_excluded`).  `listFollowsWindows` of the
   in-memory store (`orchestrator/src/store.ts:735`) skips an excluded slot without marking its
   windows as dealt with, and the loop over single windows below lists those of them that were
   themselves seen on enough workspaces.  `orchestrator/test/gateway_store_conformance.test.ts:1269`
   asserts that "explicit exclusions must stop accidental sticky follows", with windows that
   were each seen on too few.  The Postgres store leaves the observations out and agrees.

Disagreements that the models make visible, and no run reports:

- an expired lease stays with Postgres: its reaper runs in `GET /queue/next` only, which the app
  never sends (`postgres_queue_store.ts:1856`; `docs/planning/16-mvp-plan-corrections.md:93`:
  "Queue leases expire and can be reclaimed");
- two sources, one token: the event's record keeps the sources apart, the follow-up's key does
  not, so the second event is answered with the first one's message (`EventRouting` with a
  shared `KeyOf`; `docs/planning/14-current-mvp-state.md:151`);
- a torn save: a save copies the maps and keeps the live queue array, so a paper that arrives
  during its `mkdir` is saved without its packet, and after a restart `listQueue` throws
  (`persistent_in_memory_gateway_store.ts:95`, `store.ts:979`);
- a failed first poll: the registry forgets what a failed poll marked as seen only by hydrating
  from a snapshot, which does not exist before the first commit, so what such a poll had not yet
  routed is passed over (`skipped` in `McpPolling`; `docs/planning/14-current-mvp-state.md:163`);
- a manual restore from the menu puts the app into manual mode and does not tell the gateway,
  which goes on leasing and moving windows (`QueueViewModel.swift:2485`;
  `docs/planning/14-current-mvp-state.md:72`: "while keeping automation paused");
- a snapshot with a window both tiled and framed never verifies, because the frame's part of a
  plan floats what the layout's part tiles (`aerospace.ts:493`): `SettlesVerified` excludes it
  (`Flips`), although an ambient save of a tiled window makes one;
- a restore of a paper's workspace looks at the mode before its plan and not again after, so it
  may run after the user went to manual mode (`QueueViewModel.swift:2171`;
  `docs/planning/11-ambient-router-workspace-backends.md:68`);
- the saver compares a capture with what it stored last, so a layout the app stored meanwhile
  stays (`ambient_workspace_saver.ts:217`): `DesktopIsSaved` says so;
- a deferral that arrives after the agent run moved on revives the cleared paper
  (`store.ts:399`; `docs/planning/14-current-mvp-state.md:199`): `DecidedStaysDecided` names the
  deferral as an exception;
- a late report finishes a restore request that is pending again (`context_restore_store.ts:90`);
- reconciliation overwrites a verdict that arrived after it listed (`task_sessions.ts:235`);
- a delivery that finds an attempted message records the event as injected although the send
  may still fail (`events.ts:494`): `NoEventVanishes` allows it, since the message then says so;
- two requests in flight under one key both send (`task_followup_audit.ts:127`) or both type
  (`routes/queue.ts:268`): `OnlyOverlapsResend` and `KeystrokesBounded` say how far that goes;
- the record of a keystroke that rejects is answered with a 500, and each retry types again
  (`routes/queue.ts:710`; `docs/ai-engineering-principles.md:113` wants a retry to be safe):
  `KeystrokesBounded` counts these errors;
- a look of the saver that overlaps a redirect of the follower gives the focus back to a window the
  follower has just sent away; the follower takes that for a switch, brings the user back and the
  shared windows along, and the next overlap starts over (`ambient_workspace_saver.ts:608`,
  `aerospace.ts:306`).  TLC finds this loop when the condition of `NoTugOfWar` is dropped, without
  any act of the user;
- a failed focus command after a look for frames is swallowed, so a restore may be answered as
  verified with the focus elsewhere (`aerospace.ts:315`): `VerifiedIsTrue` and `LookKeepsFocus`
  say so.

## 6. What is not modelled, and why

- The start of a task session with its time limit, the 504 of the follow-up route, and the
  request-reply pairing of a Codex session over stdio and websocket: their timers end a request
  and leave the runtime's work, which `TaskFollowup` models, as it was.
- `findQueueItem`'s scan of the states in awaits of its own: a paper that moves meanwhile is
  answered 404, and no state is left wrong.
- The receipts of workspace restores by idempotency key: the app gives each restore a key of its
  own.
- Automatic papers and the agent hooks: heuristics over transcripts, whose papers enter
  `PaperQueue` as events.
- Windows that share app and title.  Frames are then matched to the wrong one; both window
  modules assume that no two do.  Expiry of claims, observations and exclusions, failing
  reads of the store, and frames and the window with the focus as parts of what the saver compares,
  in `TaskWindows`, and several monitors in `WorkspaceRestore`.
- Master commands, onboarding, the reading queue and voice: single-step reads and writes and
  text classification.  Receipts and autonomy grants: append-only records.  The native host: a
  pipe.  Captured tabs, and what the app shows.
- The validators and types of the shared contracts, the CLIs, scripts and tests.  They are a
  large share of the source and keep no state.
