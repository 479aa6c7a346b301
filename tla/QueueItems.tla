----------------------------- MODULE QueueItems -----------------------------
(***************************************************************************)
(* Papers, their queue items and the pure decisions that the in-memory      *)
(* store (PaperQueue) and the Postgres store (PostgresQueue) share.         *)
(***************************************************************************)
EXTENDS Integers

CONSTANTS
    Seeded,        \* papers of the review-packet fixture
    Events,        \* events, each with the paper it may create
    Runs,          \* agent runs, each with its one approval paper
    Owners,        \* lease owners (clients)
    None,          \* the code's undefined: no owner, no time, no excluded paper
    LeaseTimes,    \* lease_ms values a client may ask for
    Deltas,        \* priority deltas a client may ask for
    Scores,        \* absolute priority scores a client may ask for
    MaxScore,      \* the clamp of bumpQueueItemPriority (10_000 in the code)
    SeedScore, EventScore, WaitingScore, BlockedScore,
    MaxClock,      \* bound: the clock stops here
    MaxLag         \* bound: the age of the `now` of a request

Papers == Seeded \cup Events \cup Runs

ASSUME SortAssumption ==
    /\ Seeded \cap Events = {} /\ Seeded \cap Runs = {} /\ Events \cap Runs = {}
    /\ None \notin Owners \cup Int \cup Papers

ASSUME NumberAssumption ==
    /\ LeaseTimes \subseteq Nat \ {0}
    /\ Deltas \subseteq Int /\ Scores \subseteq Nat
    /\ MaxScore \in Nat /\ MaxClock \in Nat /\ MaxLag \in Nat
    /\ {SeedScore, EventScore, WaitingScore, BlockedScore} \subseteq 0..MaxScore

-----------------------------------------------------------------------------
States == {"ready", "leased", "deferred", "done", "dead"}
Terminal == {"done", "dead"}
Time == Nat
NeedsHuman == {"waiting_approval", "blocked"}
RunStatus == {"unknown", "working"} \cup NeedsHuman
EventRecord == {"unknown", "queued", "stored"}

QueueItem == [state : States \cup {"absent"},
              score : 0..MaxScore,
              created : Time,
              due : Time \cup {None},
              owner : Owners \cup {None},
              expires : Time \cup {None}]

NoItem == [state |-> "absent", score |-> 0, created |-> 0, due |-> None,
           owner |-> None, expires |-> None]

NewItem(score, now) == [NoItem EXCEPT !.state = "ready", !.score = score, !.created = now]

-----------------------------------------------------------------------------
Due(item, now) == item.due = None \/ item.due <= now

\* listQueue's and leaseNextQueueItem's order: higher score, then older.
Outranks(a, b) == a.score > b.score \/ (a.score = b.score /\ a.created < b.created)

\* Faulty variants, each a plausible slip in the definition that follows it, are
\* named ...Mutant; no specification uses them.
UnleasedMutant(item, state) == [item EXCEPT !.state = state, !.owner = None]
Unleased(item, state) == [item EXCEPT !.state = state, !.owner = None, !.expires = None]

ClampMutant(n) == IF n < 0 THEN 0 ELSE n
Clamp(n) == IF n < 0 THEN 0 ELSE IF n > MaxScore THEN MaxScore ELSE n

RunScore(status) == IF status = "blocked" THEN BlockedScore ELSE WaitingScore

-----------------------------------------------------------------------------
\* The refinement mapping: what PaperLifecycle sees of an item.
LifeOf(item) ==
    CASE item.state = "absent" -> [phase |-> "unborn", holder |-> None, until |-> None]
      [] item.state = "ready" -> [phase |-> "offered", holder |-> None, until |-> None]
      [] item.state \in Terminal -> [phase |-> "decided", holder |-> None, until |-> None]
      [] item.state = "deferred" -> [phase |-> "hidden", holder |-> None, until |-> item.due]
      [] item.state = "leased" -> [phase |-> "held", holder |-> item.owner, until |-> item.expires]
=============================================================================
