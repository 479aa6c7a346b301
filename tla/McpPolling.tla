----------------------------- MODULE McpPolling -----------------------------
(***************************************************************************)
(* Polling one MCP source and routing what it returns (poll-and-route,      *)
(* poll-all-and-route).  The registry keeps one cursor state per source in  *)
(* memory, overwrites it with the stored snapshot when a poll begins, and   *)
(* marks the items of an answer as seen at once; the poll routes the new    *)
(* ones one by one and only then stores the state it ended with.            *)
(*                                                                         *)
(* Items are numbered in the order the source produces them, which is the   *)
(* cursor.  A source may return items again that it has returned before.    *)
(***************************************************************************)
EXTENDS Naturals, Sequences, Functions

CONSTANTS
    MaxItems,      \* bound: what the source produces
    Window,        \* dedupeWindow
    Polls,         \* polls that may be under way at once
    NoSnapshot     \* what the store holds of a source before the first commit

CursorState == [cursor : Nat, seen : Seq(Nat)]

ASSUME PollingAssumption ==
    /\ MaxItems \in Nat /\ Window \in Nat \ {0}
    /\ NoSnapshot \notin CursorState

VARIABLES
    produced,      \* how many items the source has
    shared,        \* the registry's cursor state
    stored,        \* the snapshot in the store, or NoSnapshot
    routed,        \* items routed through the gateway
    skipped,       \* history: items marked as seen by a poll that failed before it routed
                   \* them, while the store had no snapshot to hydrate from
    polls          \* where each poll stands

mvars == <<produced, shared, stored, routed, skipped, polls>>

Fresh == [cursor |-> 0, seen |-> <<>>]
NoPoll == [step |-> "idle", asked |-> 0, todo |-> <<>>, result |-> Fresh]

PollAt(q, step) == polls[q].step = step

Saw(state, i) == \E n \in DOMAIN state.seen : state.seen[n] = i

\* trimSeen
Newest(seen) == SubSeq(seen, IF Len(seen) > Window THEN Len(seen) - Window + 1 ELSE 1, Len(seen))

\* acceptItem, with the events made so far
Accept(acc, i) ==
    IF Saw(acc.state, i) THEN acc
    ELSE [state |-> [cursor |-> i, seen |-> Newest(Append(acc.state.seen, i))],
          events |-> Append(acc.events, i)]

\* What the state and the events have become after each item of an answer that starts
\* after item `from`, by the number of items taken.
Accepting(state, from) ==
    LET run[n \in 0..(produced - from)] ==
            IF n = 0 THEN [state |-> state, events |-> <<>>] ELSE Accept(run[n - 1], from + n)
    IN  run

-----------------------------------------------------------------------------
InitPolling ==
    /\ produced = 0
    /\ shared = Fresh
    /\ stored \in {NoSnapshot, Fresh}
    /\ routed = {} /\ skipped = {}
    /\ polls = [q \in Polls |-> NoPoll]

Produce ==
    /\ produced < MaxItems
    /\ produced' = produced + 1
    /\ UNCHANGED <<shared, stored, routed, skipped, polls>>

BeginMutant(q) ==
    /\ PollAt(q, "idle")
    /\ polls' = [polls EXCEPT ![q] = [NoPoll EXCEPT !.step = "calling", !.asked = shared.cursor]]
    /\ UNCHANGED <<produced, shared, stored, routed, skipped>>
\* hydrateCursorState, then callTool with the cursor; without a snapshot nothing is
\* overwritten.
Begin(q) ==
    /\ PollAt(q, "idle")
    /\ shared' = IF stored = NoSnapshot THEN shared ELSE stored
    /\ polls' = [polls EXCEPT ![q] = [NoPoll EXCEPT !.step = "calling", !.asked = shared'.cursor]]
    /\ UNCHANGED <<produced, stored, routed, skipped>>

\* The answer arrives: all the source has after some item no newer than the cursor.  Every
\* item goes through acceptItem; the answer may name the next cursor.
TakeAnswer(q) ==
    /\ PollAt(q, "calling")
    /\ \E from \in 0..polls[q].asked :
         LET end == Accepting(shared, from)[produced - from]
         IN  /\ shared' \in {end.state, [end.state EXCEPT !.cursor = produced]}
             /\ polls' = [polls EXCEPT ![q].step = "routing", ![q].todo = end.events,
                                       ![q].result = shared']
    /\ UNCHANGED <<produced, stored, routed, skipped>>

\* routeEvent
Route(q) ==
    /\ PollAt(q, "routing") /\ polls[q].todo # <<>>
    /\ routed' = routed \cup {Head(polls[q].todo)}
    /\ polls' = [polls EXCEPT ![q].todo = Tail(@)]
    /\ UNCHANGED <<produced, shared, stored, skipped>>

CommitMutant(q) ==
    /\ PollAt(q, "routing")
    /\ stored' = polls[q].result
    /\ polls' = [polls EXCEPT ![q] = NoPoll]
    /\ UNCHANGED <<produced, shared, routed, skipped>>
\* commitPollState, once everything is routed
Commit(q) ==
    /\ PollAt(q, "routing") /\ polls[q].todo = <<>>
    /\ stored' = polls[q].result
    /\ polls' = [polls EXCEPT ![q] = NoPoll]
    /\ UNCHANGED <<produced, shared, routed, skipped>>

\* The tool, a route or the commit throws: the poll is over, what it marked as seen stays
\* in the registry until the next poll hydrates it, if there is anything to hydrate from.
Fail(q) ==
    /\ ~PollAt(q, "idle")
    /\ polls' = [polls EXCEPT ![q] = NoPoll]
    /\ skipped' = IF stored = NoSnapshot THEN skipped \cup Range(polls[q].todo) ELSE skipped
    /\ UNCHANGED <<produced, shared, stored, routed>>

\* The gateway dies and starts again.
CrashPolling ==
    /\ shared' = Fresh
    /\ polls' = [q \in Polls |-> NoPoll]
    /\ UNCHANGED <<produced, stored, routed, skipped>>

-----------------------------------------------------------------------------
NextPolling ==
    \/ Produce
    \/ \E q \in Polls : Begin(q) \/ TakeAnswer(q) \/ Route(q) \/ Commit(q) \/ Fail(q)
    \/ CrashPolling

SpecPolling == InitPolling /\ [][NextPolling]_mvars

RouteItem(q, i) == Route(q) /\ Head(polls[q].todo) = i

\* The poll loop goes on, and neither the source nor the routing of any one item fails
\* for ever.
FairPolling ==
    /\ SpecPolling
    /\ \A q \in Polls :
          /\ WF_mvars(Begin(q)) /\ SF_mvars(TakeAnswer(q)) /\ SF_mvars(Commit(q))
          /\ \A i \in 1..MaxItems : SF_mvars(RouteItem(q, i))

-----------------------------------------------------------------------------
Items == 1..MaxItems

\* "Config-backed real MCP sources hydrate state before polling and commit staged cursor
\* state only after poll results successfully route, so a route failure does not skip
\* events on retry" (docs/planning/14-current-mvp-state.md:163): nothing is marked as seen
\* or passed by the cursor in the store that was not routed.  It holds for polls that
\* follow each other, but for one thing: before the first commit there is nothing to
\* hydrate from, so what a failed poll had marked as seen and not yet routed stays seen,
\* and the first commit passes over it.
CommittedWasRouted ==
    stored # NoSnapshot => /\ Range(stored.seen) \subseteq routed \cup skipped
                           /\ 1..stored.cursor \subseteq routed \cup skipped

\* Every item the source produces is routed in the end, whatever failed on the way, unless
\* a poll before the first commit skipped it.
EveryItemRouted == \A i \in Items : i <= produced ~> i \in routed \cup skipped
=============================================================================
