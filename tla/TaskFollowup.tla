---------------------------- MODULE TaskFollowup ----------------------------
(***************************************************************************)
(* Sending a follow-up text into a task session under an idempotency key    *)
(* (sendTaskFollowupWithActivity).  The direct API, the routing of events   *)
(* and the recommended action of a paper all send through it.               *)
(*                                                                         *)
(* Every await is an interleaving point: the look-up of the key, the record *)
(* of the attempt, the runtime's turn and the record of the verdict are     *)
(* steps of their own, and a write may be rejected, which makes the send     *)
(* throw.  The records are durable, the runtime controller's own memory of  *)
(* keys dies with the gateway.                                              *)
(***************************************************************************)
EXTENDS Naturals, FiniteSets

CONSTANTS
    Requests,      \* activations of the send, one per HTTP request in flight
    Texts,         \* follow-ups somebody wants delivered
    Keys,          \* idempotency keys
    KeyOf,         \* the key each follow-up is sent under
    None

ASSUME FollowupAssumption ==
    KeyOf \in [Texts -> Keys] /\ None \notin Texts /\ IsFiniteSet(Requests)

VARIABLES
    messages,      \* task_messages: the durable status under each key
    cache,         \* the runtime controller's messagesByIdempotencyKey
    turns,         \* how often each text reached the agent
    calls,         \* where each activation stands
    stale          \* keys a reconciliation has listed and not yet failed

fvars == <<messages, cache, turns, calls, stale>>

Verdicts == {"sent", "blocked", "failed"}
Free == [step |-> "idle", text |-> None, verdict |-> "none"]

\* "claim": no record was found; "gate": the attempt is recorded; "turn": the runtime
\* does not know the key; "settle": the verdict is known; "answered": the send returned.
Steps == {"idle", "claim", "gate", "turn", "settle", "answered"}

KeyOfCall(r) == KeyOf[calls[r].text]

Goto(r, step, verdict) ==
    calls' = [calls EXCEPT ![r].step = step, ![r].verdict = verdict]

-----------------------------------------------------------------------------
Init ==
    /\ messages = [k \in Keys |-> "none"]
    /\ cache = [k \in Keys |-> "none"]
    /\ turns = [x \in Texts |-> 0]
    /\ calls = [r \in Requests |-> Free]
    /\ stale = {}

AskMutant(r, x) ==
    /\ calls[r].step = "idle"
    /\ LET known == messages[KeyOf[x]]
       IN  calls' = [calls EXCEPT ![r] =
              [step |-> IF known \in {"none", "attempted"} THEN "claim" ELSE "answered", text |-> x,
               verdict |-> IF known = "attempted" THEN "none" ELSE known]]
    /\ UNCHANGED <<messages, cache, turns, stale>>
\* The look-up of the key: any record found, in whatever status, is the answer.
Ask(r, x) ==
    /\ calls[r].step = "idle"
    /\ LET known == messages[KeyOf[x]]
       IN  calls' = [calls EXCEPT ![r] =
              [step |-> IF known = "none" THEN "claim" ELSE "answered", text |-> x,
               verdict |-> known]]
    /\ UNCHANGED <<messages, cache, turns, stale>>

\* recordTaskMessageAttempt: a record made meanwhile stands, and the send goes on.
Claim(r) ==
    /\ calls[r].step = "claim"
    /\ messages' = [messages EXCEPT ![KeyOfCall(r)] = IF @ = "none" THEN "attempted" ELSE @]
    /\ Goto(r, "gate", "none")
    /\ UNCHANGED <<cache, turns, stale>>

\* evaluateHook does not allow the text.
Refuse(r) ==
    /\ calls[r].step = "gate"
    /\ messages' = [messages EXCEPT ![KeyOfCall(r)] = "blocked"]
    /\ Goto(r, "answered", "blocked")
    /\ UNCHANGED <<cache, turns, stale>>

\* sendFollowupMessage: the runtime answers from its memory of the key, if any.
Reach(r) ==
    /\ calls[r].step = "gate"
    /\ LET known == cache[KeyOfCall(r)]
       IN  Goto(r, IF known = "none" THEN "turn" ELSE "settle", known)
    /\ UNCHANGED <<messages, cache, turns, stale>>

TurnMutant(r) ==
    /\ calls[r].step = "turn"
    /\ \E reached \in BOOLEAN :
          /\ turns' = [turns EXCEPT ![calls[r].text] = IF reached THEN @ + 1 ELSE @]
          /\ cache' = [cache EXCEPT ![KeyOfCall(r)] = "sent"]
          /\ Goto(r, "settle", "sent")
    /\ UNCHANGED <<messages, stale>>
\* The turn: the text reaches the agent or not, and the runtime reports a status.  It
\* may report a failure of a turn that started (a reply lost, a time limit), never a
\* success of one that did not; a missing session or an error may go unremembered.
Turn(r) ==
    /\ calls[r].step = "turn"
    /\ \E verdict \in Verdicts, reached \in BOOLEAN, remembered \in BOOLEAN :
          /\ verdict = "sent" => reached /\ remembered
          /\ verdict = "blocked" => ~reached
          /\ turns' = [turns EXCEPT ![calls[r].text] = IF reached THEN @ + 1 ELSE @]
          /\ cache' = [cache EXCEPT ![KeyOfCall(r)] = IF remembered THEN verdict ELSE @]
          /\ Goto(r, "settle", verdict)
    /\ UNCHANGED <<messages, stale>>

SettleMutant(r) ==
    /\ calls[r].step = "settle"
    /\ messages' = [messages EXCEPT ![KeyOfCall(r)] = "sent"]
    /\ \E verdict \in {calls[r].verdict, "failed"} : Goto(r, "answered", verdict)
    /\ UNCHANGED <<cache, turns, stale>>
\* finalizeTaskMessage: the verdict replaces whatever the record says, and "failed"
\* replaces the verdict when that record, or the activity that follows it, is rejected.
Settle(r) ==
    /\ calls[r].step = "settle"
    /\ \E verdict \in {calls[r].verdict, "failed"} :
          /\ messages' = [messages EXCEPT ![KeyOfCall(r)] = verdict]
          /\ Goto(r, "answered", verdict)
    /\ UNCHANGED <<cache, turns, stale>>

\* What a send may have written last when it throws at a step.
LastWrite(call) ==
    CASE call.step = "claim" -> {}
      [] call.step = "gate" -> {"blocked"}
      [] call.step = "settle" -> {call.verdict, "failed"}

\* A write is rejected outside the try, or in its catch: the send throws, with what it
\* wrote last stored or not.  Past the record of the attempt it is "gate" that throws.
Throw(r) ==
    /\ calls[r].step \in {"claim", "gate", "settle"}
    /\ \/ UNCHANGED messages
       \/ \E status \in LastWrite(calls[r]) : messages' = [messages EXCEPT ![KeyOfCall(r)] = status]
    /\ calls' = [calls EXCEPT ![r] = Free]
    /\ UNCHANGED <<cache, turns, stale>>

Leave(r) ==
    /\ calls[r].step = "answered"
    /\ calls' = [calls EXCEPT ![r] = Free]
    /\ UNCHANGED <<messages, cache, turns, stale>>

\* POST /task-messages/reconcile-attempted lists the attempts older than it was told ...
ListStale ==
    /\ stale = {}
    /\ stale' \in SUBSET {k \in Keys : messages[k] = "attempted"} /\ stale' # {}
    /\ UNCHANGED <<messages, cache, turns, calls>>

FailStaleMutant(k) ==
    /\ k \in stale
    /\ stale' = stale \ {k}
    /\ UNCHANGED <<messages, cache, turns, calls>>
\* ... and then marks one after the other failed.
FailStale(k) ==
    /\ k \in stale
    /\ messages' = [messages EXCEPT ![k] = "failed"]
    /\ stale' = stale \ {k}
    /\ UNCHANGED <<cache, turns, calls>>

\* The gateway dies and starts again.
Crash ==
    /\ cache' = [k \in Keys |-> "none"]
    /\ calls' = [r \in Requests |-> Free]
    /\ stale' = {}
    /\ UNCHANGED <<messages, turns>>

-----------------------------------------------------------------------------
\* What goes on without a new request.
Proceed(r) == Claim(r) \/ Refuse(r) \/ Reach(r) \/ Turn(r) \/ Settle(r)
Reconcile == ListStale \/ \E k \in Keys : FailStale(k)

Next ==
    \/ \E r \in Requests, x \in Texts : Ask(r, x)
    \/ \E r \in Requests : Proceed(r) \/ Throw(r) \/ Leave(r)
    \/ Reconcile
    \/ Crash

Spec == Init /\ [][Next]_fvars

-----------------------------------------------------------------------------
TypeOK ==
    /\ messages \in [Keys -> Verdicts \cup {"none", "attempted"}]
    /\ cache \in [Keys -> Verdicts \cup {"none"}]
    /\ turns \in [Texts -> Nat]
    /\ calls \in [Requests -> [step : Steps, text : Texts \cup {None},
                               verdict : Verdicts \cup {"none", "attempted"}]]
    /\ stale \subseteq Keys
    /\ \A r \in Requests : /\ calls[r].step = "idle" <=> calls[r].text = None
                           /\ calls[r].step = "settle" => calls[r].verdict \in Verdicts
                           /\ calls[r].step = "answered" => calls[r].verdict # "none"

\* What is recorded or answered as sent under a key did reach the agent.
SentIsTrue ==
    /\ \A k \in Keys : messages[k] = "sent" => \E x \in Texts : KeyOf[x] = k /\ turns[x] > 0
    /\ \A r \in Requests : calls[r].verdict = "sent" =>
          \E x \in Texts : KeyOf[x] = KeyOfCall(r) /\ turns[x] > 0

\* "Duplicate task followups now return the durable stored result before runtime side
\* effects" (docs/planning/14-current-mvp-state.md:174).  Requests that are in flight
\* together do find no record, both record the attempt and may both send; but a retry that
\* comes later never sends again, whatever crashed: a text reaches the agent at most once
\* for each request that may be open at a time.
OnlyOverlapsResend == \A x \in Texts : turns[x] <= Cardinality(Requests)

\* No attempt stays undecided: every one ends with a verdict, whatever crashed.
EveryAttemptEnds ==
    \A k \in Keys : messages[k] = "attempted" ~> messages[k] \in Verdicts
=============================================================================
