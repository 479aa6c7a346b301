------------------------- MODULE TaskFollowupProofs -------------------------
(***************************************************************************)
(* For any requests, texts and keys: a follow-up recorded or answered as    *)
(* sent reached an agent, and a text reaches one at most once for each      *)
(* request that may be open at a time.                                      *)
(***************************************************************************)
EXTENDS TaskFollowup, FiniteSetTheorems, TLAPS

\* Some text under the key reached the agent.
Reached(k) == \E x \in Texts : KeyOf[x] = k /\ turns[x] > 0

CallRecord == [step : Steps, text : Texts \cup {None}, verdict : Verdicts \cup {"none", "attempted"}]

CallOK(call) ==
    /\ call \in CallRecord
    /\ call.step = "idle" <=> call.text = None
    /\ call.step = "settle" => call.verdict \in Verdicts
    /\ call.step = "answered" => call.verdict # "none"
    /\ call.verdict = "sent" => Reached(KeyOf[call.text])

Tables ==
    /\ messages \in [Keys -> Verdicts \cup {"none", "attempted"}]
    /\ cache \in [Keys -> Verdicts \cup {"none"}]
    /\ turns \in [Texts -> Nat]
    /\ stale \subseteq Keys

\* What the runtime remembers is as true as what is recorded and answered.
Inv ==
    /\ Tables
    /\ calls \in [Requests -> CallRecord] /\ \A r \in Requests : CallOK(calls[r])
    /\ \A k \in Keys : messages[k] = "sent" \/ cache[k] = "sent" => Reached(k)

-----------------------------------------------------------------------------
LEMMA InitInv == Init => Inv
<1> SUFFICES ASSUME Init PROVE Inv
  OBVIOUS
<1>1. Tables
  BY DEF Init, Tables, Verdicts
<1>2. Free \in CallRecord /\ CallOK(Free)
  BY FollowupAssumption DEF Free, CallRecord, CallOK, Steps, Verdicts
<1>3. calls \in [Requests -> CallRecord] /\ \A r \in Requests : CallOK(calls[r])
  BY <1>2 DEF Init
<1>4. \A k \in Keys : messages[k] # "sent" /\ cache[k] # "sent"
  BY DEF Init
<1> QED BY <1>1, <1>3, <1>4 DEF Inv

\* A step of one call in which no text was delivered.
LEMMA CallStep ==
    ASSUME Inv, NEW r \in Requests, NEW call, calls' = [calls EXCEPT ![r] = call], CallOK(call),
           Tables', turns' = turns,
           \A k \in Keys : messages'[k] = "sent" \/ cache'[k] = "sent" => Reached(k)
    PROVE  Inv'
<1>1. \A k : Reached(k)' = Reached(k)
  BY DEF Reached
<1>2. call \in CallRecord /\ calls \in [Requests -> CallRecord]
  BY DEF Inv, CallOK
<1>3. calls' \in [Requests -> CallRecord]
  BY <1>2
<1>4. ASSUME NEW q \in Requests PROVE CallOK(calls'[q])
  BY <1>2 DEF Inv
<1>5. ASSUME NEW q \in Requests PROVE CallOK(calls[q])'
  BY <1>1, <1>4 DEF CallOK
<1> QED BY <1>1, <1>3, <1>5 DEF Inv

LEMMA AskInv == ASSUME Inv, NEW r \in Requests, NEW x \in Texts, Ask(r, x) PROVE Inv'
<1> DEFINE known == messages[KeyOf[x]]
           call == [step |-> IF known = "none" THEN "claim" ELSE "answered", text |-> x,
                    verdict |-> known]
<1>1. /\ calls' = [calls EXCEPT ![r] = call] /\ UNCHANGED <<messages, cache, turns, stale>>
  BY DEF Ask
<1>2. KeyOf[x] \in Keys /\ x # None
  BY FollowupAssumption
<1>3. known \in Verdicts \cup {"none", "attempted"} /\ (known = "sent" => Reached(KeyOf[x]))
  BY <1>2 DEF Inv, Tables
<1> HIDE DEF known
<1>4. CallOK(call)
  BY <1>2, <1>3 DEF CallOK, CallRecord, Steps
<1> HIDE DEF call
<1>5. Tables'
  BY <1>1 DEF Inv, Tables
<1>6. \A k \in Keys : messages'[k] = "sent" \/ cache'[k] = "sent" => Reached(k)
  BY <1>1 DEF Inv
<1> QED BY <1>1, <1>4, <1>5, <1>6, CallStep

\* What an open call looks like: its text is one, its key a key.
LEMMA OpenCall ==
    ASSUME Inv, NEW r \in Requests, calls[r].step # "idle"
    PROVE  /\ calls[r] \in CallRecord /\ CallOK(calls[r])
           /\ calls[r].text \in Texts /\ calls[r].text # None
           /\ KeyOfCall(r) = KeyOf[calls[r].text] /\ KeyOfCall(r) \in Keys
<1>1. calls[r] \in CallRecord /\ CallOK(calls[r])
  BY DEF Inv
<1>2. calls[r].text \in Texts /\ calls[r].text # None
  BY <1>1 DEF CallOK, CallRecord
<1> QED BY <1>1, <1>2, FollowupAssumption DEF KeyOfCall

\* Goto gives the call another step and verdict.
LEMMA GotoCall ==
    ASSUME Inv, NEW r \in Requests, calls[r].step # "idle",
           NEW step \in Steps, NEW verdict \in Verdicts \cup {"none", "attempted"},
           Goto(r, step, verdict), step # "idle",
           step = "settle" => verdict \in Verdicts, step = "answered" => verdict # "none",
           verdict = "sent" => Reached(KeyOfCall(r))
    PROVE  LET call == [calls[r] EXCEPT !.step = step, !.verdict = verdict] IN
           calls' = [calls EXCEPT ![r] = call] /\ CallOK(call)
<1> DEFINE call == [calls[r] EXCEPT !.step = step, !.verdict = verdict]
<1>1. /\ calls[r] \in CallRecord /\ calls[r].text \in Texts /\ calls[r].text # None
      /\ KeyOfCall(r) = KeyOf[calls[r].text] /\ calls \in [Requests -> CallRecord]
  BY OpenCall DEF Inv
<1>2. calls' = [calls EXCEPT ![r] = call]
  BY <1>1 DEF Goto
<1>3. /\ call \in CallRecord /\ call.step = step /\ call.verdict = verdict
      /\ call.text = calls[r].text
  BY <1>1 DEF CallRecord
<1> HIDE DEF call
<1>4. CallOK(call)
  BY <1>1, <1>3 DEF CallOK
<1> QED BY <1>2, <1>4 DEF call

\* A step of an open call that records a verdict under its key, or nothing.
LEMMA RecordStep ==
    ASSUME Inv, NEW r \in Requests, calls[r].step # "idle",
           NEW step \in Steps, NEW verdict \in Verdicts \cup {"none", "attempted"},
           Goto(r, step, verdict), step # "idle",
           step = "settle" => verdict \in Verdicts, step = "answered" => verdict # "none",
           verdict = "sent" => Reached(KeyOfCall(r)),
           NEW record \in Verdicts \cup {"none", "attempted"},
           messages' = [messages EXCEPT ![KeyOfCall(r)] = record],
           record = "sent" => Reached(KeyOfCall(r)),
           UNCHANGED <<cache, turns, stale>>
    PROVE  Inv'
<1> DEFINE call == [calls[r] EXCEPT !.step = step, !.verdict = verdict]
<1>1. calls' = [calls EXCEPT ![r] = call] /\ CallOK(call)
  BY GotoCall
<1> HIDE DEF call
<1>2. KeyOfCall(r) \in Keys
  BY OpenCall
<1>3. Tables'
  BY <1>2 DEF Inv, Tables
<1>4. \A k \in Keys : messages'[k] = "sent" \/ cache'[k] = "sent" => Reached(k)
  BY <1>2 DEF Inv, Tables
<1> QED BY <1>1, <1>3, <1>4, CallStep

LEMMA ClaimInv == ASSUME Inv, NEW r \in Requests, Claim(r) PROVE Inv'
<1> DEFINE record == IF messages[KeyOfCall(r)] = "none" THEN "attempted" ELSE messages[KeyOfCall(r)]
<1>1. /\ calls[r].step # "idle" /\ Goto(r, "gate", "none") /\ UNCHANGED <<cache, turns, stale>>
      /\ messages' = [messages EXCEPT ![KeyOfCall(r)] = record]
  BY DEF Claim
<1>2. KeyOfCall(r) \in Keys
  BY <1>1, OpenCall
<1>3. record \in Verdicts \cup {"none", "attempted"} /\ (record = "sent" => Reached(KeyOfCall(r)))
  BY <1>2 DEF Inv, Tables
<1> HIDE DEF record
<1>4. "gate" \in Steps
  BY DEF Steps
<1> QED BY <1>1, <1>3, <1>4, RecordStep

LEMMA RefuseInv == ASSUME Inv, NEW r \in Requests, Refuse(r) PROVE Inv'
<1>1. /\ calls[r].step # "idle" /\ Goto(r, "answered", "blocked") /\ UNCHANGED <<cache, turns, stale>>
      /\ messages' = [messages EXCEPT ![KeyOfCall(r)] = "blocked"]
  BY DEF Refuse
<1>2. "answered" \in Steps /\ "blocked" \in Verdicts
  BY DEF Steps, Verdicts
<1> QED BY <1>1, <1>2, RecordStep

LEMMA SettleInv == ASSUME Inv, NEW r \in Requests, Settle(r) PROVE Inv'
<1>1. PICK verdict \in {calls[r].verdict, "failed"} :
        /\ Goto(r, "answered", verdict) /\ messages' = [messages EXCEPT ![KeyOfCall(r)] = verdict]
        /\ calls[r].step = "settle" /\ UNCHANGED <<cache, turns, stale>>
  BY DEF Settle
<1>2. CallOK(calls[r]) /\ KeyOfCall(r) = KeyOf[calls[r].text]
  BY <1>1, OpenCall
<1>3. verdict \in Verdicts /\ (verdict = "sent" => Reached(KeyOfCall(r)))
  BY <1>1, <1>2 DEF CallOK, Verdicts
<1>4. "answered" \in Steps /\ "none" \notin Verdicts
  BY DEF Steps, Verdicts
<1> QED BY <1>1, <1>3, <1>4, RecordStep

LEMMA ReachInv == ASSUME Inv, NEW r \in Requests, Reach(r) PROVE Inv'
<1> DEFINE known == cache[KeyOfCall(r)]
           step == IF known = "none" THEN "turn" ELSE "settle"
           call == [calls[r] EXCEPT !.step = step, !.verdict = known]
<1>1. calls[r].step # "idle" /\ Goto(r, step, known) /\ UNCHANGED <<messages, cache, turns, stale>>
  BY DEF Reach
<1>2. KeyOfCall(r) \in Keys
  BY <1>1, OpenCall
<1>3. /\ known \in Verdicts \cup {"none"} /\ (known = "sent" => Reached(KeyOfCall(r)))
      /\ step \in Steps /\ step # "idle" /\ step # "answered" /\ (step = "settle" => known \in Verdicts)
  BY <1>2 DEF Inv, Tables, Steps
<1> HIDE DEF known, step
<1>4. calls' = [calls EXCEPT ![r] = call] /\ CallOK(call)
  BY <1>1, <1>3, GotoCall
<1> HIDE DEF call
<1>5. Tables'
  BY <1>1 DEF Inv, Tables
<1>6. \A k \in Keys : messages'[k] = "sent" \/ cache'[k] = "sent" => Reached(k)
  BY <1>1 DEF Inv
<1> QED BY <1>1, <1>4, <1>5, <1>6, CallStep

LEMMA LeaveInv == ASSUME Inv, NEW r \in Requests, Leave(r) PROVE Inv'
<1>1. calls' = [calls EXCEPT ![r] = Free] /\ UNCHANGED <<messages, cache, turns, stale>>
  BY DEF Leave
<1>2. CallOK(Free)
  BY FollowupAssumption DEF Free, CallRecord, CallOK, Steps, Verdicts
<1>3. Tables'
  BY <1>1 DEF Inv, Tables
<1>4. \A k \in Keys : messages'[k] = "sent" \/ cache'[k] = "sent" => Reached(k)
  BY <1>1 DEF Inv
<1> QED BY <1>1, <1>2, <1>3, <1>4, CallStep

\* A send that throws has written nothing last but a verdict it knew, or a failure.
LEMMA ThrowInv == ASSUME Inv, NEW r \in Requests, Throw(r) PROVE Inv'
<1>1. /\ calls[r].step \in {"claim", "gate", "settle"} /\ calls' = [calls EXCEPT ![r] = Free]
      /\ UNCHANGED <<cache, turns, stale>>
  BY DEF Throw
<1>2. CallOK(Free)
  BY FollowupAssumption DEF Free, CallRecord, CallOK, Steps, Verdicts
<1>3. CallOK(calls[r]) /\ KeyOfCall(r) = KeyOf[calls[r].text] /\ KeyOfCall(r) \in Keys
  BY <1>1, OpenCall
<1>4. CASE UNCHANGED messages
  <2>1. Tables'
    BY <1>1, <1>4 DEF Inv, Tables
  <2>2. \A k \in Keys : messages'[k] = "sent" \/ cache'[k] = "sent" => Reached(k)
    BY <1>1, <1>4 DEF Inv
  <2> QED BY <1>1, <1>2, <2>1, <2>2, CallStep
<1>5. ASSUME NEW status \in LastWrite(calls[r]), messages' = [messages EXCEPT ![KeyOfCall(r)] = status]
      PROVE  Inv'
  <2>1. status \in Verdicts /\ (status = "sent" => Reached(KeyOfCall(r)))
    BY <1>1, <1>3, <1>5 DEF LastWrite, CallOK, Verdicts
  <2>2. Tables'
    BY <1>1, <1>3, <1>5, <2>1 DEF Inv, Tables
  <2>3. \A k \in Keys : messages'[k] = "sent" \/ cache'[k] = "sent" => Reached(k)
    BY <1>1, <1>3, <1>5, <2>1 DEF Inv, Tables
  <2> QED BY <1>1, <1>2, <2>2, <2>3, CallStep
<1> QED BY <1>4, <1>5 DEF Throw

\* The turn is the one step that delivers; it reports success only then.
LEMMA TurnInv == ASSUME Inv, NEW r \in Requests, Turn(r) PROVE Inv'
<1>1. PICK verdict \in Verdicts, reached \in BOOLEAN, remembered \in BOOLEAN :
        /\ verdict = "sent" => reached /\ remembered
        /\ turns' = [turns EXCEPT ![calls[r].text] = IF reached THEN @ + 1 ELSE @]
        /\ cache' = [cache EXCEPT ![KeyOfCall(r)] = IF remembered THEN verdict ELSE @]
        /\ Goto(r, "settle", verdict)
  BY DEF Turn
<1>2. calls[r].step = "turn" /\ UNCHANGED <<messages, stale>>
  BY DEF Turn
<1> DEFINE call == [calls[r] EXCEPT !.step = "settle", !.verdict = verdict]
<1>3. PICK text \in Texts :
        /\ text = calls[r].text /\ calls[r] \in CallRecord /\ text # None
        /\ KeyOfCall(r) = KeyOf[text] /\ KeyOfCall(r) \in Keys
  BY <1>2, OpenCall
<1>4. /\ calls \in [Requests -> CallRecord] /\ turns \in [Texts -> Nat]
      /\ messages \in [Keys -> Verdicts \cup {"none", "attempted"}]
      /\ cache \in [Keys -> Verdicts \cup {"none"}] /\ stale \subseteq Keys
  BY DEF Inv, Tables
<1>5. calls' = [calls EXCEPT ![r] = call]
  BY <1>1, <1>4 DEF Goto
<1>6. /\ call \in CallRecord /\ call.step = "settle" /\ call.verdict = verdict /\ call.text = text
  BY <1>3 DEF CallRecord, Steps
<1> HIDE DEF call
<1>7. turns' \in [Texts -> Nat]
  BY <1>1, <1>3, <1>4
<1>8. \A x \in Texts : turns[x] > 0 => turns'[x] > 0
  BY <1>1, <1>4, <1>7
<1>9. \A k : Reached(k) => Reached(k)'
  BY <1>8 DEF Reached
<1>10. ASSUME verdict = "sent" PROVE Reached(KeyOf[text])'
  <2>1. turns'[text] = turns[text] + 1 /\ turns[text] \in Nat
    BY <1>1, <1>3, <1>4, <1>10
  <2>2. turns'[text] > 0
    BY <2>1
  <2> QED BY <2>2, <1>3 DEF Reached
<1>11. Tables'
  BY <1>1, <1>2, <1>3, <1>4, <1>7 DEF Tables
<1>12. calls' \in [Requests -> CallRecord]
  BY <1>4, <1>5, <1>6
<1>13. ASSUME NEW q \in Requests PROVE CallOK(calls[q])'
  <2>1. CASE q = r
    BY <2>1, <1>3, <1>4, <1>5, <1>6, <1>10 DEF CallOK
  <2>2. CASE q # r
    BY <2>2, <1>4, <1>5, <1>9 DEF Inv, CallOK
  <2> QED BY <2>1, <2>2
<1>14. ASSUME NEW k \in Keys, messages'[k] = "sent" \/ cache'[k] = "sent" PROVE Reached(k)'
  <2>1. CASE k = KeyOf[text] /\ verdict = "sent"
    BY <2>1, <1>10
  <2>2. CASE ~(k = KeyOf[text] /\ verdict = "sent")
    <3>1. messages[k] = "sent" \/ cache[k] = "sent"
      BY <2>2, <1>1, <1>2, <1>3, <1>4, <1>14
    <3> QED BY <3>1, <1>9 DEF Inv
  <2> QED BY <2>1, <2>2
<1> QED BY <1>11, <1>12, <1>13, <1>14 DEF Inv

\* A step that leaves calls, turns and the runtime's memory alone, or forgets.
LEMMA OtherStep ==
    ASSUME Inv, UNCHANGED turns, Tables', calls' \in [Requests -> CallRecord],
           \A r \in Requests : calls'[r] = calls[r] \/ calls'[r] = Free,
           \A k \in Keys : messages'[k] = "sent" => messages[k] = "sent",
           \A k \in Keys : cache'[k] = "sent" => cache[k] = "sent"
    PROVE  Inv'
<1>1. \A k : Reached(k)' = Reached(k)
  BY DEF Reached
<1>2. CallOK(Free)
  BY FollowupAssumption DEF Free, CallRecord, CallOK, Steps, Verdicts
<1>3. ASSUME NEW r \in Requests PROVE CallOK(calls[r])'
  <2>1. CallOK(calls'[r])
    BY <1>2 DEF Inv
  <2> QED BY <2>1, <1>1 DEF CallOK
<1> QED BY <1>1, <1>3 DEF Inv

LEMMA ListStaleInv == ASSUME Inv, ListStale PROVE Inv'
<1>1. UNCHANGED <<messages, cache, turns, calls>> /\ stale' \subseteq Keys
  BY DEF ListStale
<1>2. Tables' /\ calls' \in [Requests -> CallRecord]
  BY <1>1 DEF Inv, Tables
<1> QED BY <1>1, <1>2, OtherStep

LEMMA FailStaleInv == ASSUME Inv, NEW k \in Keys, FailStale(k) PROVE Inv'
<1>1. /\ messages' = [messages EXCEPT ![k] = "failed"] /\ stale' = stale \ {k}
      /\ UNCHANGED <<cache, turns, calls>>
  BY DEF FailStale
<1>2. Tables' /\ calls' \in [Requests -> CallRecord]
  BY <1>1 DEF Inv, Tables, Verdicts
<1>3. \A j \in Keys : messages'[j] = "sent" => messages[j] = "sent"
  BY <1>1 DEF Inv, Tables
<1> QED BY <1>1, <1>2, <1>3, OtherStep

LEMMA CrashInv == ASSUME Inv, Crash PROVE Inv'
<1>1. /\ cache' = [k \in Keys |-> "none"] /\ calls' = [r \in Requests |-> Free] /\ stale' = {}
      /\ UNCHANGED <<messages, turns>>
  BY DEF Crash
<1>2. Tables'
  BY <1>1 DEF Inv, Tables
<1>3. calls' \in [Requests -> CallRecord]
  BY <1>1, FollowupAssumption DEF Free, CallRecord, Steps, Verdicts
<1> QED BY <1>1, <1>2, <1>3, OtherStep

LEMMA NextInv == Inv /\ [Next]_fvars => Inv'
<1> SUFFICES ASSUME Inv, [Next]_fvars PROVE Inv'
  OBVIOUS
<1>1. CASE UNCHANGED fvars
  BY <1>1 DEF Inv, Tables, CallOK, Reached, fvars
<1>2. ASSUME NEW r \in Requests, Proceed(r) \/ Throw(r) \/ Leave(r) PROVE Inv'
  BY <1>2, ClaimInv, RefuseInv, ReachInv, TurnInv, SettleInv, ThrowInv, LeaveInv DEF Proceed
<1>3. CASE Reconcile
  BY <1>3, ListStaleInv, FailStaleInv DEF Reconcile
<1> QED BY <1>1, <1>2, <1>3, AskInv, CrashInv DEF Next

LEMMA Invariance == Spec => []Inv
  BY InitInv, NextInv, PTL DEF Spec

-----------------------------------------------------------------------------
LEMMA InvTyped == Inv => TypeOK
  BY DEF Inv, Tables, CallOK, CallRecord, TypeOK

LEMMA InvTrue == Inv => SentIsTrue
  BY DEF Inv, CallOK, Reached, KeyOfCall, SentIsTrue

\* The variables have their types; a call has a text exactly while it is open, and a
\* verdict when it is answered.
THEOREM TypeCorrect == Spec => []TypeOK
<1> QED BY Invariance, InvTyped, PTL

\* A follow-up recorded or answered as sent did reach an agent, whatever requests overlap,
\* whatever the runtime forgets and whenever the gateway dies
\* (sendTaskFollowupWithActivity).
THEOREM AlwaysTrue == Spec => []SentIsTrue
<1> QED BY Invariance, InvTrue, PTL

-----------------------------------------------------------------------------
\* The calls that may still send a text.
Pending(x) == {r \in Requests : calls[r].text = x /\ calls[r].step \in {"claim", "gate", "turn"}}

\* A text that was sent, or is about to be, left a record of its key, so no later call
\* sends it: the calls that may are those that looked before the first record.
Once ==
    /\ \A x \in Texts : turns[x] + Cardinality(Pending(x)) <= Cardinality(Requests)
    /\ \A x \in Texts : turns[x] > 0 => messages[KeyOf[x]] # "none"
    /\ \A r \in Requests : calls[r].step \in {"gate", "turn", "settle"} => messages[KeyOfCall(r)] # "none"

LEMMA PendingFinite ==
    ASSUME NEW P \in SUBSET Requests
    PROVE  IsFiniteSet(P) /\ Cardinality(P) \in Nat /\ Cardinality(P) <= Cardinality(Requests)
           /\ Cardinality(Requests) \in Nat
  BY FollowupAssumption, FS_Subset, FS_CardinalityType

LEMMA InitOnce == Init => Once
<1> SUFFICES ASSUME Init PROVE Once
  OBVIOUS
<1>1. \A x \in Texts : turns[x] = 0
  BY DEF Init
<1>2. \A r \in Requests : calls[r].step = "idle"
  BY DEF Init, Free
<1>3. \A x \in Texts : Cardinality(Pending(x)) <= Cardinality(Requests) /\ Cardinality(Pending(x)) \in Nat
  BY PendingFinite DEF Pending
<1> QED BY <1>1, <1>2, <1>3 DEF Once

\* A step that sends nothing and lets no further call send.
LEMMA NothingSent ==
    ASSUME Inv, Inv', Once, turns' = turns,
           \A k \in Keys : messages'[k] = "none" => messages[k] = "none",
           \A r \in Requests : calls'[r].step \in {"claim", "gate", "turn"} =>
              calls[r].step \in {"claim", "gate", "turn"} /\ calls'[r].text = calls[r].text,
           \A r \in Requests : calls'[r].step \in {"gate", "turn", "settle"} =>
              messages'[KeyOf[calls'[r].text]] # "none"
    PROVE  Once'
<1>1. ASSUME NEW x \in Texts PROVE turns'[x] + Cardinality(Pending(x)') <= Cardinality(Requests)
  <2>1. Pending(x)' \subseteq Pending(x) /\ Pending(x) \in SUBSET Requests
    BY DEF Pending
  <2>2. Cardinality(Pending(x)') <= Cardinality(Pending(x)) /\ Cardinality(Pending(x)') \in Nat
    BY <2>1, PendingFinite, FS_Subset, FS_CardinalityType
  <2>3. turns'[x] = turns[x] /\ turns[x] \in Nat /\ Cardinality(Pending(x)) \in Nat /\ Cardinality(Requests) \in Nat
    BY <2>1, PendingFinite DEF Inv, Tables
  <2>4. turns[x] + Cardinality(Pending(x)) <= Cardinality(Requests)
    BY DEF Once
  <2> QED BY <2>2, <2>3, <2>4
<1>2. ASSUME NEW x \in Texts, turns'[x] > 0 PROVE messages'[KeyOf[x]] # "none"
  BY <1>2, FollowupAssumption DEF Once
<1> QED BY <1>1, <1>2 DEF Once, KeyOfCall

LEMMA AskOnce == ASSUME Inv, Inv', Once, NEW r \in Requests, NEW x \in Texts, Ask(r, x) PROVE Once'
<1> DEFINE known == messages[KeyOf[x]]
           call == [step |-> IF known = "none" THEN "claim" ELSE "answered", text |-> x,
                    verdict |-> known]
<1>1. /\ calls' = [calls EXCEPT ![r] = call] /\ turns' = turns /\ messages' = messages
      /\ calls \in [Requests -> CallRecord] /\ turns \in [Texts -> Nat]
  BY DEF Ask, Inv, Tables
<1>2. CASE known = "none"
  <2>1. turns[x] = 0
    BY <1>1, <1>2 DEF Once
  <2>2. calls'[r].text = x /\ calls'[r].step = "claim" /\ \A q \in Requests : q # r => calls'[q] = calls[q]
    BY <1>1, <1>2
  <2>3. ASSUME NEW y \in Texts PROVE turns'[y] + Cardinality(Pending(y)') <= Cardinality(Requests)
    <3>1. CASE y = x
      <4>1. Pending(y)' \in SUBSET Requests
        BY DEF Pending
      <4> QED BY <4>1, <3>1, <2>1, <1>1, PendingFinite
    <3>2. CASE y # x
      <4>1. Pending(y)' \subseteq Pending(y) /\ Pending(y) \in SUBSET Requests
        BY <3>2, <2>2 DEF Pending
      <4>2. Cardinality(Pending(y)') <= Cardinality(Pending(y)) /\ Cardinality(Pending(y)') \in Nat
        BY <4>1, PendingFinite, FS_Subset, FS_CardinalityType
      <4>3. Cardinality(Pending(y)) \in Nat /\ Cardinality(Requests) \in Nat /\ turns[y] \in Nat
        BY <4>1, <1>1, PendingFinite
      <4>4. turns[y] + Cardinality(Pending(y)) <= Cardinality(Requests)
        BY DEF Once
      <4> QED BY <4>2, <4>3, <4>4, <1>1
    <3> QED BY <3>1, <3>2
  <2>4. \A y \in Texts : turns'[y] > 0 => messages'[KeyOf[y]] # "none"
    BY <1>1 DEF Once
  <2>5. \A q \in Requests : calls'[q].step \in {"gate", "turn", "settle"} => messages'[KeyOf[calls'[q].text]] # "none"
    BY <2>2, <1>1 DEF Once, KeyOfCall
  <2> QED BY <2>3, <2>4, <2>5 DEF Once, KeyOfCall
<1>3. CASE known # "none"
  <2>1. calls'[r].step = "answered" /\ \A q \in Requests : q # r => calls'[q] = calls[q]
    BY <1>1, <1>3
  <2>2. \A q \in Requests : calls'[q].step \in {"claim", "gate", "turn", "settle"} => calls'[q] = calls[q]
    BY <2>1
  <2>3. \A q \in Requests : calls'[q].step \in {"gate", "turn", "settle"} => messages'[KeyOf[calls'[q].text]] # "none"
    BY <2>2, <1>1 DEF Once, KeyOfCall
  <2> QED BY <2>2, <2>3, <1>1, NothingSent
<1> QED BY <1>2, <1>3

\* A step of one open call that sends nothing and keeps its text.
LEMMA GotoOnce ==
    ASSUME Inv, Inv', Once, NEW r \in Requests, calls[r].step # "idle",
           NEW step \in Steps, NEW verdict, Goto(r, step, verdict), turns' = turns,
           step \in {"claim", "gate", "turn"} => calls[r].step \in {"claim", "gate", "turn"},
           \A k \in Keys : messages'[k] = "none" => messages[k] = "none",
           step \in {"gate", "turn", "settle"} => messages'[KeyOfCall(r)] # "none"
    PROVE  Once'
<1>1. /\ calls \in [Requests -> CallRecord]
      /\ \A q \in Requests : calls[q].step # "idle" => KeyOf[calls[q].text] \in Keys
  BY OpenCall DEF Inv
<1>2. /\ calls'[r].step = step /\ calls'[r].text = calls[r].text
      /\ \A q \in Requests : q # r => calls'[q] = calls[q]
  BY <1>1 DEF Goto, CallRecord
<1>3. ASSUME NEW q \in Requests, calls'[q].step \in {"gate", "turn", "settle"}
      PROVE  messages'[KeyOf[calls'[q].text]] # "none"
  <2>1. CASE q = r
    BY <2>1, <1>2, <1>3 DEF KeyOfCall
  <2>2. CASE q # r
    BY <2>2, <1>1, <1>2, <1>3 DEF Once, KeyOfCall
  <2> QED BY <2>1, <2>2
<1> QED BY <1>2, <1>3, NothingSent

LEMMA TurnOnce == ASSUME Inv, Inv', Once, NEW r \in Requests, Turn(r) PROVE Once'
<1>1. PICK verdict \in Verdicts, reached \in BOOLEAN :
        /\ calls[r].step = "turn" /\ messages' = messages
        /\ turns' = [turns EXCEPT ![calls[r].text] = IF reached THEN @ + 1 ELSE @]
        /\ Goto(r, "settle", verdict)
  BY DEF Turn
<1>2. /\ calls \in [Requests -> CallRecord] /\ turns \in [Texts -> Nat]
      /\ calls[r].text \in Texts /\ KeyOfCall(r) = KeyOf[calls[r].text]
  BY <1>1, OpenCall DEF Inv, Tables
<1>3. /\ calls'[r].step = "settle" /\ calls'[r].text = calls[r].text
      /\ \A q \in Requests : q # r => calls'[q] = calls[q]
  BY <1>1, <1>2 DEF Goto, CallRecord
<1>4. messages[KeyOf[calls[r].text]] # "none"
  BY <1>1, <1>2 DEF Once
<1>5. ASSUME NEW x \in Texts PROVE turns'[x] + Cardinality(Pending(x)') <= Cardinality(Requests)
  <2>1. Pending(x) \in SUBSET Requests /\ turns[x] + Cardinality(Pending(x)) <= Cardinality(Requests)
    BY DEF Pending, Once
  <2>2. IsFiniteSet(Pending(x)) /\ Cardinality(Pending(x)) \in Nat /\ Cardinality(Requests) \in Nat
    BY <2>1, PendingFinite
  <2>3. CASE x = calls[r].text
    <3>1. r \in Pending(x) /\ Pending(x)' = Pending(x) \ {r}
      BY <2>3, <1>1, <1>3 DEF Pending
    <3>2. Cardinality(Pending(x)') = Cardinality(Pending(x)) - 1
      BY <3>1, <2>2, FS_RemoveElement
    <3>3. turns'[x] \in Nat /\ turns'[x] <= turns[x] + 1
      BY <2>3, <1>1, <1>2
    <3> QED BY <2>1, <2>2, <3>2, <3>3, <1>2
  <2>4. CASE x # calls[r].text
    <3>1. Pending(x)' = Pending(x)
      BY <2>4, <1>1, <1>3 DEF Pending
    <3>2. turns'[x] = turns[x]
      BY <2>4, <1>1, <1>2
    <3> QED BY <2>1, <3>1, <3>2
  <2> QED BY <2>3, <2>4
<1>6. ASSUME NEW x \in Texts, turns'[x] > 0 PROVE messages'[KeyOf[x]] # "none"
  <2>1. CASE x = calls[r].text
    BY <2>1, <1>1, <1>4
  <2>2. CASE x # calls[r].text
    BY <2>2, <1>1, <1>2, <1>6 DEF Once
  <2> QED BY <2>1, <2>2
<1>7. \A q \in Requests : calls'[q].step \in {"gate", "turn", "settle"} => messages'[KeyOf[calls'[q].text]] # "none"
  BY <1>1, <1>3, <1>4 DEF Once, KeyOfCall
<1> QED BY <1>5, <1>6, <1>7 DEF Once, KeyOfCall

LEMMA ProceedOnce == ASSUME Inv, Inv', Once, NEW r \in Requests, Proceed(r) PROVE Once'
<1>1. CASE Claim(r)
  <2>1. /\ calls[r].step = "claim" /\ Goto(r, "gate", "none") /\ turns' = turns
        /\ messages' = [messages EXCEPT ![KeyOfCall(r)] = IF @ = "none" THEN "attempted" ELSE @]
    BY <1>1 DEF Claim
  <2>2. KeyOfCall(r) \in Keys /\ messages \in [Keys -> Verdicts \cup {"none", "attempted"}]
    BY <2>1, OpenCall DEF Inv, Tables
  <2>3. messages'[KeyOfCall(r)] # "none" /\ \A k \in Keys : messages'[k] = "none" => messages[k] = "none"
    BY <2>1, <2>2
  <2> QED BY <2>1, <2>3, GotoOnce DEF Steps
<1>2. CASE Refuse(r)
  <2>1. /\ calls[r].step = "gate" /\ Goto(r, "answered", "blocked") /\ turns' = turns
        /\ messages' = [messages EXCEPT ![KeyOfCall(r)] = "blocked"]
    BY <1>2 DEF Refuse
  <2>2. \A k \in Keys : messages'[k] = "none" => messages[k] = "none"
    BY <2>1 DEF Inv, Tables
  <2> QED BY <2>1, <2>2, GotoOnce DEF Steps
<1>3. CASE Reach(r)
  <2>1. PICK step, verdict :
          /\ step \in {"turn", "settle"}
          /\ calls[r].step = "gate" /\ Goto(r, step, verdict) /\ turns' = turns /\ messages' = messages
    BY <1>3 DEF Reach
  <2>2. messages[KeyOfCall(r)] # "none"
    BY <2>1 DEF Once
  <2> QED BY <2>1, <2>2, GotoOnce DEF Steps, KeyOfCall
<1>4. CASE Settle(r)
  <2>1. PICK verdict \in {calls[r].verdict, "failed"} :
          /\ calls[r].step = "settle" /\ Goto(r, "answered", verdict) /\ turns' = turns
          /\ messages' = [messages EXCEPT ![KeyOfCall(r)] = verdict]
    BY <1>4 DEF Settle
  <2>2. verdict # "none"
    BY <2>1, OpenCall DEF CallOK, Verdicts
  <2>3. \A k \in Keys : messages'[k] = "none" => messages[k] = "none"
    BY <2>1, <2>2 DEF Inv, Tables
  <2> QED BY <2>1, <2>3, GotoOnce DEF Steps
<1> QED BY <1>1, <1>2, <1>3, <1>4, TurnOnce DEF Proceed

\* A call that ends or throws, the reconciliation, and a crash.
LEMMA OtherOnce ==
    ASSUME Inv, Inv', Once, UNCHANGED turns,
           \A r \in Requests : calls'[r] = calls[r] \/ calls'[r] = Free,
           \A k \in Keys : messages'[k] = "none" => messages[k] = "none"
    PROVE  Once'
<1>1. \A r \in Requests : calls'[r].step # "idle" => calls'[r] = calls[r]
  BY DEF Free
<1>2. ASSUME NEW r \in Requests, calls'[r].step \in {"gate", "turn", "settle"}
      PROVE  messages'[KeyOf[calls'[r].text]] # "none"
  BY <1>1, <1>2, OpenCall DEF Once, KeyOfCall
<1> QED BY <1>1, <1>2, NothingSent

LEMMA NextOnce == Inv /\ Inv' /\ Once /\ [Next]_fvars => Once'
<1> SUFFICES ASSUME Inv, Inv', Once, [Next]_fvars PROVE Once'
  OBVIOUS
<1>0. calls \in [Requests -> CallRecord] /\ messages \in [Keys -> Verdicts \cup {"none", "attempted"}]
  BY DEF Inv, Tables
<1>1. CASE UNCHANGED fvars
  BY <1>1, OtherOnce DEF fvars
<1>2. ASSUME NEW r \in Requests, Leave(r) PROVE Once'
  BY <1>0, <1>2, OtherOnce DEF Leave
<1>3. CASE ListStale
  BY <1>3, OtherOnce DEF ListStale
<1>6. ASSUME NEW r \in Requests, Throw(r) PROVE Once'
  <2>1. calls[r].step \in {"claim", "gate", "settle"} /\ CallOK(calls[r])
    BY <1>6, OpenCall DEF Throw
  <2>2. "none" \notin LastWrite(calls[r])
    BY <2>1 DEF LastWrite, CallOK, Verdicts
  <2>3. \A k \in Keys : messages'[k] = "none" => messages[k] = "none"
    BY <1>0, <1>6, <2>2 DEF Throw
  <2> QED BY <1>0, <1>6, <2>3, OtherOnce DEF Throw
<1>4. ASSUME NEW k \in Keys, FailStale(k) PROVE Once'
  BY <1>0, <1>4, OtherOnce DEF FailStale
<1>5. CASE Crash
  BY <1>5, OtherOnce DEF Crash
<1> QED BY <1>1, <1>2, <1>3, <1>4, <1>5, <1>6, AskOnce, ProceedOnce DEF Next, Reconcile

LEMMA OnceBounds == Inv /\ Once => OnlyOverlapsResend
<1> SUFFICES ASSUME Inv, Once, NEW x \in Texts PROVE turns[x] <= Cardinality(Requests)
  BY DEF OnlyOverlapsResend
<1>1. Pending(x) \in SUBSET Requests
  BY DEF Pending
<1>2. turns[x] \in Nat /\ turns[x] + Cardinality(Pending(x)) <= Cardinality(Requests)
  BY DEF Inv, Tables, Once
<1> QED BY <1>1, <1>2, PendingFinite

\* A text reaches the agent at most once for each request that may be open at a time: a
\* retry that comes after a record of its key sends nothing, whatever crashed in between
\* (sendTaskFollowupWithActivity's look-up of the key).
THEOREM OnlyOverlaps == Spec => []OnlyOverlapsResend
<1>1. Init => Inv /\ Once
  BY InitInv, InitOnce
<1>2. Inv /\ Once /\ [Next]_fvars => (Inv /\ Once)'
  BY NextInv, NextOnce
<1>3. Spec => [](Inv /\ Once)
  BY <1>1, <1>2, PTL DEF Spec
<1> QED BY <1>3, OnceBounds, PTL
=============================================================================
