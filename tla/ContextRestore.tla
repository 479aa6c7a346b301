--------------------------- MODULE ContextRestore ---------------------------
(***************************************************************************)
(* Requests to restore a browser context: the app creates them, pollers in  *)
(* the browser profiles lease them one at a time, restore the tab and       *)
(* report, and a person may retry one.  A poller may be slow or die, and a  *)
(* report may be lost; the store gives an expired lease back to the queue   *)
(* when somebody peeks or claims, with the clock of that call, which may be *)
(* a little behind.                                                        *)
(***************************************************************************)
EXTENDS Naturals

CONSTANTS
    Ids,           \* restore requests, numbered by age (created_at, then id)
    Pollers,       \* runs of pollOnce; a profile may have several under way
    None

ASSUME RestoreAssumption == Ids \subseteq Nat /\ None \notin Pollers \cup Ids

VARIABLES
    requests,      \* the restore requests
    pollers,       \* what each run of the poller is doing
    restored       \* requests some browser has restored

cvars == <<requests, pollers, restored>>

Statuses == {"none", "pending", "leased", "done", "failed"}

\* expired: the lease ended, whether anybody noticed or not
Free(status) == [status |-> status, owner |-> None, expired |-> FALSE]
Idle == [step |-> "idle", id |-> None, ok |-> FALSE]

Expired == {q \in Ids : requests[q].status = "leased" /\ requests[q].expired}

ReapMutant(seen) ==
    [q \in Ids |-> IF requests[q].status = "leased" THEN Free("pending") ELSE requests[q]]
\* reapExpiredContextRestoreRequestLeases at a time that sees these leases expired.
Reap(seen) == [q \in Ids |-> IF q \in seen THEN Free("pending") ELSE requests[q]]

\* peekNextContextRestoreRequest
Pending(reaped) == {q \in Ids : reaped[q].status = "pending"}
Oldest(ids) == CHOOSE q \in ids : \A other \in ids : q <= other

-----------------------------------------------------------------------------
Init ==
    /\ requests = [q \in Ids |-> Free("none")]
    /\ pollers = [w \in Pollers |-> Idle]
    /\ restored = {}

\* createContextRestoreRequest; a known idempotency key returns the request it made.
Create(q) ==
    /\ requests[q].status = "none"
    /\ requests' = [requests EXCEPT ![q] = Free("pending")]
    /\ UNCHANGED <<pollers, restored>>

\* A lease's time is over.
Expire(q) ==
    /\ requests[q].status = "leased" /\ ~requests[q].expired
    /\ requests' = [requests EXCEPT ![q].expired = TRUE]
    /\ UNCHANGED <<pollers, restored>>

Peek(seen) ==
    /\ requests' = Reap(seen)
    /\ UNCHANGED <<pollers, restored>>

\* claimNextContextRestoreRequest from pollOnce
Claim(w, seen) ==
    /\ pollers[w] = Idle
    /\ LET reaped == Reap(seen)
           q == Oldest(Pending(reaped))
       IN  IF Pending(reaped) = {} THEN requests' = reaped /\ UNCHANGED pollers
           ELSE /\ requests' = [reaped EXCEPT ![q] = [status |-> "leased", owner |-> w,
                                                      expired |-> FALSE]]
                /\ pollers' = [pollers EXCEPT ![w] = [step |-> "restoring", id |-> q, ok |-> FALSE]]
    /\ UNCHANGED restored

\* controller.restore works or not.
Restore(w) ==
    /\ pollers[w].step = "restoring"
    /\ \E ok \in BOOLEAN :
          /\ pollers' = [pollers EXCEPT ![w].step = "reporting", ![w].ok = ok]
          /\ restored' = IF ok THEN restored \cup {pollers[w].id} ELSE restored
    /\ UNCHANGED requests

ReportMutant(w) ==
    /\ pollers[w].step = "reporting"
    /\ requests' = [requests EXCEPT ![pollers[w].id] = Free("done")]
    /\ pollers' = [pollers EXCEPT ![w] = Idle]
    /\ UNCHANGED restored
ReportMutant2(w) ==
    /\ pollers[w].step = "reporting"
    /\ requests' = [requests EXCEPT ![pollers[w].id] =
                       IF pollers[w].ok THEN Free("done") ELSE requests[pollers[w].id]]
    /\ pollers' = [pollers EXCEPT ![w] = Idle]
    /\ UNCHANGED restored
\* markContextRestoreRequestDone or ...Failed, whatever the request is and whoever holds it.
Report(w) ==
    /\ pollers[w].step = "reporting"
    /\ requests' = [requests EXCEPT ![pollers[w].id] =
                       Free(IF pollers[w].ok THEN "done" ELSE "failed")]
    /\ pollers' = [pollers EXCEPT ![w] = Idle]
    /\ UNCHANGED restored

\* The browser kills the poller, or its report does not get through.
Abandon(w) ==
    /\ pollers[w] # Idle
    /\ pollers' = [pollers EXCEPT ![w] = Idle]
    /\ UNCHANGED <<requests, restored>>

\* retryContextRestoreRequest, whatever the request is.
Retry(q) ==
    /\ requests[q].status # "none"
    /\ requests' = [requests EXCEPT ![q] = Free("pending")]
    /\ UNCHANGED <<pollers, restored>>

-----------------------------------------------------------------------------
Next ==
    \/ \E q \in Ids : Create(q) \/ Expire(q) \/ Retry(q)
    \/ \E seen \in SUBSET Expired : Peek(seen)
    \/ \E w \in Pollers : Restore(w) \/ Report(w) \/ Abandon(w)
    \/ \E w \in Pollers, seen \in SUBSET Expired : Claim(w, seen)

Spec == Init /\ [][Next]_cvars

\* The alarm wakes pollers whose clock is right, leases end, people stop retrying, and a
\* browser is not killed over every request.
FairSpec ==
    /\ Spec
    /\ \A q \in Ids : WF_cvars(Expire(q))
    /\ \A w \in Pollers :
          /\ SF_cvars(Claim(w, Expired)) /\ SF_cvars(Restore(w)) /\ SF_cvars(Report(w))
    /\ <>[][\A q \in Ids : ~Retry(q)]_cvars

-----------------------------------------------------------------------------
TypeOK ==
    /\ requests \in [Ids -> [status : Statuses, owner : Pollers \cup {None}, expired : BOOLEAN]]
    /\ pollers \in [Pollers -> [step : {"idle", "restoring", "reporting"},
                                id : Ids \cup {None}, ok : BOOLEAN]]
    /\ restored \subseteq Ids
    /\ \A q \in Ids : /\ requests[q].status = "leased" <=> requests[q].owner # None
                      /\ requests[q].expired => requests[q].status = "leased"
    /\ \A w \in Pollers : /\ pollers[w].step = "idle" <=> pollers[w].id = None
                          /\ pollers[w].step = "idle" => pollers[w] = Idle
                          /\ pollers[w].id # None => requests[pollers[w].id].status # "none"

\* Two pollers restore one request only after the first one's lease expired or somebody
\* finished or retried the request.
LiveLeaseHolds ==
    [][\A q \in Ids :
          requests[q].status = "leased" /\ ~requests[q].expired /\ requests'[q].status = "leased"
             => requests'[q].owner = requests[q].owner]_cvars

\* A request shown as done was restored in some browser.
DoneWasRestored == \A q \in Ids : requests[q].status = "done" => q \in restored

\* Every request is answered in the end, whatever pollers died over it.
EveryRequestAnswered ==
    \A q \in Ids : requests[q].status \in {"pending", "leased"} ~> requests[q].status \in {"done", "failed"}
=============================================================================
