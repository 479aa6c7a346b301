---------------------------- MODULE RestoreProofs ----------------------------
(***************************************************************************)
(* The two kinds of restore.                                               *)
(*                                                                         *)
(* Requests to restore a context in the browser (ContextRestore): for any   *)
(* requests and pollers, a live lease is nobody else's, and a request shown *)
(* as done was restored.                                                   *)
(*                                                                         *)
(* Restores of a workspace (WorkspaceRestore): for any windows, desktops,   *)
(* snapshots and moves of the user, looking for frames gives the focus back, *)
(* the verdict is true, and a restore nothing interferes with settles.  A   *)
(* plan is a sequence made window after window; what is in it, and in which *)
(* order, is proved first, then what each command makes of a desktop.  The  *)
(* invariant needs a way to say that a plan half carried out will arrive:   *)
(* each part of each window's place is right already, or a command that      *)
(* puts it right is still to come and nothing after that one spoils it      *)
(* (OnTrack).                                                              *)
(***************************************************************************)
EXTENDS ContextRestore, WorkspaceRestore, SequenceTheorems, FiniteSetTheorems,
        WellFoundedInduction, TLAPS

(* Requests to restore a context *)

\* A poller about to report success has restored its request.
ReportersRestored ==
    \A w \in Pollers : pollers[w].step = "reporting" /\ pollers[w].ok => pollers[w].id \in restored

Inv == TypeOK /\ ReportersRestored /\ DoneWasRestored

Request == [status : Statuses, owner : Pollers \cup {None}, expired : BOOLEAN]
Poller == [step : {"idle", "restoring", "reporting"}, id : Ids \cup {None}, ok : BOOLEAN]

\* What TypeOK says of one request, and of one poller.
RequestOK(record) ==
    /\ record \in Request
    /\ record.status = "leased" <=> record.owner # None
    /\ record.expired => record.status = "leased"
PollerOK(poller, known) ==
    /\ poller \in Poller
    /\ poller.step = "idle" <=> poller.id = None
    /\ poller.step = "idle" => poller = Idle
    /\ poller.id # None => poller.id \in known

Known == {q \in Ids : requests[q].status # "none"}

-----------------------------------------------------------------------------
\* TypeOK, request by request and poller by poller.
LEMMA TypePointwise ==
    TypeOK <=> /\ requests \in [Ids -> Request] /\ \A q \in Ids : RequestOK(requests[q])
               /\ pollers \in [Pollers -> Poller] /\ \A w \in Pollers : PollerOK(pollers[w], Known)
               /\ restored \subseteq Ids
<1>1. ASSUME TypeOK
      PROVE  /\ requests \in [Ids -> Request] /\ \A q \in Ids : RequestOK(requests[q])
             /\ pollers \in [Pollers -> Poller] /\ \A w \in Pollers : PollerOK(pollers[w], Known)
             /\ restored \subseteq Ids
  <2>1. requests \in [Ids -> Request] /\ pollers \in [Pollers -> Poller] /\ restored \subseteq Ids
    BY <1>1 DEF TypeOK, Request, Poller
  <2>2. \A q \in Ids : RequestOK(requests[q])
    BY <1>1, <2>1 DEF TypeOK, RequestOK
  <2>3. ASSUME NEW w \in Pollers PROVE PollerOK(pollers[w], Known)
    <3>1. pollers[w] \in Poller
      BY <2>1
    <3>2. pollers[w].id \in Ids \cup {None}
      BY <3>1 DEF Poller
    <3> QED BY <1>1, <3>1, <3>2 DEF TypeOK, PollerOK, Known
  <2> QED BY <2>1, <2>2, <2>3
<1>2. ASSUME requests \in [Ids -> Request], \A q \in Ids : RequestOK(requests[q]),
             pollers \in [Pollers -> Poller], \A w \in Pollers : PollerOK(pollers[w], Known),
             restored \subseteq Ids
      PROVE  TypeOK
  BY <1>2 DEF TypeOK, Request, Poller, RequestOK, PollerOK, Known
<1> QED BY <1>1, <1>2

LEMMA FreeOK ==
    ASSUME NEW status \in Statuses \ {"leased"}
    PROVE  RequestOK(Free(status)) /\ Free(status).status = status /\ Free(status).owner = None
  BY DEF Free, RequestOK, Request, Statuses

LEMMA IdleOK == ASSUME NEW known PROVE PollerOK(Idle, known)
  BY RestoreAssumption DEF PollerOK, Idle, Poller

\* The oldest pending request is one of them.
LEMMA OldestIsPending ==
    ASSUME NEW ids \in SUBSET Ids, ids # {}
    PROVE  Oldest(ids) \in ids
<1> DEFINE less == OpToRel(<, Nat)
<1>1. ids \subseteq Nat
  BY RestoreAssumption
<1>2. IsWellFoundedOn(less, Nat)
  BY NatLessThanWellFounded
<1>3. \A m, n \in Nat : m < n => <<m, n>> \in less
  BY DEF OpToRel
<1> HIDE DEF less
<1>4. PICK q \in ids : \A other \in ids : ~(<<other, q>> \in less)
  BY <1>1, <1>2, WFMin
<1>5. ASSUME NEW other \in ids PROVE q <= other
  <2>1. q \in Nat /\ other \in Nat
    BY <1>1
  <2>2. ~(<<other, q>> \in less)
    BY <1>4
  <2>3. ~(other < q)
    BY <1>3, <2>1, <2>2
  <2> QED BY <2>1, <2>3
<1> QED BY <1>5 DEF Oldest

\* The reaper takes only expired leases, and makes them pending.
LEMMA ReapOK ==
    ASSUME TypeOK, NEW seen \in SUBSET Expired
    PROVE  /\ Reap(seen) \in [Ids -> Request] /\ \A q \in Ids : RequestOK(Reap(seen)[q])
           /\ \A q \in Ids : Reap(seen)[q] = requests[q]
                             \/ (Reap(seen)[q] = Free("pending") /\ q \in Expired)
<1>1. requests \in [Ids -> Request] /\ \A q \in Ids : RequestOK(requests[q])
  BY TypePointwise
<1>2. RequestOK(Free("pending")) /\ Free("pending") \in Request
  BY FreeOK DEF Statuses, RequestOK
<1> QED BY <1>1, <1>2 DEF Reap

-----------------------------------------------------------------------------
LEMMA InitInv == Init => Inv
<1> SUFFICES ASSUME Init PROVE Inv
  OBVIOUS
<1>1. TypeOK
  BY RestoreAssumption DEF Init, TypeOK, Free, Idle, Statuses
<1>2. ReportersRestored
  BY DEF Init, ReportersRestored, Idle
<1>3. DoneWasRestored
  BY DEF Init, DoneWasRestored, Free
<1> QED BY <1>1, <1>2, <1>3 DEF Inv

\* A step that changes requests only: each stays as it was or becomes well formed, none is
\* forgotten and none is done that was not.
LEMMA RequestsStep ==
    ASSUME Inv, requests' \in [Ids -> Request], UNCHANGED <<pollers, restored>>,
           \A q \in Ids : RequestOK(requests'[q]),
           \A q \in Ids : requests[q].status # "none" => requests'[q].status # "none",
           \A q \in Ids : requests'[q].status = "done" => requests[q].status = "done"
    PROVE  Inv'
<1>1. requests' \in [Ids -> Request] /\ \A q \in Ids : RequestOK(requests'[q])
  OBVIOUS
<1>2. pollers \in [Pollers -> Poller] /\ (\A w \in Pollers : PollerOK(pollers[w], Known))
      /\ restored \subseteq Ids
  BY TypePointwise DEF Inv
<1>3. Known \subseteq Known'
  BY DEF Known
<1>4. \A w \in Pollers : PollerOK(pollers[w], Known')
  BY <1>2, <1>3 DEF PollerOK
<1>5. TypeOK'
  <2>1. \A q \in Ids : requests'[q].status = "leased" <=> requests'[q].owner # None
    BY <1>1 DEF RequestOK
  <2>2. \A q \in Ids : requests'[q].expired => requests'[q].status = "leased"
    BY <1>1 DEF RequestOK
  <2>3. \A w \in Pollers : pollers[w].id # None => requests'[pollers[w].id].status # "none"
    BY <1>4 DEF PollerOK, Known
  <2> QED BY <1>1, <1>2, <2>1, <2>2, <2>3 DEF TypeOK, Request, Poller, PollerOK
<1>6. ReportersRestored' /\ DoneWasRestored'
  BY DEF Inv, ReportersRestored, DoneWasRestored
<1> QED BY <1>5, <1>6 DEF Inv

\* A step of one poller that changes nothing else.
LEMMA PollerStep ==
    ASSUME Inv, NEW w \in Pollers, NEW poller, pollers' = [pollers EXCEPT ![w] = poller],
           PollerOK(poller, Known), UNCHANGED requests,
           restored \subseteq restored', restored' \subseteq Ids,
           poller.step = "reporting" /\ poller.ok => poller.id \in restored'
    PROVE  Inv'
<1>1. TypeOK /\ requests \in [Ids -> Request] /\ pollers \in [Pollers -> Poller]
      /\ (\A v \in Pollers : PollerOK(pollers[v], Known))
  BY TypePointwise DEF Inv
<1>2. pollers' \in [Pollers -> Poller] /\ (\A v \in Pollers : PollerOK(pollers'[v], Known))
  BY <1>1 DEF PollerOK
<1>3. TypeOK'
  <2>1. \A v \in Pollers : pollers'[v].id # None => requests[pollers'[v].id].status # "none"
    BY <1>2 DEF PollerOK, Known
  <2> QED BY <1>1, <1>2, <2>1 DEF TypeOK, Request, Poller, PollerOK
<1>4. ReportersRestored'
  BY <1>1 DEF Inv, ReportersRestored
<1>5. DoneWasRestored'
  BY DEF Inv, DoneWasRestored
<1> QED BY <1>3, <1>4, <1>5 DEF Inv

-----------------------------------------------------------------------------
LEMMA CreateInv == ASSUME Inv, NEW q \in Ids, Create(q) PROVE Inv'
<1>1. requests \in [Ids -> Request] /\ \A p \in Ids : RequestOK(requests[p])
  BY TypePointwise DEF Inv
<1>2. requests' = [requests EXCEPT ![q] = Free("pending")] /\ UNCHANGED <<pollers, restored>>
  BY DEF Create
<1>3. RequestOK(Free("pending")) /\ Free("pending").status = "pending"
  BY FreeOK DEF Statuses
<1>4. requests' \in [Ids -> Request] /\ \A p \in Ids : RequestOK(requests'[p])
  BY <1>1, <1>2, <1>3 DEF RequestOK
<1>5. \A p \in Ids : requests[p].status # "none" => requests'[p].status # "none"
  BY <1>1, <1>2, <1>3
<1>6. \A p \in Ids : requests'[p].status = "done" => requests[p].status = "done"
  BY <1>1, <1>2, <1>3
<1> QED BY <1>2, <1>4, <1>5, <1>6, RequestsStep

LEMMA RetryInv == ASSUME Inv, NEW q \in Ids, Retry(q) PROVE Inv'
<1>1. requests \in [Ids -> Request] /\ \A p \in Ids : RequestOK(requests[p])
  BY TypePointwise DEF Inv
<1>2. requests' = [requests EXCEPT ![q] = Free("pending")] /\ UNCHANGED <<pollers, restored>>
  BY DEF Retry
<1>3. RequestOK(Free("pending")) /\ Free("pending").status = "pending"
  BY FreeOK DEF Statuses
<1>4. requests' \in [Ids -> Request] /\ \A p \in Ids : RequestOK(requests'[p])
  BY <1>1, <1>2, <1>3 DEF RequestOK
<1>5. \A p \in Ids : requests[p].status # "none" => requests'[p].status # "none"
  BY <1>1, <1>2, <1>3
<1>6. \A p \in Ids : requests'[p].status = "done" => requests[p].status = "done"
  BY <1>1, <1>2, <1>3
<1> QED BY <1>2, <1>4, <1>5, <1>6, RequestsStep

LEMMA ExpireInv == ASSUME Inv, NEW q \in Ids, Expire(q) PROVE Inv'
<1>1. requests \in [Ids -> Request] /\ \A p \in Ids : RequestOK(requests[p])
  BY TypePointwise DEF Inv
<1>2. /\ requests' = [requests EXCEPT ![q].expired = TRUE] /\ requests[q].status = "leased"
      /\ UNCHANGED <<pollers, restored>>
  BY DEF Expire
<1>3. /\ RequestOK(requests'[q]) /\ requests'[q].status = "leased"
      /\ \A p \in Ids : p # q => requests'[p] = requests[p]
  BY <1>1, <1>2 DEF RequestOK, Request
<1>4. requests' \in [Ids -> Request] /\ \A p \in Ids : RequestOK(requests'[p])
  <2>1. \A p \in Ids : RequestOK(requests'[p])
    BY <1>1, <1>3
  <2> QED BY <2>1, <1>1, <1>2 DEF RequestOK
<1>5. \A p \in Ids : requests[p].status # "none" => requests'[p].status # "none"
  BY <1>3
<1>6. \A p \in Ids : requests'[p].status = "done" => requests[p].status = "done"
  BY <1>3
<1> QED BY <1>2, <1>4, <1>5, <1>6, RequestsStep

LEMMA PeekInv == ASSUME Inv, NEW seen \in SUBSET Expired, Peek(seen) PROVE Inv'
<1>1. requests' = Reap(seen) /\ UNCHANGED <<pollers, restored>>
  BY DEF Peek
<1>2. /\ Reap(seen) \in [Ids -> Request] /\ \A q \in Ids : RequestOK(Reap(seen)[q])
      /\ \A q \in Ids : Reap(seen)[q] = requests[q] \/ (Reap(seen)[q] = Free("pending") /\ q \in Expired)
  BY ReapOK DEF Inv
<1>3. Free("pending").status = "pending"
  BY DEF Free
<1> QED BY <1>1, <1>2, <1>3, RequestsStep

\* A claim is a reaping, then a step of one request and of one poller.
LEMMA ClaimInv == ASSUME Inv, NEW w \in Pollers, NEW seen \in SUBSET Expired, Claim(w, seen) PROVE Inv'
<1> DEFINE reaped == Reap(seen)
           q == Oldest(Pending(reaped))
           lease == [status |-> "leased", owner |-> w, expired |-> FALSE]
           job == [step |-> "restoring", id |-> q, ok |-> FALSE]
<1>1. /\ reaped \in [Ids -> Request] /\ \A p \in Ids : RequestOK(reaped[p])
      /\ \A p \in Ids : reaped[p] = requests[p] \/ (reaped[p] = Free("pending") /\ p \in Expired)
  BY ReapOK DEF Inv
<1>2. Free("pending").status = "pending" /\ \A p \in Expired : requests[p].status = "leased"
  BY DEF Free, Expired
<1>3. CASE Pending(reaped) = {}
  <2>1. requests' = reaped /\ UNCHANGED <<pollers, restored>>
    BY <1>3 DEF Claim
  <2> QED BY <2>1, <1>1, <1>2, RequestsStep
<1>4. CASE Pending(reaped) # {}
  <2>1. /\ requests' = [reaped EXCEPT ![q] = lease]
        /\ pollers' = [pollers EXCEPT ![w] = job]
        /\ restored' = restored
    BY <1>4 DEF Claim
  <2>2. q \in Ids /\ reaped[q].status = "pending"
    <3>1. Pending(reaped) \in SUBSET Ids
      BY DEF Pending
    <3>2. q \in Pending(reaped)
      BY <3>1, <1>4, OldestIsPending
    <3> QED BY <3>2 DEF Pending
  <2> HIDE DEF reaped, q
  <2>3. requests \in [Ids -> Request] /\ pollers \in [Pollers -> Poller] /\ restored \subseteq Ids
        /\ (\A v \in Pollers : PollerOK(pollers[v], Known))
    BY TypePointwise DEF Inv
  <2>4. RequestOK(lease) /\ lease.status = "leased"
    BY RestoreAssumption DEF RequestOK, Request, Statuses
  <2>5. requests' \in [Ids -> Request] /\ \A p \in Ids : RequestOK(requests'[p])
    BY <1>1, <2>1, <2>4 DEF RequestOK
  <2>6. /\ Known \subseteq Known' /\ q \in Known'
    BY <1>1, <1>2, <2>1, <2>2, <2>4 DEF Known
  <2>7. PollerOK(job, Known')
    BY <2>2, <2>6, RestoreAssumption DEF PollerOK, Poller
  <2>8. pollers' \in [Pollers -> Poller] /\ \A v \in Pollers : PollerOK(pollers'[v], Known')
    <3>1. \A v \in Pollers : PollerOK(pollers[v], Known')
      BY <2>3, <2>6 DEF PollerOK
    <3> QED BY <3>1, <2>1, <2>3, <2>7 DEF PollerOK
  <2>9. TypeOK'
    <3>1. \A p \in Ids : /\ requests'[p].status = "leased" <=> requests'[p].owner # None
                         /\ requests'[p].expired => requests'[p].status = "leased"
      BY <2>5 DEF RequestOK
    <3>2. \A v \in Pollers : pollers'[v].id # None => requests'[pollers'[v].id].status # "none"
      BY <2>8 DEF PollerOK, Known
    <3> QED BY <2>1, <2>3, <2>5, <2>8, <3>1, <3>2 DEF TypeOK, Request, Poller, PollerOK
  <2>10. ReportersRestored'
    BY <2>1, <2>3 DEF Inv, ReportersRestored
  <2>11. DoneWasRestored'
    BY <1>1, <1>2, <2>1, <2>4 DEF Inv, DoneWasRestored
  <2> QED BY <2>9, <2>10, <2>11 DEF Inv
<1> QED BY <1>3, <1>4

LEMMA RestoreInv == ASSUME Inv, NEW w \in Pollers, Restore(w) PROVE Inv'
<1>1. pollers \in [Pollers -> Poller] /\ PollerOK(pollers[w], Known) /\ restored \subseteq Ids
  BY TypePointwise DEF Inv
<1>2. PICK ok \in BOOLEAN :
        /\ pollers' = [pollers EXCEPT ![w].step = "reporting", ![w].ok = ok]
        /\ restored' = IF ok THEN restored \cup {pollers[w].id} ELSE restored
  BY DEF Restore
<1>3. pollers[w].step = "restoring" /\ UNCHANGED requests
  BY DEF Restore
<1> DEFINE poller == [pollers[w] EXCEPT !.step = "reporting", !.ok = ok]
<1>4. pollers' = [pollers EXCEPT ![w] = poller]
  BY <1>1, <1>2
<1>5. poller.id = pollers[w].id /\ poller.id \in Known /\ poller.ok = ok /\ poller.step = "reporting"
      /\ poller \in Poller
  BY <1>1, <1>3 DEF PollerOK, Poller
<1> HIDE DEF poller
<1>6. PollerOK(poller, Known)
  BY <1>5, RestoreAssumption DEF PollerOK, Known
<1>7. restored \subseteq restored' /\ restored' \subseteq Ids /\ (poller.ok => poller.id \in restored')
  BY <1>1, <1>2, <1>5 DEF Known
<1> QED BY <1>3, <1>4, <1>6, <1>7, PollerStep

LEMMA AbandonInv == ASSUME Inv, NEW w \in Pollers, Abandon(w) PROVE Inv'
<1>1. pollers' = [pollers EXCEPT ![w] = Idle] /\ UNCHANGED <<requests, restored>>
  BY DEF Abandon
<1>2. PollerOK(Idle, Known) /\ Idle.step # "reporting"
  BY IdleOK DEF Idle
<1>3. restored \subseteq Ids
  BY DEF Inv, TypeOK
<1> QED BY <1>1, <1>2, <1>3, PollerStep

LEMMA ReportInv == ASSUME Inv, NEW w \in Pollers, Report(w) PROVE Inv'
<1> DEFINE q == pollers[w].id
           answer == Free(IF pollers[w].ok THEN "done" ELSE "failed")
<1>1. /\ requests \in [Ids -> Request] /\ (\A p \in Ids : RequestOK(requests[p]))
      /\ pollers \in [Pollers -> Poller] /\ (\A v \in Pollers : PollerOK(pollers[v], Known))
      /\ restored \subseteq Ids
  BY TypePointwise DEF Inv
<1>2. /\ pollers[w].step = "reporting" /\ requests' = [requests EXCEPT ![q] = answer]
      /\ pollers' = [pollers EXCEPT ![w] = Idle] /\ restored' = restored
  BY DEF Report
<1>3. q \in Known /\ q \in Ids
  BY <1>1, <1>2 DEF PollerOK, Known
<1>4. RequestOK(answer) /\ answer.status = IF pollers[w].ok THEN "done" ELSE "failed"
  BY FreeOK DEF Statuses
<1>5. answer.status = "done" => q \in restored
  BY <1>2, <1>4 DEF Inv, ReportersRestored
<1> HIDE DEF q, answer
<1>6. requests' \in [Ids -> Request] /\ \A p \in Ids : RequestOK(requests'[p])
  BY <1>1, <1>2, <1>4 DEF RequestOK
<1>7. Known \subseteq Known'
  BY <1>1, <1>2, <1>4 DEF Known
<1>8. pollers' \in [Pollers -> Poller] /\ \A v \in Pollers : PollerOK(pollers'[v], Known')
  <2>1. \A v \in Pollers : PollerOK(pollers[v], Known')
    BY <1>1, <1>7 DEF PollerOK
  <2>2. PollerOK(Idle, Known')
    BY IdleOK
  <2> QED BY <1>1, <1>2, <2>1, <2>2 DEF PollerOK
<1>9. TypeOK'
  <2>1. \A p \in Ids : /\ requests'[p].status = "leased" <=> requests'[p].owner # None
                       /\ requests'[p].expired => requests'[p].status = "leased"
    BY <1>6 DEF RequestOK
  <2>2. \A v \in Pollers : pollers'[v].id # None => requests'[pollers'[v].id].status # "none"
    BY <1>8 DEF PollerOK, Known
  <2> QED BY <1>1, <1>2, <1>6, <1>8, <2>1, <2>2 DEF TypeOK, Request, Poller, PollerOK
<1>10. ReportersRestored'
  BY <1>1, <1>2 DEF Inv, ReportersRestored, Idle
<1>11. DoneWasRestored'
  BY <1>1, <1>2, <1>5 DEF Inv, DoneWasRestored
<1> QED BY <1>9, <1>10, <1>11 DEF Inv

LEMMA NextInv == Inv /\ [Next]_cvars => Inv'
<1>1. ASSUME Inv, UNCHANGED cvars PROVE Inv'
  BY <1>1 DEF Inv, TypeOK, ReportersRestored, DoneWasRestored, cvars
<1> QED
  BY <1>1, CreateInv, ExpireInv, RetryInv, PeekInv, RestoreInv, ReportInv, AbandonInv, ClaimInv
  DEF Next

-----------------------------------------------------------------------------
\* The variables have their types; a request has an owner exactly while it is leased.
THEOREM TypeCorrect == Spec => []TypeOK
<1>1. Inv => TypeOK
  BY DEF Inv
<1> QED BY InitInv, NextInv, <1>1, PTL DEF Spec

\* A request shown as done was restored in some browser, although the store takes a report
\* from anybody at any time (markContextRestoreRequestDone).
THEOREM DoneWasAlwaysRestored == Spec => []DoneWasRestored
<1>1. Inv => DoneWasRestored
  BY DEF Inv
<1> QED BY InitInv, NextInv, <1>1, PTL DEF Spec

\* A live lease is not handed to another poller: only a lease whose time is over is reaped
\* (reapExpiredContextRestoreRequestLeases), and only a pending request is claimed.
LEMMA LiveLeaseStep ==
    ASSUME Inv, [Next]_cvars, NEW q \in Ids,
           requests[q].status = "leased", ~requests[q].expired, requests'[q].status = "leased"
    PROVE  requests'[q].owner = requests[q].owner
<1>1. requests \in [Ids -> Request] /\ pollers \in [Pollers -> Poller]
  BY TypePointwise DEF Inv
<1>2. \A status \in Statuses : Free(status).status = status
  BY DEF Free
<1>3. ASSUME NEW p \in Ids, Create(p) \/ Retry(p) PROVE requests'[q].owner = requests[q].owner
  BY <1>1, <1>2, <1>3 DEF Create, Retry, Statuses
<1>4. ASSUME NEW p \in Ids, Expire(p) PROVE requests'[q].owner = requests[q].owner
  BY <1>1, <1>4 DEF Expire, Request
<1>5. ASSUME NEW seen \in SUBSET Expired PROVE Reap(seen)[q] = requests[q]
  BY <1>5 DEF Reap, Expired
<1>6. ASSUME NEW seen \in SUBSET Expired, Peek(seen) PROVE requests'[q].owner = requests[q].owner
  BY <1>5, <1>6 DEF Peek
<1>7. ASSUME NEW w \in Pollers, Restore(w) \/ Abandon(w) PROVE requests'[q].owner = requests[q].owner
  BY <1>7 DEF Restore, Abandon
<1>8. ASSUME NEW w \in Pollers, Report(w) PROVE requests'[q].owner = requests[q].owner
  BY <1>1, <1>2, <1>8 DEF Report, Statuses
<1>9. ASSUME NEW w \in Pollers, NEW seen \in SUBSET Expired, Claim(w, seen)
      PROVE  requests'[q].owner = requests[q].owner
  <2>1. CASE Pending(Reap(seen)) = {}
    BY <2>1, <1>5, <1>9 DEF Claim
  <2>2. CASE Pending(Reap(seen)) # {}
    <3>1. Pending(Reap(seen)) \in SUBSET Ids
      BY DEF Pending
    <3>2. Oldest(Pending(Reap(seen))) \in Pending(Reap(seen))
      BY <2>2, <3>1, OldestIsPending
    <3>3. Oldest(Pending(Reap(seen))) # q
      BY <3>2, <1>5 DEF Pending
    <3>4. Reap(seen) \in [Ids -> Request]
      BY ReapOK DEF Inv
    <3> QED BY <2>2, <3>3, <3>4, <1>5, <1>9 DEF Claim
  <2> QED BY <2>1, <2>2
<1>10. CASE UNCHANGED cvars
  BY <1>10 DEF cvars
<1> QED BY <1>3, <1>4, <1>6, <1>7, <1>8, <1>9, <1>10 DEF Next

THEOREM LiveLeaseAlwaysHolds == Spec => LiveLeaseHolds
<1>1. Inv /\ [Next]_cvars =>
        [\A q \in Ids :
           requests[q].status = "leased" /\ ~requests[q].expired /\ requests'[q].status = "leased"
             => requests'[q].owner = requests[q].owner]_cvars
  BY LiveLeaseStep
<1> QED BY InitInv, NextInv, <1>1, PTL DEF Spec, LiveLeaseHolds

-----------------------------------------------------------------------------
(* Plans *)

\* Every nonempty set of numbers has a least one: how facts about a loop's turns are proved
\* turn after turn.
LEMMA Least ==
    ASSUME NEW T \in SUBSET Nat, T # {}
    PROVE  \E n \in T : \A k \in T : n <= k
<1>1. IsWellFoundedOn(OpToRel(<, Nat), Nat)
  BY NatLessThanWellFounded
<1>2. PICK n \in T : \A k \in T : ~ (<<k, n>> \in OpToRel(<, Nat))
  BY <1>1, WFMin, Zenon
<1>3. \A k \in T : k < n => <<k, n>> \in OpToRel(<, Nat)
  BY DEF OpToRel
<1>4. \A k \in T : ~(k < n)
  BY <1>2, <1>3, Zenon
<1>5. n \in T
  BY <1>2, Zenon
<1> HIDE <1>1, <1>2, <1>3
<1> QED
  BY ONLY <1>4, <1>5, T \in SUBSET Nat

\* A set that holds 0 and with every number the next one, up to a bound, holds all up to it.
LEMMA UpTo ==
    ASSUME NEW T, NEW bound \in Nat, 0 \in T, \A n \in 0..bound : n \in T /\ n < bound => n + 1 \in T
    PROVE  0..bound \subseteq T
<1> DEFINE Missing == {n \in 0..bound : n \notin T}
<1>1. SUFFICES ASSUME Missing # {} PROVE FALSE
  OBVIOUS
<1>2. PICK n \in Missing : \A k \in Missing : n <= k
  <2>1. Missing \in SUBSET Nat
    OBVIOUS
  <2> HIDE DEF Missing
  <2> QED
    BY <1>1, <2>1, Least
<1>3. n # 0 /\ n - 1 \in 0..bound /\ n - 1 \notin Missing
  BY <1>2
<1> QED
  BY <1>2, <1>3

\* What Joining computes, window after window.
LEMMA JoiningTurns ==
    ASSUME NEW part
    PROVE  /\ Joining(part)[0] = <<>>
           /\ \A n \in 1..N : Joining(part)[n] = Joining(part)[n - 1] \o part[n]
<1> DEFINE After(run, n) == IF n = 0 THEN <<>> ELSE run[n - 1] \o part[n]
           Runs(run, k) == run = [n \in 0..k |-> After(run, n)]
           Has == {k \in 0..N : \E run : Runs(run, k)}
<1>1. N \in Nat
  BY WorkspaceAssumption
<1>2. 0 \in Has
  <2> DEFINE first == [n \in 0..0 |-> <<>>]
  <2>1. \A n \in 0..0 : After(first, n) = <<>>
    OBVIOUS
  <2>2. Runs(first, 0)
    BY <2>1
  <2>3. \E run : Runs(run, 0)
    <3> HIDE DEF first, Runs
    <3> QED
      BY <2>2
  <2> HIDE DEF Runs, first
  <2> QED
    BY <1>1, <2>3
<1>3. ASSUME NEW k \in 0..N, k \in Has, k < N PROVE k + 1 \in Has
  <2>1. PICK run : Runs(run, k)
    BY <1>3
  <2> DEFINE longer == [n \in 0..(k + 1) |-> After(run, n)]
  <2>2. \A n \in 0..k : longer[n] = run[n]
    BY <1>1, <2>1
  <2>3. ASSUME NEW n \in 0..(k + 1) PROVE After(longer, n) = After(run, n)
    <3>1. n # 0 => n - 1 \in 0..k
      BY <1>1
    <3> HIDE DEF longer
    <3> QED
      BY <2>2, <3>1
  <2>4. Runs(longer, k + 1)
    <3>1. [n \in 0..(k + 1) |-> After(longer, n)] = [n \in 0..(k + 1) |-> After(run, n)]
      <4> HIDE DEF longer, After
      <4> QED
        BY <2>3
    <3> QED
      BY <3>1
  <2>5. \E r : Runs(r, k + 1)
    <3> HIDE DEF longer, Runs
    <3> QED
      BY <2>4
  <2> HIDE DEF Runs, longer
  <2> QED
    BY <1>1, <1>3, <2>5
<1>4. \E run : Runs(run, N)
  <2>1. N \in Has
    <3> HIDE DEF Has
    <3> QED
      BY <1>1, <1>2, <1>3, UpTo
  <2> HIDE DEF Runs
  <2> QED
    BY <2>1
<1>5. Joining(part) = [n \in 0..N |-> After(Joining(part), n)]
  BY <1>4, Zenon DEF Joining
<1> QED
  BY <1>1, <1>5

Elements(seq) == {seq[i] : i \in 1..Len(seq)}

LEMMA ConcatElements ==
    ASSUME NEW S, NEW p \in Seq(S), NEW q \in Seq(S)
    PROVE  p \o q \in Seq(S) /\ Elements(p \o q) = Elements(p) \cup Elements(q)
<1>1. Len(p \o q) = Len(p) + Len(q) /\ Len(p) \in Nat /\ Len(q) \in Nat
  OBVIOUS
<1>2. \A i \in 1..(Len(p) + Len(q)) : (p \o q)[i] = IF i <= Len(p) THEN p[i] ELSE q[i - Len(p)]
  BY ConcatProperties
<1>3. ASSUME NEW i \in 1..Len(q) PROVE i + Len(p) \in 1..(Len(p) + Len(q)) /\ (p \o q)[i + Len(p)] = q[i]
  BY <1>1, <1>2
<1>4. ASSUME NEW i \in 1..Len(p) PROVE i \in 1..(Len(p) + Len(q)) /\ (p \o q)[i] = p[i]
  BY <1>1, <1>2
<1>5. ASSUME NEW i \in 1..(Len(p) + Len(q)), i > Len(p)
      PROVE  i - Len(p) \in 1..Len(q) /\ (p \o q)[i] = q[i - Len(p)]
  BY <1>1, <1>2, <1>5
<1>6. Elements(p \o q) \subseteq Elements(p) \cup Elements(q)
  <2> SUFFICES ASSUME NEW i \in 1..(Len(p) + Len(q))
               PROVE  (p \o q)[i] \in Elements(p) \cup Elements(q)
    BY <1>1 DEF Elements
  <2>1. CASE i <= Len(p)
    BY <1>1, <1>2, <2>1 DEF Elements
  <2>2. CASE i > Len(p)
    BY <1>5, <2>2 DEF Elements
  <2> QED
    BY <1>1, <2>1, <2>2
<1>7. Elements(p) \cup Elements(q) \subseteq Elements(p \o q)
  BY <1>1, <1>3, <1>4 DEF Elements
<1> QED
  BY <1>6, <1>7, ConcatProperties
LEMMA FewElements ==
    ASSUME NEW S, NEW c \in S
    PROVE  /\ <<>> \in Seq(S) /\ Elements(<<>>) = {}
           /\ <<c>> \in Seq(S) /\ Elements(<<c>>) = {c}
  BY DEF Elements

LEMMA NoElements ==
    ASSUME NEW S, NEW q \in Seq(S), Elements(q) = {}
    PROVE  q = <<>>
<1>1. Len(q) \in Nat /\ (Len(q) # 0 => 1 \in 1..Len(q))
  OBVIOUS
<1>2. Len(q) = 0
  BY <1>1 DEF Elements
<1> QED
  BY <1>2

\* Joined is made of the parts.
LEMMA JoinedElements ==
    ASSUME NEW S, NEW part \in [Windows -> Seq(S)]
    PROVE  /\ Joined(part) \in Seq(S)
           /\ \A c : c \in Elements(Joined(part)) <=> \E w \in Windows : c \in Elements(part[w])
<1> DEFINE Good(n, q) == /\ q \in Seq(S)
                         /\ \A c : c \in Elements(q) <=> \E w \in 1..n : c \in Elements(part[w])
           Has == {n \in 0..N : Good(n, Joining(part)[n])}
<1>1. N \in Nat
  BY WorkspaceAssumption
<1>2. 0 \in Has
  <2>1. Elements(<<>>) = {} /\ 1..0 = {}
    BY DEF Elements
  <2>2. <<>> \in Seq(S)
    OBVIOUS
  <2>3. Good(0, <<>>)
    BY <2>1, <2>2
  <2>4. Joining(part)[0] = <<>>
    BY JoiningTurns
  <2> HIDE DEF Good
  <2> QED
    BY <1>1, <2>3, <2>4
<1>3. ASSUME NEW n \in 0..N, n \in Has, n < N PROVE n + 1 \in Has
  <2> DEFINE p == Joining(part)[n]
  <2>1. n + 1 \in 1..N /\ (n + 1) - 1 = n /\ n + 1 \in 0..N
    BY <1>1, <1>3
  <2>2. Joining(part)[n + 1] = p \o part[n + 1]
    BY <2>1, JoiningTurns
  <2>3. part[n + 1] \in Seq(S)
    BY <2>1 DEF Windows
  <2>4. Good(n, p)
    BY <1>3
  <2> HIDE DEF p
  <2>5. /\ p \o part[n + 1] \in Seq(S)
        /\ Elements(p \o part[n + 1]) = Elements(p) \cup Elements(part[n + 1])
    BY <2>3, <2>4, ConcatElements
  <2>6. 1..(n + 1) = (1..n) \cup {n + 1}
    BY <1>1
  <2>7. Good(n + 1, p \o part[n + 1])
    <3>1. \A c : c \in Elements(p \o part[n + 1]) <=> c \in Elements(p) \/ c \in Elements(part[n + 1])
      BY <2>5
    <3>2. ASSUME NEW c
          PROVE  c \in Elements(p \o part[n + 1]) <=> \E w \in 1..(n + 1) : c \in Elements(part[w])
      BY <2>4, <2>6, <3>1, Zenon
    <3> QED
      BY <2>5, <3>2
  <2> HIDE DEF Good
  <2> QED
    BY <2>1, <2>2, <2>7
<1>4. N \in Has
  <2> HIDE DEF Has, Good
  <2>1. \A n \in 0..N : n \in Has /\ n < N => n + 1 \in Has
    BY <1>3
  <2>2. 0..N \subseteq Has
    BY ONLY <1>1, <1>2, <2>1, UpTo
  <2> QED
    BY <1>1, <2>2
<1> QED
  BY <1>1, <1>4 DEF Joined, Windows

-----------------------------------------------------------------------------
(* The order of commands *)

\* The last workspace focused is ws.
LastFocus(q, ws) ==
    \E i \in 1..Len(q) : /\ q[i].do = "focusWs" /\ q[i].to = ws
                         /\ \A j \in 1..Len(q) : i < j => q[j].do # "focusWs"

\* No layout is set after a frame.
LayoutsFirst(q) ==
    \A i, j \in 1..Len(q) : i < j /\ q[i].do = "frame" => q[j].do # "layout"

LEMMA ConcatParts ==
    ASSUME NEW S, NEW p \in Seq(S), NEW q \in Seq(S)
    PROVE  /\ Len(p) \in Nat /\ Len(q) \in Nat /\ Len(p \o q) = Len(p) + Len(q)
           /\ \A i \in 1..Len(p) : i \in 1..Len(p \o q) /\ (p \o q)[i] = p[i]
           /\ \A i \in 1..Len(q) : i + Len(p) \in 1..Len(p \o q) /\ (p \o q)[i + Len(p)] = q[i]
           /\ \A i \in 1..Len(p \o q) : \/ i \in 1..Len(p)
                                        \/ i - Len(p) \in 1..Len(q) /\ (p \o q)[i] = q[i - Len(p)]
<1>1. Len(p \o q) = Len(p) + Len(q) /\ Len(p) \in Nat /\ Len(q) \in Nat
  OBVIOUS
<1>2. \A i \in 1..(Len(p) + Len(q)) : (p \o q)[i] = IF i <= Len(p) THEN p[i] ELSE q[i - Len(p)]
  BY ConcatProperties
<1>3. \A i \in 1..Len(q) : i + Len(p) \in 1..Len(p \o q) /\ (p \o q)[i + Len(p)] = q[i]
  BY <1>1, <1>2
<1>4. \A i \in 1..Len(p) : i \in 1..Len(p \o q) /\ (p \o q)[i] = p[i]
  BY <1>1, <1>2
<1>5. \A i \in 1..Len(p \o q) : \/ i \in 1..Len(p)
                                \/ i - Len(p) \in 1..Len(q) /\ (p \o q)[i] = q[i - Len(p)]
  BY <1>1, <1>2
<1> QED
  BY <1>1, <1>3, <1>4, <1>5

LEMMA ConcatLastFocus ==
    ASSUME NEW S, NEW p \in Seq(S), NEW q \in Seq(S), NEW ws,
           \/ LastFocus(q, ws)
           \/ LastFocus(p, ws) /\ \A c \in Elements(q) : c.do # "focusWs"
    PROVE  LastFocus(p \o q, ws)
<1>1. CASE LastFocus(q, ws)
  <2>1. PICK i \in 1..Len(q) : /\ q[i].do = "focusWs" /\ q[i].to = ws
                               /\ \A j \in 1..Len(q) : i < j => q[j].do # "focusWs"
    BY <1>1 DEF LastFocus
  <2>2. i + Len(p) \in 1..Len(p \o q) /\ (p \o q)[i + Len(p)] = q[i]
    BY ConcatParts
  <2>3. ASSUME NEW j \in 1..Len(p \o q), i + Len(p) < j PROVE (p \o q)[j].do # "focusWs"
    <3>1. j \notin 1..Len(p)
      BY <2>3, ConcatParts
    <3>2. j - Len(p) \in 1..Len(q) /\ (p \o q)[j] = q[j - Len(p)]
      BY <3>1, ConcatParts
    <3>3. i < j - Len(p)
      BY <2>3, ConcatParts
    <3> QED
      BY <2>1, <3>2, <3>3
  <2> QED
    BY <2>1, <2>2, <2>3 DEF LastFocus
<1>2. CASE LastFocus(p, ws) /\ \A c \in Elements(q) : c.do # "focusWs"
  <2>1. PICK i \in 1..Len(p) : /\ p[i].do = "focusWs" /\ p[i].to = ws
                               /\ \A j \in 1..Len(p) : i < j => p[j].do # "focusWs"
    BY <1>2 DEF LastFocus
  <2>2. i \in 1..Len(p \o q) /\ (p \o q)[i] = p[i]
    BY ConcatParts
  <2>3. ASSUME NEW j \in 1..Len(p \o q), i < j PROVE (p \o q)[j].do # "focusWs"
    <3>1. CASE j \in 1..Len(p)
      BY <2>1, <2>3, <3>1, ConcatParts
    <3>2. CASE j - Len(p) \in 1..Len(q) /\ (p \o q)[j] = q[j - Len(p)]
      BY <1>2, <3>2 DEF Elements
    <3> QED
      BY <3>1, <3>2, ConcatParts
  <2> QED
    BY <2>1, <2>2, <2>3 DEF LastFocus
<1> QED
  BY <1>1, <1>2

LEMMA ConcatLayoutsFirst ==
    ASSUME NEW S, NEW p \in Seq(S), NEW q \in Seq(S),
           \A c \in Elements(p) : c.do # "frame", \A c \in Elements(q) : c.do # "layout"
    PROVE  LayoutsFirst(p \o q)
<1> SUFFICES ASSUME NEW i \in 1..Len(p \o q), NEW j \in 1..Len(p \o q), i < j,
                    (p \o q)[i].do = "frame"
             PROVE  (p \o q)[j].do # "layout"
  BY DEF LayoutsFirst
<1>1. i \notin 1..Len(p)
  BY ConcatParts DEF Elements
<1>2. j \notin 1..Len(p)
  BY <1>1, ConcatParts
<1>3. j - Len(p) \in 1..Len(q) /\ (p \o q)[j] = q[j - Len(p)]
  BY <1>2, ConcatParts
<1> QED
  BY <1>3 DEF Elements
-----------------------------------------------------------------------------
(* What plans consist of *)

Command(s) ==
    [do : {"move", "layout", "frame", "focusWs", "focusWin"}, win : Windows \cup {Nothing},
     to : {Nothing, "floating", s.ws} \cup {s.wins[w].ws : w \in DOMAIN s.wins}
          \cup {s.wins[w].layout : w \in DOMAIN s.wins} \cup {s.wins[w].frame : w \in DOMAIN s.wins}]

LEMMA MoveElements ==
    ASSUME NEW s, NEW cur, NEW w \in DOMAIN s.wins, View(s)
    PROVE  /\ MoveCommands(s, cur, w) \in Seq(Command(s))
           /\ Elements(MoveCommands(s, cur, w)) =
                 IF s.wins[w].ws # cur.wins[w].ws THEN {Cmd("move", w, s.wins[w].ws)} ELSE {}
<1>1. Cmd("move", w, s.wins[w].ws) \in Command(s)
  BY DEF Cmd, Command, View
<1> HIDE DEF Cmd, Command
<1> QED
  BY <1>1, FewElements DEF MoveCommands

LEMMA LayoutElements ==
    ASSUME NEW s, NEW cur, NEW w \in DOMAIN s.wins, View(s)
    PROVE  /\ LayoutCommands(s, cur, w) \in Seq(Command(s))
           /\ Elements(LayoutCommands(s, cur, w)) =
                 IF s.wins[w].layout \notin {Nothing, cur.wins[w].layout}
                 THEN {Cmd("layout", w, s.wins[w].layout)}
                 ELSE IF s.wins[w].frame # Nothing /\ cur.wins[w].layout # "floating"
                 THEN {Cmd("layout", w, "floating")} ELSE {}
<1>1. /\ Cmd("layout", w, s.wins[w].layout) \in Command(s)
      /\ Cmd("layout", w, "floating") \in Command(s)
  BY DEF Cmd, Command, View
<1> HIDE DEF Cmd, Command
<1> QED
  BY <1>1, FewElements DEF LayoutCommands

\* Whether the frame of w is set on the workspace the frame before it was set on.
SameAsBefore(s, framed, w) ==
    LET before == {v \in framed : v < w}
    IN  before # {} /\ s.wins[Latest(before)].ws = s.wins[w].ws

LEMMA FrameElements ==
    ASSUME NEW s, NEW framed, NEW w \in DOMAIN s.wins, View(s)
    PROVE  /\ FrameCommands(s, framed, w) \in Seq(Command(s))
           /\ Elements(FrameCommands(s, framed, w)) =
                 {Cmd("frame", w, s.wins[w].frame)}
                 \cup (IF SameAsBefore(s, framed, w) THEN {} ELSE {Cmd("focusWs", w, s.wins[w].ws)})
<1>1. /\ Cmd("frame", w, s.wins[w].frame) \in Command(s)
      /\ Cmd("focusWs", w, s.wins[w].ws) \in Command(s)
  BY DEF Cmd, Command, View
<1> DEFINE focus == IF SameAsBefore(s, framed, w) THEN <<>> ELSE <<Cmd("focusWs", w, s.wins[w].ws)>>
           frame == <<Cmd("frame", w, s.wins[w].frame)>>
<1>2. FrameCommands(s, framed, w) = focus \o frame
  BY DEF FrameCommands, SameAsBefore
<1>3. /\ focus \in Seq(Command(s))
      /\ Elements(focus) = IF SameAsBefore(s, framed, w) THEN {} ELSE {Cmd("focusWs", w, s.wins[w].ws)}
      /\ frame \in Seq(Command(s)) /\ Elements(frame) = {Cmd("frame", w, s.wins[w].frame)}
  BY <1>1, FewElements
<1> HIDE DEF focus, frame
<1> QED
  BY <1>2, <1>3, ConcatElements

\* Whether a plan ends with a focus on the snapshot's workspace, and on its window.
FocusesWs(s, cur, first, framed) ==
    LET last == IF framed = {} THEN Nothing ELSE s.wins[Latest(framed)].ws
    IN  s.ws # Nothing /\ last # s.ws /\ (first \/ last # Nothing \/ cur.ws # s.ws)
FocusesWin(s, cur, first) == s.win \in DOMAIN cur.wins /\ (first \/ cur.win # s.win)

LEMMA FocusElements ==
    ASSUME NEW s, NEW cur, NEW first \in BOOLEAN, NEW framed, View(s), DOMAIN cur.wins \subseteq Windows
    PROVE  /\ Focusing(s, cur, first, framed) \in Seq(Command(s))
           /\ Elements(Focusing(s, cur, first, framed)) =
                 (IF FocusesWs(s, cur, first, framed) THEN {Cmd("focusWs", Nothing, s.ws)} ELSE {})
                 \cup (IF FocusesWin(s, cur, first) THEN {Cmd("focusWin", s.win, Nothing)} ELSE {})
           /\ FocusesWin(s, cur, first) =>
                 \E q \in Seq(Command(s)) :
                    Focusing(s, cur, first, framed) = q \o <<Cmd("focusWin", s.win, Nothing)>>
<1> DEFINE ws == IF FocusesWs(s, cur, first, framed) THEN <<Cmd("focusWs", Nothing, s.ws)>> ELSE <<>>
           win == IF FocusesWin(s, cur, first) THEN <<Cmd("focusWin", s.win, Nothing)>> ELSE <<>>
<1>1. /\ Cmd("focusWs", Nothing, s.ws) \in Command(s)
      /\ FocusesWin(s, cur, first) => Cmd("focusWin", s.win, Nothing) \in Command(s)
  BY DEF Cmd, Command, View, FocusesWin
<1>2. Focusing(s, cur, first, framed) = ws \o win
  BY DEF Focusing, FocusesWs, FocusesWin
<1>3. /\ ws \in Seq(Command(s))
      /\ Elements(ws) = IF FocusesWs(s, cur, first, framed) THEN {Cmd("focusWs", Nothing, s.ws)} ELSE {}
  BY <1>1, FewElements
<1>4. /\ win \in Seq(Command(s))
      /\ Elements(win) = IF FocusesWin(s, cur, first) THEN {Cmd("focusWin", s.win, Nothing)} ELSE {}
  BY <1>1, FewElements
<1> HIDE DEF ws, win
<1>5. /\ ws \o win \in Seq(Command(s)) /\ Elements(ws \o win) = Elements(ws) \cup Elements(win)
  BY <1>3, <1>4, ConcatElements
<1>6. FocusesWin(s, cur, first) =>
         \E q \in Seq(Command(s)) : ws \o win = q \o <<Cmd("focusWin", s.win, Nothing)>>
  BY <1>3 DEF win
<1> QED
  BY <1>2, <1>3, <1>4, <1>5, <1>6

LEMMA ArrangingElements ==
    ASSUME NEW s, NEW cur, View(s)
    PROVE  /\ Arranging(s, cur) \in Seq(Command(s))
           /\ \A c : c \in Elements(Arranging(s, cur)) <=>
                 \E w \in There(s, cur) : \/ c \in Elements(MoveCommands(s, cur, w))
                                          \/ c \in Elements(LayoutCommands(s, cur, w))
<1> DEFINE part == [w \in Windows |-> IF w \in There(s, cur)
                       THEN MoveCommands(s, cur, w) \o LayoutCommands(s, cur, w) ELSE <<>>]
<1>1. There(s, cur) \subseteq DOMAIN s.wins /\ There(s, cur) \subseteq Windows
  BY DEF There, View
<1>2. ASSUME NEW w \in There(s, cur)
      PROVE  /\ MoveCommands(s, cur, w) \o LayoutCommands(s, cur, w) \in Seq(Command(s))
             /\ Elements(MoveCommands(s, cur, w) \o LayoutCommands(s, cur, w)) =
                   Elements(MoveCommands(s, cur, w)) \cup Elements(LayoutCommands(s, cur, w))
  BY <1>1, MoveElements, LayoutElements, ConcatElements
<1>3. <<>> \in Seq(Command(s)) /\ Elements(<<>>) = {}
  BY DEF Elements
<1>4. part \in [Windows -> Seq(Command(s))]
  BY <1>2, <1>3
<1>5. ASSUME NEW c
      PROVE  (\E w \in Windows : c \in Elements(part[w])) <=>
                \E w \in There(s, cur) : \/ c \in Elements(MoveCommands(s, cur, w))
                                         \/ c \in Elements(LayoutCommands(s, cur, w))
  BY <1>1, <1>2, <1>3
<1> HIDE DEF part
<1>6. Arranging(s, cur) = Joined(part)
  BY DEF Arranging, part
<1> QED
  BY <1>4, <1>5, <1>6, JoinedElements

LEMMA FramingElements ==
    ASSUME NEW s, NEW framed \in SUBSET DOMAIN s.wins, View(s)
    PROVE  /\ Framing(s, framed) \in Seq(Command(s))
           /\ \A c : c \in Elements(Framing(s, framed)) <=>
                 \E w \in framed : c \in Elements(FrameCommands(s, framed, w))
<1> DEFINE part == [w \in Windows |-> IF w \in framed THEN FrameCommands(s, framed, w) ELSE <<>>]
<1>1. framed \subseteq Windows
  BY DEF View
<1>2. <<>> \in Seq(Command(s)) /\ Elements(<<>>) = {}
  BY DEF Elements
<1>3. part \in [Windows -> Seq(Command(s))]
  BY <1>2, FrameElements
<1>4. ASSUME NEW c
      PROVE  (\E w \in Windows : c \in Elements(part[w])) <=>
                \E w \in framed : c \in Elements(FrameCommands(s, framed, w))
  BY <1>1, <1>2
<1> HIDE DEF part
<1>5. Framing(s, framed) = Joined(part)
  BY DEF Framing, part
<1> QED
  BY <1>3, <1>4, <1>5, JoinedElements

LEMMA PlanElements ==
    ASSUME NEW s, NEW cur, NEW first \in BOOLEAN, View(s), DOMAIN cur.wins \subseteq Windows
    PROVE  LET framed == ToFrame(s, cur, first)
           IN  /\ framed \in SUBSET DOMAIN s.wins
               /\ PlanOf(s, cur, first) \in Seq(Command(s))
               /\ Elements(PlanOf(s, cur, first)) =
                     Elements(Arranging(s, cur)) \cup Elements(Framing(s, framed))
                     \cup Elements(Focusing(s, cur, first, framed))
<1> DEFINE framed == ToFrame(s, cur, first)
           A == Arranging(s, cur)
           B == Framing(s, framed)
           C == Focusing(s, cur, first, framed)
           AB == A \o B
<1>1. framed \in SUBSET DOMAIN s.wins
  BY DEF ToFrame, There
<1>2. PlanOf(s, cur, first) = AB \o C
  BY DEF PlanOf
<1> HIDE DEF framed
<1>3. A \in Seq(Command(s)) /\ B \in Seq(Command(s)) /\ C \in Seq(Command(s))
  BY <1>1, ArrangingElements, FramingElements, FocusElements
<1> HIDE DEF A, B, C
<1>4. AB \in Seq(Command(s)) /\ Elements(AB) = Elements(A) \cup Elements(B)
  BY <1>3, ConcatElements
<1> HIDE DEF AB
<1>5. AB \o C \in Seq(Command(s)) /\ Elements(AB \o C) = Elements(AB) \cup Elements(C)
  BY <1>3, <1>4, ConcatElements
<1> QED
  BY <1>1, <1>2, <1>4, <1>5 DEF A, B, C, framed
\* What a capture must show for nothing to be left to do.
Agrees(s, cur) ==
    /\ \A w \in There(s, cur) :
          /\ cur.wins[w].ws = s.wins[w].ws
          /\ s.wins[w].layout \in {Nothing, cur.wins[w].layout}
          /\ s.wins[w].frame # Nothing => cur.wins[w].layout = "floating"
          /\ ~NeedsFrame(s, cur, w)
    /\ s.ws \in {Nothing, cur.ws}
    /\ s.win \in DOMAIN cur.wins => cur.win = s.win

LEMMA NothingLeft ==
    ASSUME NEW s, NEW cur, View(s), DOMAIN cur.wins \subseteq Windows
    PROVE  PlanOf(s, cur, FALSE) = <<>> <=> Agrees(s, cur)
<1> DEFINE framed == ToFrame(s, cur, FALSE)
           A == Elements(Arranging(s, cur))
           B == Elements(Framing(s, framed))
           C == Elements(Focusing(s, cur, FALSE, framed))
<1>1. /\ framed \in SUBSET DOMAIN s.wins
      /\ PlanOf(s, cur, FALSE) \in Seq(Command(s))
      /\ Elements(PlanOf(s, cur, FALSE)) = A \cup B \cup C
  BY PlanElements
<1>2. framed = {w \in There(s, cur) : NeedsFrame(s, cur, w)}
  BY DEF ToFrame
<1>3. There(s, cur) \subseteq DOMAIN s.wins
  BY DEF There
<1>4. A = {} <=> \A w \in There(s, cur) :
                    /\ cur.wins[w].ws = s.wins[w].ws
                    /\ s.wins[w].layout \in {Nothing, cur.wins[w].layout}
                    /\ s.wins[w].frame # Nothing => cur.wins[w].layout = "floating"
  <2>1. A = {} <=> \A w \in There(s, cur) : /\ Elements(MoveCommands(s, cur, w)) = {}
                                            /\ Elements(LayoutCommands(s, cur, w)) = {}
    BY ArrangingElements
  <2>2. ASSUME NEW w \in There(s, cur)
        PROVE  /\ Elements(MoveCommands(s, cur, w)) = {} <=> cur.wins[w].ws = s.wins[w].ws
               /\ Elements(LayoutCommands(s, cur, w)) = {} <=>
                     /\ s.wins[w].layout \in {Nothing, cur.wins[w].layout}
                     /\ s.wins[w].frame # Nothing => cur.wins[w].layout = "floating"
    <3>1. w \in DOMAIN s.wins
      BY <1>3
    <3>2. Elements(MoveCommands(s, cur, w)) =
             IF s.wins[w].ws # cur.wins[w].ws THEN {Cmd("move", w, s.wins[w].ws)} ELSE {}
      BY <3>1, MoveElements
    <3>3. Elements(LayoutCommands(s, cur, w)) =
             IF s.wins[w].layout \notin {Nothing, cur.wins[w].layout}
             THEN {Cmd("layout", w, s.wins[w].layout)}
             ELSE IF s.wins[w].frame # Nothing /\ cur.wins[w].layout # "floating"
             THEN {Cmd("layout", w, "floating")} ELSE {}
      BY <3>1, LayoutElements
    <3> QED
      BY <3>2, <3>3
  <2> QED
    BY <2>1, <2>2
<1>5. B = {} <=> framed = {}
  <2>1. ASSUME NEW w \in framed PROVE Cmd("frame", w, s.wins[w].frame) \in Elements(FrameCommands(s, framed, w))
    <3>1. w \in DOMAIN s.wins
      BY <1>1
    <3> HIDE DEF framed
    <3>2. Elements(FrameCommands(s, framed, w)) =
             {Cmd("frame", w, s.wins[w].frame)}
             \cup (IF SameAsBefore(s, framed, w) THEN {} ELSE {Cmd("focusWs", w, s.wins[w].ws)})
      BY <3>1, FrameElements
    <3> QED
      BY <3>2
  <2> HIDE DEF framed
  <2>2. \A c : c \in B <=> \E w \in framed : c \in Elements(FrameCommands(s, framed, w))
    BY <1>1, FramingElements
  <2> HIDE DEF B
  <2> QED
    BY <2>1, <2>2
<1>6. framed = {} => (C = {} <=> /\ s.ws \in {Nothing, cur.ws}
                                 /\ s.win \in DOMAIN cur.wins => cur.win = s.win)
  <2> HIDE DEF framed
  <2> SUFFICES ASSUME framed = {}
               PROVE  C = {} <=> /\ s.ws \in {Nothing, cur.ws}
                                 /\ s.win \in DOMAIN cur.wins => cur.win = s.win
    OBVIOUS
  <2>1. C = (IF FocusesWs(s, cur, FALSE, framed) THEN {Cmd("focusWs", Nothing, s.ws)} ELSE {})
            \cup (IF FocusesWin(s, cur, FALSE) THEN {Cmd("focusWin", s.win, Nothing)} ELSE {})
    BY FocusElements
  <2>2. /\ FocusesWs(s, cur, FALSE, framed) <=> s.ws # Nothing /\ cur.ws # s.ws
        /\ FocusesWin(s, cur, FALSE) <=> s.win \in DOMAIN cur.wins /\ cur.win # s.win
    BY DEF FocusesWs, FocusesWin
  <2> HIDE DEF C
  <2> QED
    BY <2>1, <2>2
<1>7. PlanOf(s, cur, FALSE) = <<>> <=> Elements(PlanOf(s, cur, FALSE)) = {}
  <2>1. Elements(<<>>) = {}
    BY DEF Elements
  <2> DEFINE plan == PlanOf(s, cur, FALSE)
  <2>2. plan \in Seq(Command(s))
    BY <1>1
  <2> HIDE DEF plan
  <2>3. Elements(plan) = {} => plan = <<>>
    BY <2>2, NoElements
  <2> QED
    BY <2>1, <2>3 DEF plan
<1> HIDE DEF A, B, C, framed
<1> QED
  BY <1>1, <1>2, <1>4, <1>5, <1>6, <1>7 DEF Agrees

-----------------------------------------------------------------------------
(* The focus a plan ends with *)

LEMMA FramingLastFocus ==
    ASSUME NEW s, NEW framed \in SUBSET DOMAIN s.wins, framed # {}, View(s)
    PROVE  LastFocus(Framing(s, framed), s.wins[Latest(framed)].ws)
<1> DEFINE part == [w \in Windows |-> IF w \in framed THEN FrameCommands(s, framed, w) ELSE <<>>]
           upTo(n) == {v \in framed : v <= n}
           Good(n, q) == upTo(n) # {} => LastFocus(q, s.wins[Latest(upTo(n))].ws)
           Has == {n \in 0..N : Joining(part)[n] \in Seq(Command(s)) /\ Good(n, Joining(part)[n])}
<1>1. N \in Nat /\ framed \subseteq 1..N
  BY WorkspaceAssumption DEF View, Windows
<1>2. part \in [Windows -> Seq(Command(s))]
  BY FrameElements
<1>3. 0 \in Has
  <2>1. upTo(0) = {}
    BY <1>1
  <2>2. Joining(part)[0] = <<>>
    BY JoiningTurns
  <2>3. <<>> \in Seq(Command(s))
    OBVIOUS
  <2>4. Good(0, <<>>)
    BY <2>1
  <2>5. Joining(part)[0] \in Seq(Command(s)) /\ Good(0, Joining(part)[0])
    BY <2>2, <2>3, <2>4
  <2> HIDE DEF Good, part
  <2> QED
    BY <1>1, <2>5
<1>4. ASSUME NEW n \in 0..N, n \in Has, n < N PROVE n + 1 \in Has
  <2> DEFINE p == Joining(part)[n]
             q == part[n + 1]
  <2>1. n + 1 \in 1..N /\ (n + 1) - 1 = n /\ n + 1 \in 0..N /\ n + 1 \in Windows
    BY <1>1, <1>4 DEF Windows
  <2>2. Joining(part)[n + 1] = p \o q
    BY <2>1, JoiningTurns
  <2>3. p \in Seq(Command(s)) /\ Good(n, p)
    BY <1>4
  <2>4. q \in Seq(Command(s))
    BY <1>2, <2>1
  <2>5. p \o q \in Seq(Command(s))
    <3> HIDE DEF p, q
    <3> QED
      BY <2>3, <2>4, ConcatElements
  <2>6. CASE n + 1 \notin framed
    <3>1. q = <<>>
      BY <2>1, <2>6
    <3>2. upTo(n + 1) = upTo(n)
      BY <1>1, <2>6
    <3>3. p \o q = p
      <4> HIDE DEF p, q
      <4> QED
        BY <2>3, <3>1, ConcatEmptySeq
    <3> HIDE DEF p, q
    <3> QED
      BY <2>1, <2>2, <2>3, <3>2, <3>3
  <2>7. CASE n + 1 \in framed
    <3> DEFINE before == {v \in framed : v < n + 1}
    <3>1. before = upTo(n)
      BY <1>1
    <3>2. Latest(upTo(n + 1)) = n + 1
      <4>1. n + 1 \in upTo(n + 1) /\ \A v \in upTo(n + 1) : v <= n + 1
        BY <1>1, <2>1, <2>7
      <4>2. ASSUME NEW w \in upTo(n + 1), \A v \in upTo(n + 1) : v <= w PROVE w = n + 1
        BY <1>1, <2>1, <4>1, <4>2
      <4> HIDE DEF upTo
      <4> QED
        BY <4>1, <4>2 DEF Latest
    <3>3. q = FrameCommands(s, framed, n + 1)
      BY <2>1, <2>7
    <3> DEFINE frame == Cmd("frame", n + 1, s.wins[n + 1].frame)
               focus == Cmd("focusWs", n + 1, s.wins[n + 1].ws)
    <3>4. frame.do = "frame" /\ focus.do = "focusWs" /\ focus.to = s.wins[n + 1].ws
      BY DEF Cmd
    <3>5. LastFocus(p \o q, s.wins[n + 1].ws)
      <4>1. CASE SameAsBefore(s, framed, n + 1)
        <5>1. upTo(n) # {} /\ s.wins[Latest(upTo(n))].ws = s.wins[n + 1].ws
          BY <3>1, <4>1 DEF SameAsBefore
        <5>2. LastFocus(p, s.wins[n + 1].ws)
          BY <2>3, <5>1
        <5>3. \A c \in Elements(q) : c.do # "focusWs"
          BY <2>7, <3>3, <3>4, <4>1, FrameElements
        <5> HIDE DEF p, q
        <5> QED
          BY <2>3, <2>4, <5>2, <5>3, ConcatLastFocus
      <4>2. CASE ~SameAsBefore(s, framed, n + 1)
        <5>1. q = <<focus>> \o <<frame>>
          BY <3>3, <4>2 DEF FrameCommands, SameAsBefore
        <5>2. focus \in Command(s) /\ frame \in Command(s)
          BY <1>1, <2>7 DEF Cmd, Command, Windows
        <5> HIDE DEF focus, frame, q
        <5>3. <<focus>> \in Seq(Command(s)) /\ <<frame>> \in Seq(Command(s))
          BY <5>2, FewElements
        <5>6. Elements(<<frame>>) = {frame}
          BY <5>2, FewElements
        <5>7. LastFocus(<<focus>>, s.wins[n + 1].ws)
          BY <3>4 DEF LastFocus
        <5>4. LastFocus(q, s.wins[n + 1].ws)
          BY <3>4, <5>1, <5>3, <5>6, <5>7, ConcatLastFocus
        <5>5. p \in Seq(Command(s))
          BY <2>3
        <5> HIDE DEF p
        <5> QED
          BY <2>4, <5>4, <5>5, ConcatLastFocus
      <4> QED
        BY <4>1, <4>2
    <3> HIDE DEF p, q
    <3>6. Good(n + 1, p \o q)
      <4> HIDE DEF upTo
      <4> QED
        BY <3>2, <3>5
    <3> HIDE DEF Good
    <3> QED
      BY <2>1, <2>2, <2>5, <3>6
  <2> QED
    BY <2>6, <2>7
<1>5. N \in Has
  <2> HIDE DEF Has, Good
  <2>1. \A n \in 0..N : n \in Has /\ n < N => n + 1 \in Has
    BY <1>4
  <2>2. 0..N \subseteq Has
    BY ONLY <1>1, <1>3, <2>1, UpTo
  <2> QED
    BY <1>1, <2>2
<1>6. upTo(N) = framed
  BY <1>1
<1>7. Framing(s, framed) = Joining(part)[N]
  BY DEF Framing, Joined
<1>8. Good(N, Joining(part)[N])
  BY <1>5
<1> HIDE DEF part, upTo
<1> QED
  BY <1>6, <1>7, <1>8
-----------------------------------------------------------------------------
(* What commands do *)

LEMMA FocusedDesktop ==
    ASSUME NEW d, NEW ws, NEW e \in Focused(d, ws), View(d)
    PROVE  Desktop(e) /\ e.wins = d.wins /\ e.ws = ws
<1>1. PICK w \in IF In(d, ws) = {} THEN {Nothing} ELSE In(d, ws) : e = [d EXCEPT !.ws = ws, !.win = w]
  BY DEF Focused
<1>2. e = [wins |-> d.wins, ws |-> ws, win |-> w]
  BY <1>1 DEF View
<1>3. e.wins = d.wins /\ e.ws = ws /\ e.win = w
  BY <1>2
<1>4. In(e, ws) = In(d, ws)
  BY <1>3 DEF In
<1>5. View(e)
  BY <1>2, <1>3 DEF View
<1> QED
  BY <1>3, <1>4, <1>5 DEF Desktop

LEMMA RefocusedDesktop ==
    ASSUME NEW d, NEW e \in Refocus(d), View(d)
    PROVE  Desktop(e) /\ e.wins = d.wins /\ e.ws = d.ws
<1>1. CASE d.win \in In(d, d.ws)
  BY <1>1 DEF Refocus, Desktop
<1>2. CASE d.win \notin In(d, d.ws)
  <2>1. e \in Focused(d, d.ws)
    BY <1>2 DEF Refocus
  <2> QED
    BY <2>1, FocusedDesktop
<1> QED
  BY <1>1, <1>2

\* One window's workspace, layout or frame changes.
LEMMA OneWindow ==
    ASSUME NEW d, NEW w \in DOMAIN d.wins, NEW ws, NEW layout, NEW frame, View(d),
           NEW e, e = [wins |-> [d.wins EXCEPT ![w] = [ws |-> ws, layout |-> layout, frame |-> frame]],
                       ws |-> d.ws, win |-> d.win]
    PROVE  /\ View(e) /\ DOMAIN e.wins = DOMAIN d.wins /\ e.ws = d.ws /\ e.win = d.win
           /\ e.wins[w] = [ws |-> ws, layout |-> layout, frame |-> frame]
           /\ \A v \in DOMAIN d.wins \ {w} : e.wins[v] = d.wins[v]
<1>1. /\ e.wins = [d.wins EXCEPT ![w] = [ws |-> ws, layout |-> layout, frame |-> frame]]
      /\ e.ws = d.ws /\ e.win = d.win
  OBVIOUS
<1>2. /\ DOMAIN e.wins = DOMAIN d.wins
      /\ e.wins[w] = [ws |-> ws, layout |-> layout, frame |-> frame]
      /\ \A v \in DOMAIN d.wins \ {w} : e.wins[v] = d.wins[v]
  BY <1>1 DEF View
<1>3. \A v \in DOMAIN e.wins :
         e.wins[v] = [ws |-> e.wins[v].ws, layout |-> e.wins[v].layout, frame |-> e.wins[v].frame]
  BY <1>2 DEF View
<1>4. e.wins = [v \in DOMAIN e.wins |-> e.wins[v]]
  BY <1>1 DEF View
<1>5. e.wins = [v \in DOMAIN e.wins |-> [ws |-> e.wins[v].ws, layout |-> e.wins[v].layout,
                                        frame |-> e.wins[v].frame]]
  BY <1>3, <1>4
<1> QED
  BY <1>1, <1>2, <1>5 DEF View

\* A command changes what it names.
LEMMA RunDoes ==
    ASSUME NEW d, NEW c, NEW e \in Run(d, c), Desktop(d)
    PROVE  /\ Desktop(e) /\ DOMAIN e.wins = DOMAIN d.wins
           /\ \A w \in DOMAIN d.wins :
                 /\ e.wins[w].ws = IF c.do = "move" /\ w = c.win THEN c.to ELSE d.wins[w].ws
                 /\ e.wins[w].layout = IF c.do = "layout" /\ w = c.win THEN c.to ELSE d.wins[w].layout
                 /\ ~(c.do \in {"layout", "frame"} /\ w = c.win) => e.wins[w].frame = d.wins[w].frame
                 /\ c.do = "frame" /\ w = c.win => e.wins[w].frame = c.to
           /\ c.do \notin {"focusWs", "focusWin"} => e.ws = d.ws
           /\ c.do = "focusWs" => e.ws = c.to
           /\ c.do = "focusWin" => /\ c.win \in DOMAIN d.wins
                                   /\ e.win = c.win /\ e.ws = d.wins[c.win].ws
<1>1. View(d)
  BY DEF Desktop
<1>2. d = [wins |-> d.wins, ws |-> d.ws, win |-> d.win]
  BY <1>1 DEF View
<1>3. \A w \in DOMAIN d.wins :
         d.wins[w] = [ws |-> d.wins[w].ws, layout |-> d.wins[w].layout, frame |-> d.wins[w].frame]
  BY <1>1 DEF View
<1>4. CASE c.do = "move" /\ c.win \in DOMAIN d.wins
  <2> DEFINE m == [d EXCEPT !.wins[c.win].ws = c.to]
  <2>1. m = [wins |-> [d.wins EXCEPT ![c.win] = [ws |-> c.to, layout |-> d.wins[c.win].layout,
                                                 frame |-> d.wins[c.win].frame]],
             ws |-> d.ws, win |-> d.win]
    BY <1>2, <1>3, <1>4
  <2>2. e \in Refocus(m)
    BY <1>4 DEF Run
  <2> HIDE DEF m
  <2>3. /\ View(m) /\ DOMAIN m.wins = DOMAIN d.wins /\ m.ws = d.ws
        /\ m.wins[c.win] = [ws |-> c.to, layout |-> d.wins[c.win].layout, frame |-> d.wins[c.win].frame]
        /\ \A v \in DOMAIN d.wins \ {c.win} : m.wins[v] = d.wins[v]
    BY <1>1, <1>4, <2>1, OneWindow
  <2>4. Desktop(e) /\ e.wins = m.wins /\ e.ws = m.ws
    BY <2>2, <2>3, RefocusedDesktop
  <2> QED
    BY <1>4, <2>3, <2>4
<1>5. CASE c.do = "layout" /\ c.win \in DOMAIN d.wins
  <2>1. e = [d EXCEPT !.wins[c.win] = [ws |-> @.ws, layout |-> c.to, frame |-> Frame(d, c.win)]]
    BY <1>5 DEF Run
  <2>2. e = [wins |-> [d.wins EXCEPT ![c.win] = [ws |-> d.wins[c.win].ws, layout |-> c.to,
                                                 frame |-> Frame(d, c.win)]],
             ws |-> d.ws, win |-> d.win]
    BY <1>2, <1>5, <2>1
  <2>3. /\ View(e) /\ DOMAIN e.wins = DOMAIN d.wins /\ e.ws = d.ws /\ e.win = d.win
        /\ e.wins[c.win] = [ws |-> d.wins[c.win].ws, layout |-> c.to, frame |-> Frame(d, c.win)]
        /\ \A v \in DOMAIN d.wins \ {c.win} : e.wins[v] = d.wins[v]
    BY <1>1, <1>5, <2>2, OneWindow
  <2>4. In(e, e.ws) = In(d, d.ws)
    BY <2>3 DEF In
  <2>5. Desktop(e)
    BY <2>3, <2>4 DEF Desktop
  <2> QED
    BY <1>5, <2>3, <2>5
<1>6. CASE c.do = "frame" /\ c.win \in DOMAIN d.wins
  <2>1. e = [d EXCEPT !.wins[c.win].frame = c.to]
    BY <1>6 DEF Run
  <2>2. e = [wins |-> [d.wins EXCEPT ![c.win] = [ws |-> d.wins[c.win].ws, layout |-> d.wins[c.win].layout,
                                                 frame |-> c.to]],
             ws |-> d.ws, win |-> d.win]
    BY <1>2, <1>3, <1>6, <2>1
  <2>3. /\ View(e) /\ DOMAIN e.wins = DOMAIN d.wins /\ e.ws = d.ws /\ e.win = d.win
        /\ e.wins[c.win] = [ws |-> d.wins[c.win].ws, layout |-> d.wins[c.win].layout, frame |-> c.to]
        /\ \A v \in DOMAIN d.wins \ {c.win} : e.wins[v] = d.wins[v]
    BY <1>1, <1>6, <2>2, OneWindow
  <2>4. In(e, e.ws) = In(d, d.ws)
    BY <2>3 DEF In
  <2>5. Desktop(e)
    BY <2>3, <2>4 DEF Desktop
  <2> QED
    BY <1>6, <2>3, <2>5
<1>7. CASE c.do = "frame" /\ c.win \notin DOMAIN d.wins
  BY <1>7 DEF Run
<1>8. CASE c.do = "focusWs"
  <2>1. e \in Focused(d, c.to)
    BY <1>8 DEF Run
  <2> QED
    BY <1>1, <1>8, <2>1, FocusedDesktop
<1>9. CASE c.do = "focusWin" /\ c.win \in DOMAIN d.wins
  <2>1. e = [d EXCEPT !.ws = d.wins[c.win].ws, !.win = c.win]
    BY <1>9 DEF Run
  <2>2. e \in Focused(d, d.wins[c.win].ws)
    BY <1>9, <2>1 DEF Focused, In
  <2>3. e.win = c.win
    BY <1>2, <2>1
  <2> QED
    BY <1>1, <1>9, <2>2, <2>3, FocusedDesktop
<1>10. CASE ~(\/ c.do \in {"move", "layout", "focusWin"} /\ c.win \in DOMAIN d.wins
              \/ c.do \in {"frame", "focusWs"})
  BY <1>10 DEF Run
<1> QED
  BY <1>4, <1>5, <1>6, <1>7, <1>8, <1>9, <1>10
-----------------------------------------------------------------------------
(* A first plan that nothing interferes with leads to the snapshot. *)

Waits(q, do, w) == \E c \in Elements(q) : c.do = do /\ c.win = w

\* What a plan may ask for.
RightCommand(s, c) ==
    /\ c.do = "move" => c.win \in DOMAIN s.wins /\ c.to = s.wins[c.win].ws
    /\ c.do = "layout" => /\ c.win \in DOMAIN s.wins /\ s.wins[c.win].layout \in {Nothing, c.to}
                          /\ s.wins[c.win].frame # Nothing => c.to = "floating"
    /\ c.do = "frame" => c.win \in DOMAIN s.wins /\ c.to = s.wins[c.win].frame
    /\ c.do = "focusWin" => c.win = s.win /\ s.win # Nothing

\* Each part of a window's place is right, or a command that puts it right is still to come;
\* and so is the focus.
PlaceOnTrack(s, d, q, w) ==
    /\ d.wins[w].ws = s.wins[w].ws \/ Waits(q, "move", w)
    /\ s.wins[w].layout \in {Nothing, d.wins[w].layout} \/ Waits(q, "layout", w)
    /\ s.wins[w].frame # Nothing =>
          /\ d.wins[w].layout = "floating" \/ Waits(q, "layout", w)
          /\ \/ Waits(q, "frame", w)
             \/ d.wins[w].frame = s.wins[w].frame /\ ~Waits(q, "layout", w)
FocusOnTrack(s, d, q) ==
    IF s.win # Nothing
    THEN IF q = <<>> THEN d.win = s.win /\ d.ws = s.wins[s.win].ws ELSE q[Len(q)].do = "focusWin"
    ELSE s.ws # Nothing =>
            LastFocus(q, s.ws) \/ (d.ws = s.ws /\ \A c \in Elements(q) : c.do # "focusWs")
OnTrack(s, d, q) ==
    /\ \A c \in Elements(q) : RightCommand(s, c)
    /\ LayoutsFirst(q)
    /\ \A w \in DOMAIN s.wins : PlaceOnTrack(s, d, q, w)
    /\ FocusOnTrack(s, d, q)

\* No window of the snapshot is both tiled and framed (~Flips).
Steady(s) ==
    \A w \in DOMAIN s.wins : s.wins[w].frame # Nothing => s.wins[w].layout \in {Nothing, "floating"}

LEMMA CmdFields ==
    ASSUME NEW do, NEW win, NEW to
    PROVE  Cmd(do, win, to).do = do /\ Cmd(do, win, to).win = win /\ Cmd(do, win, to).to = to
  BY DEF Cmd

LEMMA PlanOnTrack ==
    ASSUME NEW s, NEW d, Saved(s), Desktop(d), DOMAIN s.wins \subseteq DOMAIN d.wins, Steady(s)
    PROVE  OnTrack(s, d, PlanOf(s, d, TRUE))
<1> DEFINE framed == ToFrame(s, d, TRUE)
           A == Arranging(s, d)
           B == Framing(s, framed)
           C == Focusing(s, d, TRUE, framed)
           plan == PlanOf(s, d, TRUE)
<1>1. View(s) /\ View(d) /\ DOMAIN d.wins \subseteq Windows
  BY DEF Saved, Desktop, View
<1>2. There(s, d) = DOMAIN s.wins
  BY DEF There
<1>3. framed = {w \in DOMAIN s.wins : s.wins[w].frame # Nothing}
  BY <1>2 DEF ToFrame
<1>4. /\ framed \in SUBSET DOMAIN s.wins /\ plan \in Seq(Command(s))
      /\ Elements(plan) = Elements(A) \cup Elements(B) \cup Elements(C)
  BY <1>1, PlanElements
<1>5. A \in Seq(Command(s)) /\ B \in Seq(Command(s)) /\ C \in Seq(Command(s))
  <2> HIDE DEF framed
  <2> QED
    BY <1>1, <1>4, ArrangingElements, FramingElements, FocusElements
<1>6. ASSUME NEW c \in Elements(A)
      PROVE  \E w \in DOMAIN s.wins :
                \/ c = Cmd("move", w, s.wins[w].ws) /\ s.wins[w].ws # d.wins[w].ws
                \/ /\ s.wins[w].layout \notin {Nothing, d.wins[w].layout}
                   /\ c = Cmd("layout", w, s.wins[w].layout)
                \/ /\ s.wins[w].layout \in {Nothing, d.wins[w].layout} /\ s.wins[w].frame # Nothing
                   /\ c = Cmd("layout", w, "floating")
  <2>1. PICK w \in DOMAIN s.wins : c \in Elements(MoveCommands(s, d, w)) \/ c \in Elements(LayoutCommands(s, d, w))
    BY <1>1, <1>2, ArrangingElements
  <2>2. CASE c \in Elements(MoveCommands(s, d, w))
    BY <1>1, <2>2, MoveElements
  <2>3. CASE c \in Elements(LayoutCommands(s, d, w))
    <3>1. Elements(LayoutCommands(s, d, w)) =
             IF s.wins[w].layout \notin {Nothing, d.wins[w].layout}
             THEN {Cmd("layout", w, s.wins[w].layout)}
             ELSE IF s.wins[w].frame # Nothing /\ d.wins[w].layout # "floating"
             THEN {Cmd("layout", w, "floating")} ELSE {}
      BY <1>1, LayoutElements
    <3> QED
      BY <2>3, <3>1
  <2> QED
    BY <2>1, <2>2, <2>3
<1>7. ASSUME NEW c \in Elements(B)
      PROVE  \E w \in framed : c = Cmd("frame", w, s.wins[w].frame) \/ c = Cmd("focusWs", w, s.wins[w].ws)
  <2> HIDE DEF framed
  <2>1. PICK w \in framed : c \in Elements(FrameCommands(s, framed, w))
    BY <1>1, <1>4, FramingElements
  <2>2. w \in DOMAIN s.wins
    BY <1>4
  <2> QED
    BY <1>1, <2>1, <2>2, FrameElements
<1>8. Elements(C) = (IF FocusesWs(s, d, TRUE, framed) THEN {Cmd("focusWs", Nothing, s.ws)} ELSE {})
                    \cup (IF FocusesWin(s, d, TRUE) THEN {Cmd("focusWin", s.win, Nothing)} ELSE {})
  BY <1>1, FocusElements
<1> HIDE DEF framed, A, B, C, plan
<1>9. FocusesWin(s, d, TRUE) <=> s.win # Nothing
  <2>1. FocusesWin(s, d, TRUE) <=> s.win \in DOMAIN d.wins
    BY Zenon DEF FocusesWin
  <2>2. s.win # Nothing => s.win \in DOMAIN s.wins
    BY DEF Saved
  <2>3. Nothing \notin DOMAIN d.wins
    BY <1>1, WorkspaceAssumption
  <2> QED
    BY <2>1, <2>2, <2>3
<1>10. ASSUME NEW c \in Elements(C)
       PROVE  c = Cmd("focusWs", Nothing, s.ws) \/ (c = Cmd("focusWin", s.win, Nothing) /\ s.win # Nothing)
  <2> DEFINE onWs == Cmd("focusWs", Nothing, s.ws)
             onWin == Cmd("focusWin", s.win, Nothing)
  <2> HIDE DEF onWs, onWin
  <2>1. Elements(C) = (IF FocusesWs(s, d, TRUE, framed) THEN {onWs} ELSE {})
                      \cup (IF FocusesWin(s, d, TRUE) THEN {onWin} ELSE {})
    BY <1>8 DEF onWs, onWin
  <2>2. c = onWs \/ (c = onWin /\ FocusesWin(s, d, TRUE))
    BY <2>1
  <2> QED
    BY <1>9, <2>2 DEF onWs, onWin
<1>11. ASSUME NEW c \in Elements(plan) PROVE RightCommand(s, c)
  <2>1. CASE c \in Elements(A)
    BY <1>6, <2>1, CmdFields DEF RightCommand, Steady
  <2>2. CASE c \in Elements(B)
    BY <1>3, <1>7, <2>2, CmdFields DEF RightCommand
  <2>3. CASE c \in Elements(C)
    BY <1>10, <2>3, CmdFields DEF RightCommand
  <2> QED
    BY <1>4, <2>1, <2>2, <2>3
<1>12. plan = (A \o B) \o C
  BY DEF plan, A, B, C, framed, PlanOf
<1>13. LayoutsFirst(plan)
  <2>1. plan = A \o (B \o C)
    BY <1>5, <1>12, ConcatAssociative
  <2>2. B \o C \in Seq(Command(s)) /\ Elements(B \o C) = Elements(B) \cup Elements(C)
    BY <1>5, ConcatElements
  <2>3. \A c \in Elements(A) : c.do # "frame"
    BY <1>6, CmdFields
  <2>4. \A c \in Elements(B) \cup Elements(C) : c.do # "layout"
    BY <1>7, <1>10, CmdFields
  <2> QED
    BY <1>5, <2>1, <2>2, <2>3, <2>4, ConcatLayoutsFirst
<1>14. ASSUME NEW w \in DOMAIN s.wins PROVE PlaceOnTrack(s, d, plan, w)
  <2>1. \A c \in Elements(MoveCommands(s, d, w)) \cup Elements(LayoutCommands(s, d, w)) : c \in Elements(A)
    BY <1>1, <1>2, ArrangingElements DEF A
  <2>2. s.wins[w].ws # d.wins[w].ws => Cmd("move", w, s.wins[w].ws) \in Elements(plan)
    BY <1>1, <1>4, <2>1, MoveElements
  <2>3. s.wins[w].layout \notin {Nothing, d.wins[w].layout}
           => Cmd("layout", w, s.wins[w].layout) \in Elements(plan)
    BY <1>1, <1>4, <2>1, LayoutElements
  <2>4. s.wins[w].layout \in {Nothing, d.wins[w].layout} /\ s.wins[w].frame # Nothing
           /\ d.wins[w].layout # "floating" => Cmd("layout", w, "floating") \in Elements(plan)
    BY <1>1, <1>4, <2>1, LayoutElements
  <2>5. s.wins[w].frame # Nothing => Cmd("frame", w, s.wins[w].frame) \in Elements(plan)
    <3>1. ASSUME s.wins[w].frame # Nothing
          PROVE  Cmd("frame", w, s.wins[w].frame) \in Elements(FrameCommands(s, framed, w))
      BY <1>1, FrameElements
    <3>2. \A c : (\E v \in framed : c \in Elements(FrameCommands(s, framed, v))) => c \in Elements(B)
      BY <1>1, <1>4, FramingElements DEF B
    <3> QED
      BY <1>3, <1>4, <3>1, <3>2
  <2> QED
    BY <2>2, <2>3, <2>4, <2>5, CmdFields DEF PlaceOnTrack, Waits
<1>15. FocusOnTrack(s, d, plan)
  <2>1. A \o B \in Seq(Command(s))
    BY <1>5, ConcatElements
  <2>2. CASE s.win # Nothing
    <3>1. PICK q \in Seq(Command(s)) : C = q \o <<Cmd("focusWin", s.win, Nothing)>>
      BY <1>1, <1>9, <2>2, FocusElements DEF C
    <3> DEFINE focus == Cmd("focusWin", s.win, Nothing)
    <3>2. Len(C) \in Nat /\ Len(C) # 0 /\ C[Len(C)] = focus
      <4> HIDE DEF focus
      <4> QED
        BY <3>1 DEF focus
    <3>3. plan # <<>> /\ plan[Len(plan)] = focus
      <4> DEFINE AB == A \o B
      <4>1. AB \in Seq(Command(s)) /\ plan = AB \o C
        BY <1>12, <2>1
      <4> HIDE DEF AB
      <4>2. /\ Len(AB) \in Nat /\ Len(plan) = Len(AB) + Len(C)
            /\ \A i \in 1..Len(C) : plan[i + Len(AB)] = C[i]
        <5>1. /\ Len(AB) \in Nat /\ Len(AB \o C) = Len(AB) + Len(C)
              /\ \A i \in 1..Len(C) : (AB \o C)[i + Len(AB)] = C[i]
          BY <1>5, <4>1, ConcatParts
        <5> QED
          BY <4>1, <5>1
      <4>3. plan[Len(C) + Len(AB)] = focus /\ Len(plan) = Len(C) + Len(AB) /\ Len(plan) # 0
        BY <3>2, <4>2
      <4> QED
        BY <4>3
    <3> QED
      BY <2>2, <3>3, CmdFields DEF FocusOnTrack
  <2>3. CASE s.win = Nothing /\ s.ws # Nothing
    <3>1. CASE FocusesWs(s, d, TRUE, framed)
      <4>1. Elements(C) = {Cmd("focusWs", Nothing, s.ws)}
        BY <1>8, <1>9, <2>3, <3>1
      <4>2. Len(C) \in Nat /\ Len(C) # 0
        BY <1>5, <4>1 DEF Elements
      <4>3. C[Len(C)] = Cmd("focusWs", Nothing, s.ws)
        BY <4>1, <4>2 DEF Elements
      <4>4. LastFocus(C, s.ws)
        BY <4>2, <4>3, CmdFields DEF LastFocus
      <4>5. LastFocus(plan, s.ws)
        BY <1>5, <1>12, <2>1, <4>4, ConcatLastFocus
      <4> QED
        BY <2>3, <4>5 DEF FocusOnTrack
    <3>2. CASE ~FocusesWs(s, d, TRUE, framed)
      <4>1. framed # {} /\ s.wins[Latest(framed)].ws = s.ws
        BY <2>3, <3>2 DEF FocusesWs
      <4>2. LastFocus(B, s.ws)
        BY <1>1, <1>4, <4>1, FramingLastFocus DEF B
      <4>3. LastFocus(A \o B, s.ws)
        BY <1>5, <4>2, ConcatLastFocus
      <4>4. Elements(C) = {}
        BY <1>8, <1>9, <2>3, <3>2
      <4>5. LastFocus(plan, s.ws)
        BY <1>5, <1>12, <2>1, <4>3, <4>4, ConcatLastFocus
      <4> QED
        BY <2>3, <4>5 DEF FocusOnTrack
    <3> QED
      BY <3>1, <3>2
  <2> QED
    BY <2>2, <2>3 DEF FocusOnTrack
<1> QED
  BY <1>11, <1>13, <1>14, <1>15 DEF OnTrack, plan
LEMMA TailParts ==
    ASSUME NEW S, NEW q \in Seq(S), q # <<>>
    PROVE  /\ Tail(q) \in Seq(S) /\ Len(q) \in Nat \ {0} /\ Len(Tail(q)) = Len(q) - 1 /\ Head(q) = q[1]
           /\ \A i \in 1..Len(Tail(q)) : i + 1 \in 1..Len(q) /\ Tail(q)[i] = q[i + 1]
           /\ \A c : c \in Elements(q) <=> c = Head(q) \/ c \in Elements(Tail(q))
<1>1. /\ Tail(q) \in Seq(S) /\ Len(q) \in Nat \ {0} /\ Len(Tail(q)) = Len(q) - 1 /\ Head(q) = q[1]
      /\ \A i \in 1..Len(Tail(q)) : i + 1 \in 1..Len(q) /\ Tail(q)[i] = q[i + 1]
  OBVIOUS
<1>2. \A i \in 1..Len(q) : i = 1 \/ (i - 1 \in 1..Len(Tail(q)) /\ Tail(q)[i - 1] = q[i])
  BY <1>1
<1>3. ASSUME NEW c \in Elements(q) PROVE c = Head(q) \/ c \in Elements(Tail(q))
  <2>1. PICK i \in 1..Len(q) : c = q[i]
    BY DEF Elements
  <2> QED
    BY <1>1, <1>2, <2>1 DEF Elements
<1>4. Head(q) \in Elements(q)
  BY <1>1 DEF Elements
<1>5. ASSUME NEW c \in Elements(Tail(q)) PROVE c \in Elements(q)
  <2>1. PICK i \in 1..Len(Tail(q)) : c = Tail(q)[i]
    BY DEF Elements
  <2> QED
    BY <1>1, <2>1 DEF Elements
<1> QED
  BY <1>1, <1>3, <1>4, <1>5

\* A command of a plan brings the desktop one step nearer.
LEMMA RunOnTrack ==
    ASSUME NEW s, NEW d, NEW q \in Seq(Command(s)), q # <<>>, Saved(s), Desktop(d),
           DOMAIN s.wins \subseteq DOMAIN d.wins, OnTrack(s, d, q), NEW e \in Run(d, Head(q))
    PROVE  OnTrack(s, e, Tail(q))
<1> DEFINE c == Head(q)
           t == Tail(q)
<1>1. /\ t \in Seq(Command(s)) /\ Len(q) \in Nat \ {0} /\ Len(t) = Len(q) - 1 /\ c = q[1]
      /\ \A i \in 1..Len(t) : i + 1 \in 1..Len(q) /\ t[i] = q[i + 1]
      /\ \A x : x \in Elements(q) <=> x = c \/ x \in Elements(t)
  BY TailParts
<1>2. /\ DOMAIN e.wins = DOMAIN d.wins
      /\ \A w \in DOMAIN d.wins :
            /\ e.wins[w].ws = IF c.do = "move" /\ w = c.win THEN c.to ELSE d.wins[w].ws
            /\ e.wins[w].layout = IF c.do = "layout" /\ w = c.win THEN c.to ELSE d.wins[w].layout
            /\ ~(c.do \in {"layout", "frame"} /\ w = c.win) => e.wins[w].frame = d.wins[w].frame
            /\ c.do = "frame" /\ w = c.win => e.wins[w].frame = c.to
      /\ c.do \notin {"focusWs", "focusWin"} => e.ws = d.ws
      /\ c.do = "focusWs" => e.ws = c.to
      /\ c.do = "focusWin" => c.win \in DOMAIN d.wins /\ e.win = c.win /\ e.ws = d.wins[c.win].ws
  BY RunDoes
<1> HIDE DEF c, t
<1>3. /\ RightCommand(s, c) /\ \A x \in Elements(t) : RightCommand(s, x)
      /\ LayoutsFirst(q) /\ FocusOnTrack(s, d, q)
      /\ \A w \in DOMAIN s.wins : PlaceOnTrack(s, d, q, w)
  BY <1>1 DEF OnTrack
<1>4. LayoutsFirst(t)
  <2>1. ASSUME NEW i \in 1..Len(t), NEW j \in 1..Len(t), i < j, t[i].do = "frame"
        PROVE  t[j].do # "layout"
    <3>1. i + 1 \in 1..Len(q) /\ j + 1 \in 1..Len(q) /\ i + 1 < j + 1 /\ t[i] = q[i + 1] /\ t[j] = q[j + 1]
      BY <1>1, <2>1
    <3> QED
      BY <1>3, <2>1, <3>1 DEF LayoutsFirst
  <2> QED
    BY <2>1 DEF LayoutsFirst
<1>5. c.do = "frame" => \A x \in Elements(t) : x.do # "layout"
  <2>1. ASSUME c.do = "frame", NEW i \in 1..Len(t) PROVE t[i].do # "layout"
    <3>1. t[i] = q[i + 1] /\ i + 1 \in 1..Len(q) /\ 1 < i + 1 /\ 1 \in 1..Len(q)
      BY <1>1
    <3> QED
      BY <1>1, <1>3, <2>1, <3>1 DEF LayoutsFirst
  <2> QED
    BY <2>1 DEF Elements
<1>6. \A do, w : Waits(q, do, w) <=> (c.do = do /\ c.win = w) \/ Waits(t, do, w)
  BY <1>1 DEF Waits
<1>7. ASSUME NEW w \in DOMAIN s.wins PROVE PlaceOnTrack(s, e, t, w)
  <2>1. PlaceOnTrack(s, d, q, w) /\ w \in DOMAIN d.wins
    BY <1>3
  <2>2. e.wins[w].ws = s.wins[w].ws \/ Waits(t, "move", w)
    BY <1>2, <1>3, <1>6, <2>1 DEF PlaceOnTrack, RightCommand
  <2>3. s.wins[w].layout \in {Nothing, e.wins[w].layout} \/ Waits(t, "layout", w)
    BY <1>2, <1>3, <1>6, <2>1 DEF PlaceOnTrack, RightCommand
  <2>4. ASSUME s.wins[w].frame # Nothing
        PROVE  e.wins[w].layout = "floating" \/ Waits(t, "layout", w)
    BY <1>2, <1>3, <1>6, <2>1, <2>4 DEF PlaceOnTrack, RightCommand
  <2>5. ASSUME s.wins[w].frame # Nothing
        PROVE  \/ Waits(t, "frame", w)
               \/ e.wins[w].frame = s.wins[w].frame /\ ~Waits(t, "layout", w)
    <3>1. CASE c.do = "frame" /\ c.win = w
      <4>1. ~Waits(t, "layout", w)
        BY <1>5, <3>1 DEF Waits
      <4> QED
        BY <1>2, <1>3, <2>1, <3>1, <4>1 DEF RightCommand
    <3>2. CASE ~(c.do = "frame" /\ c.win = w)
      BY <1>2, <1>6, <2>1, <2>5, <3>2 DEF PlaceOnTrack
    <3> QED
      BY <3>1, <3>2
  <2> QED
    BY <2>2, <2>3, <2>4, <2>5 DEF PlaceOnTrack
<1>8. FocusOnTrack(s, e, t)
  <2>1. CASE s.win # Nothing
    <3>1. q[Len(q)].do = "focusWin"
      BY <1>3, <2>1 DEF FocusOnTrack
    <3>2. CASE t = <<>>
      <4>1. Len(q) = 1 /\ Elements(t) = {}
        <5>1. Len(t) = 0
          BY <3>2
        <5>2. Len(q) = 1
          BY <1>1, <5>1
        <5>3. 1..Len(t) = {}
          BY <5>1
        <5> QED
          BY <5>2, <5>3 DEF Elements
      <4>2. c.do = "focusWin" /\ c.win = s.win
        BY <1>1, <1>3, <3>1, <4>1 DEF RightCommand
      <4>3. s.win \in DOMAIN s.wins
        BY <2>1 DEF Saved
      <4>4. d.wins[s.win].ws = s.wins[s.win].ws
        <5>1. ~Waits(t, "move", s.win)
          BY <4>1 DEF Waits
        <5>2. c.do # "move"
          BY <4>2
        <5> QED
          BY <1>3, <1>6, <4>3, <5>1, <5>2 DEF PlaceOnTrack
      <4> QED
        BY <1>2, <2>1, <3>2, <4>2, <4>4 DEF FocusOnTrack
    <3>3. CASE t # <<>>
      <4>1. Len(t) # 0
        BY <1>1, <3>3
      <4>2. Len(t) \in 1..Len(t) /\ t[Len(t)] = q[Len(t) + 1] /\ Len(t) + 1 = Len(q)
        BY <1>1, <4>1
      <4> QED
        BY <2>1, <3>1, <3>3, <4>2 DEF FocusOnTrack
    <3> QED
      BY <3>2, <3>3
  <2>2. CASE s.win = Nothing /\ s.ws # Nothing
    <3>1. c.do # "focusWin"
      BY <1>3, <2>2 DEF RightCommand
    <3>2. CASE LastFocus(q, s.ws)
      <4>1. PICK i \in 1..Len(q) : /\ q[i].do = "focusWs" /\ q[i].to = s.ws
                                   /\ \A j \in 1..Len(q) : i < j => q[j].do # "focusWs"
        BY <3>2 DEF LastFocus
      <4>2. \A j \in 1..Len(t) : j + 1 \in 1..Len(q) /\ t[j] = q[j + 1]
        BY <1>1
      <4>3. CASE i = 1
        <5>1. e.ws = s.ws
          BY <1>1, <1>2, <4>1, <4>3
        <5>2. \A j \in 1..Len(t) : t[j].do # "focusWs"
          BY <1>1, <4>1, <4>2, <4>3
        <5> QED
          BY <2>2, <5>1, <5>2 DEF FocusOnTrack, Elements
      <4>4. CASE i # 1
        <5>1. i - 1 \in 1..Len(t) /\ t[i - 1] = q[i]
          BY <1>1, <4>4
        <5>2. \A j \in 1..Len(t) : i - 1 < j => t[j].do # "focusWs"
          BY <1>1, <4>1, <4>2
        <5>3. LastFocus(t, s.ws)
          BY <4>1, <5>1, <5>2 DEF LastFocus
        <5> QED
          BY <2>2, <5>3 DEF FocusOnTrack
      <4> QED
        BY <4>3, <4>4
    <3>3. CASE d.ws = s.ws /\ \A x \in Elements(q) : x.do # "focusWs"
      BY <1>1, <1>2, <2>2, <3>1, <3>3 DEF FocusOnTrack
    <3> QED
      BY <1>3, <2>2, <3>2, <3>3 DEF FocusOnTrack
  <2>3. CASE s.win = Nothing /\ s.ws = Nothing
    BY <2>3 DEF FocusOnTrack
  <2> QED
    BY <2>1, <2>2, <2>3
<1> QED
  BY <1>3, <1>4, <1>7, <1>8 DEF OnTrack, t
-----------------------------------------------------------------------------
(* The inductive invariant *)

Looks == {"look", "back", "judge", "done"}

\* A capture knows of windows, and of the focus or not.
Capture(k) ==
    /\ k = [wins |-> k.wins, ws |-> k.ws, win |-> k.win, at |-> k.at, faults |-> k.faults]
    /\ DOMAIN k.wins \subseteq Windows
    /\ k.wins = [w \in DOMAIN k.wins |-> [ws |-> k.wins[w].ws, layout |-> k.wins[w].layout,
                                          frame |-> k.wins[w].frame]]

\* It has the windows of the desktop where they are, and the frames of some.
Matches(k, d) ==
    /\ DOMAIN k.wins = DOMAIN d.wins
    /\ \A w \in DOMAIN d.wins :
          /\ k.wins[w].ws = d.wins[w].ws /\ k.wins[w].layout = d.wins[w].layout
          /\ k.wins[w].frame \in {Nothing, Frame(d, w)}

\* The focus it has is one the desktop can have, and the one it does have.
CanFocus(k, d) ==
    k.win # Nothing => k.win \in DOMAIN d.wins /\ k.ws \in {Nothing, d.wins[k.win].ws}
Focuses(k, d) == k.ws \in {Nothing, d.ws} /\ k.win \in {Nothing, d.win}

InShape ==
    /\ Desktop(desk) /\ snapshot \in Snapshots /\ commands \in Seq(Command(snapshot))
    /\ moves \in Nat /\ faults \in Nat /\ verified \in BOOLEAN

\* What was captured is so until something moves; at the judgement so is the focus, unless
\* giving it back failed.
CaptureHolds ==
    step \in Looks =>
        /\ Capture(captured) /\ captured.at \in Nat /\ captured.at <= moves
        /\ captured.faults \in Nat /\ captured.faults <= faults
        /\ step = "look" => faults = captured.faults
        /\ moves = captured.at =>
              /\ Matches(captured, desk) /\ CanFocus(captured, desk)
              /\ (step # "back" /\ faults = captured.faults) => Focuses(captured, desk)

VerdictHolds ==
    (step = "done" /\ verified) =>
        Agrees(snapshot, captured) /\ DOMAIN snapshot.wins \subseteq DOMAIN captured.wins

\* A restore nothing interferes with is on its way, then there, then known to be there.
OnItsWay ==
    (moves = 0 /\ faults = 0 /\ DOMAIN snapshot.wins \subseteq Open /\ Steady(snapshot)) =>
          /\ tries = 0
          /\ step = "exec" => OnTrack(snapshot, desk, commands)
          /\ step = "look" => /\ OnTrack(snapshot, desk, <<>>)
                              /\ captured.ws = desk.ws /\ captured.win = desk.win
          /\ step \in {"back", "judge"} => Agrees(snapshot, captured)
          /\ step = "done" => verified

WorkspaceInv == InShape /\ CaptureHolds /\ VerdictHolds /\ OnItsWay
-----------------------------------------------------------------------------
(* What captures tell *)

LEMMA SnapshotsSaved ==
    ASSUME NEW s \in Snapshots
    PROVE  Saved(s) /\ View(s) /\ Nothing \notin DOMAIN s.wins
<1>1. Saved(s) /\ Nothing \notin Windows
  BY WorkspaceAssumption
<1>2. View(s)
  BY <1>1 DEF Saved
<1> QED
  BY <1>1, <1>2 DEF View

LEMMA SameFrames ==
    ASSUME NEW d, NEW e, e.wins = d.wins, NEW k
    PROVE  Matches(k, d) => Matches(k, e)
<1>1. \A w : Frame(e, w) = Frame(d, w)
  BY DEF Frame, Tiled, In
<1> QED
  BY <1>1 DEF Matches

LEMMA CaptureMade ==
    ASSUME NEW d, NEW at, NEW counted, Desktop(d), NEW ws \in {d.ws, Nothing}, NEW win \in {d.win, Nothing},
           NEW k, k = [wins |-> [w \in DOMAIN d.wins |-> [d.wins[w] EXCEPT !.frame = Nothing]],
                       ws |-> ws, win |-> win, at |-> at, faults |-> counted]
    PROVE  /\ Capture(k) /\ Matches(k, d) /\ CanFocus(k, d) /\ Focuses(k, d)
           /\ k.ws = ws /\ k.win = win /\ k.at = at /\ k.faults = counted
<1>1. View(d)
  BY DEF Desktop
<1>2. \A w \in DOMAIN d.wins :
         [d.wins[w] EXCEPT !.frame = Nothing] = [ws |-> d.wins[w].ws, layout |-> d.wins[w].layout, frame |-> Nothing]
  BY <1>1 DEF View
<1>3. /\ k.wins = [w \in DOMAIN d.wins |-> [ws |-> d.wins[w].ws, layout |-> d.wins[w].layout, frame |-> Nothing]]
      /\ k.ws = ws /\ k.win = win /\ k.at = at /\ k.faults = counted
  BY <1>2
<1>4. /\ DOMAIN k.wins = DOMAIN d.wins
      /\ \A w \in DOMAIN d.wins :
            k.wins[w] = [ws |-> d.wins[w].ws, layout |-> d.wins[w].layout, frame |-> Nothing]
  BY <1>3
<1>5. \A w \in DOMAIN d.wins :
         /\ k.wins[w].ws = d.wins[w].ws /\ k.wins[w].layout = d.wins[w].layout
         /\ k.wins[w].frame = Nothing
  BY <1>4
<1>6. Matches(k, d)
  BY <1>4, <1>5 DEF Matches
<1>7. Focuses(k, d)
  BY <1>3 DEF Focuses
<1>8. k.wins = [w \in DOMAIN k.wins |-> [ws |-> k.wins[w].ws, layout |-> k.wins[w].layout,
                                         frame |-> k.wins[w].frame]]
  BY <1>3, <1>4, <1>5
<1>9. DOMAIN k.wins \subseteq Windows
  BY <1>1, <1>4 DEF View
<1>10. CanFocus(k, d)
  <2>1. d.win # Nothing => d.win \in DOMAIN d.wins /\ d.wins[d.win].ws = d.ws
    BY DEF Desktop, In
  <2> QED
    BY <1>3, <2>1 DEF CanFocus
<1>11. k = [wins |-> k.wins, ws |-> k.ws, win |-> k.win, at |-> k.at, faults |-> k.faults]
  BY <1>3
<1> QED
  BY <1>3, <1>6, <1>7, <1>8, <1>9, <1>10, <1>11 DEF Capture

\* Frames read into a capture change nothing else in it.
WithFrames(k, d, S, counted) ==
    [wins |-> [w \in DOMAIN k.wins |->
                 IF w \in S THEN [k.wins[w] EXCEPT !.frame = Frame(d, w)] ELSE k.wins[w]],
     ws |-> k.ws, win |-> k.win, at |-> k.at, faults |-> counted]

LEMMA CaptureLooked ==
    ASSUME NEW k, NEW d, NEW S, NEW counted, Capture(k), NEW e, e = WithFrames(k, d, S, counted)
    PROVE  /\ Capture(e) /\ e.ws = k.ws /\ e.win = k.win /\ e.at = k.at /\ e.faults = counted
           /\ DOMAIN e.wins = DOMAIN k.wins
           /\ \A w \in DOMAIN k.wins :
                 /\ e.wins[w].ws = k.wins[w].ws /\ e.wins[w].layout = k.wins[w].layout
                 /\ e.wins[w].frame = IF w \in S THEN Frame(d, w) ELSE k.wins[w].frame
<1>1. /\ k = [wins |-> k.wins, ws |-> k.ws, win |-> k.win, at |-> k.at, faults |-> k.faults]
      /\ \A w \in DOMAIN k.wins :
            k.wins[w] = [ws |-> k.wins[w].ws, layout |-> k.wins[w].layout, frame |-> k.wins[w].frame]
  BY DEF Capture
<1>2. /\ e.wins = [w \in DOMAIN k.wins |->
                      IF w \in S THEN [k.wins[w] EXCEPT !.frame = Frame(d, w)] ELSE k.wins[w]]
      /\ e.ws = k.ws /\ e.win = k.win /\ e.at = k.at /\ e.faults = counted
      /\ e = [wins |-> e.wins, ws |-> e.ws, win |-> e.win, at |-> e.at, faults |-> e.faults]
  BY <1>1 DEF WithFrames
<1>3. /\ DOMAIN e.wins = DOMAIN k.wins
      /\ \A w \in DOMAIN k.wins :
            e.wins[w] = IF w \in S THEN [k.wins[w] EXCEPT !.frame = Frame(d, w)] ELSE k.wins[w]
  BY <1>2
<1>4. ASSUME NEW w \in DOMAIN k.wins
      PROVE  e.wins[w] = [ws |-> k.wins[w].ws, layout |-> k.wins[w].layout,
                          frame |-> IF w \in S THEN Frame(d, w) ELSE k.wins[w].frame]
  <2>1. CASE w \in S
    <3>1. e.wins[w] = [k.wins[w] EXCEPT !.frame = Frame(d, w)]
      BY <1>3, <2>1
    <3> QED
      BY <1>1, <2>1, <3>1
  <2>2. CASE w \notin S
    BY <1>1, <1>3, <2>2
  <2> QED
    BY <2>1, <2>2
<1>5. \A w \in DOMAIN k.wins :
         /\ e.wins[w].ws = k.wins[w].ws /\ e.wins[w].layout = k.wins[w].layout
         /\ e.wins[w].frame = IF w \in S THEN Frame(d, w) ELSE k.wins[w].frame
  <2> SUFFICES ASSUME NEW w \in DOMAIN k.wins
               PROVE  /\ e.wins[w].ws = k.wins[w].ws /\ e.wins[w].layout = k.wins[w].layout
                      /\ e.wins[w].frame = IF w \in S THEN Frame(d, w) ELSE k.wins[w].frame
    OBVIOUS
  <2>1. PICK frame : frame = IF w \in S THEN Frame(d, w) ELSE k.wins[w].frame
    OBVIOUS
  <2>2. e.wins[w] = [ws |-> k.wins[w].ws, layout |-> k.wins[w].layout, frame |-> frame]
    BY <1>4, <2>1, Zenon
  <2> QED
    BY ONLY <2>1, <2>2
<1>6. e.wins = [w \in DOMAIN e.wins |-> e.wins[w]]
  BY <1>2, <1>3
<1>7. e.wins = [w \in DOMAIN e.wins |-> [ws |-> e.wins[w].ws, layout |-> e.wins[w].layout,
                                         frame |-> e.wins[w].frame]]
  <2>1. \A w \in DOMAIN e.wins :
           e.wins[w] = [ws |-> e.wins[w].ws, layout |-> e.wins[w].layout, frame |-> e.wins[w].frame]
    BY <1>3, <1>4
  <2> QED
    BY ONLY <1>6, <2>1
<1>8. DOMAIN e.wins \subseteq Windows
  BY <1>3 DEF Capture
<1>9. Capture(e)
  BY <1>2, <1>7, <1>8 DEF Capture
<1> QED
  BY <1>2, <1>3, <1>5, <1>9

\* A failure is counted.
LEMMA FaultCounted ==
    ASSUME faults \in Nat, NEW failed, FaultIf(failed)
    PROVE  /\ faults' \in Nat /\ faults <= faults' /\ (faults' = 0 => faults = 0)
           /\ faults' = IF failed THEN faults + 1 ELSE faults
  BY DEF FaultIf, Fault

\* A desktop a plan has been carried out on agrees with the snapshot once it is looked at.
LEMMA ArrivedAgrees ==
    ASSUME NEW s, NEW d, NEW k, Saved(s), OnTrack(s, d, <<>>), Matches(k, d), k.ws = d.ws, k.win = d.win,
           DOMAIN s.wins \subseteq DOMAIN d.wins, Nothing \notin DOMAIN d.wins,
           \A w \in DOMAIN s.wins : s.wins[w].frame # Nothing => k.wins[w].frame = Frame(d, w)
    PROVE  Agrees(s, k)
<1>1. /\ Elements(<<>>) = {}
      /\ \A do, w : ~Waits(<<>>, do, w)
      /\ \A ws : ~LastFocus(<<>>, ws)
  <2>1. 1..Len(<<>>) = {}
    OBVIOUS
  <2>2. Elements(<<>>) = {}
    BY <2>1 DEF Elements
  <2> QED
    BY <2>1, <2>2 DEF Waits, LastFocus
<1>2. ASSUME NEW w \in DOMAIN s.wins
      PROVE  /\ k.wins[w].ws = s.wins[w].ws
             /\ s.wins[w].layout \in {Nothing, k.wins[w].layout}
             /\ s.wins[w].frame # Nothing => k.wins[w].layout = "floating" /\ k.wins[w].frame = s.wins[w].frame
  <2>1. /\ d.wins[w].ws = s.wins[w].ws
        /\ s.wins[w].layout \in {Nothing, d.wins[w].layout}
        /\ s.wins[w].frame # Nothing => d.wins[w].layout = "floating" /\ d.wins[w].frame = s.wins[w].frame
    BY <1>1 DEF OnTrack, PlaceOnTrack
  <2>2. k.wins[w].ws = d.wins[w].ws /\ k.wins[w].layout = d.wins[w].layout
    BY DEF Matches
  <2>3. s.wins[w].frame # Nothing => k.wins[w].frame = s.wins[w].frame
    BY <2>1 DEF Frame
  <2> QED
    BY <2>1, <2>2, <2>3
<1>3. s.ws \in {Nothing, k.ws}
  <2>1. FocusOnTrack(s, d, <<>>)
    BY DEF OnTrack
  <2> QED
    BY <1>1, <2>1 DEF FocusOnTrack, Saved
<1>4. s.win \in DOMAIN k.wins => k.win = s.win
  <2>1. FocusOnTrack(s, d, <<>>)
    BY DEF OnTrack
  <2>2. s.win \in DOMAIN k.wins => s.win # Nothing
    BY DEF Matches
  <2> QED
    BY <2>1, <2>2 DEF FocusOnTrack
<1>5. There(s, k) \subseteq DOMAIN s.wins
  BY DEF There
<1> QED
  BY <1>2, <1>3, <1>4, <1>5 DEF Agrees, NeedsFrame
-----------------------------------------------------------------------------
(* The invariant is kept *)

LEMMA InitWorkspaceInv == InitRestore => WorkspaceInv
<1> SUFFICES ASSUME InitRestore PROVE WorkspaceInv
  OBVIOUS
<1>1. /\ desk \in Desktops /\ snapshot \in Snapshots /\ step = "plan" /\ commands = <<>>
      /\ tries = 0 /\ verified = FALSE /\ moves = 0 /\ faults = 0
  BY DEF InitRestore
<1>2. Desktop(desk)
  BY <1>1, WorkspaceAssumption
<1>3. commands \in Seq(Command(snapshot))
  BY <1>1
<1>4. InShape
  BY <1>1, <1>2, <1>3 DEF InShape
<1> QED
  BY <1>1, <1>4 DEF WorkspaceInv, CaptureHolds, VerdictHolds, OnItsWay, Looks

LEMMA PlanKeeps == WorkspaceInv /\ Plan => WorkspaceInv'
<1> SUFFICES ASSUME WorkspaceInv, Plan PROVE WorkspaceInv'
  OBVIOUS
<1>1. /\ \/ step' = "exec" /\ commands' = PlanOf(snapshot, desk, TRUE) /\ faults' = faults
         \/ step' = "failed" /\ commands' = commands /\ faults' = faults + 1
      /\ UNCHANGED <<desk, snapshot, tries, captured, verified, moves>>
      /\ step = "plan"
  BY DEF Plan, Fault
<1>2. InShape /\ OnItsWay
  BY DEF WorkspaceInv
<1>3. Saved(snapshot) /\ View(snapshot) /\ Desktop(desk) /\ DOMAIN desk.wins \subseteq Windows
  BY <1>2, SnapshotsSaved DEF InShape, Desktop, View
<1>4. PlanOf(snapshot, desk, TRUE) \in Seq(Command(snapshot))
  BY <1>3, PlanElements
<1>5. InShape'
  <2>1. faults \in Nat /\ faults' \in Nat
    <3>1. faults' = faults \/ faults' = faults + 1
      BY <1>1, Zenon
    <3> QED
      BY <1>2, <3>1 DEF InShape
  <2>2. commands' \in Seq(Command(snapshot))
    <3>1. commands \in Seq(Command(snapshot))
      BY <1>2 DEF InShape
    <3> QED
      BY ONLY <1>1, <1>4, <3>1, Zenon
  <2>3. /\ desk' = desk /\ snapshot' = snapshot /\ moves' = moves /\ verified' = verified
    BY <1>1
  <2> QED
    BY <1>2, <2>1, <2>2, <2>3 DEF InShape
<1>6. (DOMAIN snapshot.wins \subseteq Open /\ Steady(snapshot)) =>
         OnTrack(snapshot, desk, PlanOf(snapshot, desk, TRUE))
  BY <1>3, PlanOnTrack DEF Open
<1>7. OnItsWay'
  <2>1. faults' = faults + 1 => faults' # 0
    BY <1>2 DEF InShape
  <2> QED
    BY <1>1, <1>2, <1>6, <2>1 DEF OnItsWay, Open
<1> QED
  BY <1>1, <1>5, <1>7 DEF WorkspaceInv, CaptureHolds, VerdictHolds, Looks

LEMMA ExecuteKeeps == WorkspaceInv /\ Execute => WorkspaceInv'
<1> SUFFICES ASSUME WorkspaceInv, Execute PROVE WorkspaceInv'
  OBVIOUS
<1> DEFINE c == Head(commands)
<1>1. /\ step = "exec" /\ commands # <<>>
      /\ UNCHANGED <<snapshot, tries, captured, verified, moves>>
      /\ \/ /\ desk' \in Run(desk, c)
            /\ commands' = Tail(commands) /\ step' = step /\ UNCHANGED faults
         \/ /\ c.do = "focusWin" /\ FaultIf(Run(desk, c) # {})
            /\ commands' = Tail(commands) /\ step' = step /\ UNCHANGED desk
         \/ /\ step' = "failed" /\ FaultIf(Run(desk, c) # {})
            /\ desk' \in {desk} \cup Run(desk, c) /\ UNCHANGED commands
  BY DEF Execute
<1>2. InShape /\ OnItsWay /\ faults \in Nat
  BY DEF WorkspaceInv, InShape
<1>3. /\ Saved(snapshot) /\ Desktop(desk) /\ commands \in Seq(Command(snapshot))
      /\ Nothing \notin DOMAIN snapshot.wins
  BY <1>2, SnapshotsSaved DEF InShape
<1>4. /\ Tail(commands) \in Seq(Command(snapshot))
      /\ c \in Elements(commands)
  BY <1>1, <1>3, TailParts
<1> HIDE DEF c
<1>5. Desktop(desk') /\ DOMAIN desk'.wins = DOMAIN desk.wins
  BY <1>1, <1>3, RunDoes
<1>8. faults' \in Nat /\ (faults' = 0 => faults = 0)
  BY <1>1, <1>2, FaultCounted
<1>6. InShape'
  BY <1>1, <1>2, <1>4, <1>5, <1>8 DEF InShape
<1>7. OnItsWay'
  <2>1. CASE /\ desk' \in Run(desk, c)
             /\ commands' = Tail(commands) /\ step' = step /\ UNCHANGED faults
    <3>1. ASSUME OnTrack(snapshot, desk, commands), DOMAIN snapshot.wins \subseteq DOMAIN desk.wins
          PROVE  OnTrack(snapshot, desk', Tail(commands))
      BY <1>1, <1>3, <2>1, <3>1, RunOnTrack DEF c
    <3> QED
      BY <1>1, <1>2, <1>5, <2>1, <3>1 DEF OnItsWay, Open
  <2>2. CASE /\ c.do = "focusWin" /\ FaultIf(Run(desk, c) # {})
             /\ commands' = Tail(commands) /\ step' = step /\ UNCHANGED desk
    <3>0. SUFFICES ASSUME faults' = 0 PROVE OnItsWay'
      BY DEF OnItsWay
    <3>1. c.win \notin DOMAIN desk.wins
      <4>1. Run(desk, c) = {}
        <5>1. faults' = IF Run(desk, c) # {} THEN faults + 1 ELSE faults
          BY <1>2, <2>2, FaultCounted
        <5> QED
          BY <1>2, <3>0, <5>1
      <4> QED
        BY <2>2, <4>1 DEF Run
    <3>2. OnTrack(snapshot, desk, commands) => ~(DOMAIN snapshot.wins \subseteq DOMAIN desk.wins)
      BY <1>3, <1>4, <2>2, <3>1 DEF OnTrack, RightCommand, Saved
    <3> QED
      BY <1>1, <1>2, <1>8, <2>2, <3>2 DEF OnItsWay, Open
  <2>3. CASE step' = "failed"
    BY <1>1, <1>2, <1>5, <1>8, <2>3 DEF OnItsWay, Open
  <2> QED
    BY <1>1, <2>1, <2>2, <2>3
<1> QED
  BY <1>1, <1>6, <1>7 DEF WorkspaceInv, CaptureHolds, VerdictHolds, Looks

LEMMA ListKeeps == WorkspaceInv /\ List => WorkspaceInv'
<1> SUFFICES ASSUME WorkspaceInv, List PROVE WorkspaceInv'
  OBVIOUS
<1>1. /\ step = "exec" /\ commands = <<>>
      /\ UNCHANGED <<desk, snapshot, commands, tries, verified, moves>>
  BY DEF List
<1>2. InShape /\ OnItsWay
  BY DEF WorkspaceInv
<1>3. Desktop(desk) /\ moves \in Nat /\ faults \in Nat
  BY <1>2 DEF InShape
<1>4. CASE step' = "failed" /\ faults' = faults + 1
  <2>1. faults' \in Nat /\ faults' # 0
    BY <1>3, <1>4
  <2> QED
    BY <1>1, <1>2, <1>4, <2>1 DEF WorkspaceInv, InShape, CaptureHolds, VerdictHolds, OnItsWay, Looks
<1>5. ASSUME step' = "look", NEW ws \in {desk.ws, Nothing}, NEW win \in {desk.win, Nothing},
             FaultIf(ws # desk.ws \/ win # desk.win),
             captured' = [wins |-> [w \in Open |-> [desk.wins[w] EXCEPT !.frame = Nothing]],
                          ws |-> ws, win |-> win, at |-> moves, faults |-> faults']
      PROVE  WorkspaceInv'
  <2>1. /\ faults' \in Nat /\ (faults' = 0 => faults = 0)
        /\ faults' = IF ws # desk.ws \/ win # desk.win THEN faults + 1 ELSE faults
    BY <1>3, <1>5, FaultCounted
  <2>2. faults' = 0 => ws = desk.ws /\ win = desk.win
    BY <1>3, <2>1
  <2>3. InShape'
    BY <1>1, <1>2, <2>1 DEF InShape
  <2>4. PICK n : n = faults'
    OBVIOUS
  <2>5. PICK k : /\ k = [wins |-> [w \in DOMAIN desk.wins |-> [desk.wins[w] EXCEPT !.frame = Nothing]],
                         ws |-> ws, win |-> win, at |-> moves, faults |-> n]
                 /\ captured' = k
    BY <1>5, <2>4 DEF Open
  <2>6. /\ Capture(k) /\ Matches(k, desk) /\ CanFocus(k, desk) /\ Focuses(k, desk)
        /\ k.ws = ws /\ k.win = win /\ k.at = moves /\ k.faults = n
    BY <1>3, <2>5, CaptureMade, SMTT(60)
  <2>7. CaptureHolds'
    <3>1. /\ Capture(captured') /\ captured'.at = moves /\ Matches(captured', desk)
          /\ CanFocus(captured', desk) /\ Focuses(captured', desk) /\ captured'.faults = faults'
      BY <2>4, <2>5, <2>6, Zenon
    <3>2. /\ desk' = desk /\ moves' = moves /\ moves \in Nat /\ moves <= moves
          /\ faults' \in Nat /\ faults' <= faults'
      BY <1>1, <1>3, <2>1
    <3> QED
      BY <3>1, <3>2, Zenon DEF CaptureHolds
  <2>8. OnItsWay'
    <3>1. captured'.ws = ws /\ captured'.win = win
      BY <2>5, <2>6
    <3> QED
      BY <1>1, <1>2, <1>5, <2>1, <2>2, <3>1 DEF OnItsWay, Open
  <2> QED
    BY <1>1, <1>5, <2>3, <2>7, <2>8 DEF WorkspaceInv, VerdictHolds
<1> QED
  BY <1>4, <1>5 DEF List, Fault

LEMMA LookKeeps == WorkspaceInv /\ Look => WorkspaceInv'
<1> SUFFICES ASSUME WorkspaceInv, Look PROVE WorkspaceInv'
  OBVIOUS
<1>1. PICK read \in SUBSET (Framed \cap Open) :
        /\ FaultIf(read # Framed \cap Open)
        /\ captured' = [wins |-> [w \in DOMAIN captured.wins |->
                            IF w \in read THEN [captured.wins[w] EXCEPT !.frame = Frame(desk, w)] ELSE captured.wins[w]],
                        ws |-> captured.ws, win |-> captured.win, at |-> captured.at, faults |-> faults']
        /\ \/ step' = "judge" /\ desk' = desk
           \/ step' = "back" /\ \E ws : desk' \in Focused(desk, ws)
  BY DEF Look
<1>2. step = "look" /\ UNCHANGED <<snapshot, commands, tries, verified, moves>>
  BY DEF Look
<1>3. InShape /\ CaptureHolds /\ OnItsWay
  BY DEF WorkspaceInv
<1>4. /\ Desktop(desk) /\ View(desk) /\ Saved(snapshot) /\ Nothing \notin DOMAIN desk.wins
      /\ moves \in Nat /\ faults \in Nat
  BY <1>3, SnapshotsSaved, WorkspaceAssumption DEF InShape, Desktop, View
<1>5. Desktop(desk') /\ desk'.wins = desk.wins
  BY <1>1, <1>4, FocusedDesktop
<1>6. /\ faults' \in Nat /\ (faults' = 0 => faults = 0)
      /\ faults' = IF read # Framed \cap Open THEN faults + 1 ELSE faults
  BY <1>1, <1>4, FaultCounted
<1>7. InShape'
  BY <1>2, <1>3, <1>5, <1>6 DEF InShape
<1>8. /\ Capture(captured) /\ captured.at \in Nat /\ captured.at <= moves
      /\ moves = captured.at => /\ Matches(captured, desk) /\ CanFocus(captured, desk)
                                /\ Focuses(captured, desk)
  BY <1>2, <1>3 DEF CaptureHolds, Looks
<1>9. PICK e, n : e = captured' /\ n = faults'
  OBVIOUS
<1>10. /\ Capture(e) /\ e.ws = captured.ws /\ e.win = captured.win
       /\ e.at = captured.at /\ e.faults = n /\ DOMAIN e.wins = DOMAIN captured.wins
       /\ \A w \in DOMAIN captured.wins :
             /\ e.wins[w].ws = captured.wins[w].ws /\ e.wins[w].layout = captured.wins[w].layout
             /\ e.wins[w].frame = IF w \in read THEN Frame(desk, w) ELSE captured.wins[w].frame
  <2>1. e = WithFrames(captured, desk, read, n)
    BY <1>1, <1>9 DEF WithFrames
  <2> QED
    BY <1>8, <2>1, CaptureLooked
<1>11. ASSUME moves = captured.at PROVE Matches(e, desk) /\ CanFocus(e, desk) /\ Focuses(e, desk)
  <2>1. Matches(e, desk)
    BY <1>8, <1>10, <1>11 DEF Matches
  <2> QED
    BY <1>8, <1>10, <1>11, <2>1 DEF CanFocus, Focuses
<1>12. CaptureHolds'
  <2>1. Capture(captured') /\ captured'.at = captured.at /\ captured'.faults = faults'
    BY <1>9, <1>10
  <2>2. ASSUME moves = captured.at
        PROVE  /\ Matches(captured', desk') /\ CanFocus(captured', desk')
               /\ step' # "back" => Focuses(captured', desk')
    <3>1. PICK d : d = desk'
      OBVIOUS
    <3>2. Matches(e, d)
      BY <1>5, <1>11, <2>2, <3>1, SameFrames
    <3>3. CanFocus(e, d)
      BY <1>5, <1>11, <2>2, <3>1 DEF CanFocus
    <3>4. step' # "back" => Focuses(e, d)
      BY <1>1, <1>11, <2>2, <3>1 DEF Focuses
    <3> QED
      BY <1>9, <3>1, <3>2, <3>3, <3>4
  <2>3. faults' <= faults' /\ faults' \in Nat
    BY <1>6
  <2> QED
    BY <1>1, <1>2, <1>8, <2>1, <2>2, <2>3 DEF CaptureHolds
<1>13. ASSUME moves = 0, faults' = 0, DOMAIN snapshot.wins \subseteq Open, Steady(snapshot)
       PROVE  tries = 0 /\ Agrees(snapshot, e)
  <2>1. /\ tries = 0 /\ OnTrack(snapshot, desk, <<>>)
        /\ captured.ws = desk.ws /\ captured.win = desk.win
    BY <1>2, <1>3, <1>6, <1>13 DEF OnItsWay
  <2>2. moves = captured.at
    BY <1>8, <1>13
  <2>3. read = Framed \cap Open
    BY <1>4, <1>6, <1>13
  <2>4. DOMAIN captured.wins = DOMAIN desk.wins
    BY <1>8, <2>2 DEF Matches
  <2>5. ASSUME NEW w \in DOMAIN snapshot.wins, snapshot.wins[w].frame # Nothing
        PROVE  e.wins[w].frame = Frame(desk, w)
    <3>1. w \in read /\ w \in DOMAIN captured.wins
      BY <1>13, <2>3, <2>4, <2>5 DEF Framed, Open
    <3> QED
      BY <1>10, <3>1
  <2>6. DOMAIN snapshot.wins \subseteq DOMAIN desk.wins
    BY <1>13 DEF Open
  <2>7. Agrees(snapshot, e)
    BY <1>4, <1>10, <1>11, <2>1, <2>2, <2>5, <2>6, ArrivedAgrees
  <2> QED
    BY <2>1, <2>7
<1>14. OnItsWay'
  BY <1>1, <1>2, <1>3, <1>5, <1>9, <1>13 DEF OnItsWay, Open
<1> QED
  BY <1>1, <1>7, <1>12, <1>14 DEF WorkspaceInv, VerdictHolds

\* What is left of the focus: the window's, the workspace's, or what it was.
LEMMA GivenBackFocus ==
    ASSUME Desktop(desk), NEW e \in GivenBack
    PROVE  /\ Desktop(e) /\ e.wins = desk.wins
           /\ CanFocus(captured, desk) => Focuses(captured, e)
<1>1. View(desk)
  BY DEF Desktop
<1>2. CASE captured.win # Nothing /\ captured.win \in Open
  <2> DEFINE c == Cmd("focusWin", captured.win, Nothing)
  <2>1. c.do = "focusWin" /\ c.win = captured.win
    BY CmdFields
  <2>2. e \in Run(desk, c)
    BY <1>2 DEF GivenBack
  <2>3. c.win \in DOMAIN desk.wins
    BY <1>2, <2>1 DEF Open
  <2> HIDE DEF c
  <2>4. e = [desk EXCEPT !.ws = desk.wins[c.win].ws, !.win = c.win]
    BY <2>1, <2>2, <2>3 DEF Run
  <2>5. e.wins = desk.wins
    BY <1>1, <2>4 DEF View
  <2>6. Desktop(e) /\ e.win = captured.win /\ e.ws = desk.wins[captured.win].ws
    BY <2>1, <2>2, RunDoes
  <2> QED
    BY <1>2, <2>5, <2>6 DEF CanFocus, Focuses
<1>3. CASE captured.win # Nothing /\ captured.win \notin Open
  <2>1. e = desk
    BY <1>3 DEF GivenBack
  <2> QED
    BY <1>3, <2>1 DEF CanFocus, Open
<1>4. CASE captured.win = Nothing /\ captured.ws # Nothing
  <2>1. e \in Focused(desk, captured.ws)
    BY <1>4 DEF GivenBack
  <2>2. Desktop(e) /\ e.wins = desk.wins /\ e.ws = captured.ws
    BY <1>1, <2>1, FocusedDesktop
  <2> QED
    BY <1>4, <2>2 DEF Focuses
<1>5. CASE captured.win = Nothing /\ captured.ws = Nothing
  <2>1. e = desk
    BY <1>5 DEF GivenBack
  <2> QED
    BY <1>5, <2>1 DEF Focuses
<1> QED
  BY <1>2, <1>3, <1>4, <1>5

LEMMA BackKeeps == WorkspaceInv /\ Back => WorkspaceInv'
<1> SUFFICES ASSUME WorkspaceInv, Back PROVE WorkspaceInv'
  OBVIOUS
<1>1. /\ step = "back" /\ step' = "judge"
      /\ UNCHANGED <<snapshot, commands, tries, captured, verified, moves>>
      /\ \/ desk' \in GivenBack /\ faults' = faults
         \/ desk' = desk /\ faults' = faults + 1
  BY DEF Back, Fault
<1>2. InShape /\ CaptureHolds /\ OnItsWay /\ faults \in Nat /\ Desktop(desk)
  BY DEF WorkspaceInv, InShape
<1>3. /\ Capture(captured) /\ captured.at \in Nat /\ captured.at <= moves
      /\ captured.faults \in Nat /\ captured.faults <= faults
      /\ moves = captured.at => Matches(captured, desk) /\ CanFocus(captured, desk)
  BY <1>1, <1>2 DEF CaptureHolds, Looks
<1>4. faults' \in Nat /\ (faults' = 0 => faults = 0) /\ faults <= faults'
  BY <1>1, <1>2
<1>5. Desktop(desk') /\ desk'.wins = desk.wins
  BY <1>1, <1>2, GivenBackFocus
<1>6. InShape'
  BY <1>1, <1>2, <1>4, <1>5 DEF InShape
<1>7. CaptureHolds'
  <2>1. ASSUME moves = captured.at
        PROVE  Matches(captured, desk') /\ CanFocus(captured, desk')
    BY <1>3, <1>5, <2>1, SameFrames DEF CanFocus
  <2>2. ASSUME moves = captured.at, faults' = captured.faults
        PROVE  Focuses(captured, desk')
    <3>1. CASE desk' \in GivenBack
      BY <1>2, <1>3, <2>2, <3>1, GivenBackFocus
    <3>2. CASE desk' = desk /\ faults' = faults + 1
      BY <1>2, <1>3, <2>2, <3>2
    <3> QED
      BY <1>1, <3>1, <3>2
  <2>3. captured.faults <= faults'
    BY <1>1, <1>2, <1>3
  <2> QED
    BY <1>1, <1>3, <2>1, <2>2, <2>3 DEF CaptureHolds
<1>8. OnItsWay'
  BY <1>1, <1>2, <1>4, <1>5 DEF OnItsWay, Open
<1> QED
  BY <1>1, <1>6, <1>7, <1>8 DEF WorkspaceInv, VerdictHolds

LEMMA JudgeKeeps == WorkspaceInv /\ Judge => WorkspaceInv'
<1> SUFFICES ASSUME WorkspaceInv, Judge PROVE WorkspaceInv'
  OBVIOUS
<1> DEFINE rest == PlanOf(snapshot, captured, FALSE)
           right == rest = <<>> /\ Skipped(snapshot, captured) = {}
<1>1. /\ step = "judge" /\ verified' = right
      /\ IF right \/ tries = Retries
         THEN step' = "done" /\ UNCHANGED <<tries, commands>>
         ELSE step' = "exec" /\ tries' = tries + 1 /\ commands' = rest
      /\ UNCHANGED <<desk, snapshot, captured, moves, faults>>
  BY DEF Judge
<1>2. InShape /\ CaptureHolds /\ OnItsWay
  BY DEF WorkspaceInv
<1>3. View(snapshot) /\ commands \in Seq(Command(snapshot)) /\ moves \in Nat
  BY <1>2, SnapshotsSaved DEF InShape
<1>4. /\ Capture(captured) /\ captured.at \in Nat /\ captured.at <= moves
      /\ captured.faults \in Nat /\ captured.faults <= faults
      /\ DOMAIN captured.wins \subseteq Windows
      /\ moves = captured.at => /\ Matches(captured, desk) /\ CanFocus(captured, desk)
                                /\ faults = captured.faults => Focuses(captured, desk)
  BY <1>1, <1>2 DEF CaptureHolds, Looks, Capture
<1>5. rest \in Seq(Command(snapshot))
  BY <1>3, <1>4, PlanElements
<1>6. right <=> Agrees(snapshot, captured) /\ DOMAIN snapshot.wins \subseteq DOMAIN captured.wins
  <2>1. rest = <<>> <=> Agrees(snapshot, captured)
    BY <1>3, <1>4, NothingLeft
  <2> QED
    BY <2>1 DEF Skipped
<1>7. verified' \in BOOLEAN
  BY <1>1
<1> HIDE DEF rest, right
<1>8. InShape'
  BY <1>1, <1>2, <1>5, <1>7 DEF InShape
<1>9. CaptureHolds'
  BY <1>1, <1>4 DEF CaptureHolds
<1>10. VerdictHolds'
  BY <1>1, <1>6 DEF VerdictHolds
<1>11. OnItsWay'
  <2>1. ASSUME moves = 0, faults = 0, DOMAIN snapshot.wins \subseteq Open, Steady(snapshot)
        PROVE  tries = 0 /\ right
    <3>1. tries = 0 /\ Agrees(snapshot, captured)
      BY <1>1, <1>2, <2>1 DEF OnItsWay
    <3>2. DOMAIN captured.wins = DOMAIN desk.wins
      BY <1>4, <2>1 DEF Matches
    <3> QED
      BY <1>6, <2>1, <3>1, <3>2 DEF Open
  <2> QED
    BY <1>1, <1>2, <2>1 DEF OnItsWay, Open
<1> QED
  BY <1>8, <1>9, <1>10, <1>11 DEF WorkspaceInv

\* What the user does leaves a desktop behind it.
LEMMA InterfereKeeps == WorkspaceInv /\ Interfere => WorkspaceInv'
<1> SUFFICES ASSUME WorkspaceInv, Interfere PROVE WorkspaceInv'
  OBVIOUS
<1>1. /\ step \notin {"done", "failed"} /\ moves' = moves + 1
      /\ UNCHANGED <<snapshot, step, commands, tries, captured, verified, faults>>
      /\ \/ \E w : desk' \in Refocus([desk EXCEPT !.wins = [v \in Open \ {w} |-> desk.wins[v]]])
         \/ \E c : desk' \in Run(desk, c)
  BY DEF Interfere
<1>2. InShape /\ CaptureHolds
  BY DEF WorkspaceInv
<1>3. Desktop(desk) /\ View(desk) /\ moves \in Nat
  BY <1>2 DEF InShape, Desktop
<1>4. Desktop(desk')
  <2>1. CASE \E w : desk' \in Refocus([desk EXCEPT !.wins = [v \in Open \ {w} |-> desk.wins[v]]])
    <3>1. PICK w : desk' \in Refocus([desk EXCEPT !.wins = [v \in Open \ {w} |-> desk.wins[v]]])
      BY <2>1
    <3>2. PICK d : d = [desk EXCEPT !.wins = [v \in Open \ {w} |-> desk.wins[v]]]
      OBVIOUS
    <3>3. /\ d = [wins |-> [v \in Open \ {w} |-> desk.wins[v]], ws |-> desk.ws, win |-> desk.win]
          /\ DOMAIN desk.wins \subseteq Windows
          /\ \A v \in DOMAIN desk.wins :
                desk.wins[v] = [ws |-> desk.wins[v].ws, layout |-> desk.wins[v].layout,
                                frame |-> desk.wins[v].frame]
      BY <1>3, <3>2 DEF View
    <3>4. /\ d.wins = [v \in Open \ {w} |-> desk.wins[v]] /\ d.ws = desk.ws /\ d.win = desk.win
          /\ DOMAIN d.wins = Open \ {w}
      BY <3>3
    <3>5. \A v \in DOMAIN d.wins :
             d.wins[v] = [ws |-> d.wins[v].ws, layout |-> d.wins[v].layout, frame |-> d.wins[v].frame]
      BY <3>3, <3>4 DEF Open
    <3>6. d.wins = [v \in DOMAIN d.wins |-> d.wins[v]]
      BY <3>4
    <3>7. d.wins = [v \in DOMAIN d.wins |-> [ws |-> d.wins[v].ws, layout |-> d.wins[v].layout,
                                            frame |-> d.wins[v].frame]]
      BY ONLY <3>5, <3>6
    <3>8. View(d)
      BY <3>3, <3>4, <3>7 DEF View, Open
    <3> QED
      BY <3>1, <3>2, <3>8, RefocusedDesktop
  <2>2. CASE \E c : desk' \in Run(desk, c)
    BY <1>3, <2>2, RunDoes
  <2> QED
    BY <1>1, <2>1, <2>2
<1>5. InShape'
  <2>1. moves' \in Nat
    BY <1>1, <1>3
  <2>2. faults' \in Nat
    BY <1>1, <1>2 DEF InShape
  <2>3. snapshot' = snapshot /\ commands' = commands /\ verified' = verified
    BY <1>1
  <2>4. snapshot \in Snapshots /\ commands \in Seq(Command(snapshot)) /\ verified \in BOOLEAN
    BY <1>2 DEF InShape
  <2> QED
    BY <1>4, <2>1, <2>3, <2>4, <2>2, Zenon DEF InShape
<1>6. CaptureHolds'
  <2>1. captured.at <= moves /\ captured.at \in Nat => moves + 1 # captured.at /\ captured.at <= moves + 1
    BY <1>3
  <2> QED
    BY <1>1, <1>2, <2>1 DEF CaptureHolds
<1>7. moves' # 0
  BY <1>1, <1>3
<1> QED
  BY <1>1, <1>5, <1>6, <1>7 DEF WorkspaceInv, VerdictHolds, OnItsWay

LEMMA WorkspaceInvHolds == SpecRestore => []WorkspaceInv
<1>1. WorkspaceInv /\ UNCHANGED rvars => WorkspaceInv'
  BY DEF rvars, WorkspaceInv, InShape, CaptureHolds, VerdictHolds, OnItsWay, Open
<1>2. WorkspaceInv /\ [NextRestore]_rvars => WorkspaceInv'
  BY <1>1, PlanKeeps, ExecuteKeeps, ListKeeps, LookKeeps, BackKeeps, JudgeKeeps, InterfereKeeps
     DEF NextRestore
<1> QED
  BY <1>2, InitWorkspaceInv, PTL DEF SpecRestore

-----------------------------------------------------------------------------
(* Theorems *)

\* Looking for frames on other workspaces gives the focus back as far as it was read, also when
\* reading the frames fails, unless the user moved something meanwhile or the command that gives
\* it back failed, which is swallowed (restoreFrameCaptureFocus).
THEOREM LookGivesFocusBack == SpecRestore => []LookKeepsFocus
<1>1. WorkspaceInv => LookKeepsFocus
  BY DEF WorkspaceInv, CaptureHolds, Looks, LookKeepsFocus, Focuses
<1> QED
  BY <1>1, WorkspaceInvHolds, PTL

\* A restore answered as verified did restore: every window of the snapshot is where it has it,
\* unless something moved after they were captured, and so is the focus, unless moreover it could
\* not be given back after the capture (executeRestorePlanVerified).
THEOREM VerdictIsTrue == SpecRestore => []VerifiedIsTrue
<1>1. ASSUME WorkspaceInv PROVE VerifiedIsTrue
  <2>1. SUFFICES ASSUME step = "done", verified, moves = captured.at
                 PROVE  /\ \A w \in DOMAIN snapshot.wins :
                             /\ w \in Open
                             /\ desk.wins[w].ws = snapshot.wins[w].ws
                             /\ snapshot.wins[w].layout \in {Nothing, desk.wins[w].layout}
                             /\ snapshot.wins[w].frame \in {Nothing, Frame(desk, w)}
                        /\ faults = captured.faults =>
                             /\ snapshot.ws \in {Nothing, desk.ws}
                             /\ snapshot.win \in Open => desk.win = snapshot.win
    BY DEF VerifiedIsTrue
  <2>2. /\ Agrees(snapshot, captured) /\ DOMAIN snapshot.wins \subseteq DOMAIN captured.wins
        /\ Matches(captured, desk)
        /\ faults = captured.faults => Focuses(captured, desk)
    BY <1>1, <2>1 DEF WorkspaceInv, CaptureHolds, VerdictHolds, Looks
  <2>3. DOMAIN captured.wins = Open
    BY <2>2 DEF Matches, Open
  <2>4. ASSUME NEW w \in DOMAIN snapshot.wins
        PROVE  /\ w \in Open
               /\ desk.wins[w].ws = snapshot.wins[w].ws
               /\ snapshot.wins[w].layout \in {Nothing, desk.wins[w].layout}
               /\ snapshot.wins[w].frame \in {Nothing, Frame(desk, w)}
    <3>1. w \in There(snapshot, captured) /\ w \in DOMAIN desk.wins
      BY <2>2 DEF There, Matches
    <3>2. /\ captured.wins[w].ws = snapshot.wins[w].ws
          /\ snapshot.wins[w].layout \in {Nothing, captured.wins[w].layout}
          /\ snapshot.wins[w].frame \in {Nothing, captured.wins[w].frame}
      BY <2>2, <3>1 DEF Agrees, NeedsFrame
    <3>3. /\ captured.wins[w].ws = desk.wins[w].ws /\ captured.wins[w].layout = desk.wins[w].layout
          /\ captured.wins[w].frame \in {Nothing, Frame(desk, w)}
      BY <2>2, <3>1 DEF Matches
    <3> QED
      BY <3>1, <3>2, <3>3 DEF Open
  <2>5. Nothing \notin Open
    BY <1>1, WorkspaceAssumption DEF WorkspaceInv, InShape, Desktop, View, Open
  <2> QED
    BY <2>2, <2>3, <2>4, <2>5 DEF Agrees, Focuses
<1> QED
  BY <1>1, WorkspaceInvHolds, PTL

\* A restore of windows that are all open, whose snapshot does not ask for one both tiled and
\* framed, that nothing interferes with and in which no command or read fails, is verified at its first look, whatever the desktop
\* was: its plan moves, floats, frames and focuses in an order that undoes nothing.
THEOREM RestoreSettles == SpecRestore => []SettlesVerified
<1>1. WorkspaceInv => SettlesVerified
  BY DEF WorkspaceInv, OnItsWay, SettlesVerified, Flips, Steady
<1> QED
  BY <1>1, WorkspaceInvHolds, PTL
=============================================================================
