-------------------------- MODULE PaperQueueProofs --------------------------
(***************************************************************************)
(* Proofs about PaperQueue, for every set of papers, clients and lease      *)
(* times and every bound.  The inductive invariant is the type invariant    *)
(* with the two facts about single queue items that the operations rely on  *)
(* (ItemOK): the reapers can only be trusted with items whose lease fields  *)
(* agree, and a lease may only expire into an item that is already due.     *)
(***************************************************************************)
EXTENDS PaperQueue, TLAPS

ItemOK(item, now) ==
    /\ item.state = "leased" <=> item.owner # None
    /\ item.state = "leased" <=> item.expires # None
    /\ item.state \in {"ready", "leased"} => Due(item, now)

\* A queue all of whose items are OK at time `now`.
QueueOK(q, now) == /\ q \in [Papers -> QueueItem]
                   /\ \A p \in Papers : ItemOK(q[p], now)

IInv == TypeOK /\ QueueOK(queue, clock)

\* An event that was never recorded has no paper: what makes ingestion safe to retry.
NewEventHasNoPaper ==
    \A e \in Events : events[e] = "unknown" => queue[e].state = "absent"

LEMMA Instant ==
    ASSUME TypeOK, NEW now \in Instants
    PROVE  now \in Nat /\ now <= clock /\ clock \in Nat
  BY NumberAssumption DEF TypeOK, Instants

\* An item that is OK now is OK later.
LEMMA LaterOK ==
    ASSUME NEW q, NEW s \in Nat, NEW t \in Nat, s <= t, QueueOK(q, s)
    PROVE  QueueOK(q, t)
  BY SortAssumption DEF QueueOK, ItemOK, Due, QueueItem, Time

\* The reapers keep a queue OK at the gateway's clock, with any older `now`.
LEMMA ReapExpiredOK ==
    ASSUME NEW q, NEW t \in Nat, NEW now \in Nat, now <= t, QueueOK(q, t)
    PROVE  QueueOK(ReapExpired(q, now), t)
<1> SUFFICES ASSUME NEW p \in Papers
             PROVE  ReapExpired(q, now)[p] \in QueueItem /\ ItemOK(ReapExpired(q, now)[p], t)
  BY DEF QueueOK, ReapExpired
<1>1. q[p] \in QueueItem /\ ItemOK(q[p], t)
  BY DEF QueueOK
<1>2. CASE q[p].state = "leased" /\ q[p].expires # None /\ q[p].expires <= now
  <2>1. ReapExpired(q, now)[p] = Unleased(q[p], "ready")
    BY <1>2 DEF ReapExpired
  <2>2. Unleased(q[p], "ready") \in QueueItem
    BY <1>1 DEF Unleased, QueueItem, States
  <2>3. Due(Unleased(q[p], "ready"), t)
    BY <1>1, <1>2 DEF Unleased, QueueItem, ItemOK, Due
  <2>4. ItemOK(Unleased(q[p], "ready"), t)
    BY <1>1, <2>3 DEF ItemOK, Unleased, QueueItem
  <2> QED
    BY <2>1, <2>2, <2>4
<1>3. CASE ~(q[p].state = "leased" /\ q[p].expires # None /\ q[p].expires <= now)
  BY <1>1, <1>3 DEF ReapExpired
<1> QED
  BY <1>2, <1>3

LEMMA ReapDueOK ==
    ASSUME NEW q, NEW t \in Nat, NEW now \in Nat, now <= t, QueueOK(q, t)
    PROVE  QueueOK(ReapDue(q, now), t)
<1> SUFFICES ASSUME NEW p \in Papers
             PROVE  ReapDue(q, now)[p] \in QueueItem /\ ItemOK(ReapDue(q, now)[p], t)
  BY DEF QueueOK, ReapDue
<1>1. q[p] \in QueueItem /\ ItemOK(q[p], t)
  BY DEF QueueOK
<1>2. CASE q[p].state = "deferred" /\ q[p].due # None /\ q[p].due <= now
  <2> DEFINE item == [q[p] EXCEPT !.state = "ready"]
  <2>1. ReapDue(q, now)[p] = item
    BY <1>2 DEF ReapDue
  <2>2. item \in QueueItem /\ item.state = "ready" /\ item.due = q[p].due
        /\ item.owner = q[p].owner /\ item.expires = q[p].expires
    BY <1>1 DEF QueueItem, States
  <2>3. q[p].due \in Nat
    BY <1>1, <1>2 DEF QueueItem, Time
  <2>4. Due(item, t)
    BY <1>2, <2>2, <2>3 DEF Due
  <2>5. ItemOK(item, t)
    BY <1>1, <1>2, <2>2, <2>4 DEF ItemOK
  <2> QED
    BY <2>1, <2>2, <2>5
<1>3. CASE ~(q[p].state = "deferred" /\ q[p].due # None /\ q[p].due <= now)
  BY <1>1, <1>3 DEF ReapDue
<1> QED
  BY <1>2, <1>3

LEMMA NewItemOK ==
    ASSUME NEW score \in 0..MaxScore, NEW now \in Nat, NEW t \in Nat
    PROVE  NewItem(score, now) \in QueueItem /\ ItemOK(NewItem(score, now), t)
  BY SortAssumption DEF NewItem, NoItem, QueueItem, ItemOK, Due, States, Time

\* Giving up the lease of an OK item, into a state other than ready or leased.
LEMMA UnleasedOK ==
    ASSUME NEW item \in QueueItem, NEW state \in {"deferred", "done", "dead"}, NEW t \in Nat
    PROVE  Unleased(item, state) \in QueueItem /\ ItemOK(Unleased(item, state), t)
  BY SortAssumption DEF Unleased, QueueItem, ItemOK, Due, States

\* Replacing one item by an OK one.
LEMMA ReplaceOK ==
    ASSUME NEW q, NEW t \in Nat, QueueOK(q, t), NEW p \in Papers,
           NEW item \in QueueItem, ItemOK(item, t)
    PROVE  QueueOK([q EXCEPT ![p] = item], t)
  BY DEF QueueOK

-----------------------------------------------------------------------------
\* The invariant holds initially and every operation keeps it.
LEMMA InitOK == Init => IInv
<1> SUFFICES ASSUME Init PROVE IInv
  OBVIOUS
<1>1. NoItem \in QueueItem /\ ItemOK(NoItem, 0)
  BY NumberAssumption, SortAssumption DEF NoItem, QueueItem, ItemOK, States, Time, Due
<1>2. NewItem(SeedScore, 0) \in QueueItem /\ ItemOK(NewItem(SeedScore, 0), 0)
  BY NewItemOK, NumberAssumption
<1>3. QueueOK(queue, 0)
  BY <1>1, <1>2 DEF QueueOK, Init
<1> QED
  BY <1>3, NumberAssumption DEF Init, IInv, TypeOK, QueueOK, RunStatus, EventRecord

LEMMA LeaseNextOK ==
    ASSUME IInv, NEW owner \in Owners, NEW now \in Instants, NEW leaseMs \in LeaseTimes,
           NEW excluded, LeaseNextQueueItem(owner, now, leaseMs, excluded)
    PROVE  QueueOK(queue', clock)
<1> DEFINE q == ReapDue(ReapExpired(queue, now), now)
           candidates == Leasable(q, now, excluded)
           leased(p) == [q EXCEPT ![p].state = "leased", ![p].owner = owner,
                                  ![p].expires = now + leaseMs]
<1>1. now \in Nat /\ now <= clock /\ clock \in Nat
  BY Instant DEF IInv
<1>2. QueueOK(ReapExpired(queue, now), clock)
  BY <1>1, ReapExpiredOK DEF IInv
<1>3. QueueOK(q, clock)
  BY <1>1, <1>2, ReapDueOK
<1>4. CASE queue' = q
  BY <1>3, <1>4
<1>5. ASSUME NEW p \in Top(q, candidates), queue' = leased(p)
      PROVE  QueueOK(queue', clock)
  <2>1. p \in Papers /\ q[p].state = "ready"
    BY <1>5 DEF Top, Leasable
  <2>2. q[p] \in QueueItem /\ ItemOK(q[p], clock) /\ q \in [Papers -> QueueItem]
    BY <1>3, <2>1 DEF QueueOK
  <2> DEFINE item == [q[p] EXCEPT !.state = "leased", !.owner = owner, !.expires = now + leaseMs]
  <2>3. now + leaseMs \in Nat /\ now + leaseMs # None /\ owner # None
    BY <1>1, NumberAssumption, SortAssumption
  <2>4. item \in QueueItem
    BY <2>2, <2>3 DEF QueueItem, States, Time
  <2>5. item.state = "leased" /\ item.owner = owner /\ item.expires = now + leaseMs
        /\ item.due = q[p].due
    BY <2>2 DEF QueueItem
  <2>6. ItemOK(item, clock)
    BY <2>1, <2>2, <2>3, <2>5 DEF ItemOK, Due
  <2>7. leased(p) = [q EXCEPT ![p] = item]
    BY <2>1, <2>2
  <2> QED
    BY <1>1, <1>3, <1>5, <2>1, <2>4, <2>6, <2>7, ReplaceOK
<1> QED
  BY <1>4, <1>5 DEF LeaseNextQueueItem

LEMMA NextOK == IInv /\ [Next]_vars => IInv'
<1> SUFFICES ASSUME IInv, [Next]_vars PROVE IInv'
  OBVIOUS
<1>0. clock \in Nat /\ QueueOK(queue, clock) /\ queue \in [Papers -> QueueItem]
  BY NumberAssumption DEF IInv, TypeOK
<1> DEFINE Keep == UNCHANGED <<clock, runs, events>>
<1>a. ASSUME Keep, QueueOK(queue', clock) PROVE IInv'
  BY <1>a DEF IInv, TypeOK, QueueOK
<1>1. CASE Tick
  <2>1. clock + 1 \in 0..MaxClock /\ clock <= clock + 1 /\ clock + 1 \in Nat
    BY <1>0, <1>1, NumberAssumption DEF Tick
  <2>2. QueueOK(queue, clock + 1)
    BY <1>0, <2>1, LaterOK
  <2> QED
    BY <1>1, <2>1, <2>2 DEF Tick, IInv, TypeOK
<1>2. ASSUME NEW now \in Instants, ListQueue(now) \/ NextQueueItem(now) PROVE IInv'
  <2>1. now \in Nat /\ now <= clock
    BY Instant DEF IInv
  <2>2. QueueOK(ReapDue(queue, now), clock)
    BY <1>0, <2>1, ReapDueOK
  <2>3. QueueOK(ReapExpired(queue, now), clock)
    BY <1>0, <2>1, ReapExpiredOK
  <2>4. QueueOK(ReapDue(ReapExpired(queue, now), now), clock)
    BY <1>0, <2>1, <2>3, ReapDueOK
  <2> QED
    BY <1>2, <1>a, <2>2, <2>4 DEF ListQueue, NextQueueItem
<1>3. ASSUME NEW owner \in Owners, NEW now \in Instants, NEW leaseMs \in LeaseTimes,
             NEW excluded, LeaseNextQueueItem(owner, now, leaseMs, excluded)
      PROVE  IInv'
  BY <1>3, <1>a, LeaseNextOK DEF LeaseNextQueueItem
<1>4. ASSUME NEW p \in Papers, NEW owner \in Owners, NEW now \in Instants,
             NEW leaseMs \in LeaseTimes, RenewQueueLease(p, owner, now, leaseMs)
      PROVE  IInv'
  <2> DEFINE item == [queue[p] EXCEPT !.expires = now + leaseMs]
  <2>1. now + leaseMs \in Nat /\ now + leaseMs # None
    BY Instant, NumberAssumption, SortAssumption DEF IInv
  <2>2. queue[p] \in QueueItem /\ ItemOK(queue[p], clock)
    BY <1>0 DEF QueueOK
  <2>3. item \in QueueItem /\ item.state = queue[p].state /\ item.owner = queue[p].owner
        /\ item.due = queue[p].due /\ item.expires = now + leaseMs
    BY <2>1, <2>2 DEF QueueItem, Time
  <2>4. ItemOK(item, clock)
    BY <1>4, <2>1, <2>2, <2>3 DEF ItemOK, Due, RenewQueueLease
  <2>5. queue' = [queue EXCEPT ![p] = item]
    BY <1>4 DEF RenewQueueLease
  <2> HIDE DEF item
  <2>6. QueueOK(queue', clock)
    BY <1>0, <2>3, <2>4, <2>5, ReplaceOK
  <2> QED
    BY <1>4, <1>a, <2>6 DEF RenewQueueLease
<1>5. ASSUME NEW p \in Papers, MarkQueueItemDone(p) \/ IgnoreQueueItem(p)
      PROVE  IInv'
  <2>1. queue[p] \in QueueItem
    BY <1>0
  <2>2. QueueOK([queue EXCEPT ![p] = Unleased(queue[p], "done")], clock)
    BY <1>0, <2>1, UnleasedOK, ReplaceOK
  <2>3. QueueOK([queue EXCEPT ![p] = Unleased(queue[p], "dead")], clock)
    BY <1>0, <2>1, UnleasedOK, ReplaceOK
  <2> QED
    BY <1>5, <1>a, <2>2, <2>3 DEF MarkQueueItemDone, IgnoreQueueItem
<1>6. ASSUME NEW p \in Papers, BumpQueueItemPriority(p) PROVE IInv'
  <2>1. PICK next \in Scores \cup {queue[p].score + d : d \in Deltas} :
             queue' = [queue EXCEPT ![p].score = Clamp(next)]
    BY <1>6 DEF BumpQueueItemPriority
  <2>2. queue[p] \in QueueItem /\ ItemOK(queue[p], clock)
    BY <1>0 DEF QueueOK
  <2>3. next \in Int
    BY <2>2, NumberAssumption DEF QueueItem
  <2>4. Clamp(next) \in 0..MaxScore
    BY <2>3, NumberAssumption DEF Clamp
  <2> DEFINE item == [queue[p] EXCEPT !.score = Clamp(next)]
  <2>5. item \in QueueItem /\ item.state = queue[p].state /\ item.owner = queue[p].owner
        /\ item.due = queue[p].due /\ item.expires = queue[p].expires
    BY <2>2, <2>4 DEF QueueItem
  <2>6. ItemOK(item, clock)
    BY <2>2, <2>5 DEF ItemOK, Due
  <2>7. queue' = [queue EXCEPT ![p] = item]
    BY <2>1
  <2> QED
    BY <1>0, <1>6, <1>a, <2>5, <2>6, <2>7, ReplaceOK DEF BumpQueueItemPriority
<1>7. ASSUME NEW p \in Papers, NEW due \in 1..(MaxClock + 1), NEW now \in Instants,
             DeferQueueItem(p, due, now)
      PROVE  IInv'
  <2> DEFINE off == Unleased(queue[p], "deferred")
             item == [off EXCEPT !.due = due]
  <2>1. off \in QueueItem /\ ItemOK(off, clock)
    BY <1>0, UnleasedOK
  <2>2. off.state = "deferred"
    BY <1>0 DEF Unleased, QueueItem
  <2>3. due \in Nat
    BY NumberAssumption
  <2>4. item \in QueueItem /\ item.state = "deferred" /\ item.owner = off.owner
        /\ item.expires = off.expires
    BY <2>1, <2>2, <2>3 DEF QueueItem, Time
  <2>5. ItemOK(item, clock)
    BY <2>1, <2>2, <2>4 DEF ItemOK
  <2>6. queue' = [queue EXCEPT ![p] = item]
    BY <1>7 DEF DeferQueueItem
  <2> HIDE DEF item
  <2>7. QueueOK(queue', clock)
    BY <1>0, <2>4, <2>5, <2>6, ReplaceOK
  <2> QED
    BY <1>7, <1>a, <2>7 DEF DeferQueueItem
<1>8. ASSUME NEW e \in Events, NEW now \in Instants, IngestEventAsReviewPacket(e, now)
      PROVE  IInv'
  <2>1. NewItem(EventScore, now) \in QueueItem /\ ItemOK(NewItem(EventScore, now), clock)
    BY <1>0, Instant, NewItemOK, NumberAssumption DEF IInv
  <2>2. QueueOK([queue EXCEPT ![e] = NewItem(EventScore, now)], clock)
    BY <1>0, <2>1, ReplaceOK DEF Papers
  <2>3. events' \in [Events -> EventRecord]
    BY <1>8 DEF IngestEventAsReviewPacket, IInv, TypeOK, EventRecord
  <2> QED
    BY <1>0, <1>8, <2>2, <2>3 DEF IngestEventAsReviewPacket, IInv, TypeOK, QueueOK
<1>9. ASSUME NEW r \in Runs, NEW status \in NeedsHuman, NEW now \in Instants,
             RunNeedsHuman(r, status, now)
      PROVE  IInv'
  <2> DEFINE off == Unleased(queue[r], "ready")
             back == [off EXCEPT !.score = RunScore(status), !.due = None]
  <2>1. r \in Papers /\ queue[r] \in QueueItem
    BY <1>0 DEF Papers
  <2>2. RunScore(status) \in 0..MaxScore
    BY NumberAssumption DEF RunScore
  <2>3. NewItem(RunScore(status), now) \in QueueItem
        /\ ItemOK(NewItem(RunScore(status), now), clock)
    BY <1>0, <2>2, Instant, NewItemOK DEF IInv
  <2>4. off \in QueueItem /\ off.state = "ready" /\ off.owner = None /\ off.expires = None
    BY <2>1 DEF Unleased, QueueItem, States
  <2>5. back \in QueueItem /\ back.state = "ready" /\ back.owner = None /\ back.expires = None
        /\ back.due = None
    BY <2>2, <2>4 DEF QueueItem
  <2>6. ItemOK(back, clock)
    BY <2>5 DEF ItemOK, Due
  <2>7. QueueOK(queue', clock)
    <3>1. CASE queue[r].state = "absent"
      <4>1. queue' = [queue EXCEPT ![r] = NewItem(RunScore(status), now)]
        BY <1>9, <3>1 DEF RunNeedsHuman
      <4> QED
        BY <1>0, <2>1, <2>3, <4>1, ReplaceOK
    <3>2. CASE queue[r].state # "absent"
      <4>1. queue' = [queue EXCEPT ![r] = back]
        BY <1>9, <3>2 DEF RunNeedsHuman
      <4> QED
        BY <1>0, <2>1, <2>5, <2>6, <4>1, ReplaceOK
    <3> QED
      BY <3>1, <3>2
  <2>8. runs' \in [Runs -> RunStatus]
    BY <1>9 DEF RunNeedsHuman, IInv, TypeOK, RunStatus
  <2> QED
    BY <1>9, <2>7, <2>8 DEF RunNeedsHuman, IInv, TypeOK, QueueOK
<1>10. ASSUME NEW r \in Runs, RunNeedsNobody(r) PROVE IInv'
  <2> DEFINE off == Unleased(queue[r], "done")
             item == [off EXCEPT !.due = None]
  <2>1. r \in Papers /\ queue[r] \in QueueItem
    BY <1>0 DEF Papers
  <2>2. off \in QueueItem /\ off.state = "done" /\ off.owner = None /\ off.expires = None
    BY <2>1 DEF Unleased, QueueItem, States
  <2>3. item \in QueueItem /\ item.state = "done" /\ item.owner = None /\ item.expires = None
    BY <2>2 DEF QueueItem
  <2>4. ItemOK(item, clock)
    BY <2>3 DEF ItemOK
  <2>5. QueueOK([queue EXCEPT ![r] = item], clock)
    BY <1>0, <2>1, <2>3, <2>4, ReplaceOK
  <2>6. queue' = queue \/ queue' = [queue EXCEPT ![r] = item]
    BY <1>0, <1>10, <2>1 DEF RunNeedsNobody
  <2>7. runs' \in [Runs -> RunStatus]
    BY <1>10 DEF RunNeedsNobody, IInv, TypeOK, RunStatus
  <2> QED
    BY <1>0, <1>10, <2>5, <2>6, <2>7 DEF RunNeedsNobody, IInv, TypeOK, QueueOK
<1>11. CASE UNCHANGED vars
  BY <1>11 DEF vars, IInv, TypeOK, QueueOK
<1> QED
  BY <1>1, <1>2, <1>3, <1>4, <1>5, <1>6, <1>7, <1>8, <1>9, <1>10, <1>11 DEF Next

\* The inductive invariant of the queue.
LEMMA Invariance == Spec => []IInv
<1> QED
  BY InitOK, NextOK, PTL DEF Spec

\* Every reachable state of the queue is well typed.
THEOREM TypeCorrect == Spec => []TypeOK
<1>1. IInv => TypeOK
  BY DEF IInv
<1> QED
  BY <1>1, Invariance, PTL

\* Exactly the leased papers carry an owner and an expiry.
THEOREM LeaseFieldsAlwaysAgree == Spec => []LeaseFieldsAgree
<1>1. IInv => LeaseFieldsAgree
  BY DEF IInv, QueueOK, ItemOK, LeaseFieldsAgree, LeaseHeld
<1> QED
  BY <1>1, Invariance, PTL

\* A paper on offer or in somebody's hands is due.
THEOREM NeverEarly == Spec => []NoEarlyReturn
<1>1. IInv => NoEarlyReturn
  BY DEF IInv, QueueOK, ItemOK, NoEarlyReturn
<1> QED
  BY <1>1, Invariance, PTL

-----------------------------------------------------------------------------
(* What one step may do to one paper. *)

\* The reapers change an item's owner only by taking it away after its expiry, and
\* revive nothing that is decided.
LEMMA ReapOne ==
    ASSUME NEW q, NEW now \in Nat, NEW p \in Papers, q \in [Papers -> QueueItem]
    PROVE  LET r == ReapDue(ReapExpired(q, now), now) IN
           /\ r[p].owner # q[p].owner => q[p].expires <= now
           /\ q[p].state \in Terminal => r[p].state \in Terminal
           /\ ReapDue(q, now)[p].owner = q[p].owner
           /\ q[p].state \in Terminal => ReapDue(q, now)[p].state \in Terminal
<1>1. q[p] \in QueueItem
  OBVIOUS
<1>2. ReapExpired(q, now)[p] \in QueueItem
      /\ (ReapExpired(q, now)[p].owner # q[p].owner => q[p].expires <= now)
      /\ (q[p].state \in Terminal => ReapExpired(q, now)[p].state \in Terminal)
  BY <1>1 DEF ReapExpired, Unleased, QueueItem, States, Terminal
<1>3. ASSUME NEW f, f[p] \in QueueItem
      PROVE  ReapDue(f, now)[p].owner = f[p].owner
             /\ (f[p].state \in Terminal => ReapDue(f, now)[p].state \in Terminal)
  BY <1>3 DEF ReapDue, QueueItem, Terminal
<1>4. ReapDue(ReapExpired(q, now), now)[p].owner = ReapExpired(q, now)[p].owner
      /\ (ReapExpired(q, now)[p].state \in Terminal
            => ReapDue(ReapExpired(q, now), now)[p].state \in Terminal)
  BY <1>2, <1>3
<1>5. ReapDue(q, now)[p].owner = q[p].owner
      /\ (q[p].state \in Terminal => ReapDue(q, now)[p].state \in Terminal)
  BY <1>1, <1>3
<1> QED
  BY <1>2, <1>4, <1>5

\* A granted paper was on offer after the reapers ran.
LEMMA LeaseOne ==
    ASSUME IInv, NEW owner \in Owners, NEW now \in Instants, NEW leaseMs \in LeaseTimes,
           NEW excluded, LeaseNextQueueItem(owner, now, leaseMs, excluded), NEW p \in Papers
    PROVE  LET q == ReapDue(ReapExpired(queue, now), now) IN
           queue'[p] = q[p] \/ q[p].state = "ready"
<1> DEFINE q == ReapDue(ReapExpired(queue, now), now)
<1>1. CASE queue' = q
  BY <1>1
<1>2. ASSUME NEW s \in Top(q, Leasable(q, now, excluded)),
             queue' = [q EXCEPT ![s].state = "leased", ![s].owner = owner,
                                ![s].expires = now + leaseMs]
      PROVE  queue'[p] = q[p] \/ q[p].state = "ready"
  <2>1. s \in Papers /\ q[s].state = "ready"
    BY <1>2 DEF Top, Leasable
  <2>2. q \in [Papers -> {q[r] : r \in Papers}]
    BY DEF ReapDue
  <2> HIDE DEF q
  <2> QED
    BY <1>2, <2>1, <2>2
<1> QED
  BY <1>1, <1>2 DEF LeaseNextQueueItem

\* A lease is not passed on before it has expired.
THEOREM Exclusive == Spec => LeaseExclusive
<1> DEFINE A == \A p \in Papers :
                   LeaseHeld(p) /\ LeaseHeld(p)' /\ queue[p].owner # queue'[p].owner
                     => queue[p].expires <= clock
<1>1. ASSUME IInv, [Next]_vars PROVE [A]_vars
  <2> SUFFICES ASSUME NEW p \in Papers, queue[p].state = "leased", queue'[p].state = "leased",
                      queue[p].owner # queue'[p].owner
               PROVE  queue[p].expires <= clock
    BY DEF LeaseHeld
  <2>1. clock \in Nat /\ queue \in [Papers -> QueueItem] /\ queue[p] \in QueueItem
    BY <1>1, NumberAssumption DEF IInv, TypeOK
  <2>2. queue[p].expires \in Nat
    BY <1>1, <2>1 DEF IInv, QueueOK, ItemOK, QueueItem, Time
  <2>3. ASSUME NEW now \in Instants, ListQueue(now) \/ NextQueueItem(now)
        PROVE  queue[p].expires <= clock
    <3>1. now \in Nat /\ now <= clock
      BY <1>1, Instant DEF IInv
    <3>2. ReapDue(queue, now)[p].owner = queue[p].owner
      BY <2>1, <3>1, ReapOne
    <3>3. ReapDue(ReapExpired(queue, now), now)[p].owner # queue[p].owner
            => queue[p].expires <= now
      BY <2>1, <3>1, ReapOne
    <3> QED
      BY <2>1, <2>2, <2>3, <3>1, <3>2, <3>3 DEF ListQueue, NextQueueItem
  <2>4. ASSUME NEW owner \in Owners, NEW now \in Instants, NEW leaseMs \in LeaseTimes,
               NEW excluded, LeaseNextQueueItem(owner, now, leaseMs, excluded)
        PROVE  queue[p].expires <= clock
    <3> DEFINE q == ReapDue(ReapExpired(queue, now), now)
    <3>1. now \in Nat /\ now <= clock
      BY <1>1, Instant DEF IInv
    <3>2. queue'[p] = q[p] \/ q[p].state = "ready"
      BY <1>1, <2>4, LeaseOne
    <3>3. q[p].owner # queue[p].owner => queue[p].expires <= now
      BY <2>1, <3>1, ReapOne
    <3>4. QueueOK(q, clock)
      BY <1>1, <2>1, <3>1, ReapExpiredOK, ReapDueOK DEF IInv
    <3>5. q[p].state = "ready" => q[p].owner = None
      BY <3>4 DEF QueueOK, ItemOK
    <3>6. queue[p].owner # None
      BY <1>1 DEF IInv, QueueOK, ItemOK
    <3> HIDE DEF q
    <3> QED
      BY <2>1, <2>2, <3>1, <3>2, <3>3, <3>5, <3>6
  <2>5. CASE Tick \/ UNCHANGED vars
    BY <2>5 DEF Tick, vars
  <2>6. ASSUME NEW r \in Papers, NEW owner \in Owners, NEW now \in Instants,
               NEW leaseMs \in LeaseTimes, RenewQueueLease(r, owner, now, leaseMs)
        PROVE  FALSE
    BY <2>1, <2>6 DEF RenewQueueLease, QueueItem
  <2>7. ASSUME NEW r \in Papers,
               MarkQueueItemDone(r) \/ IgnoreQueueItem(r) \/ BumpQueueItemPriority(r)
        PROVE  FALSE
    <3>1. CASE MarkQueueItemDone(r)
      BY <2>1, <3>1 DEF MarkQueueItemDone, Unleased, QueueItem
    <3>2. CASE IgnoreQueueItem(r)
      BY <2>1, <3>2 DEF IgnoreQueueItem, Unleased, QueueItem
    <3>3. CASE BumpQueueItemPriority(r)
      BY <2>1, <3>3 DEF BumpQueueItemPriority, QueueItem
    <3> QED
      BY <2>7, <3>1, <3>2, <3>3
  <2>8. ASSUME NEW r \in Papers, NEW due \in 1..(MaxClock + 1), NEW now \in Instants,
               DeferQueueItem(r, due, now)
        PROVE  FALSE
    BY <2>1, <2>8 DEF DeferQueueItem, Unleased, QueueItem
  <2>9. ASSUME NEW e \in Events, NEW now \in Instants, IngestEventAsReviewPacket(e, now)
        PROVE  FALSE
    BY <2>1, <2>9 DEF IngestEventAsReviewPacket, NewItem, NoItem, Papers
  <2>10. ASSUME NEW r \in Runs, NEW status \in NeedsHuman, NEW now \in Instants,
                RunNeedsHuman(r, status, now)
         PROVE  FALSE
    BY <2>1, <2>10 DEF RunNeedsHuman, NewItem, NoItem, Unleased, QueueItem, Papers
  <2>11. ASSUME NEW r \in Runs, RunNeedsNobody(r) PROVE FALSE
    BY <2>1, <2>11 DEF RunNeedsNobody, Unleased, QueueItem, Papers
  <2> QED
    BY <1>1, <2>3, <2>4, <2>5, <2>6, <2>7, <2>8, <2>9, <2>10, <2>11 DEF Next
<1> QED
  BY <1>1, Invariance, PTL DEF Spec, LeaseExclusive

\* The reapers push no paper.
LEMMA ReapAbsent ==
    ASSUME NEW q, NEW now \in Nat, NEW p \in Papers, q[p].state = "absent"
    PROVE  /\ ReapDue(q, now)[p].state = "absent"
           /\ ReapDue(ReapExpired(q, now), now)[p].state = "absent"
<1>1. ReapExpired(q, now)[p] = q[p]
  BY DEF ReapExpired
<1> QED
  BY <1>1 DEF ReapDue

LEMMA NewEventStep == IInv /\ NewEventHasNoPaper /\ [Next]_vars => NewEventHasNoPaper'
<1> SUFFICES ASSUME IInv, NewEventHasNoPaper, [Next]_vars,
                    NEW e \in Events, events'[e] = "unknown"
             PROVE  queue'[e].state = "absent"
  BY DEF NewEventHasNoPaper
<1>1. e \in Papers /\ e \notin Runs /\ queue \in [Papers -> QueueItem]
      /\ events \in [Events -> EventRecord]
  BY SortAssumption DEF IInv, TypeOK, Papers
<1>2. ASSUME NEW f \in Events, NEW now \in Instants, IngestEventAsReviewPacket(f, now)
      PROVE  queue'[e].state = "absent"
  <2>1. e # f /\ events[e] = "unknown"
    BY <1>1, <1>2 DEF IngestEventAsReviewPacket
  <2> QED
    BY <1>1, <1>2, <2>1 DEF IngestEventAsReviewPacket, NewEventHasNoPaper
<1>3. CASE UNCHANGED events
  <2>1. queue[e].state = "absent"
    BY <1>3 DEF NewEventHasNoPaper
  <2>2. ASSUME NEW now \in Instants, ListQueue(now) \/ NextQueueItem(now)
        PROVE  queue'[e].state = "absent"
    <3>1. now \in Nat
      BY Instant DEF IInv
    <3>2. /\ ReapDue(queue, now)[e].state = "absent"
          /\ ReapDue(ReapExpired(queue, now), now)[e].state = "absent"
      BY <1>1, <2>1, <3>1, ReapAbsent
    <3> QED
      BY <2>2, <3>2 DEF ListQueue, NextQueueItem
  <2>3. ASSUME NEW owner \in Owners, NEW now \in Instants, NEW leaseMs \in LeaseTimes,
               NEW excluded, LeaseNextQueueItem(owner, now, leaseMs, excluded)
        PROVE  queue'[e].state = "absent"
    <3> DEFINE q == ReapDue(ReapExpired(queue, now), now)
    <3>1. q[e].state = "absent"
      BY <1>1, <2>1, Instant, ReapAbsent DEF IInv
    <3>2. queue'[e] = q[e] \/ q[e].state = "ready"
      BY <1>1, <2>3, LeaseOne
    <3> QED
      BY <3>1, <3>2
  <2>4. CASE Tick \/ UNCHANGED vars
    BY <2>1, <2>4 DEF Tick, vars
  <2>5. ASSUME NEW r \in Papers, NEW owner \in Owners, NEW now \in Instants,
               NEW leaseMs \in LeaseTimes, RenewQueueLease(r, owner, now, leaseMs)
        PROVE  queue'[e].state = "absent"
    BY <1>1, <2>1, <2>5 DEF RenewQueueLease
  <2>6. ASSUME NEW r \in Papers,
               MarkQueueItemDone(r) \/ IgnoreQueueItem(r) \/ BumpQueueItemPriority(r)
        PROVE  queue'[e].state = "absent"
    BY <1>1, <2>1, <2>6 DEF MarkQueueItemDone, IgnoreQueueItem, BumpQueueItemPriority, Present
  <2>7. ASSUME NEW r \in Papers, NEW due \in 1..(MaxClock + 1), NEW now \in Instants,
               DeferQueueItem(r, due, now)
        PROVE  queue'[e].state = "absent"
    BY <1>1, <2>1, <2>7 DEF DeferQueueItem, Present
  <2>8. ASSUME NEW r \in Runs, NEW status \in NeedsHuman, NEW now \in Instants,
               RunNeedsHuman(r, status, now)
        PROVE  queue'[e].state = "absent"
    BY <1>1, <2>1, <2>8 DEF RunNeedsHuman
  <2>9. ASSUME NEW r \in Runs, RunNeedsNobody(r) PROVE queue'[e].state = "absent"
    BY <1>1, <2>1, <2>9 DEF RunNeedsNobody
  <2> QED
    BY <1>2, <2>2, <2>3, <2>4, <2>5, <2>6, <2>7, <2>8, <2>9 DEF Next
<1>4. UNCHANGED events \/ \E f \in Events, now \in Instants : IngestEventAsReviewPacket(f, now)
  BY DEF Next, vars, Tick, ListQueue, NextQueueItem, LeaseNextQueueItem, RenewQueueLease,
         MarkQueueItemDone, IgnoreQueueItem, BumpQueueItemPriority, DeferQueueItem,
         RunNeedsHuman, RunNeedsNobody
<1> QED
  BY <1>2, <1>3, <1>4

LEMMA NewEventInvariance == Spec => []NewEventHasNoPaper
<1>1. Init => NewEventHasNoPaper
  BY SortAssumption DEF Init, NewEventHasNoPaper, NoItem, Papers
<1> QED
  BY <1>1, NewEventStep, Invariance, PTL DEF Spec

\* Nothing but a deferral or a run that waits again revives a decided paper.
THEOREM Decided == Spec => DecidedStaysDecided
<1> DEFINE A == \A p \in Papers :
                   queue[p].state \in Terminal /\ queue'[p].state \notin Terminal
                     => \/ queue'[p].state = "deferred"
                        \/ p \in Runs /\ runs'[p] \in NeedsHuman
<1>1. ASSUME IInv, NewEventHasNoPaper, [Next]_vars PROVE [A]_vars
  <2> SUFFICES ASSUME NEW p \in Papers, queue[p].state \in Terminal
               PROVE  \/ queue'[p].state \in Terminal
                      \/ queue'[p].state = "deferred"
                      \/ p \in Runs /\ runs'[p] \in NeedsHuman
    OBVIOUS
  <2>1. queue \in [Papers -> QueueItem] /\ queue[p] \in QueueItem
    BY <1>1 DEF IInv, TypeOK
  <2>2. ASSUME NEW now \in Instants, ListQueue(now) \/ NextQueueItem(now)
        PROVE  queue'[p].state \in Terminal
    <3>1. now \in Nat
      BY <1>1, Instant DEF IInv
    <3> QED
      BY <2>1, <2>2, <3>1, ReapOne DEF ListQueue, NextQueueItem
  <2>3. ASSUME NEW owner \in Owners, NEW now \in Instants, NEW leaseMs \in LeaseTimes,
               NEW excluded, LeaseNextQueueItem(owner, now, leaseMs, excluded)
        PROVE  queue'[p].state \in Terminal
    <3> DEFINE q == ReapDue(ReapExpired(queue, now), now)
    <3>1. now \in Nat
      BY <1>1, Instant DEF IInv
    <3>2. q[p].state \in Terminal
      BY <2>1, <3>1, ReapOne
    <3>3. queue'[p] = q[p] \/ q[p].state = "ready"
      BY <1>1, <2>3, LeaseOne
    <3> QED
      BY <3>2, <3>3 DEF Terminal
  <2>4. CASE Tick \/ UNCHANGED vars
    BY <2>4 DEF Tick, vars
  <2>5. ASSUME NEW r \in Papers, NEW owner \in Owners, NEW now \in Instants,
               NEW leaseMs \in LeaseTimes, RenewQueueLease(r, owner, now, leaseMs)
        PROVE  queue'[p].state \in Terminal
    BY <2>1, <2>5 DEF RenewQueueLease, QueueItem
  <2>6. ASSUME NEW r \in Papers,
               MarkQueueItemDone(r) \/ IgnoreQueueItem(r) \/ BumpQueueItemPriority(r)
        PROVE  queue'[p].state \in Terminal
    <3>1. CASE MarkQueueItemDone(r)
      BY <2>1, <3>1 DEF MarkQueueItemDone, Unleased, QueueItem, Terminal
    <3>2. CASE IgnoreQueueItem(r)
      BY <2>1, <3>2 DEF IgnoreQueueItem, Unleased, QueueItem, Terminal
    <3>3. CASE BumpQueueItemPriority(r)
      BY <2>1, <3>3 DEF BumpQueueItemPriority, QueueItem
    <3> QED
      BY <2>6, <3>1, <3>2, <3>3
  <2>7. ASSUME NEW r \in Papers, NEW due \in 1..(MaxClock + 1), NEW now \in Instants,
               DeferQueueItem(r, due, now)
        PROVE  queue'[p].state \in Terminal \/ queue'[p].state = "deferred"
    <3>1. CASE p = r
      <4>1. queue'[p] = [Unleased(queue[p], "deferred") EXCEPT !.due = due]
        BY <2>1, <2>7, <3>1 DEF DeferQueueItem
      <4> QED
        BY <2>1, <4>1 DEF Unleased, QueueItem
    <3>2. CASE p # r
      BY <2>1, <2>7, <3>2 DEF DeferQueueItem
    <3> QED
      BY <3>1, <3>2
  <2>8. ASSUME NEW e \in Events, NEW now \in Instants, IngestEventAsReviewPacket(e, now)
        PROVE  queue'[p].state \in Terminal
    <3>1. queue[e].state = "absent" /\ e \in Papers
      BY <1>1, <2>8 DEF IngestEventAsReviewPacket, NewEventHasNoPaper, Papers
    <3> QED
      BY <2>1, <2>8, <3>1 DEF IngestEventAsReviewPacket, Terminal
  <2>9. ASSUME NEW r \in Runs, NEW status \in NeedsHuman, NEW now \in Instants,
               RunNeedsHuman(r, status, now)
        PROVE  queue'[p].state \in Terminal \/ (p \in Runs /\ runs'[p] \in NeedsHuman)
    <3>1. CASE p = r
      BY <1>1, <2>9, <3>1 DEF RunNeedsHuman, IInv, TypeOK
    <3>2. CASE p # r
      <4>1. PICK item : queue' = [queue EXCEPT ![r] = item]
        BY <2>9 DEF RunNeedsHuman
      <4> QED
        BY <2>1, <3>2, <4>1
    <3> QED
      BY <3>1, <3>2
  <2>10. ASSUME NEW r \in Runs, RunNeedsNobody(r) PROVE queue'[p].state \in Terminal
    BY <2>1, <2>10 DEF RunNeedsNobody, QueueItem, Papers, Terminal
  <2> QED
    BY <1>1, <2>2, <2>3, <2>4, <2>5, <2>6, <2>7, <2>8, <2>9, <2>10 DEF Next
<1> QED
  BY <1>1, Invariance, NewEventInvariance, PTL DEF Spec, DecidedStaysDecided

-----------------------------------------------------------------------------
(* A pull hands out the best paper. *)

\* The reapers give no paper to a client: one that is leased after them was leased before,
\* to the same client.
LEMMA ReapGrantsNothing ==
    ASSUME NEW q, NEW now, NEW p \in Papers, q \in [Papers -> QueueItem],
           ReapDue(ReapExpired(q, now), now)[p].state = "leased"
    PROVE  ReapDue(ReapExpired(q, now), now)[p].owner = q[p].owner
<1> DEFINE x == ReapExpired(q, now)
<1>1. x[p] \in QueueItem /\ (x[p].state = "leased" => x[p] = q[p])
  BY DEF ReapExpired, Unleased, QueueItem, States
<1>2. ReapDue(x, now)[p].state = "leased" => ReapDue(x, now)[p] = x[p]
  <2> HIDE DEF x
  <2> QED
    BY <1>1 DEF ReapDue, QueueItem
<1> QED
  BY <1>1, <1>2

\* The paper a pull is granted comes first in the order, among all that are on offer and
\* due by the request's clock: neither the reapers nor a stale clock let a better one by.
THEOREM BestFirst == Spec => BestPaperFirst
<1> DEFINE A == \A owner \in Owners, now \in Instants, leaseMs \in LeaseTimes,
                  excluded \in Papers \cup {None}, p \in Papers :
                  LeaseNextQueueItem(owner, now, leaseMs, excluded) /\ Granted(p) =>
                     \A r \in Papers \ {excluded} :
                        queue'[r].state = "ready" /\ Due(queue'[r], now) => ~Outranks(queue'[r], queue'[p])
<1>1. ASSUME TypeOK PROVE A
  <2> SUFFICES ASSUME NEW owner \in Owners, NEW now \in Instants, NEW leaseMs \in LeaseTimes,
                      NEW excluded, NEW p \in Papers,
                      LeaseNextQueueItem(owner, now, leaseMs, excluded), Granted(p),
                      NEW r \in Papers \ {excluded}, queue'[r].state = "ready", Due(queue'[r], now)
               PROVE  ~Outranks(queue'[r], queue'[p])
    OBVIOUS
  <2> DEFINE q == ReapDue(ReapExpired(queue, now), now)
             candidates == Leasable(q, now, excluded)
  <2>1. q[p].state = "leased" => q[p].owner = queue[p].owner
    BY <1>1, ReapGrantsNothing DEF TypeOK
  <2>2. queue' # q
    BY <2>1 DEF Granted, LeaseHeld
  <2>3. PICK top \in Top(q, candidates) :
                queue' = [q EXCEPT ![top].state = "leased", ![top].owner = owner,
                                   ![top].expires = now + leaseMs]
    BY <2>2 DEF LeaseNextQueueItem
  <2>4. q \in [Papers -> {q[s] : s \in Papers}] /\ top \in Papers
    BY <2>3 DEF ReapDue, Top, Leasable
  <2>5. \A s \in Papers : q[s] \in QueueItem
    <3>1. ReapExpired(queue, now) \in [Papers -> QueueItem]
      BY <1>1 DEF TypeOK, ReapExpired, Unleased, QueueItem, States
    <3> QED
      BY <3>1 DEF ReapDue, QueueItem, States
  <2> HIDE DEF q
  <2>6. p = top
    BY <2>1, <2>3, <2>4 DEF Granted, LeaseHeld
  <2>7. queue'[p].score = q[p].score /\ queue'[p].created = q[p].created /\ queue'[p].state = "leased"
    BY <2>3, <2>4, <2>5, <2>6 DEF QueueItem
  <2>8. r # p /\ queue'[r] = q[r]
    BY <2>3, <2>4, <2>6, <2>7
  <2>9. r \in candidates
    BY <2>8 DEF Leasable
  <2>10. ~Outranks(q[r], q[p])
    BY <2>3, <2>6, <2>9 DEF Top
  <2> QED
    BY <2>7, <2>8, <2>10 DEF Outranks
<1>2. TypeOK => [A]_vars
  BY <1>1
<1> QED
  BY <1>2, TypeCorrect, PTL DEF BestPaperFirst

-----------------------------------------------------------------------------
(* The in-memory store implements PaperLifecycle: every operation maps to one step of
   the lifecycle or to none.  The mapping forgets scores, ages and the due time of a
   paper that is back on offer. *)

LifeMap(q) == [p \in Papers |-> LifeOf(q[p])]

\* The phase of an item, state by state.
LEMMA Phases ==
    ASSUME NEW item \in QueueItem
    PROVE  /\ item.state = "absent" => LifeOf(item) = Life!Unborn
           /\ item.state = "ready" => LifeOf(item) = Life!Offered
           /\ item.state \in Terminal => LifeOf(item) = Life!Decided
           /\ item.state = "deferred" => LifeOf(item) = Life!Hidden(item.due)
           /\ item.state = "leased" => LifeOf(item) = Life!Held(item.owner, item.expires)
<1>1. CASE item.state = "absent"
  BY <1>1 DEF LifeOf, Terminal, Life!Unborn
<1>2. CASE item.state = "ready"
  BY <1>2 DEF LifeOf, Terminal, Life!Offered
<1>3. CASE item.state \in Terminal
  BY <1>3 DEF LifeOf, Terminal, Life!Decided
<1>4. CASE item.state = "deferred"
  BY <1>4 DEF LifeOf, Terminal, Life!Hidden
<1>5. CASE item.state = "leased"
  BY <1>5 DEF LifeOf, Terminal, Life!Held
<1> QED
  BY <1>1, <1>2, <1>3, <1>4, <1>5 DEF QueueItem, States, Terminal

LEMMA Replaced ==
    ASSUME NEW q \in [Papers -> QueueItem], NEW p \in Papers, NEW item,
           NEW r, r = [q EXCEPT ![p] = item]
    PROVE  LifeMap(r) = [LifeMap(q) EXCEPT ![p] = LifeOf(item)]
  BY DEF LifeMap

\* The lifecycle's step, on a mapped queue.
LEMMA Mapped ==
    ASSUME NEW q, NEW p \in Papers
    PROVE  LifeMap(q)[p] = LifeOf(q[p])
  BY DEF LifeMap

\* The reapers bring back papers whose time is over, and touch nothing else.
LEMMA ReapMapped ==
    ASSUME IInv, NEW now \in Instants,
           NEW q, \/ q = ReapDue(queue, now)
                  \/ q = ReapDue(ReapExpired(queue, now), now)
    PROVE  \E ps \in SUBSET Life!Over :
             /\ LifeMap(q) = Life!Returned(ps)
             /\ \A p \in Papers : q[p].state = "ready" =>
                    p \in ps \/ LifeOf(queue[p]) = Life!Offered
<1>1. now \in Nat /\ now <= clock /\ clock \in Nat /\ queue \in [Papers -> QueueItem]
  BY Instant DEF IInv, TypeOK
<1> DEFINE ps == {p \in Papers : q[p] # queue[p]}
<1>2. ASSUME NEW p \in Papers
      PROVE  \/ q[p] = queue[p]
             \/ p \in Life!Over /\ LifeOf(q[p]) = Life!Offered
  <2>1. queue[p] \in QueueItem /\ ItemOK(queue[p], clock)
    BY <1>1 DEF IInv, QueueOK
  <2>2. CASE /\ queue[p].state = "leased" /\ queue[p].expires # None
             /\ queue[p].expires <= now /\ ReapExpired(queue, now)[p] = Unleased(queue[p], "ready")
             /\ q[p] = Unleased(queue[p], "ready")
    <3>1. q[p] \in QueueItem /\ q[p].state = "ready"
      BY <2>1, <2>2 DEF Unleased, QueueItem, States
    <3>2. LifeOf(queue[p]) = Life!Held(queue[p].owner, queue[p].expires)
      BY <2>1, <2>2, Phases
    <3>3. queue[p].expires <= clock
      BY <1>1, <2>1, <2>2 DEF QueueItem, Time
    <3>4. p \in Life!Over
      BY <3>2, <3>3 DEF Life!Over, Life!Held
    <3> QED
      BY <3>1, <3>4, Phases
  <2>3. CASE /\ queue[p].state = "deferred" /\ queue[p].due # None
             /\ queue[p].due <= now /\ q[p] = [queue[p] EXCEPT !.state = "ready"]
    <3>1. q[p] \in QueueItem /\ q[p].state = "ready"
      BY <2>1, <2>3 DEF QueueItem, States
    <3>2. LifeOf(queue[p]) = Life!Hidden(queue[p].due)
      BY <2>1, <2>3, Phases
    <3>3. queue[p].due <= clock
      BY <1>1, <2>1, <2>3 DEF QueueItem, Time
    <3>4. p \in Life!Over
      BY <3>2, <3>3 DEF Life!Over, Life!Hidden
    <3> QED
      BY <3>1, <3>4, Phases
  <2>4. \/ ReapExpired(queue, now)[p] = queue[p]
        \/ /\ queue[p].state = "leased" /\ queue[p].expires # None
           /\ queue[p].expires <= now /\ ReapExpired(queue, now)[p] = Unleased(queue[p], "ready")
    BY DEF ReapExpired
  <2>5. Unleased(queue[p], "ready").state = "ready"
    BY <2>1 DEF Unleased, QueueItem
  <2>6. ASSUME NEW f
        PROVE  \/ ReapDue(f, now)[p] = f[p]
               \/ /\ f[p].state = "deferred" /\ f[p].due # None
                  /\ f[p].due <= now /\ ReapDue(f, now)[p] = [f[p] EXCEPT !.state = "ready"]
    BY DEF ReapDue
  <2>7. CASE q = ReapDue(queue, now)
    BY <2>3, <2>6, <2>7
  <2>8. CASE q = ReapDue(ReapExpired(queue, now), now)
    <3> DEFINE f == ReapExpired(queue, now)
    <3>1. CASE f[p] = queue[p]
      BY <2>3, <2>6, <2>8, <3>1
    <3>2. CASE f[p] # queue[p]
      <4>1. f[p].state = "ready" /\ f[p] = Unleased(queue[p], "ready")
        BY <2>4, <2>5, <3>2
      <4>2. q[p] = f[p]
        BY <2>6, <2>8, <4>1
      <4> QED
        BY <2>2, <2>4, <3>2, <4>1, <4>2
    <3> QED
      BY <3>1, <3>2
  <2> QED
    BY <2>7, <2>8
<1>3. ps \in SUBSET Life!Over
  BY <1>2
<1>4. LifeMap(q) = Life!Returned(ps)
  BY <1>2 DEF LifeMap, Life!Returned
<1>5. ASSUME NEW p \in Papers, q[p].state = "ready", q[p] = queue[p]
      PROVE  LifeOf(queue[p]) = Life!Offered
  BY <1>1, <1>5, Phases
<1>6. \A p \in Papers : q[p].state = "ready" => p \in ps \/ LifeOf(queue[p]) = Life!Offered
  BY <1>5
<1> QED
  BY <1>3, <1>4, <1>6

\* A grant takes a paper that was on offer before or after the reapers ran.
LEMMA GrantMapped ==
    ASSUME IInv, NEW owner \in Owners, NEW now \in Instants, NEW leaseMs \in LeaseTimes,
           NEW excluded, LeaseNextQueueItem(owner, now, leaseMs, excluded)
    PROVE  Life!Return \/ Life!Grant
<1> DEFINE q == ReapDue(ReapExpired(queue, now), now)
           t == now + leaseMs
<1>a. now \in Nat /\ now <= clock /\ clock \in Nat /\ QueueOK(queue, clock)
  BY Instant DEF IInv
<1>q. QueueOK(ReapExpired(queue, now), clock)
  BY <1>a, ReapExpiredOK
<1>b. QueueOK(q, clock)
  BY <1>a, <1>q, ReapDueOK
<1>c. UNCHANGED clock
  BY DEF LeaseNextQueueItem
<1>d. now + leaseMs \in Nat
  BY <1>a, NumberAssumption
<1>1. clock \in Nat /\ QueueOK(q, clock) /\ UNCHANGED clock /\ t \in Nat
  BY <1>a, <1>b, <1>c, <1>d
<1>2. PICK ps \in SUBSET Life!Over :
             /\ LifeMap(q) = Life!Returned(ps)
             /\ \A p \in Papers : q[p].state = "ready" =>
                    p \in ps \/ LifeOf(queue[p]) = Life!Offered
  BY ReapMapped
<1>3. CASE queue' = q
  BY <1>1, <1>2, <1>3 DEF Life!Return, LifeMap
<1>4. ASSUME NEW p \in Top(q, Leasable(q, now, excluded)),
             queue' = [q EXCEPT ![p].state = "leased", ![p].owner = owner, ![p].expires = t]
      PROVE  Life!Grant
  <2>1. p \in Papers /\ q[p].state = "ready" /\ q[p] \in QueueItem /\ q \in [Papers -> QueueItem]
    BY <1>1, <1>4 DEF Top, Leasable, QueueOK
  <2> DEFINE item == [q[p] EXCEPT !.state = "leased", !.owner = owner, !.expires = t]
  <2>2. queue' = [q EXCEPT ![p] = item]
    BY <1>4, <2>1
  <2>3. item \in QueueItem /\ item.state = "leased" /\ item.owner = owner /\ item.expires = t
    BY <1>1, <2>1 DEF QueueItem, States, Time
  <2> HIDE DEF item, q, t
  <2>4. LifeOf(item) = Life!Held(owner, t)
    BY <2>3, Phases
  <2>5. LifeMap(queue') = [LifeMap(q) EXCEPT ![p] = Life!Held(owner, t)]
    BY <2>1, <2>2, <2>4, Replaced DEF LifeMap
  <2>6. LifeMap(queue') = [Life!Returned(ps) EXCEPT ![p] = Life!Held(owner, t)]
    BY <1>2, <2>5
  <2>7. LifeMap(queue')[p].until = t
    BY <2>1, <2>6 DEF Life!Returned, Life!Held
  <2>8. p \in ps \/ LifeMap(queue)[p] = Life!Offered
    BY <1>2, <2>1, Mapped
  <2> QED
    BY <1>1, <2>1, <2>6, <2>7, <2>8 DEF Life!Grant, Life!Limit, LifeMap
<1> QED
  BY <1>3, <1>4 DEF LeaseNextQueueItem

\* Every step of the store is a step of the lifecycle, or changes nothing it knows of.
LEMMA StepMapped == IInv /\ NewEventHasNoPaper /\ [Next]_vars => [Life!LNext]_Life!lvars
<1> SUFFICES ASSUME IInv, NewEventHasNoPaper, [Next]_vars PROVE [Life!LNext]_Life!lvars
  OBVIOUS
<1>0. clock \in Nat /\ QueueOK(queue, clock) /\ queue \in [Papers -> QueueItem]
  BY NumberAssumption DEF IInv, TypeOK
<1>s. ASSUME UNCHANGED clock, LifeMap(queue') = LifeMap(queue)
      PROVE  [Life!LNext]_Life!lvars
  BY <1>s DEF Life!lvars, LifeMap
<1>1. CASE Tick
  BY <1>0, <1>1 DEF Tick, Life!LNext, Life!Pass
<1>2. ASSUME NEW now \in Instants, ListQueue(now) \/ NextQueueItem(now)
      PROVE  Life!LNext
  <2>1. \E ps \in SUBSET Life!Over : LifeMap(queue') = Life!Returned(ps)
    BY <1>2, ReapMapped DEF ListQueue, NextQueueItem
  <2>2. UNCHANGED clock
    BY <1>2 DEF ListQueue, NextQueueItem
  <2> QED
    BY <2>1, <2>2 DEF Life!LNext, Life!Return, LifeMap
<1>3. ASSUME NEW owner \in Owners, NEW now \in Instants, NEW leaseMs \in LeaseTimes,
             NEW excluded, LeaseNextQueueItem(owner, now, leaseMs, excluded)
      PROVE  Life!LNext
  BY <1>3, GrantMapped DEF Life!LNext
<1>4. ASSUME NEW p \in Papers, NEW owner \in Owners, NEW now \in Instants,
             NEW leaseMs \in LeaseTimes, RenewQueueLease(p, owner, now, leaseMs)
      PROVE  Life!LNext
  <2> DEFINE t == now + leaseMs
             item == [queue[p] EXCEPT !.expires = t]
  <2>1. t \in Nat /\ queue[p] \in QueueItem /\ queue[p].state = "leased"
    BY <1>0, <1>4, Instant, NumberAssumption DEF IInv, RenewQueueLease
  <2>2. item \in QueueItem /\ item.state = "leased" /\ item.owner = queue[p].owner
        /\ item.expires = t
    BY <2>1 DEF QueueItem, Time
  <2>3. queue' = [queue EXCEPT ![p] = item] /\ UNCHANGED clock
    BY <1>4 DEF RenewQueueLease
  <2> HIDE DEF item, t
  <2>4. LifeMap(queue)[p] = Life!Held(queue[p].owner, queue[p].expires)
        /\ LifeOf(item) = Life!Held(queue[p].owner, t)
    BY <2>1, <2>2, Phases, Mapped
  <2>5. LifeMap(queue') = [LifeMap(queue) EXCEPT ![p] = Life!Held(queue[p].owner, t)]
    BY <1>0, <2>3, <2>4, Replaced DEF LifeMap
  <2>6. LifeMap(queue')[p].until = t /\ LifeMap(queue)[p].phase = "held"
        /\ LifeMap(queue)[p].holder = queue[p].owner
    BY <2>4, <2>5 DEF Life!Held, LifeMap
  <2>7. Life!Extend
    BY <2>1, <2>3, <2>5, <2>6 DEF Life!Extend, Life!Limit, LifeMap
  <2> QED
    BY <2>7 DEF Life!LNext
<1>d. ASSUME NEW p \in Papers, queue[p].state # "absent", UNCHANGED clock,
             NEW item \in QueueItem, item.state \in Terminal,
             queue' = [queue EXCEPT ![p] = item]
      PROVE  Life!Decide
  <2>1. LifeMap(queue') = [LifeMap(queue) EXCEPT ![p] = Life!Decided]
    BY <1>0, <1>d, Phases, Replaced DEF LifeMap
  <2>2. LifeMap(queue)[p] # Life!Unborn
    BY <1>0, <1>d, Phases, Mapped
       DEF QueueItem, States, Terminal, Life!Unborn, Life!Offered, Life!Decided,
           Life!Hidden, Life!Held
  <2> QED
    BY <1>d, <2>1, <2>2 DEF Life!Decide, LifeMap
<1>5. ASSUME NEW p \in Papers, MarkQueueItemDone(p) \/ IgnoreQueueItem(p)
      PROVE  Life!LNext
  <2>1. Unleased(queue[p], "done") \in QueueItem /\ Unleased(queue[p], "dead") \in QueueItem
        /\ Unleased(queue[p], "done").state \in Terminal
        /\ Unleased(queue[p], "dead").state \in Terminal
    BY <1>0 DEF Unleased, QueueItem, States, Terminal
  <2> QED
    BY <1>5, <1>d, <2>1 DEF MarkQueueItemDone, IgnoreQueueItem, Present, Life!LNext
<1>6. ASSUME NEW p \in Papers, BumpQueueItemPriority(p)
      PROVE  [Life!LNext]_Life!lvars
  <2>1. PICK score : queue' = [queue EXCEPT ![p].score = score]
    BY <1>6 DEF BumpQueueItemPriority
  <2>2. UNCHANGED clock
    BY <1>6 DEF BumpQueueItemPriority
  <2>3. LifeOf([queue[p] EXCEPT !.score = score]) = LifeOf(queue[p])
    BY <1>0 DEF LifeOf, QueueItem
  <2>4. queue' = [queue EXCEPT ![p] = [queue[p] EXCEPT !.score = score]]
    BY <2>1
  <2>5. LifeMap(queue') = [LifeMap(queue) EXCEPT ![p] = LifeOf(queue[p])]
    BY <1>0, <2>3, <2>4, Replaced DEF LifeMap
  <2>6. LifeMap(queue') = LifeMap(queue)
    BY <2>5 DEF LifeMap
  <2> QED
    BY <1>s, <2>2, <2>6
<1>7. ASSUME NEW p \in Papers, NEW due \in 1..(MaxClock + 1), NEW now \in Instants,
             DeferQueueItem(p, due, now)
      PROVE  Life!LNext
  <2> DEFINE item == [Unleased(queue[p], "deferred") EXCEPT !.due = due]
  <2>1. due \in Nat /\ queue[p] \in QueueItem /\ queue[p].state # "absent" /\ UNCHANGED clock
    BY <1>0, <1>7, NumberAssumption DEF DeferQueueItem, Present
  <2>2. item \in QueueItem /\ item.state = "deferred" /\ item.due = due
    BY <2>1 DEF Unleased, QueueItem, States, Time
  <2>3. queue' = [queue EXCEPT ![p] = item]
    BY <1>7 DEF DeferQueueItem
  <2> HIDE DEF item
  <2>4. LifeMap(queue') = [LifeMap(queue) EXCEPT ![p] = Life!Hidden(due)]
    BY <1>0, <2>2, <2>3, Phases, Replaced DEF LifeMap
  <2>5. LifeMap(queue')[p].until = due
    BY <2>4 DEF LifeMap, Life!Hidden
  <2>6. LifeMap(queue)[p] # Life!Unborn
    BY <2>1, Phases, Mapped
       DEF QueueItem, States, Terminal, Life!Unborn, Life!Offered, Life!Decided,
           Life!Hidden, Life!Held
  <2>7. Life!Hide
    BY <2>1, <2>4, <2>5, <2>6 DEF Life!Hide, Life!Limit, LifeMap
  <2> QED
    BY <2>7 DEF Life!LNext
<1>o. ASSUME NEW p \in Papers, queue[p].state = "absent" \/ p \in Runs, UNCHANGED clock,
             NEW item \in QueueItem, item.state = "ready",
             queue' = [queue EXCEPT ![p] = item]
      PROVE  Life!LNext
  <2>1. LifeMap(queue') = [LifeMap(queue) EXCEPT ![p] = Life!Offered]
    BY <1>0, <1>o, Phases, Replaced DEF LifeMap
  <2>2. LifeMap(queue)[p] = Life!Unborn \/ p \in Runs
    BY <1>0, <1>o, Phases, Mapped
  <2>3. Life!Offer
    BY <1>o, <2>1, <2>2 DEF Life!Offer, LifeMap
  <2> QED
    BY <2>3 DEF Life!LNext
<1>8. ASSUME NEW e \in Events, NEW now \in Instants, IngestEventAsReviewPacket(e, now)
      PROVE  [Life!LNext]_Life!lvars
  <2>1. NewItem(EventScore, now) \in QueueItem /\ NewItem(EventScore, now).state = "ready"
    BY <1>0, Instant, NewItemOK, NumberAssumption DEF IInv, NewItem, NoItem
  <2>2. e \in Papers /\ queue[e].state = "absent" /\ UNCHANGED clock
    BY <1>8 DEF IngestEventAsReviewPacket, NewEventHasNoPaper, Papers
  <2>3. CASE UNCHANGED queue
    BY <1>s, <2>2, <2>3
  <2>4. CASE queue' = [queue EXCEPT ![e] = NewItem(EventScore, now)]
    BY <1>o, <2>1, <2>2, <2>4
  <2> QED
    BY <1>8, <2>3, <2>4 DEF IngestEventAsReviewPacket
<1>9. ASSUME NEW r \in Runs, NEW status \in NeedsHuman, NEW now \in Instants,
             RunNeedsHuman(r, status, now)
      PROVE  Life!LNext
  <2>1. r \in Papers /\ queue[r] \in QueueItem /\ UNCHANGED clock
        /\ RunScore(status) \in 0..MaxScore
    BY <1>0, <1>9, NumberAssumption DEF Papers, RunNeedsHuman, RunScore
  <2> DEFINE back == [Unleased(queue[r], "ready") EXCEPT !.score = RunScore(status), !.due = None]
  <2>2. PICK item : queue' = [queue EXCEPT ![r] = item]
                    /\ (item = NewItem(RunScore(status), now) \/ item = back)
    BY <1>9 DEF RunNeedsHuman
  <2>3. NewItem(RunScore(status), now) \in QueueItem
        /\ NewItem(RunScore(status), now).state = "ready"
    BY <1>0, <2>1, Instant, NewItemOK DEF IInv, NewItem, NoItem
  <2>4. back \in QueueItem /\ back.state = "ready"
    BY <2>1 DEF Unleased, QueueItem, States
  <2> QED
    BY <1>o, <2>1, <2>2, <2>3, <2>4
<1>10. ASSUME NEW r \in Runs, RunNeedsNobody(r) PROVE [Life!LNext]_Life!lvars
  <2> DEFINE item == [Unleased(queue[r], "done") EXCEPT !.due = None]
  <2>1. r \in Papers /\ queue[r] \in QueueItem /\ UNCHANGED clock
    BY <1>0, <1>10 DEF Papers, RunNeedsNobody
  <2>2. item \in QueueItem /\ item.state \in Terminal
    BY <2>1 DEF Unleased, QueueItem, States, Terminal
  <2>3. CASE queue[r].state \in Terminal \cup {"absent"}
    <3>1. queue' = queue
      BY <1>0, <1>10, <2>1, <2>3 DEF RunNeedsNobody
    <3> QED
      BY <1>s, <2>1, <3>1
  <2>4. CASE queue[r].state \notin Terminal \cup {"absent"}
    <3>1. queue' = [queue EXCEPT ![r] = item] /\ queue[r].state # "absent"
      BY <1>10, <2>4 DEF RunNeedsNobody
    <3> HIDE DEF item
    <3> QED
      BY <1>d, <2>1, <2>2, <3>1 DEF Life!LNext
  <2> QED
    BY <2>3, <2>4
<1>11. CASE UNCHANGED vars
  BY <1>11, <1>s DEF vars
<1> QED
  BY <1>1, <1>2, <1>3, <1>4, <1>5, <1>6, <1>7, <1>8, <1>9, <1>10, <1>11 DEF Next

\* The in-memory store implements the lifecycle its clients rely on.
THEOREM Implements == Spec => ImplementsLifecycle
<1>1. Init => Life!LInit
  <2> SUFFICES ASSUME Init PROVE Life!LInit
    OBVIOUS
  <2>1. queue \in [Papers -> QueueItem]
    BY InitOK DEF IInv, TypeOK
  <2>2. ASSUME NEW p \in Papers
        PROVE  LifeOf(queue[p]) \in {Life!Unborn, Life!Offered}
    <3>1. queue[p].state \in {"absent", "ready"}
      BY DEF Init, NewItem, NoItem
    <3> QED
      BY <2>1, <3>1, Phases
  <2> QED
    BY <2>2 DEF Life!LInit, Init
<1> QED
  BY <1>1, StepMapped, Invariance, NewEventInvariance, PTL
     DEF Spec, ImplementsLifecycle, Life!LifeSpec
=============================================================================
