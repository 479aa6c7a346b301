------------------------ MODULE PostgresQueueProofs ------------------------
(***************************************************************************)
(* Proofs about PostgresQueue, for every set of papers, clients and          *)
(* sessions.  The inductive invariant is the discipline of the row locks:    *)
(* no two open transactions hold the same row, and what a transaction is     *)
(* about to commit still fits the committed row it locked (Fits), because    *)
(* nobody else could write that row in the meantime.                         *)
(* The same argument keeps what a transaction prepared due and welcome (DInv). *)
(***************************************************************************)
EXTENDS PostgresQueue, TLAPS

RowOK(item) ==
    /\ item.state = "leased" <=> item.owner # None
    /\ item.state = "leased" <=> item.expires # None
    /\ item.state = "deferred" => item.due # None

\* One step of the life of paper p takes the committed row old to new.
OneStep(p, old, new) ==
    \/ LifeOf(new) = LifeOf(old)
    \/ old.state = "ready" /\ new.state = "leased"
    \/ old.state = "leased" /\ new.state = "leased" /\ new.owner = old.owner
    \/ old.state # "absent" /\ new.state \in Terminal \cup {"deferred"}
    \/ (old.state = "absent" \/ p \in Runs) /\ new.state = "ready"

\* The time limit of an item is over at t.
OverAt(item, t) ==
    \/ item.state = "leased" /\ item.expires <= t
    \/ item.state = "deferred" /\ item.due <= t

One(x, q) == \E p \in Papers : /\ DOMAIN x.writes \subseteq {p}
                               /\ p \in DOMAIN x.writes => OneStep(p, q[p], x.writes[p])

Reaps(x, q, t) == \A p \in DOMAIN x.writes : x.writes[p].state = "ready" /\ OverAt(q[p], t)

\* What a transaction has written lands in the row as it is now.
BumpFits(x, q) == /\ DOMAIN x.writes = {x.paper}
                  /\ x.writes[x.paper] = [q[x.paper] EXCEPT !.score = Clamp(@ + x.delta)]

\* Transaction x fits the committed rows q at time t.
Fits(x, q, t) ==
    /\ x.stage = "idle" => x = Idle
    /\ x.stage = "reporting" => DOMAIN x.writes = {} /\ x.delta = None /\ x.run \in Runs
    /\ x.stage = "bumping" => /\ x.paper \in Papers /\ DOMAIN x.writes = {x.paper}
                              /\ x.before = q[x.paper].score
    /\ x.stage = "writing" => (One(x, q) \/ Reaps(x, q, t)) /\ (x.delta # None => BumpFits(x, q))
    /\ x.event # None => x.record # "unknown"
    /\ \A p \in DOMAIN x.writes : RowOK(x.writes[p])

Typed(x) == \E ps \in SUBSET Papers : x \in Transaction(ps)

\* A transaction that holds the row of an event nobody has recorded is recording it.
Records(x, e) == e \in DOMAIN x.writes => x.event = e

IInv ==
    /\ TypeOK
    /\ \A p \in Papers : RowOK(rows[p])
    /\ \A s \in Sessions : Fits(txn[s], rows, clock)
    /\ \A s, z \in Sessions : s # z => Locks(s) \cap Locks(z) = {}
    /\ \A e \in Events : events[e] = "unknown" =>
          rows[e].state = "absent" /\ \A s \in Sessions : Records(txn[s], e)

-----------------------------------------------------------------------------
LEMMA NoneIsNone ==
    /\ None \notin Nat /\ None \notin Int /\ None \notin Owners /\ None \notin Papers
    /\ None \notin Deltas /\ None \notin Events /\ None \notin Runs
<1>1. None \notin Owners /\ None \notin Int /\ None \notin Papers
  BY SortAssumption, Zenon
<1>2. None \notin Nat
  BY <1>1
<1>3. None \notin Deltas
  BY <1>1, NumberAssumption, Zenon
<1>4. None \notin Events /\ None \notin Runs
  BY <1>1 DEF Papers
<1> QED
  BY <1>1, <1>2, <1>3, <1>4

LEMMA Instant ==
    ASSUME TypeOK, NEW now \in Instants
    PROVE  now \in Nat /\ now <= clock /\ clock \in Nat
  BY NumberAssumption DEF TypeOK, Instants

\* Every write of the store leaves a well-formed row.
LEMMA UnleasedOK ==
    ASSUME NEW item \in QueueItem, NEW state \in {"ready", "done", "dead"}
    PROVE  /\ Unleased(item, state) \in QueueItem
           /\ Unleased(item, state).state = state
           /\ RowOK(Unleased(item, state))
  BY NoneIsNone DEF Unleased, QueueItem, States, RowOK

LEMMA NewItemOK ==
    ASSUME NEW score \in 0..MaxScore, NEW now \in Nat
    PROVE  /\ NewItem(score, now) \in QueueItem
           /\ NewItem(score, now).state = "ready"
           /\ RowOK(NewItem(score, now))
  BY NoneIsNone DEF NewItem, NoItem, QueueItem, States, Time, RowOK

LEMMA NoItemOK == NoItem \in QueueItem /\ RowOK(NoItem) /\ NoItem.state = "absent"
  BY NumberAssumption, NoneIsNone DEF NoItem, QueueItem, States, Time, RowOK

LEMMA IdleOK == /\ Idle \in Transaction({}) /\ Idle.stage = "idle" /\ Idle.delta = None
                /\ Idle.event = None /\ DOMAIN Idle.writes = {}
  BY NumberAssumption DEF Idle, NoWrites, Transaction, RunStatus, EventRecord

LEMMA IdleFits == ASSUME NEW q, NEW t PROVE Fits(Idle, q, t)
  BY IdleOK DEF Fits

LEMMA SessionTyped ==
    ASSUME TypeOK, NEW s \in Sessions
    PROVE  /\ txn[s] \in Transaction(Locks(s)) /\ Locks(s) \subseteq Papers
           /\ \A p \in Locks(s) : txn[s].writes[p] \in QueueItem
<1>1. PICK ps \in SUBSET Papers : txn[s] \in Transaction(ps)
  BY DEF TypeOK
<1>2. DOMAIN txn[s].writes = ps
  BY <1>1 DEF Transaction
<1>3. \A p \in ps : txn[s].writes[p] \in QueueItem
  BY <1>1 DEF Transaction
<1> QED
  BY <1>1, <1>2, <1>3 DEF Locks

\* The record that Write leaves behind.
Writing(x, ws) == [x EXCEPT !.stage = "writing", !.writes = ws]

LEMMA WritingOK ==
    ASSUME NEW ps, NEW x \in Transaction(ps), NEW rs, NEW ws \in [rs -> QueueItem]
    PROVE  /\ Writing(x, ws) \in Transaction(rs)
           /\ Writing(x, ws).stage = "writing" /\ Writing(x, ws).writes = ws
           /\ Writing(x, ws).delta = x.delta /\ Writing(x, ws).paper = x.paper
           /\ Writing(x, ws).event = x.event /\ Writing(x, ws).record = x.record
  BY DEF Writing, Transaction

LEMMA WritingNothing ==
    ASSUME NEW x \in Transaction({})
    PROVE  /\ Writing(x, NoWrites) \in Transaction({})
           /\ Writing(x, NoWrites).stage = "writing" /\ DOMAIN Writing(x, NoWrites).writes = {}
           /\ Writing(x, NoWrites).delta = x.delta
           /\ Writing(x, NoWrites).event = x.event /\ Writing(x, NoWrites).record = x.record
<1>1. NoWrites \in [{} -> QueueItem] /\ DOMAIN NoWrites = {}
  BY DEF NoWrites
<1> QED
  BY <1>1 DEF Writing, Transaction

-----------------------------------------------------------------------------
\* A session goes on with its transaction, on rows nobody else has locked.
LEMMA StepOK ==
    ASSUME IInv, NEW s \in Sessions, NEW x, txn' = [txn EXCEPT ![s] = x],
           UNCHANGED <<clock, rows, runs, events>>,
           Typed(x), Fits(x, rows, clock),
           \A p \in DOMAIN x.writes : \A z \in Sessions \ {s} : p \notin Locks(z),
           \A e \in Events : events[e] = "unknown" => Records(x, e)
    PROVE  IInv'
<1>1. txn = [z \in Sessions |-> txn[z]]
  BY DEF IInv, TypeOK
<1>2. txn' = [z \in Sessions |-> txn'[z]] /\ txn'[s] = x
      /\ \A z \in Sessions \ {s} : txn'[z] = txn[z]
  BY <1>1
<1>3. TypeOK'
  BY <1>2 DEF IInv, TypeOK, Typed
<1>4. \A z \in Sessions : Fits(txn'[z], rows, clock)
  BY <1>2 DEF IInv
<1>5. ASSUME NEW a \in Sessions, NEW b \in Sessions, a # b
      PROVE  DOMAIN txn'[a].writes \cap DOMAIN txn'[b].writes = {}
  BY <1>2, <1>5 DEF IInv, Locks
<1>6. \A e \in Events : events[e] = "unknown" => \A z \in Sessions : Records(txn'[z], e)
  BY <1>2 DEF IInv
<1> QED
  BY <1>3, <1>4, <1>5, <1>6 DEF IInv, Locks

\* A session that has no locks yet writes the one row of a paper that is there.
LEMMA WriteOne ==
    ASSUME IInv, NEW s \in Sessions, Locks(s) = {}, txn[s].delta = None,
           NEW p \in Papers, ~Locked(p), NEW item \in QueueItem, RowOK(item),
           OneStep(p, rows[p], item), p \in Events => Exists(p),
           Write(s, [r \in {p} |-> item]), UNCHANGED <<clock, rows, runs, events>>
    PROVE  IInv'
<1> DEFINE ws == [r \in {p} |-> item]
           x == Writing(txn[s], ws)
<1>1. ws \in [{p} -> QueueItem] /\ DOMAIN ws = {p} /\ ws[p] = item
  OBVIOUS
<1>2. txn[s] \in Transaction(Locks(s)) /\ Fits(txn[s], rows, clock)
  BY SessionTyped DEF IInv
<1>3. txn' = [txn EXCEPT ![s] = x]
  BY DEF Write, Writing
<1> HIDE DEF ws
<1>4. x \in Transaction({p}) /\ x.stage = "writing" /\ x.writes = ws /\ x.delta = None
      /\ x.event = txn[s].event /\ x.record = txn[s].record
  BY <1>1, <1>2, WritingOK
<1> HIDE DEF x
<1>5. Typed(x)
  BY <1>4 DEF Typed
<1>6. One(x, rows)
  BY <1>1, <1>4 DEF One
<1>7. Fits(x, rows, clock)
  BY <1>1, <1>2, <1>4, <1>6 DEF Fits
<1>8. \A e \in Events : events[e] = "unknown" => Records(x, e)
  BY <1>1, <1>4 DEF IInv, Records, Exists
<1>9. \A r \in DOMAIN x.writes : \A z \in Sessions \ {s} : r \notin Locks(z)
  BY <1>1, <1>4 DEF Locked
<1> QED
  BY <1>3, <1>5, <1>7, <1>8, <1>9, StepOK

\* A reaper writes all the rows whose time is over.
LEMMA WriteReaped ==
    ASSUME IInv, NEW s \in Sessions, txn[s] = Idle, NEW ps \in SUBSET Papers,
           \A p \in ps : ~Locked(p), NEW ws \in [ps -> QueueItem],
           \A p \in ps : RowOK(ws[p]) /\ ws[p].state = "ready" /\ OverAt(rows[p], clock),
           Write(s, ws), UNCHANGED <<clock, rows, runs, events>>
    PROVE  IInv'
<1> DEFINE x == Writing(txn[s], ws)
<1>1. txn' = [txn EXCEPT ![s] = x]
  BY DEF Write, Writing
<1>2. txn[s] \in Transaction({})
  BY IdleOK
<1>3. x \in Transaction(ps) /\ x.stage = "writing" /\ x.writes = ws /\ x.delta = None
      /\ x.event = None
  BY <1>2, WritingOK, IdleOK
<1> HIDE DEF x
<1>4. DOMAIN ws = ps
  OBVIOUS
<1>5. Reaps(x, rows, clock)
  BY <1>3, <1>4 DEF Reaps
<1>6. Fits(x, rows, clock)
  BY <1>3, <1>4, <1>5 DEF Fits
<1>7. Typed(x)
  BY <1>3 DEF Typed
<1>8. \A e \in Events : events[e] = "unknown" => Records(x, e)
  BY <1>3, <1>4 DEF IInv, Records, OverAt
<1>9. \A r \in DOMAIN x.writes : \A z \in Sessions \ {s} : r \notin Locks(z)
  BY <1>3, <1>4 DEF Locked
<1> QED
  BY <1>1, <1>6, <1>7, <1>8, <1>9, StepOK

\* Rows that change only where the committing transaction had locked them leave every
\* other transaction as it fits.
LEMMA OthersFit ==
    ASSUME NEW x, NEW q, NEW r, NEW t, Fits(x, q, t), \A p \in DOMAIN x.writes : r[p] = q[p]
    PROVE  Fits(x, r, t)
<1>1. One(x, q) => One(x, r)
  BY DEF One
<1>2. Reaps(x, q, t) => Reaps(x, r, t)
  BY DEF Reaps
<1>3. BumpFits(x, q) => BumpFits(x, r)
  BY DEF BumpFits
<1> QED
  BY <1>1, <1>2, <1>3 DEF Fits

LEMMA CommitOK == ASSUME IInv, NEW s \in Sessions, Commit(s) PROVE IInv'
<1>1. /\ txn[s].stage = "writing" /\ UNCHANGED clock
      /\ rows' = [p \in Papers |-> IF p \in Locks(s) THEN txn[s].writes[p] ELSE rows[p]]
      /\ events' = [e \in Events |-> IF txn[s].event = e THEN txn[s].record ELSE events[e]]
      /\ runs' = [r \in Runs |-> IF txn[s].run = r THEN txn[s].status ELSE runs[r]]
      /\ txn' = [txn EXCEPT ![s] = Idle]
  BY DEF Commit
<1>2. /\ txn[s] \in Transaction(Locks(s)) /\ Locks(s) \subseteq Papers
      /\ \A p \in Locks(s) : txn[s].writes[p] \in QueueItem
  BY SessionTyped DEF IInv
<1>3. /\ txn' = [z \in Sessions |-> txn'[z]] /\ txn'[s] = Idle
      /\ \A z \in Sessions \ {s} : txn'[z] = txn[z]
  BY <1>1 DEF IInv, TypeOK
<1>4. rows' \in [Papers -> QueueItem]
  BY <1>1, <1>2 DEF IInv, TypeOK
<1>5. runs' \in [Runs -> RunStatus] /\ events' \in [Events -> EventRecord]
  BY <1>1, <1>2 DEF IInv, TypeOK, Transaction
<1>6. Typed(Idle)
  BY IdleOK DEF Typed
<1>7. TypeOK'
  BY <1>1, <1>3, <1>4, <1>5, <1>6 DEF IInv, TypeOK, Typed
<1>8. \A p \in Papers : RowOK(rows'[p])
  BY <1>1 DEF IInv, Fits, Locks
<1>9. ASSUME NEW z \in Sessions PROVE Fits(txn'[z], rows', clock)
  <2>1. CASE z = s
    BY <1>3, <2>1, IdleFits
  <2>2. CASE z # s
    <3>1. Locks(z) \subseteq Papers /\ Locks(z) \cap Locks(s) = {}
      BY <2>2, SessionTyped DEF IInv
    <3>2. \A p \in Locks(z) : rows'[p] = rows[p]
      BY <1>1, <3>1
    <3>3. Fits(txn[z], rows, clock)
      BY DEF IInv
    <3> QED
      BY <1>3, <2>2, <3>2, <3>3, OthersFit DEF Locks
  <2> QED
    BY <2>1, <2>2
<1>10. ASSUME NEW a \in Sessions, NEW b \in Sessions, a # b
       PROVE  DOMAIN txn'[a].writes \cap DOMAIN txn'[b].writes = {}
  BY <1>3, <1>10, IdleOK DEF IInv, Locks
<1>11. ASSUME NEW e \in Events, events'[e] = "unknown"
       PROVE  rows'[e].state = "absent" /\ \A z \in Sessions : Records(txn'[z], e)
  <2>1. txn[s].event # None => txn[s].record # "unknown"
    BY DEF IInv, Fits
  <2>2. txn[s].event # e /\ events[e] = "unknown" /\ e \in Papers
    BY <1>1, <1>11, <2>1, NoneIsNone DEF Papers
  <2>3. e \notin Locks(s) /\ rows[e].state = "absent"
    BY <2>2 DEF IInv, Records, Locks
  <2>4. rows'[e].state = "absent"
    BY <1>1, <2>2, <2>3
  <2>5. \A z \in Sessions : Records(txn'[z], e)
    BY <1>3, <2>2, IdleOK DEF IInv, Records
  <2> QED
    BY <2>4, <2>5
<1> QED
  BY <1>1, <1>7, <1>8, <1>9, <1>10, <1>11 DEF IInv, Locks

LEMMA TickOK == ASSUME IInv, Tick PROVE IInv'
<1>1. clock \in Nat /\ clock' = clock + 1 /\ clock < MaxClock
      /\ UNCHANGED <<rows, runs, events, txn>>
  BY NumberAssumption DEF Tick, IInv, TypeOK
<1>2. TypeOK'
  BY <1>1, NumberAssumption DEF IInv, TypeOK
<1>3. ASSUME NEW p \in Papers, RowOK(rows[p]), OverAt(rows[p], clock)
      PROVE  OverAt(rows[p], clock + 1)
  BY <1>1, <1>3, NoneIsNone DEF OverAt, RowOK, IInv, TypeOK, QueueItem, Time
<1>4. ASSUME NEW s \in Sessions PROVE Fits(txn[s], rows, clock')
  <2>1. Fits(txn[s], rows, clock) /\ Locks(s) \subseteq Papers
    BY SessionTyped DEF IInv
  <2>2. Reaps(txn[s], rows, clock) => Reaps(txn[s], rows, clock')
    BY <1>1, <1>3, <2>1 DEF Reaps, Locks, IInv
  <2> QED
    BY <2>1, <2>2 DEF Fits
<1> QED
  BY <1>1, <1>2, <1>4 DEF IInv, Locks

\* What every action of a session may rely on.
LEMMA Given ==
    ASSUME IInv
    PROVE  /\ clock \in Nat /\ rows \in [Papers -> QueueItem]
           /\ \A p \in Papers : rows[p] \in QueueItem /\ RowOK(rows[p])
           /\ Events \subseteq Papers /\ Runs \subseteq Papers /\ Runs \cap Events = {}
           /\ \A s \in Sessions : txn[s] = Idle => Locks(s) = {} /\ txn[s].delta = None
  BY NumberAssumption, SortAssumption, IdleOK DEF IInv, TypeOK, Papers, Locks

LEMMA LeaseNextOK ==
    ASSUME IInv, NEW s \in Sessions, NEW owner \in Owners, NEW now \in Instants,
           NEW leaseMs \in LeaseTimes, NEW excluded, LeaseNext(s, owner, now, leaseMs, excluded)
    PROVE  IInv'
<1>1. PICK p \in Papers :
         /\ rows[p].state = "ready" /\ ~Locked(p)
         /\ Write(s, [x \in {p} |-> [rows[p] EXCEPT !.state = "leased", !.owner = owner,
                                                   !.expires = now + leaseMs]])
  BY DEF LeaseNext
<1> DEFINE item == [rows[p] EXCEPT !.state = "leased", !.owner = owner,
                                   !.expires = now + leaseMs]
<1>2. now + leaseMs \in Nat
  BY Instant, NumberAssumption DEF IInv
<1>a. rows[p] \in QueueItem /\ RowOK(rows[p])
  BY Given
<1>b. item \in QueueItem
  BY <1>2, <1>a DEF QueueItem, States, Time
<1>c. item.state = "leased" /\ item.owner = owner /\ item.expires = now + leaseMs
  BY <1>a DEF QueueItem
<1>d. RowOK(item)
  BY <1>2, <1>c, NoneIsNone DEF RowOK
<1>3. item \in QueueItem /\ item.state = "leased" /\ RowOK(item)
  BY <1>b, <1>c, <1>d
<1>4. Write(s, [x \in {p} |-> item])
  BY <1>1
<1>5. OneStep(p, rows[p], item) /\ Exists(p)
  BY <1>1, <1>3 DEF OneStep, Exists
<1>6. txn[s] = Idle /\ UNCHANGED <<clock, rows, runs, events>>
  BY DEF LeaseNext
<1> HIDE DEF item
<1> QED
  BY <1>1, <1>3, <1>4, <1>5, <1>6, Given, WriteOne

LEMMA RenewLeaseOK ==
    ASSUME IInv, NEW s \in Sessions, NEW p \in Papers, NEW owner \in Owners,
           NEW now \in Instants, NEW leaseMs \in LeaseTimes, RenewLease(s, p, owner, now, leaseMs)
    PROVE  IInv'
<1> DEFINE item == [rows[p] EXCEPT !.expires = now + leaseMs]
<1>1. /\ txn[s] = Idle /\ ~Locked(p) /\ rows[p].state = "leased"
      /\ Write(s, [x \in {p} |-> item]) /\ UNCHANGED <<clock, rows, runs, events>>
  BY DEF RenewLease
<1>2. now + leaseMs \in Nat
  BY Instant, NumberAssumption DEF IInv
<1>3. item \in QueueItem /\ item.state = "leased" /\ RowOK(item) /\ item.owner = rows[p].owner
  BY <1>1, <1>2, Given, NoneIsNone DEF QueueItem, States, Time, RowOK
<1>4. OneStep(p, rows[p], item) /\ Exists(p)
  BY <1>1, <1>3 DEF OneStep, Exists
<1> HIDE DEF item
<1> QED
  BY <1>1, <1>3, <1>4, Given, WriteOne

LEMMA DecideOK ==
    ASSUME IInv, NEW s \in Sessions, NEW p \in Papers, MarkDone(s, p) \/ IgnoreQueueItem(s, p)
    PROVE  IInv'
<1>1. /\ txn[s] = Idle /\ Exists(p) /\ ~Locked(p) /\ UNCHANGED <<clock, rows, runs, events>>
      /\ \/ Write(s, [x \in {p} |-> Unleased(rows[p], "done")])
         \/ Write(s, [x \in {p} |-> Unleased(rows[p], "dead")])
  BY DEF MarkDone, IgnoreQueueItem
<1>2. ASSUME NEW state \in {"done", "dead"}
      PROVE  /\ Unleased(rows[p], state) \in QueueItem /\ RowOK(Unleased(rows[p], state))
             /\ OneStep(p, rows[p], Unleased(rows[p], state))
  <2>1. Unleased(rows[p], state).state = state
    BY Given, UnleasedOK
  <2>2. OneStep(p, rows[p], Unleased(rows[p], state))
    BY <1>1, <2>1 DEF OneStep, Terminal, Exists
  <2> QED
    BY <2>2, Given, UnleasedOK
<1> QED
  BY <1>1, <1>2, Given, WriteOne

LEMMA DeferOK ==
    ASSUME IInv, NEW s \in Sessions, NEW p \in Papers, NEW due \in 1..(MaxClock + 1),
           NEW now, DeferQueueItem(s, p, due, now)
    PROVE  IInv'
<1> DEFINE item == [Unleased(rows[p], "deferred") EXCEPT !.due = due]
<1>1. /\ txn[s] = Idle /\ Exists(p) /\ ~Locked(p) /\ UNCHANGED <<clock, rows, runs, events>>
      /\ Write(s, [x \in {p} |-> item])
  BY DEF DeferQueueItem
<1>2. due \in Nat
  BY NumberAssumption
<1>a. rows[p] \in QueueItem
  BY Given
<1>b. item \in QueueItem
  BY <1>2, <1>a DEF Unleased, QueueItem, States, Time
<1>c. item.state = "deferred" /\ item.owner = None /\ item.expires = None /\ item.due = due
  BY <1>a DEF Unleased, QueueItem
<1>3. item \in QueueItem /\ item.state = "deferred" /\ RowOK(item)
  BY <1>2, <1>b, <1>c, NoneIsNone DEF RowOK
<1>4. OneStep(p, rows[p], item)
  BY <1>1, <1>3 DEF OneStep, Exists
<1> HIDE DEF item
<1> QED
  BY <1>1, <1>3, <1>4, Given, WriteOne

LEMMA ReapOK ==
    ASSUME IInv, NEW s \in Sessions, NEW now \in Instants,
           ReapStaleLeases(s, now) \/ ReapDueDeferredItems(s, now)
    PROVE  IInv'
<1>n. now \in Nat /\ now <= clock /\ clock \in Nat
  BY Instant DEF IInv
<1>1. CASE ReapStaleLeases(s, now)
  <2> DEFINE ps == {p \in Papers : rows[p].state = "leased" /\ rows[p].expires <= now}
             ws == [p \in ps |-> Unleased(rows[p], "ready")]
  <2>1. /\ txn[s] = Idle /\ (\A p \in ps : ~Locked(p)) /\ Write(s, ws)
        /\ UNCHANGED <<clock, rows, runs, events>>
    BY <1>1 DEF ReapStaleLeases
  <2>2. ASSUME NEW p \in ps
        PROVE  ws[p] \in QueueItem /\ RowOK(ws[p]) /\ ws[p].state = "ready"
               /\ OverAt(rows[p], clock)
    <3>1. rows[p].expires \in Nat
      BY Given DEF RowOK, QueueItem, Time
    <3> QED
      BY <1>n, <3>1, Given, UnleasedOK DEF OverAt
  <2>3. ws \in [ps -> QueueItem]
    BY <2>2
  <2>4. ps \in SUBSET Papers
    OBVIOUS
  <2> HIDE DEF ps, ws
  <2> QED
    BY <2>1, <2>2, <2>3, <2>4, WriteReaped
<1>2. CASE ReapDueDeferredItems(s, now)
  <2> DEFINE ps == {p \in Papers : /\ rows[p].state = "deferred"
                                   /\ rows[p].due # None /\ rows[p].due <= now}
             ws == [p \in ps |-> [rows[p] EXCEPT !.state = "ready"]]
  <2>1. /\ txn[s] = Idle /\ (\A p \in ps : ~Locked(p)) /\ Write(s, ws)
        /\ UNCHANGED <<clock, rows, runs, events>>
    BY <1>2 DEF ReapDueDeferredItems
  <2>2. ASSUME NEW p \in ps
        PROVE  ws[p] \in QueueItem /\ RowOK(ws[p]) /\ ws[p].state = "ready"
               /\ OverAt(rows[p], clock)
    <3>1. rows[p].due \in Nat /\ rows[p] \in QueueItem /\ RowOK(rows[p])
      BY Given DEF QueueItem, Time
    <3>2. [rows[p] EXCEPT !.state = "ready"] \in QueueItem
          /\ RowOK([rows[p] EXCEPT !.state = "ready"])
      BY <3>1 DEF RowOK, QueueItem, States
    <3> QED
      BY <1>n, <3>1, <3>2 DEF OverAt, QueueItem
  <2>3. ws \in [ps -> QueueItem]
    BY <2>2
  <2>4. ps \in SUBSET Papers
    OBVIOUS
  <2> HIDE DEF ps, ws
  <2> QED
    BY <2>1, <2>2, <2>3, <2>4, WriteReaped
<1> QED
  BY <1>1, <1>2

LEMMA BumpReadOK ==
    ASSUME IInv, NEW s \in Sessions, NEW p \in Papers, NEW delta \in Deltas \cup {None},
           BumpRead(s, p, delta)
    PROVE  IInv'
<1> DEFINE x == [Idle EXCEPT !.stage = "bumping", !.paper = p, !.delta = delta,
                             !.before = rows[p].score, !.writes = [r \in {p} |-> rows[p]]]
<1>1. /\ txn[s] = Idle /\ Exists(p) /\ ~Locked(p) /\ UNCHANGED <<clock, rows, runs, events>>
      /\ txn' = [txn EXCEPT ![s] = x]
  BY DEF BumpRead
<1>2. rows[p].score \in 0..MaxScore /\ [r \in {p} |-> rows[p]] \in [{p} -> QueueItem]
  BY Given DEF QueueItem
<1>3. x \in Transaction({p})
  BY <1>2, IdleOK DEF Transaction
<1>4. /\ x.stage = "bumping" /\ x.paper = p /\ x.before = rows[p].score /\ x.event = None
      /\ x.writes = [r \in {p} |-> rows[p]]
  BY IdleOK DEF Transaction
<1> HIDE DEF x
<1>5. DOMAIN x.writes = {p} /\ RowOK(x.writes[p])
  BY <1>4, Given
<1>6. Fits(x, rows, clock)
  BY <1>4, <1>5 DEF Fits
<1>7. Typed(x)
  BY <1>3 DEF Typed
<1>8. \A e \in Events : events[e] = "unknown" => Records(x, e)
  BY <1>1, <1>5 DEF IInv, Records, Exists
<1>9. \A r \in DOMAIN x.writes : \A z \in Sessions \ {s} : r \notin Locks(z)
  BY <1>1, <1>5 DEF Locked
<1> QED
  BY <1>1, <1>6, <1>7, <1>8, <1>9, StepOK

LEMMA Clamped == ASSUME NEW n \in Int PROVE Clamp(n) \in 0..MaxScore
  BY NumberAssumption DEF Clamp

LEMMA BumpWriteOK == ASSUME IInv, NEW s \in Sessions, BumpWrite(s) PROVE IInv'
<1> DEFINE p == txn[s].paper
<1>1. /\ txn[s].stage = "bumping" /\ UNCHANGED <<clock, rows, runs, events>>
  BY DEF BumpWrite
<1>2. /\ p \in Papers /\ Locks(s) = {p} /\ txn[s].before = rows[p].score
      /\ txn[s] \in Transaction({p}) /\ Fits(txn[s], rows, clock)
  BY <1>1, SessionTyped DEF IInv, Fits, Locks
<1>3. PICK next \in IF txn[s].delta = None THEN Scores ELSE {txn[s].before + txn[s].delta} :
         Write(s, [x \in {p} |-> [rows[p] EXCEPT !.score = Clamp(next)]])
  BY DEF BumpWrite
<1>4. rows[p] \in QueueItem /\ RowOK(rows[p]) /\ rows[p].score \in Int
  BY <1>2, Given, NumberAssumption DEF QueueItem
<1>5. next \in Int
  BY <1>2, <1>3, <1>4, NumberAssumption DEF Transaction
<1> DEFINE item == [rows[p] EXCEPT !.score = Clamp(next)]
           ws == [x \in {p} |-> item]
           x == Writing(txn[s], ws)
<1>6. /\ item \in QueueItem /\ RowOK(item)
      /\ LifeOf(item) = LifeOf(rows[p])
  BY <1>4, <1>5, Clamped DEF QueueItem, RowOK, LifeOf
<1>7. txn[s].delta # None => item = [rows[p] EXCEPT !.score = Clamp(@ + txn[s].delta)]
  BY <1>2, <1>3
<1>8. txn' = [txn EXCEPT ![s] = x]
  BY <1>3 DEF Write, Writing
<1> HIDE DEF item
<1>9. ws \in [{p} -> QueueItem] /\ DOMAIN ws = {p} /\ ws[p] = item
  BY <1>6
<1> HIDE DEF ws
<1>10. x \in Transaction({p}) /\ x.stage = "writing" /\ x.writes = ws
       /\ x.delta = txn[s].delta /\ x.paper = p /\ x.event = txn[s].event
       /\ x.record = txn[s].record
  BY <1>2, <1>9, WritingOK
<1> HIDE DEF x
<1>11. One(x, rows)
  BY <1>2, <1>6, <1>9, <1>10 DEF One, OneStep
<1>12. x.delta # None => BumpFits(x, rows)
  BY <1>7, <1>9, <1>10 DEF BumpFits
<1>13. Fits(x, rows, clock)
  BY <1>2, <1>6, <1>9, <1>10, <1>11, <1>12 DEF Fits
<1>14. Typed(x)
  BY <1>2, <1>10 DEF Typed
<1>15. \A e \in Events : events[e] = "unknown" => Records(x, e)
  BY <1>2, <1>9, <1>10 DEF IInv, Records, Locks
<1>16. \A r \in DOMAIN x.writes : \A z \in Sessions \ {s} : r \notin Locks(z)
  BY <1>2, <1>9, <1>10 DEF IInv
<1> HIDE DEF p
<1> QED
  BY <1>1, <1>8, <1>13, <1>14, <1>15, <1>16, StepOK

LEMMA ReportRunOK ==
    ASSUME IInv, NEW s \in Sessions, NEW r \in Runs, NEW status \in RunStatus,
           ReportRun(s, r, status)
    PROVE  IInv'
<1> DEFINE x == [Idle EXCEPT !.stage = "reporting", !.run = r, !.status = status]
<1>1. txn' = [txn EXCEPT ![s] = x] /\ UNCHANGED <<clock, rows, runs, events>>
  BY DEF ReportRun
<1>2. x \in Transaction({}) /\ x.stage = "reporting" /\ x.delta = None /\ x.event = None
      /\ DOMAIN x.writes = {} /\ x.run = r
  BY IdleOK DEF Transaction
<1> HIDE DEF x
<1>3. Fits(x, rows, clock)
  BY <1>2 DEF Fits
<1>4. Typed(x)
  BY <1>2 DEF Typed
<1>5. \A e \in Events : Records(x, e)
  BY <1>2 DEF Records
<1> QED
  BY <1>1, <1>2, <1>3, <1>4, <1>5, StepOK

LEMMA ClearRunPaperOK == ASSUME IInv, NEW s \in Sessions, ClearRunPaper(s) PROVE IInv'
<1> DEFINE r == txn[s].run
           item == [Unleased(rows[r], "done") EXCEPT !.due = None]
<1>1. /\ txn[s].stage = "reporting" /\ txn[s].status \notin NeedsHuman
      /\ UNCHANGED <<clock, rows, runs, events>>
  BY DEF ClearRunPaper
<1>2. /\ Locks(s) = {} /\ txn[s].delta = None /\ Fits(txn[s], rows, clock)
      /\ txn[s] \in Transaction({}) /\ r \in Runs
  BY <1>1, SessionTyped DEF IInv, Fits, Locks, Transaction
<1>3. CASE rows[r].state \in OnStack
  <2>1. ~Locked(r) /\ Write(s, [p \in {r} |-> item])
    BY <1>3 DEF ClearRunPaper
  <2>2. r \in Papers /\ rows[r] \in QueueItem
    BY <1>2, Given
  <2>a. item \in QueueItem
    BY <2>2 DEF Unleased, QueueItem, States
  <2>b. item.state = "done" /\ item.owner = None /\ item.expires = None
    BY <2>2 DEF Unleased, QueueItem
  <2>3. item \in QueueItem /\ item.state = "done" /\ RowOK(item)
    BY <2>a, <2>b DEF RowOK
  <2>4. OneStep(r, rows[r], item) /\ (r \in Events => Exists(r))
    BY <1>3, <2>3 DEF OneStep, OnStack, Terminal, Exists
  <2> HIDE DEF item, r
  <2> QED
    BY <1>1, <1>2, <2>1, <2>2, <2>3, <2>4, WriteOne
<1>4. CASE rows[r].state \notin OnStack
  <2> DEFINE x == Writing(txn[s], NoWrites)
  <2>1. txn' = [txn EXCEPT ![s] = x]
    BY <1>4 DEF ClearRunPaper, Write, Writing
  <2>3. x \in Transaction({}) /\ x.stage = "writing" /\ DOMAIN x.writes = {} /\ x.delta = None
        /\ x.event = txn[s].event /\ x.record = txn[s].record
    BY <1>2, WritingNothing
  <2> HIDE DEF x
  <2>r. Reaps(x, rows, clock)
    BY <2>3 DEF Reaps
  <2>4. Fits(x, rows, clock)
    BY <1>2, <2>3, <2>r DEF Fits
  <2>5. Typed(x)
    BY <2>3 DEF Typed
  <2>6. \A e \in Events : Records(x, e)
    BY <2>3 DEF Records
  <2> QED
    BY <1>1, <2>1, <2>3, <2>4, <2>5, <2>6, StepOK
<1> QED
  BY <1>2, <1>3, <1>4 DEF ClearRunPaper

LEMMA OfferRunPaperOK ==
    ASSUME IInv, NEW s \in Sessions, NEW now \in Instants, OfferRunPaper(s, now)
    PROVE  IInv'
<1> DEFINE r == txn[s].run
           score == RunScore(txn[s].status)
           back == [Unleased(rows[r], "ready") EXCEPT !.score = score, !.due = None]
           item == IF Exists(r) THEN back ELSE NewItem(score, now)
<1>1. /\ txn[s].stage = "reporting" /\ ~Locked(r) /\ Write(s, [p \in {r} |-> item])
      /\ UNCHANGED <<clock, rows, runs, events>>
  BY DEF OfferRunPaper
<1>2. /\ Locks(s) = {} /\ txn[s].delta = None /\ Fits(txn[s], rows, clock)
      /\ txn[s] \in Transaction({}) /\ r \in Runs
  BY <1>1, SessionTyped DEF IInv, Fits, Locks, Transaction
<1>3. score \in 0..MaxScore /\ now \in Nat
  BY NumberAssumption, Instant DEF RunScore, IInv
<1>4. r \in Runs /\ r \in Papers /\ r \notin Events
  BY <1>2, Given
<1>a. rows[r] \in QueueItem
  BY <1>4, Given
<1>b. back \in QueueItem
  BY <1>3, <1>a DEF Unleased, QueueItem, States
<1>c. back.state = "ready" /\ back.owner = None /\ back.expires = None
  BY <1>a DEF Unleased, QueueItem
<1>5. back \in QueueItem /\ back.state = "ready" /\ RowOK(back)
  BY <1>b, <1>c DEF RowOK
<1> HIDE DEF back, score
<1>6. item \in QueueItem /\ item.state = "ready" /\ RowOK(item)
  BY <1>3, <1>5, NewItemOK
<1> HIDE DEF item
<1>7. OneStep(r, rows[r], item)
  BY <1>4, <1>6 DEF OneStep
<1> HIDE DEF r
<1> QED
  BY <1>1, <1>2, <1>4, <1>6, <1>7, WriteOne

LEMMA RecordEventOK ==
    ASSUME IInv, NEW s \in Sessions, NEW e \in Events, NEW now \in Instants,
           RecordEvent(s, e, now)
    PROVE  IInv'
<1>1. /\ txn[s] = Idle /\ events[e] = "unknown" /\ UNCHANGED <<clock, rows, runs, events>>
      /\ \A z \in Sessions : txn[z].event # e
  BY DEF RecordEvent
<1> DEFINE W(record) == IF record = "stored" THEN NoWrites
                        ELSE [p \in {e} |-> NewItem(EventScore, now)]
<1>2. PICK record \in {"queued", "stored"} :
         txn' = [txn EXCEPT ![s] = [Idle EXCEPT !.stage = "writing", !.event = e,
                                                !.record = record, !.writes = W(record)]]
  BY DEF RecordEvent
<1> DEFINE ws == W(record)
           x == [Idle EXCEPT !.stage = "writing", !.event = e, !.record = record, !.writes = ws]
<1>3. NewItem(EventScore, now) \in QueueItem /\ NewItem(EventScore, now).state = "ready"
      /\ RowOK(NewItem(EventScore, now))
  BY Instant, NewItemOK, NumberAssumption DEF IInv
<1>4. PICK ps \in {{}, {e}} : ws \in [ps -> QueueItem]
  BY <1>3 DEF NoWrites
<1>5. DOMAIN ws = ps /\ \A p \in ps : ws[p].state = "ready" /\ RowOK(ws[p])
  BY <1>3, <1>4 DEF NoWrites
<1>6. txn' = [txn EXCEPT ![s] = x]
  BY <1>2
<1> HIDE DEF W, ws
<1>7. x \in Transaction(ps) /\ x.stage = "writing" /\ x.writes = ws /\ x.delta = None
      /\ x.event = e /\ x.record = record
  BY <1>4, IdleOK DEF Transaction, EventRecord
<1> HIDE DEF x
<1>8. e \in Papers /\ rows[e].state = "absent"
  BY <1>1, Given DEF IInv
<1>9. One(x, rows)
  BY <1>4, <1>5, <1>7, <1>8 DEF One, OneStep
<1>10. Fits(x, rows, clock)
  BY <1>5, <1>7, <1>9 DEF Fits
<1>11. Typed(x)
  BY <1>4, <1>7, <1>8 DEF Typed
<1>12. \A f \in Events : Records(x, f)
  BY <1>4, <1>5, <1>7 DEF Records
<1>13. \A z \in Sessions : e \notin Locks(z)
  BY <1>1 DEF IInv, Records, Locks
<1> QED
  BY <1>1, <1>4, <1>5, <1>6, <1>7, <1>10, <1>11, <1>12, <1>13, StepOK

LEMMA RollbackOK == ASSUME IInv, NEW s \in Sessions, Rollback(s) PROVE IInv'
<1>1. txn' = [txn EXCEPT ![s] = Idle] /\ UNCHANGED <<clock, rows, runs, events>>
  BY DEF Rollback
<1>2. Typed(Idle)
  BY IdleOK DEF Typed
<1>3. \A e \in Events : Records(Idle, e)
  BY IdleOK DEF Records
<1> QED
  BY <1>1, <1>2, <1>3, IdleOK, IdleFits, StepOK

LEMMA InitOK == Init => IInv
<1> SUFFICES ASSUME Init PROVE IInv
  OBVIOUS
<1>1. \A p \in Papers : rows[p] \in QueueItem /\ RowOK(rows[p])
  BY NewItemOK, NoItemOK, NumberAssumption DEF Init
<1>2. \A s \in Sessions : txn[s] = Idle
  BY DEF Init
<1>3. Typed(Idle)
  BY IdleOK DEF Typed
<1>4. TypeOK
  BY <1>1, <1>2, <1>3, NumberAssumption DEF Init, TypeOK, Typed, RunStatus, EventRecord
<1>5. \A e \in Events : rows[e].state = "absent"
  BY NoItemOK, SortAssumption DEF Init, Papers
<1>6. \A s \in Sessions : Locks(s) = {} /\ Fits(txn[s], rows, clock)
  BY <1>2, IdleOK, IdleFits DEF Locks
<1>7. \A s \in Sessions, e \in Events : Records(txn[s], e)
  BY <1>2, IdleOK DEF Records
<1> QED
  BY <1>1, <1>4, <1>5, <1>6, <1>7 DEF IInv

LEMMA StutterOK == ASSUME IInv, UNCHANGED pvars PROVE IInv'
  BY DEF IInv, TypeOK, Fits, Locks, Records, pvars

LEMMA NextOK == IInv /\ [Next]_pvars => IInv'
<1> SUFFICES ASSUME IInv, [Next]_pvars PROVE IInv'
  OBVIOUS
<1>1. CASE Tick
  BY <1>1, TickOK
<1>2. ASSUME NEW s \in Sessions, NEW owner \in Owners, NEW now \in Instants,
             NEW leaseMs \in LeaseTimes, NEW excluded \in Papers \cup {None},
             LeaseNext(s, owner, now, leaseMs, excluded)
      PROVE  IInv'
  BY <1>2, LeaseNextOK
<1>3. ASSUME NEW s \in Sessions, NEW p \in Papers, NEW owner \in Owners,
             NEW now \in Instants, NEW leaseMs \in LeaseTimes,
             RenewLease(s, p, owner, now, leaseMs)
      PROVE  IInv'
  BY <1>3, RenewLeaseOK
<1>4. ASSUME NEW s \in Sessions, NEW p \in Papers, MarkDone(s, p) \/ IgnoreQueueItem(s, p)
      PROVE  IInv'
  BY <1>4, DecideOK
<1>5. ASSUME NEW s \in Sessions, NEW p \in Papers, NEW due \in 1..(MaxClock + 1),
             NEW now \in Instants, DeferQueueItem(s, p, due, now)
      PROVE  IInv'
  BY <1>5, DeferOK
<1>6. ASSUME NEW s \in Sessions, NEW p \in Papers,
             NEW delta \in Deltas \cup (IF Scores = {} THEN {} ELSE {None}), BumpRead(s, p, delta)
      PROVE  IInv'
  BY <1>6, BumpReadOK
<1>7. ASSUME NEW s \in Sessions, NEW now \in Instants,
             ReapStaleLeases(s, now) \/ ReapDueDeferredItems(s, now) \/ OfferRunPaper(s, now)
      PROVE  IInv'
  BY <1>7, ReapOK, OfferRunPaperOK
<1>8. ASSUME NEW s \in Sessions, NEW r \in Runs, NEW status \in RunStatus \ {"unknown"},
             ReportRun(s, r, status)
      PROVE  IInv'
  BY <1>8, ReportRunOK
<1>9. ASSUME NEW s \in Sessions, NEW e \in Events, NEW now \in Instants,
             RecordEvent(s, e, now)
      PROVE  IInv'
  BY <1>9, RecordEventOK
<1>10. ASSUME NEW s \in Sessions,
              BumpWrite(s) \/ ClearRunPaper(s) \/ Commit(s) \/ Rollback(s)
       PROVE  IInv'
  BY <1>10, BumpWriteOK, ClearRunPaperOK, CommitOK, RollbackOK
<1>11. CASE UNCHANGED pvars
  BY <1>11, StutterOK
<1> QED
  BY <1>1, <1>2, <1>3, <1>4, <1>5, <1>6, <1>7, <1>8, <1>9, <1>10, <1>11 DEF Next

LEMMA Invariance == Spec => []IInv
  BY InitOK, NextOK, PTL DEF Spec

\* The committed tables and the open transactions keep their types.
THEOREM TypeCorrect == Spec => []TypeOK
<1>1. IInv => TypeOK
  BY DEF IInv
<1> QED
  BY <1>1, Invariance, PTL

\* Committed rows never show half a lease, whatever sessions interleave and roll back.
THEOREM LeasesAgree == Spec => []LeaseFieldsAgree
<1>1. IInv => LeaseFieldsAgree
  BY DEF IInv, RowOK, LeaseFieldsAgree, LeaseHeld
<1> QED
  BY <1>1, Invariance, PTL

\* The committed rows move only with a COMMIT.
LEMMA OnlyCommitWrites ==
    ASSUME [Next]_pvars
    PROVE  UNCHANGED rows \/ \E s \in Sessions : Commit(s)
  BY DEF Next, pvars, Tick, LeaseNext, RenewLease, MarkDone, IgnoreQueueItem, DeferQueueItem,
         BumpRead, BumpWrite, ReapStaleLeases, ReapDueDeferredItems, ReportRun, ClearRunPaper,
         OfferRunPaper, RecordEvent, Rollback

\* A re-ranking lands on the score that is committed then: its row was locked from the
\* SELECT to the COMMIT.
THEOREM NoBumpIsLost == Spec => BumpsAddUp
<1>1. ASSUME IInv, [Next]_pvars, NEW s \in Sessions, NEW p \in Papers,
             txn[s].delta # None, p = txn[s].paper, txn'[s] = Idle, rows'[p] # rows[p]
      PROVE  rows'[p] = [rows[p] EXCEPT !.score = Clamp(@ + txn[s].delta)]
  <2>1. PICK z \in Sessions : Commit(z)
    BY <1>1, OnlyCommitWrites
  <2>2. txn[s] # Idle
    BY <1>1, IdleOK
  <2>3. z = s
    BY <1>1, <2>1, <2>2 DEF Commit, IInv, TypeOK
  <2>4. BumpFits(txn[s], rows)
    BY <1>1, <2>1, <2>3 DEF Commit, IInv, Fits
  <2>5. p \in Locks(s) /\ rows'[p] = txn[s].writes[p]
    BY <1>1, <2>1, <2>3, <2>4 DEF Commit, BumpFits, Locks
  <2> QED
    BY <1>1, <2>4, <2>5 DEF BumpFits
<1>2. IInv /\ [Next]_pvars =>
        [\A s \in Sessions, p \in Papers :
            txn[s].delta # None /\ p = txn[s].paper /\ txn'[s] = Idle /\ rows'[p] # rows[p]
              => rows'[p] = [rows[p] EXCEPT !.score = Clamp(@ + txn[s].delta)]]_pvars
  BY <1>1
<1> QED
  BY <1>2, Invariance, PTL DEF Spec, BumpsAddUp

-----------------------------------------------------------------------------
(* The committed rows implement PaperLifecycle: a COMMIT is the step of the lifecycle
   that its statements prepared, or none, and nothing else can be seen. *)

LifeMap(q) == [p \in Papers |-> LifeOf(q[p])]

\* The phase of an item, state by state.
LEMMA Phases ==
    ASSUME NEW item \in QueueItem
    PROVE  /\ item.state = "absent" => LifeOf(item) = Life!Unborn
           /\ item.state = "ready" => LifeOf(item) = Life!Offered
           /\ item.state \in Terminal => LifeOf(item) = Life!Decided
           /\ item.state = "deferred" => LifeOf(item) = Life!Hidden(item.due)
           /\ item.state = "leased" => LifeOf(item) = Life!Held(item.owner, item.expires)
<1>1. CASE item.state = "absent"
  BY <1>1 DEF LifeOf, Terminal, Life!Unborn
<1>2. CASE item.state = "ready"
  BY <1>2 DEF LifeOf, Terminal, Life!Offered
<1>3. CASE item.state \in Terminal
  BY <1>3 DEF LifeOf, Terminal, Life!Decided
<1>4. CASE item.state = "deferred"
  BY <1>4 DEF LifeOf, Terminal, Life!Hidden
<1>5. CASE item.state = "leased"
  BY <1>5 DEF LifeOf, Terminal, Life!Held
<1> QED
  BY <1>1, <1>2, <1>3, <1>4, <1>5 DEF QueueItem, States, Terminal

\* Only a row that was never inserted is unborn.
LEMMA Born ==
    ASSUME NEW item \in QueueItem, item.state # "absent"
    PROVE  LifeOf(item) # Life!Unborn
  BY Phases DEF QueueItem, States, Terminal, Life!Unborn, Life!Offered, Life!Decided,
                Life!Hidden, Life!Held

\* A committed row that one step of the life of its paper replaces.
LEMMA OneStepMapped ==
    ASSUME IInv, NEW p \in Papers, NEW item \in QueueItem, RowOK(item),
           OneStep(p, rows[p], item), UNCHANGED clock, rows' = [rows EXCEPT ![p] = item]
    PROVE  [Life!LNext]_Life!lvars
<1>1. /\ rows \in [Papers -> QueueItem] /\ rows[p] \in QueueItem /\ RowOK(rows[p])
      /\ clock \in Nat
  BY Given
<1>2. LifeMap(rows') = [LifeMap(rows) EXCEPT ![p] = LifeOf(item)]
      /\ LifeMap(rows)[p] = LifeOf(rows[p])
  BY <1>1 DEF LifeMap
<1>3. LifeMap(rows')[p] = LifeOf(item)
  BY <1>2 DEF LifeMap
<1>4. CASE LifeOf(item) = LifeOf(rows[p])
  <2>1. LifeMap(rows') = LifeMap(rows)
    BY <1>2, <1>4 DEF LifeMap
  <2> QED
    BY <2>1 DEF Life!lvars, LifeMap
<1>5. CASE rows[p].state = "ready" /\ item.state = "leased"
  <2>1. item.owner \in Owners /\ item.expires \in Nat
    BY <1>5 DEF RowOK, QueueItem, Time
  <2>2. LifeOf(rows[p]) = Life!Offered /\ LifeOf(item) = Life!Held(item.owner, item.expires)
    BY <1>1, <1>5, Phases
  <2>3. LifeMap(rows')[p].until = item.expires
    BY <1>3, <2>2 DEF Life!Held
  <2>4. Life!Returned({}) = LifeMap(rows)
    BY DEF Life!Returned, LifeMap
  <2>5. LifeMap(rows') = [Life!Returned({}) EXCEPT ![p] = Life!Held(item.owner, item.expires)]
    BY <1>2, <2>2, <2>4
  <2>6. Life!Grant
    BY <1>2, <2>1, <2>2, <2>3, <2>5 DEF Life!Grant, Life!Limit, LifeMap
  <2> QED
    BY <2>6 DEF Life!LNext
<1>6. CASE rows[p].state = "leased" /\ item.state = "leased" /\ item.owner = rows[p].owner
  <2>1. item.expires \in Nat
    BY <1>6 DEF RowOK, QueueItem, Time
  <2>2. /\ LifeOf(rows[p]) = Life!Held(rows[p].owner, rows[p].expires)
        /\ LifeOf(item) = Life!Held(rows[p].owner, item.expires)
    BY <1>1, <1>6, Phases
  <2>3. LifeMap(rows')[p].until = item.expires /\ LifeMap(rows)[p].phase = "held"
        /\ LifeMap(rows)[p].holder = rows[p].owner
    BY <1>2, <1>3, <2>2 DEF Life!Held
  <2>4. Life!Extend
    BY <1>2, <2>1, <2>2, <2>3 DEF Life!Extend, Life!Limit, LifeMap
  <2> QED
    BY <2>4 DEF Life!LNext
<1>7. CASE rows[p].state # "absent" /\ item.state \in Terminal
  <2>1. LifeOf(item) = Life!Decided /\ LifeMap(rows)[p] # Life!Unborn
    BY <1>1, <1>2, <1>7, Phases, Born
  <2>2. Life!Decide
    BY <1>2, <2>1 DEF Life!Decide, LifeMap
  <2> QED
    BY <2>2 DEF Life!LNext
<1>8. CASE rows[p].state # "absent" /\ item.state = "deferred"
  <2>1. item.due \in Nat
    BY <1>8 DEF RowOK, QueueItem, Time
  <2>2. LifeOf(item) = Life!Hidden(item.due) /\ LifeMap(rows)[p] # Life!Unborn
    BY <1>1, <1>2, <1>8, Phases, Born
  <2>3. LifeMap(rows')[p].until = item.due
    BY <1>3, <2>2 DEF Life!Hidden
  <2>4. Life!Hide
    BY <1>2, <2>1, <2>2, <2>3 DEF Life!Hide, Life!Limit, LifeMap
  <2> QED
    BY <2>4 DEF Life!LNext
<1>9. CASE (rows[p].state = "absent" \/ p \in Runs) /\ item.state = "ready"
  <2>1. LifeOf(item) = Life!Offered /\ (LifeMap(rows)[p] = Life!Unborn \/ p \in Runs)
    BY <1>1, <1>2, <1>9, Phases
  <2>2. Life!Offer
    BY <1>2, <2>1 DEF Life!Offer, LifeMap
  <2> QED
    BY <2>2 DEF Life!LNext
<1> QED
  BY <1>4, <1>5, <1>6, <1>7, <1>8, <1>9 DEF OneStep

LEMMA CommitMapped == ASSUME IInv, NEW s \in Sessions, Commit(s) PROVE [Life!LNext]_Life!lvars
<1>1. /\ txn[s].stage = "writing" /\ UNCHANGED clock
      /\ rows' = [p \in Papers |-> IF p \in Locks(s) THEN txn[s].writes[p] ELSE rows[p]]
  BY DEF Commit
<1>2. /\ Locks(s) \subseteq Papers /\ Fits(txn[s], rows, clock)
      /\ \A p \in Locks(s) : txn[s].writes[p] \in QueueItem
  BY SessionTyped DEF IInv
<1>3. rows \in [Papers -> QueueItem] /\ \A p \in Papers : rows[p] \in QueueItem /\ RowOK(rows[p])
  BY Given
<1>4. CASE One(txn[s], rows)
  <2>1. PICK p \in Papers : /\ Locks(s) \subseteq {p}
                            /\ p \in Locks(s) => OneStep(p, rows[p], txn[s].writes[p])
    BY <1>4 DEF One, Locks
  <2>2. CASE p \in Locks(s)
    <3>1. rows' = [rows EXCEPT ![p] = txn[s].writes[p]]
      BY <1>1, <1>3, <2>1, <2>2
    <3>2. RowOK(txn[s].writes[p])
      BY <1>2, <2>2 DEF Fits, Locks
    <3> QED
      BY <1>1, <1>2, <2>1, <2>2, <3>1, <3>2, OneStepMapped
  <2>3. CASE p \notin Locks(s)
    <3>1. rows' = rows
      BY <1>1, <1>3, <2>1, <2>3
    <3> QED
      BY <1>1, <3>1 DEF Life!lvars
  <2> QED
    BY <2>2, <2>3
<1>5. CASE Reaps(txn[s], rows, clock)
  <2>1. ASSUME NEW p \in Locks(s)
        PROVE  p \in Life!Over /\ LifeOf(txn[s].writes[p]) = Life!Offered
    <3>1. /\ txn[s].writes[p].state = "ready" /\ OverAt(rows[p], clock)
          /\ p \in Papers /\ rows[p] \in QueueItem
      BY <1>2, <1>3, <1>5 DEF Reaps, Locks
    <3>2. LifeOf(txn[s].writes[p]) = Life!Offered
      BY <1>2, <3>1, Phases
    <3>3. CASE rows[p].state = "leased" /\ rows[p].expires <= clock
      <4>1. LifeOf(rows[p]) = Life!Held(rows[p].owner, rows[p].expires)
        BY <3>1, <3>3, Phases
      <4> QED
        BY <3>1, <3>2, <3>3, <4>1 DEF Life!Over, Life!Held
    <3>4. CASE rows[p].state = "deferred" /\ rows[p].due <= clock
      <4>1. LifeOf(rows[p]) = Life!Hidden(rows[p].due)
        BY <3>1, <3>4, Phases
      <4> QED
        BY <3>1, <3>2, <3>4, <4>1 DEF Life!Over, Life!Hidden
    <3> QED
      BY <3>1, <3>3, <3>4 DEF OverAt
  <2>2. Locks(s) \in SUBSET Life!Over
    BY <2>1
  <2>3. LifeMap(rows') = Life!Returned(Locks(s))
    BY <1>1, <2>1 DEF LifeMap, Life!Returned
  <2>4. Life!Return
    BY <1>1, <2>2, <2>3 DEF Life!Return, LifeMap
  <2> QED
    BY <2>4 DEF Life!LNext
<1> QED
  BY <1>1, <1>2, <1>4, <1>5 DEF Fits

LEMMA StepMapped == IInv /\ [Next]_pvars => [Life!LNext]_Life!lvars
<1> SUFFICES ASSUME IInv, [Next]_pvars PROVE [Life!LNext]_Life!lvars
  OBVIOUS
<1>1. CASE \E s \in Sessions : Commit(s)
  BY <1>1, CommitMapped
<1>2. CASE Tick
  <2>1. clock \in Nat /\ clock' = clock + 1 /\ UNCHANGED rows
    BY <1>2, Given DEF Tick
  <2>2. Life!Pass
    BY <2>1 DEF Life!Pass
  <2> QED
    BY <2>2 DEF Life!LNext
<1>3. CASE ~Tick /\ ~(\E s \in Sessions : Commit(s))
  <2>1. UNCHANGED rows
    BY <1>3, OnlyCommitWrites
  <2>2. UNCHANGED clock
    BY <1>3 DEF Next, pvars, LeaseNext, RenewLease, MarkDone, IgnoreQueueItem, DeferQueueItem,
         BumpRead, BumpWrite, ReapStaleLeases, ReapDueDeferredItems, ReportRun, ClearRunPaper,
         OfferRunPaper, RecordEvent, Rollback
  <2> QED
    BY <2>1, <2>2 DEF Life!lvars
<1> QED
  BY <1>1, <1>2, <1>3

\* The Postgres store implements the lifecycle its clients rely on, whatever sessions
\* interleave, wait for each other's rows and roll back.
THEOREM Implements == Spec => ImplementsLifecycle
<1>1. Init => Life!LInit
  <2> SUFFICES ASSUME Init PROVE Life!LInit
    OBVIOUS
  <2>1. IInv
    BY InitOK
  <2>2. ASSUME NEW p \in Papers
        PROVE  LifeOf(rows[p]) \in {Life!Unborn, Life!Offered}
    <3>1. rows[p] \in QueueItem /\ rows[p].state \in {"absent", "ready"}
      BY <2>1, Given DEF Init, NewItem, NoItem
    <3> QED
      BY <3>1, Phases
  <2> QED
    BY <2>2 DEF Life!LInit, Init
<1> QED
  BY <1>1, StepMapped, Invariance, PTL DEF Spec, ImplementsLifecycle, Life!LifeSpec

-----------------------------------------------------------------------------
(* What the lifecycle does not show, because it keeps neither due dates nor the state of
   the runs: papers come back neither early nor unasked.  Again an open transaction only
   prepares what the COMMIT may do, and the locks keep it true until then. *)

\* A deferred paper does not come back early, although a reaper may commit long after it
\* looked: a paper on offer or in somebody's hands is due, by the gateway's clock.
NoEarlyReturn ==
    \A p \in Papers : rows[p].state \in {"ready", "leased"} => Due(rows[p], clock)

\* A lease lasts until its client's expiry: before, the paper is only decided, deferred or
\* called back by its own run, and no other client can commit a lease on it.
LeaseLasts ==
    [][\A p \in Papers :
          LeaseHeld(p) /\ rows[p].expires > clock
            => \/ LeaseHeld(p)' /\ rows'[p].owner = rows[p].owner
               \/ rows'[p].state \in Terminal \cup {"deferred"}
               \/ p \in Runs /\ runs'[p] \in NeedsHuman]_pvars

\* A decided paper is not offered again by itself: no reaper, lease, renewal, re-ranking
\* or retried ingestion commits over a decision it did not see.
DecidedStaysDecided ==
    [][\A p \in Papers :
          rows[p].state \in Terminal /\ rows'[p].state \notin Terminal
            => \/ rows'[p].state = "deferred"
               \/ p \in Runs /\ runs'[p] \in NeedsHuman]_pvars

\* Item may replace the committed row old of paper p at time t, in transaction x.
Welcome(x, p, item, old, t) ==
    /\ item.state \in {"ready", "leased"} => Due(item, t)
    /\ item.state = "absent" => old.state = "absent"
    /\ item.state = "leased" => \/ old.state = "ready"
                                \/ old.state = "leased" /\ old.owner = item.owner
    /\ item.state = "ready" => \/ old.state \in {"absent", "ready"}
                               \/ OverAt(old, t)
                               \/ p \in Runs /\ x.run = p /\ x.status \in NeedsHuman

Prepared(x, q, t) == \A p \in DOMAIN x.writes : Welcome(x, p, x.writes[p], q[p], t)

DInv == NoEarlyReturn /\ \A s \in Sessions : Prepared(txn[s], rows, clock)

LEMMA SessionPrepared ==
    ASSUME IInv, DInv, NEW s \in Sessions, NEW x, txn' = [txn EXCEPT ![s] = x],
           UNCHANGED <<clock, rows>>, Prepared(x, rows, clock)
    PROVE  DInv'
<1>1. \A z \in Sessions : txn'[z] = IF z = s THEN x ELSE txn[z]
  BY DEF IInv, TypeOK
<1> QED
  BY <1>1 DEF DInv, NoEarlyReturn

\* A session writes rows that may take the place of the committed ones.
LEMMA WritePrepared ==
    ASSUME IInv, DInv, NEW s \in Sessions, NEW ps \in SUBSET Papers, NEW ws, DOMAIN ws = ps,
           Write(s, ws), UNCHANGED <<clock, rows>>,
           \A p \in ps : Welcome(txn[s], p, ws[p], rows[p], clock)
    PROVE  DInv'
<1> DEFINE x == Writing(txn[s], ws)
<1>1. txn' = [txn EXCEPT ![s] = x]
  BY DEF Write, Writing
<1>2. x.writes = ws /\ x.run = txn[s].run /\ x.status = txn[s].status
  BY SessionTyped DEF IInv, Writing, Transaction
<1> HIDE DEF x
<1>3. Prepared(x, rows, clock)
  BY <1>2 DEF Prepared, Welcome
<1> QED
  BY <1>1, <1>3, SessionPrepared

LEMMA IdlePrepared == ASSUME NEW q, NEW t PROVE Prepared(Idle, q, t)
  BY IdleOK DEF Prepared

LEMMA LeasePrepared ==
    ASSUME IInv, DInv, NEW s \in Sessions, NEW owner \in Owners, NEW now \in Instants,
           NEW leaseMs \in LeaseTimes, NEW excluded, LeaseNext(s, owner, now, leaseMs, excluded)
    PROVE  DInv'
<1>1. PICK p \in Papers :
         /\ rows[p].state = "ready" /\ Due(rows[p], now)
         /\ Write(s, [x \in {p} |-> [rows[p] EXCEPT !.state = "leased", !.owner = owner,
                                                   !.expires = now + leaseMs]])
  BY DEF LeaseNext
<1> DEFINE item == [rows[p] EXCEPT !.state = "leased", !.owner = owner,
                                   !.expires = now + leaseMs]
<1>2. rows[p] \in QueueItem /\ now \in Nat /\ clock \in Nat /\ now <= clock
  BY Given, Instant DEF IInv
<1>3. item.state = "leased" /\ item.due = rows[p].due
  BY <1>2 DEF QueueItem
<1>4. rows[p].due = None \/ rows[p].due \in Nat
  BY <1>2 DEF QueueItem, Time
<1>5. Due(item, clock)
  BY <1>1, <1>2, <1>3, <1>4 DEF Due
<1> HIDE DEF item
<1>6. Welcome(txn[s], p, item, rows[p], clock)
  BY <1>1, <1>3, <1>5 DEF Welcome
<1>7. Write(s, [x \in {p} |-> item]) /\ UNCHANGED <<clock, rows>>
  BY <1>1 DEF LeaseNext, item
<1> QED
  BY <1>6, <1>7, WritePrepared

LEMMA RenewPrepared ==
    ASSUME IInv, DInv, NEW s \in Sessions, NEW p \in Papers, NEW owner, NEW now, NEW leaseMs,
           RenewLease(s, p, owner, now, leaseMs)
    PROVE  DInv'
<1> DEFINE item == [rows[p] EXCEPT !.expires = now + leaseMs]
<1>1. /\ rows[p].state = "leased" /\ Write(s, [x \in {p} |-> item]) /\ UNCHANGED <<clock, rows>>
  BY DEF RenewLease
<1>2. item.state = "leased" /\ item.due = rows[p].due /\ item.owner = rows[p].owner
  BY <1>1, Given DEF QueueItem
<1>3. Due(item, clock)
  BY <1>1, <1>2 DEF DInv, NoEarlyReturn, Due
<1> HIDE DEF item
<1>4. Welcome(txn[s], p, item, rows[p], clock)
  BY <1>1, <1>2, <1>3 DEF Welcome
<1> QED
  BY <1>1, <1>4, WritePrepared

\* Taking a paper off the stack is always welcome.
LEMMA OffStackWelcome ==
    ASSUME NEW x, NEW p, NEW item, NEW old, NEW t, item.state \in {"done", "dead", "deferred"}
    PROVE  Welcome(x, p, item, old, t)
  BY DEF Welcome

LEMMA DecidePrepared ==
    ASSUME IInv, DInv, NEW s \in Sessions, NEW p \in Papers,
           \/ MarkDone(s, p) \/ IgnoreQueueItem(s, p)
           \/ \E due \in 1..(MaxClock + 1), now \in Instants : DeferQueueItem(s, p, due, now)
    PROVE  DInv'
<1>1. rows[p] \in QueueItem
  BY Given
<1>2. CASE MarkDone(s, p)
  <2>1. PICK item : item = Unleased(rows[p], "done")
    OBVIOUS
  <2>2. Write(s, [x \in {p} |-> item]) /\ UNCHANGED <<clock, rows>>
    BY <1>2, <2>1 DEF MarkDone
  <2>3. Welcome(txn[s], p, item, rows[p], clock)
    BY <1>1, <2>1, UnleasedOK, OffStackWelcome
  <2> QED
    BY <2>2, <2>3, WritePrepared
<1>3. CASE IgnoreQueueItem(s, p)
  <2>1. PICK item : item = Unleased(rows[p], "dead")
    OBVIOUS
  <2>2. Write(s, [x \in {p} |-> item]) /\ UNCHANGED <<clock, rows>>
    BY <1>3, <2>1 DEF IgnoreQueueItem
  <2>3. Welcome(txn[s], p, item, rows[p], clock)
    BY <1>1, <2>1, UnleasedOK, OffStackWelcome
  <2> QED
    BY <2>2, <2>3, WritePrepared
<1>4. ASSUME NEW due \in 1..(MaxClock + 1), NEW now \in Instants, DeferQueueItem(s, p, due, now)
      PROVE  DInv'
  <2>1. PICK item : item = [Unleased(rows[p], "deferred") EXCEPT !.due = due]
    OBVIOUS
  <2>2. Write(s, [x \in {p} |-> item]) /\ UNCHANGED <<clock, rows>>
    BY <1>4, <2>1 DEF DeferQueueItem
  <2>3. item.state = "deferred"
    BY <1>1, <2>1 DEF Unleased, QueueItem
  <2>4. Welcome(txn[s], p, item, rows[p], clock)
    BY <2>3, OffStackWelcome
  <2> QED
    BY <2>2, <2>4, WritePrepared
<1> QED
  BY <1>2, <1>3, <1>4

LEMMA ReapPrepared ==
    ASSUME IInv, DInv, NEW s \in Sessions, NEW now \in Instants,
           ReapStaleLeases(s, now) \/ ReapDueDeferredItems(s, now)
    PROVE  DInv'
<1>n. now \in Nat /\ now <= clock /\ clock \in Nat
  BY Instant DEF IInv
<1>1. CASE ReapStaleLeases(s, now)
  <2> DEFINE ps == {p \in Papers : rows[p].state = "leased" /\ rows[p].expires <= now}
             ws == [p \in ps |-> Unleased(rows[p], "ready")]
  <2>1. Write(s, ws) /\ UNCHANGED <<clock, rows>> /\ DOMAIN ws = ps /\ ps \in SUBSET Papers
    BY <1>1 DEF ReapStaleLeases
  <2>2. ASSUME NEW p \in ps PROVE Welcome(txn[s], p, ws[p], rows[p], clock)
    <3>1. rows[p] \in QueueItem /\ rows[p].expires \in Nat
      BY Given DEF RowOK, QueueItem, Time
    <3>2. ws[p].state = "ready" /\ ws[p].due = rows[p].due
      BY <3>1 DEF Unleased, QueueItem
    <3>3. Due(ws[p], clock)
      BY <3>2 DEF DInv, NoEarlyReturn, Due
    <3>4. OverAt(rows[p], clock)
      BY <1>n, <3>1 DEF OverAt
    <3> QED
      BY <3>2, <3>3, <3>4 DEF Welcome
  <2> HIDE DEF ps, ws
  <2> QED
    BY <2>1, <2>2, WritePrepared
<1>2. CASE ReapDueDeferredItems(s, now)
  <2> DEFINE ps == {p \in Papers : /\ rows[p].state = "deferred"
                                   /\ rows[p].due # None /\ rows[p].due <= now}
             ws == [p \in ps |-> [rows[p] EXCEPT !.state = "ready"]]
  <2>1. Write(s, ws) /\ UNCHANGED <<clock, rows>> /\ DOMAIN ws = ps /\ ps \in SUBSET Papers
    BY <1>2 DEF ReapDueDeferredItems
  <2>2. ASSUME NEW p \in ps PROVE Welcome(txn[s], p, ws[p], rows[p], clock)
    <3>1. rows[p] \in QueueItem /\ rows[p].due \in Nat
      BY Given DEF QueueItem, Time
    <3>2. ws[p].state = "ready" /\ ws[p].due = rows[p].due
      BY <3>1 DEF QueueItem
    <3>3. Due(ws[p], clock) /\ OverAt(rows[p], clock)
      BY <1>n, <3>1, <3>2 DEF Due, OverAt
    <3> QED
      BY <3>2, <3>3 DEF Welcome
  <2> HIDE DEF ps, ws
  <2> QED
    BY <2>1, <2>2, WritePrepared
<1> QED
  BY <1>1, <1>2

\* The row as it is may stay, with any score.
LEMMA SameWelcome ==
    ASSUME IInv, DInv, NEW p \in Papers, NEW x, NEW item,
           item.state = rows[p].state, item.due = rows[p].due, item.owner = rows[p].owner
    PROVE  Welcome(x, p, item, rows[p], clock)
  BY DEF Welcome, DInv, NoEarlyReturn, Due

LEMMA BumpPrepared ==
    ASSUME IInv, DInv, NEW s \in Sessions,
           BumpWrite(s) \/ \E p \in Papers, delta \in Deltas \cup {None} : BumpRead(s, p, delta)
    PROVE  DInv'
<1>1. ASSUME NEW p \in Papers, NEW delta \in Deltas \cup {None}, BumpRead(s, p, delta)
      PROVE  DInv'
  <2> DEFINE x == [Idle EXCEPT !.stage = "bumping", !.paper = p, !.delta = delta,
                               !.before = rows[p].score, !.writes = [r \in {p} |-> rows[p]]]
  <2>1. txn' = [txn EXCEPT ![s] = x] /\ UNCHANGED <<clock, rows>>
    BY <1>1 DEF BumpRead
  <2>2. x.writes = [r \in {p} |-> rows[p]]
    BY DEF Idle
  <2> HIDE DEF x
  <2>3. DOMAIN x.writes = {p} /\ x.writes[p] = rows[p]
    BY <2>2
  <2>4. Prepared(x, rows, clock)
    BY <2>3, SameWelcome DEF Prepared
  <2> QED
    BY <2>1, <2>4, SessionPrepared
<1>2. CASE BumpWrite(s)
  <2>1. txn[s].paper \in Papers /\ txn[s].stage = "bumping" /\ UNCHANGED <<clock, rows>>
    BY <1>2 DEF BumpWrite, IInv, Fits
  <2>2. PICK score : Write(s, [x \in {txn[s].paper} |->
                                 [rows[txn[s].paper] EXCEPT !.score = score]])
    BY <1>2 DEF BumpWrite
  <2>3. PICK p \in Papers : p = txn[s].paper
    BY <2>1
  <2>4. PICK item : item = [rows[p] EXCEPT !.score = score]
    OBVIOUS
  <2>5. item.state = rows[p].state /\ item.due = rows[p].due /\ item.owner = rows[p].owner
    BY <2>4, Given DEF QueueItem
  <2>6. Write(s, [x \in {p} |-> item])
    BY <2>2, <2>3, <2>4
  <2>7. Welcome(txn[s], p, item, rows[p], clock)
    BY <2>5, SameWelcome
  <2> QED
    BY <2>1, <2>6, <2>7, WritePrepared
<1> QED
  BY <1>1, <1>2

LEMMA RunPrepared ==
    ASSUME IInv, DInv, NEW s \in Sessions,
           \/ ClearRunPaper(s) \/ \E now \in Instants : OfferRunPaper(s, now)
           \/ \E r \in Runs, status \in RunStatus : ReportRun(s, r, status)
    PROVE  DInv'
<1>1. ASSUME NEW r \in Runs, NEW status \in RunStatus, ReportRun(s, r, status)
      PROVE  DInv'
  <2> DEFINE x == [Idle EXCEPT !.stage = "reporting", !.run = r, !.status = status]
  <2>1. txn' = [txn EXCEPT ![s] = x] /\ UNCHANGED <<clock, rows>>
    BY <1>1 DEF ReportRun
  <2>2. DOMAIN x.writes = {}
    BY IdleOK DEF Idle
  <2>3. Prepared(x, rows, clock)
    BY <2>2 DEF Prepared
  <2> QED
    BY <2>1, <2>3, SessionPrepared
<1>2. ASSUME txn[s].stage = "reporting"
      PROVE  \E r \in Runs : /\ r = txn[s].run /\ r \in Papers /\ rows[r] \in QueueItem
  BY <1>2, Given DEF IInv, Fits
<1>3. CASE ClearRunPaper(s)
  <2>1. PICK r \in Runs : r = txn[s].run /\ r \in Papers /\ rows[r] \in QueueItem
    BY <1>2, <1>3 DEF ClearRunPaper
  <2>2. UNCHANGED <<clock, rows>>
    BY <1>3 DEF ClearRunPaper
  <2>3. CASE Write(s, NoWrites)
    BY <2>2, <2>3, WritePrepared DEF NoWrites
  <2>4. CASE ~Write(s, NoWrites)
    <3>1. PICK item : item = [Unleased(rows[r], "done") EXCEPT !.due = None]
      OBVIOUS
    <3>2. Write(s, [x \in {r} |-> item])
      BY <1>3, <2>1, <2>4, <3>1 DEF ClearRunPaper
    <3>3. item.state = "done"
      BY <2>1, <3>1 DEF Unleased, QueueItem
    <3>4. Welcome(txn[s], r, item, rows[r], clock)
      BY <3>3 DEF Welcome
    <3> QED
      BY <2>1, <2>2, <3>2, <3>4, WritePrepared
  <2> QED
    BY <2>3, <2>4
<1>4. ASSUME NEW now \in Instants, OfferRunPaper(s, now) PROVE DInv'
  <2>1. PICK r \in Runs : r = txn[s].run /\ r \in Papers /\ rows[r] \in QueueItem
    BY <1>2, <1>4 DEF OfferRunPaper
  <2>2. txn[s].status \in NeedsHuman /\ UNCHANGED <<clock, rows>>
    BY <1>4 DEF OfferRunPaper
  <2>3. PICK item : item = IF Exists(r)
                           THEN [Unleased(rows[r], "ready") EXCEPT
                                    !.score = RunScore(txn[s].status), !.due = None]
                           ELSE NewItem(RunScore(txn[s].status), now)
    OBVIOUS
  <2>4. Write(s, [x \in {r} |-> item])
    BY <1>4, <2>1, <2>3 DEF OfferRunPaper
  <2>5. item.state = "ready" /\ item.due = None
    BY <2>1, <2>3 DEF Unleased, QueueItem, NewItem, NoItem
  <2>6. Welcome(txn[s], r, item, rows[r], clock)
    BY <2>1, <2>2, <2>5 DEF Welcome, Due
  <2> QED
    BY <2>1, <2>2, <2>4, <2>6, WritePrepared
<1> QED
  BY <1>1, <1>3, <1>4

LEMMA RecordPrepared ==
    ASSUME IInv, DInv, NEW s \in Sessions, NEW e \in Events, NEW now, RecordEvent(s, e, now)
    PROVE  DInv'
<1>1. rows[e].state = "absent" /\ e \in Papers /\ UNCHANGED <<clock, rows>>
  BY Given DEF RecordEvent, IInv
<1>2. PICK record \in {"queued", "stored"} :
        txn' = [txn EXCEPT ![s] = [Idle EXCEPT !.stage = "writing", !.event = e,
                   !.record = record,
                   !.writes = IF record = "stored" THEN NoWrites
                              ELSE [p \in {e} |-> NewItem(EventScore, now)]]]
  BY DEF RecordEvent
<1>3. PICK ws : ws = IF record = "stored" THEN NoWrites
                     ELSE [p \in {e} |-> NewItem(EventScore, now)]
  OBVIOUS
<1>4. PICK x : x = [Idle EXCEPT !.stage = "writing", !.event = e, !.record = record,
                                !.writes = ws]
  OBVIOUS
<1>5. x.writes = ws
  BY <1>4 DEF Idle
<1>6. txn' = [txn EXCEPT ![s] = x]
  BY <1>2, <1>3, <1>4
<1>7. NewItem(EventScore, now).state = "ready" /\ NewItem(EventScore, now).due = None
  BY DEF NewItem, NoItem
<1>8. \A p \in DOMAIN ws : p = e /\ ws[p] = NewItem(EventScore, now)
  BY <1>3 DEF NoWrites
<1>9. Prepared(x, rows, clock)
  BY <1>1, <1>5, <1>7, <1>8 DEF Prepared, Welcome, Due
<1> QED
  BY <1>1, <1>6, <1>9, SessionPrepared

\* What a transaction may commit stays so as time passes and others commit elsewhere.
LEMMA TickPrepared == ASSUME IInv, DInv, Tick PROVE DInv'
<1>1. clock \in Nat /\ clock' = clock + 1 /\ UNCHANGED <<rows, txn>>
  BY Given DEF Tick
<1>2. ASSUME NEW item \in QueueItem, Due(item, clock) PROVE Due(item, clock')
  BY <1>1, <1>2 DEF Due, QueueItem, Time
<1>3. ASSUME NEW p \in Papers, OverAt(rows[p], clock) PROVE OverAt(rows[p], clock')
  BY <1>1, <1>3, Given, NoneIsNone DEF OverAt, RowOK, QueueItem, Time
<1>4. \A p \in Papers : rows[p] \in QueueItem
  BY Given
<1>5. NoEarlyReturn'
  BY <1>1, <1>2, <1>4 DEF DInv, NoEarlyReturn
<1>6. ASSUME NEW s \in Sessions PROVE Prepared(txn[s], rows, clock')
  BY <1>2, <1>3, SessionTyped DEF IInv, DInv, Prepared, Welcome, Locks
<1> QED
  BY <1>1, <1>5, <1>6 DEF DInv

LEMMA CommitPrepared == ASSUME IInv, DInv, NEW s \in Sessions, Commit(s) PROVE DInv'
<1>1. /\ rows' = [p \in Papers |-> IF p \in Locks(s) THEN txn[s].writes[p] ELSE rows[p]]
      /\ txn' = [txn EXCEPT ![s] = Idle] /\ UNCHANGED clock
  BY DEF Commit
<1>2. \A z \in Sessions : txn'[z] = IF z = s THEN Idle ELSE txn[z]
  BY <1>1 DEF IInv, TypeOK
<1>3. NoEarlyReturn'
  BY <1>1 DEF DInv, NoEarlyReturn, Prepared, Welcome, Locks
<1>4. ASSUME NEW z \in Sessions PROVE Prepared(txn'[z], rows', clock)
  <2>1. CASE z = s
    BY <1>2, <2>1, IdlePrepared
  <2>2. CASE z # s
    <3>1. Locks(z) \subseteq Papers /\ Locks(z) \cap Locks(s) = {}
      BY <2>2, SessionTyped DEF IInv
    <3>2. \A p \in Locks(z) : rows'[p] = rows[p]
      BY <1>1, <3>1
    <3> QED
      BY <1>2, <2>2, <3>2 DEF DInv, Prepared, Locks
  <2> QED
    BY <2>1, <2>2
<1> QED
  BY <1>1, <1>3, <1>4 DEF DInv

LEMMA NextPrepared == IInv /\ DInv /\ [Next]_pvars => DInv'
<1> SUFFICES ASSUME IInv, DInv, [Next]_pvars PROVE DInv'
  OBVIOUS
<1>1. CASE Tick
  BY <1>1, TickPrepared
<1>2. ASSUME NEW s \in Sessions, NEW owner \in Owners, NEW now \in Instants,
             NEW leaseMs \in LeaseTimes, NEW excluded \in Papers \cup {None},
             LeaseNext(s, owner, now, leaseMs, excluded)
      PROVE  DInv'
  BY <1>2, LeasePrepared
<1>3. ASSUME NEW s \in Sessions, NEW p \in Papers, NEW owner \in Owners,
             NEW now \in Instants, NEW leaseMs \in LeaseTimes,
             RenewLease(s, p, owner, now, leaseMs)
      PROVE  DInv'
  BY <1>3, RenewPrepared
<1>4. ASSUME NEW s \in Sessions, NEW p \in Papers, MarkDone(s, p) \/ IgnoreQueueItem(s, p)
      PROVE  DInv'
  BY <1>4, DecidePrepared
<1>5. ASSUME NEW s \in Sessions, NEW p \in Papers, NEW due \in 1..(MaxClock + 1),
             NEW now \in Instants, DeferQueueItem(s, p, due, now)
      PROVE  DInv'
  BY <1>5, DecidePrepared
<1>6. ASSUME NEW s \in Sessions, NEW p \in Papers,
             NEW delta \in Deltas \cup (IF Scores = {} THEN {} ELSE {None}), BumpRead(s, p, delta)
      PROVE  DInv'
  BY <1>6, BumpPrepared
<1>7. ASSUME NEW s \in Sessions, NEW now \in Instants,
             ReapStaleLeases(s, now) \/ ReapDueDeferredItems(s, now) \/ OfferRunPaper(s, now)
      PROVE  DInv'
  BY <1>7, ReapPrepared, RunPrepared
<1>8. ASSUME NEW s \in Sessions, NEW r \in Runs, NEW status \in RunStatus \ {"unknown"},
             ReportRun(s, r, status)
      PROVE  DInv'
  BY <1>8, RunPrepared
<1>9. ASSUME NEW s \in Sessions, NEW e \in Events, NEW now \in Instants,
             RecordEvent(s, e, now)
      PROVE  DInv'
  BY <1>9, RecordPrepared
<1>10. ASSUME NEW s \in Sessions, Rollback(s) PROVE DInv'
  BY <1>10, IdlePrepared, SessionPrepared DEF Rollback
<1>11. ASSUME NEW s \in Sessions, BumpWrite(s) \/ ClearRunPaper(s) \/ Commit(s)
       PROVE  DInv'
  BY <1>11, BumpPrepared, RunPrepared, CommitPrepared
<1>12. CASE UNCHANGED pvars
  BY <1>12 DEF DInv, NoEarlyReturn, pvars
<1> QED
  BY <1>1, <1>2, <1>3, <1>4, <1>5, <1>6, <1>7, <1>8, <1>9, <1>10, <1>11, <1>12 DEF Next

LEMMA InitPrepared == Init => DInv
<1> SUFFICES ASSUME Init PROVE DInv
  OBVIOUS
<1>1. \A p \in Papers : rows[p].due = None
  BY DEF Init, NewItem, NoItem
<1>2. \A s \in Sessions : Prepared(txn[s], rows, clock)
  BY IdlePrepared DEF Init
<1> QED
  BY <1>1, <1>2 DEF DInv, NoEarlyReturn, Due

LEMMA PreparedInvariance == Spec => []DInv
  BY InitPrepared, NextPrepared, Invariance, PTL DEF Spec

\* With Postgres too no paper comes back before it is due, however long the transaction
\* that brings it back stays open.
THEOREM NeverEarly == Spec => []NoEarlyReturn
<1>1. DInv => NoEarlyReturn
  BY DEF DInv
<1> QED
  BY <1>1, PreparedInvariance, PTL

\* A row that a step changes is one the committing transaction was welcome to write.
LEMMA ChangeIsWelcome ==
    ASSUME IInv, DInv, [Next]_pvars, NEW p \in Papers, rows'[p] # rows[p]
    PROVE  \E s \in Sessions : /\ Welcome(txn[s], p, rows'[p], rows[p], clock)
                               /\ p \in Runs /\ txn[s].run = p => runs'[p] = txn[s].status
                               /\ rows'[p] \in QueueItem
<1>1. PICK s \in Sessions : Commit(s)
  BY OnlyCommitWrites
<1>2. p \in Locks(s) /\ rows'[p] = txn[s].writes[p]
      /\ (p \in Runs /\ txn[s].run = p => runs'[p] = txn[s].status)
  BY <1>1 DEF Commit
<1>3. Welcome(txn[s], p, rows'[p], rows[p], clock)
  BY <1>2 DEF DInv, Prepared, Locks
<1>4. rows'[p] \in QueueItem
  BY <1>2, SessionTyped DEF IInv
<1> QED
  BY <1>2, <1>3, <1>4

\* No other client can commit a lease on a paper whose lease still runs, and no reaper
\* can take it back, whatever they read before they waited for the row.
THEOREM NoLeaseIsCutShort == Spec => LeaseLasts
<1>1. ASSUME IInv, DInv, [Next]_pvars, NEW p \in Papers,
             LeaseHeld(p), rows[p].expires > clock
      PROVE  \/ LeaseHeld(p)' /\ rows'[p].owner = rows[p].owner
             \/ rows'[p].state \in Terminal \cup {"deferred"}
             \/ p \in Runs /\ runs'[p] \in NeedsHuman
  <2>1. CASE rows'[p] = rows[p]
    BY <1>1, <2>1 DEF LeaseHeld
  <2>2. CASE rows'[p] # rows[p]
    <3>1. PICK s \in Sessions : /\ Welcome(txn[s], p, rows'[p], rows[p], clock)
                                /\ p \in Runs /\ txn[s].run = p => runs'[p] = txn[s].status
                                /\ rows'[p] \in QueueItem
      BY <1>1, <2>2, ChangeIsWelcome
    <3>2. rows[p].state = "leased" /\ rows[p].expires \in Nat /\ clock \in Nat
      BY <1>1, Given DEF LeaseHeld, RowOK, QueueItem, Time
    <3>3. ~OverAt(rows[p], clock)
      BY <1>1, <3>2 DEF OverAt
    <3>4. CASE rows'[p].state = "leased"
      BY <3>1, <3>2, <3>4 DEF Welcome, LeaseHeld
    <3>5. CASE rows'[p].state = "ready"
      BY <3>1, <3>2, <3>3, <3>5 DEF Welcome
    <3>6. rows'[p].state # "absent"
      BY <3>1, <3>2 DEF Welcome
    <3> QED
      BY <3>1, <3>4, <3>5, <3>6 DEF QueueItem, States, Terminal
  <2> QED
    BY <2>1, <2>2
<1>2. IInv /\ DInv /\ [Next]_pvars =>
        [\A p \in Papers :
            LeaseHeld(p) /\ rows[p].expires > clock
              => \/ LeaseHeld(p)' /\ rows'[p].owner = rows[p].owner
                 \/ rows'[p].state \in Terminal \cup {"deferred"}
                 \/ p \in Runs /\ runs'[p] \in NeedsHuman]_pvars
  BY <1>1
<1> QED
  BY <1>2, Invariance, PreparedInvariance, PTL DEF Spec, LeaseLasts

\* What was decided stays decided, however the decision and the statements of others
\* interleave.
THEOREM Decided == Spec => DecidedStaysDecided
<1>1. ASSUME IInv, DInv, [Next]_pvars, NEW p \in Papers,
             rows[p].state \in Terminal, rows'[p].state \notin Terminal
      PROVE  \/ rows'[p].state = "deferred"
             \/ p \in Runs /\ runs'[p] \in NeedsHuman
  <2>1. PICK s \in Sessions : /\ Welcome(txn[s], p, rows'[p], rows[p], clock)
                              /\ p \in Runs /\ txn[s].run = p => runs'[p] = txn[s].status
                              /\ rows'[p] \in QueueItem
    BY <1>1, ChangeIsWelcome
  <2>2. rows[p].state \in {"done", "dead"} /\ ~OverAt(rows[p], clock)
    BY <1>1 DEF Terminal, OverAt
  <2>3. rows'[p].state \in {"ready", "deferred"}
    BY <1>1, <2>1, <2>2 DEF Welcome, QueueItem, States, Terminal
  <2> QED
    BY <2>1, <2>2, <2>3 DEF Welcome
<1>2. IInv /\ DInv /\ [Next]_pvars =>
        [\A p \in Papers :
            rows[p].state \in Terminal /\ rows'[p].state \notin Terminal
              => \/ rows'[p].state = "deferred"
                 \/ p \in Runs /\ runs'[p] \in NeedsHuman]_pvars
  BY <1>1
<1> QED
  BY <1>2, Invariance, PreparedInvariance, PTL DEF Spec, DecidedStaysDecided
=============================================================================
