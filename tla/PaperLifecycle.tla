--------------------------- MODULE PaperLifecycle ---------------------------
(***************************************************************************)
(* What the queue promises its clients, whatever store serves it: the life  *)
(* of a paper, without scores, rows, locks, reapers or requests.  PaperQueue *)
(* and PostgresQueue implement this specification.                          *)
(*                                                                         *)
(* A held paper carries its lease's expiry and a hidden (deferred) one its  *)
(* due time; neither is taken off hold or out of hiding before that time,   *)
(* and only the holder can push a lease's expiry away.                      *)
(***************************************************************************)
EXTENDS Integers

CONSTANTS Papers, Owners, None,
          Recallable      \* papers an agent run puts back on offer when it waits again

VARIABLES now,     \* the time
          paper    \* the phase of each paper, with its holder and its time limit

lvars == <<now, paper>>

Unborn == [phase |-> "unborn", holder |-> None, until |-> None]
Offered == [phase |-> "offered", holder |-> None, until |-> None]
Decided == [phase |-> "decided", holder |-> None, until |-> None]
Hidden(t) == [phase |-> "hidden", holder |-> None, until |-> t]
Held(o, t) == [phase |-> "held", holder |-> o, until |-> t]

LInit == now = 0 /\ paper \in [Papers -> {Unborn, Offered}]

Pass == now' \in Nat /\ now' > now /\ UNCHANGED paper

\* The papers whose lease or deferral has run out.
Over == {p \in Papers : paper[p].phase \in {"held", "hidden"} /\ paper[p].until <= now}

\* The papers after some of those have come back.
Returned(ps) == [p \in Papers |-> IF p \in ps THEN Offered ELSE paper[p]]

Return == \E ps \in SUBSET Over : paper' = Returned(ps) /\ UNCHANGED now

\* Some time limit, the one the next state gives p.
Limit(p) == paper'[p].until

\* A client is granted a paper on offer; papers may come back in the same step.
Grant == \E ps \in SUBSET Over, p \in Papers, o \in Owners :
            /\ p \in ps \/ paper[p] = Offered
            /\ Limit(p) \in Nat
            /\ paper' = [Returned(ps) EXCEPT ![p] = Held(o, Limit(p))]
            /\ UNCHANGED now

\* The holder renews.
Extend == \E p \in Papers :
            /\ paper[p].phase = "held"
            /\ Limit(p) \in Nat
            /\ paper' = [paper EXCEPT ![p] = Held(paper[p].holder, Limit(p))]
            /\ UNCHANGED now

\* Anybody decides a paper that exists, or hides it.
Decide == \E p \in Papers :
            /\ paper[p] # Unborn
            /\ paper' = [paper EXCEPT ![p] = Decided]
            /\ UNCHANGED now

Hide == \E p \in Papers :
            /\ paper[p] # Unborn
            /\ Limit(p) \in Nat
            /\ paper' = [paper EXCEPT ![p] = Hidden(Limit(p))]
            /\ UNCHANGED now

\* A paper is born, or its agent run waits for the human again.
Offer == \E p \in Papers :
            /\ paper[p] = Unborn \/ p \in Recallable
            /\ paper' = [paper EXCEPT ![p] = Offered]
            /\ UNCHANGED now

LNext == Pass \/ Return \/ Grant \/ Extend \/ Decide \/ Hide \/ Offer

LifeSpec == LInit /\ [][LNext]_lvars
=============================================================================
