----------------------- MODULE StorePersistenceProofs -----------------------
(***************************************************************************)
(* For any papers, windows and number of open calls: an acknowledged call   *)
(* survives the death of the gateway.  The argument is a ladder of stores,  *)
(* told <= disk <= image <= memory (the middle step while a save is under   *)
(* way), that the call a save answers is in the image it writes, and that   *)
(* a packet in a store is in its queue.                                     *)
(***************************************************************************)
EXTENDS StorePersistence, Integers, TLAPS

\* One store is part of another, in what callers are told of.
Within(s, t) == s.packets \subseteq t.packets /\ s.decided \subseteq t.decided

\* Every packet has its place in the queue; the reverse may fail in a file.
Queued(s) == s.packets \subseteq s.listed

\* What an open call did is in a store.
DoneIn(call, s) ==
    /\ call.kind = "ingest" => call.paper \in s.packets
    /\ call.kind = "decide" => call.paper \in s.decided

Call_ == [kind : {"idle", "ingest", "decide"}, paper : Papers \cup {None}]

Typed ==
    /\ memory \in Stores /\ disk \in Stores /\ image \in Stores /\ told \in Stores
    /\ chain \in Seq(Requests)
    /\ calls \in [Requests -> Call_]
    /\ phase \in {"idle", "mkdir", "writing"}

\* The chain holds every open call, once.
Chained ==
    /\ phase # "idle" => chain # <<>>
    /\ \A r \in Requests : calls[r] # Quiet => \E i \in 1..Len(chain) : chain[i] = r
    /\ \A i \in 1..Len(chain) : calls[chain[i]] # Quiet
    /\ \A i, j \in 1..Len(chain) : chain[i] = chain[j] => i = j

Ladder ==
    /\ Within(told, disk) /\ Within(disk, memory)
    /\ phase # "idle" => Within(disk, image) /\ Within(image, memory)
    /\ Queued(memory) /\ Queued(disk) /\ Queued(image)

Effects ==
    /\ \A r \in Requests : DoneIn(calls[r], memory)
    /\ phase # "idle" => DoneIn(calls[chain[1]], image)

Inv == Typed /\ Chained /\ Ladder /\ Effects

-----------------------------------------------------------------------------
LEMMA HeadIsFirst ==
    ASSUME Typed, chain # <<>>
    PROVE  /\ Head(chain) = chain[1] /\ chain[1] \in Requests /\ 1 \in 1..Len(chain)
           /\ Tail(chain) \in Seq(Requests) /\ Len(Tail(chain)) = Len(chain) - 1
           /\ Len(chain) \in Nat /\ Len(chain) > 0
           /\ \A i \in 1..Len(Tail(chain)) : i + 1 \in 1..Len(chain) /\ Tail(chain)[i] = chain[i + 1]
  BY DEF Typed

LEMMA InitInv == Init => Inv
  BY DEF Init, Inv, Typed, Chained, Ladder, Effects, Within, Queued, DoneIn, Stores, Empty, Quiet, Call_

\* A call that joins the chain leaves it whole, and its head where it was.
LEMMA WaitChains ==
    ASSUME Inv, NEW r \in Requests, NEW p \in Papers, NEW kind \in {"ingest", "decide"},
           calls[r] = Quiet, Wait(r, kind, p), phase' = phase
    PROVE  /\ chain' \in Seq(Requests) /\ calls' \in [Requests -> Call_]
           /\ Chained'
           /\ calls' = [calls EXCEPT ![r] = [kind |-> kind, paper |-> p]]
           /\ chain # <<>> => chain'[1] = chain[1] /\ chain[1] # r /\ chain[1] \in Requests
<1>1. /\ chain \in Seq(Requests) /\ Len(chain) \in Nat
      /\ chain' = Append(chain, r) /\ chain' \in Seq(Requests)
      /\ Len(chain') = Len(chain) + 1 /\ chain'[Len(chain) + 1] = r
      /\ \A i \in 1..Len(chain) : chain'[i] = chain[i] /\ chain[i] \in Requests
  BY DEF Inv, Typed, Wait
<1>2. /\ calls' = [calls EXCEPT ![r] = [kind |-> kind, paper |-> p]]
      /\ calls' \in [Requests -> Call_]
      /\ calls'[r] # Quiet
      /\ \A q \in Requests : q # r => calls'[q] = calls[q]
  BY DEF Inv, Typed, Wait, Call_, Quiet
<1>3. \A i \in 1..Len(chain) : chain[i] # r
  BY DEF Inv, Chained
<1>4. chain' # <<>>
  BY <1>1
<1>5. \A i \in 1..Len(chain') : i \in 1..Len(chain) \/ i = Len(chain) + 1
  BY <1>1
<1>6. 1..Len(chain) \subseteq 1..Len(chain') /\ Len(chain) + 1 \in 1..Len(chain')
  BY <1>1
<1>7. \A q \in Requests : calls'[q] # Quiet => \E i \in 1..Len(chain') : chain'[i] = q
  <2> SUFFICES ASSUME NEW q \in Requests, calls'[q] # Quiet
               PROVE  \E i \in 1..Len(chain') : chain'[i] = q
    OBVIOUS
  <2>1. CASE q = r
    BY <2>1, <1>1, <1>6
  <2>2. CASE q # r
    BY <2>2, <1>1, <1>2, <1>6 DEF Inv, Chained
  <2> QED BY <2>1, <2>2
<1>8. \A i \in 1..Len(chain') : calls'[chain'[i]] # Quiet
  <2> SUFFICES ASSUME NEW i \in 1..Len(chain') PROVE calls'[chain'[i]] # Quiet
    OBVIOUS
  <2>1. CASE i \in 1..Len(chain)
    BY <2>1, <1>1, <1>2, <1>3 DEF Inv, Chained
  <2>2. CASE i = Len(chain) + 1
    BY <2>2, <1>1, <1>2
  <2> QED BY <2>1, <2>2, <1>5
<1>9. \A i, j \in 1..Len(chain') : chain'[i] = chain'[j] => i = j
  <2> SUFFICES ASSUME NEW i \in 1..Len(chain'), NEW j \in 1..Len(chain'), chain'[i] = chain'[j]
               PROVE  i = j
    OBVIOUS
  <2>1. CASE i \in 1..Len(chain) /\ j \in 1..Len(chain)
    BY <2>1, <1>1 DEF Inv, Chained
  <2>2. CASE i = Len(chain) + 1 /\ j \in 1..Len(chain)
    BY <2>2, <1>1, <1>3
  <2>3. CASE i \in 1..Len(chain) /\ j = Len(chain) + 1
    BY <2>3, <1>1, <1>3
  <2> QED BY <2>1, <2>2, <2>3, <1>5
<1>10. chain # <<>> => chain'[1] = chain[1] /\ chain[1] # r /\ chain[1] \in Requests
  <2>1. chain # <<>> => 1 \in 1..Len(chain)
    BY <1>1
  <2> QED BY <2>1, <1>1, <1>3
<1> QED BY <1>1, <1>2, <1>4, <1>7, <1>8, <1>9, <1>10 DEF Chained

\* The first call leaves: the chain stays whole and no save is under way.
LEMMA AnswerChains ==
    ASSUME Inv, chain # <<>>, Answer
    PROVE  /\ chain' \in Seq(Requests) /\ calls' \in [Requests -> Call_] /\ phase' = "idle"
           /\ Chained'
           /\ \A r \in Requests : calls'[r] \in {calls[r], Quiet}
<1>1. Typed /\ Chained
  BY DEF Inv
<1>2. /\ Head(chain) = chain[1] /\ chain[1] \in Requests /\ 1 \in 1..Len(chain)
      /\ Tail(chain) \in Seq(Requests) /\ Len(Tail(chain)) = Len(chain) - 1
      /\ Len(chain) \in Nat /\ Len(chain) > 0
      /\ \A i \in 1..Len(Tail(chain)) : i + 1 \in 1..Len(chain) /\ Tail(chain)[i] = chain[i + 1]
  BY <1>1, HeadIsFirst
<1>3. /\ chain' = Tail(chain) /\ phase' = "idle"
      /\ calls' = [calls EXCEPT ![chain[1]] = Quiet]
  BY <1>2 DEF Answer
<1>4. /\ calls' \in [Requests -> Call_]
      /\ calls'[chain[1]] = Quiet
      /\ \A q \in Requests : q # chain[1] => calls'[q] = calls[q]
  BY <1>1, <1>2, <1>3 DEF Typed, Call_, Quiet
<1>5. \A q \in Requests : calls'[q] # Quiet => \E i \in 1..Len(chain') : chain'[i] = q
  <2> SUFFICES ASSUME NEW q \in Requests, calls'[q] # Quiet
               PROVE  \E i \in 1..Len(chain') : chain'[i] = q
    OBVIOUS
  <2>1. q # chain[1] /\ calls[q] # Quiet
    BY <1>4
  <2>2. PICK i \in 1..Len(chain) : chain[i] = q
    BY <2>1, <1>1 DEF Chained
  <2>3. i # 1 /\ i \in Int
    BY <2>1, <2>2
  <2>4. i - 1 \in 1..Len(Tail(chain)) /\ (i - 1) + 1 = i
    BY <2>3, <1>2
  <2>5. Tail(chain)[i - 1] = q
    BY <2>4, <2>2, <1>2
  <2> QED BY <2>4, <2>5, <1>3
<1>6. \A i \in 1..Len(chain') : calls'[chain'[i]] # Quiet
  <2> SUFFICES ASSUME NEW i \in 1..Len(chain') PROVE calls'[chain'[i]] # Quiet
    OBVIOUS
  <2>1. i + 1 \in 1..Len(chain) /\ chain'[i] = chain[i + 1] /\ i + 1 # 1
    BY <1>2, <1>3
  <2>2. chain[i + 1] # chain[1] /\ calls[chain[i + 1]] # Quiet /\ chain[i + 1] \in Requests
    BY <2>1, <1>1, <1>2 DEF Chained, Typed
  <2> QED BY <2>1, <2>2, <1>4
<1>7. \A i, j \in 1..Len(chain') : chain'[i] = chain'[j] => i = j
  <2> SUFFICES ASSUME NEW i \in 1..Len(chain'), NEW j \in 1..Len(chain'), chain'[i] = chain'[j]
               PROVE  i = j
    OBVIOUS
  <2>1. /\ i + 1 \in 1..Len(chain) /\ chain'[i] = chain[i + 1]
        /\ j + 1 \in 1..Len(chain) /\ chain'[j] = chain[j + 1]
    BY <1>2, <1>3
  <2>2. i + 1 = j + 1
    BY <2>1, <1>1 DEF Chained
  <2> QED BY <2>2
<1> QED BY <1>2, <1>3, <1>4, <1>5, <1>6, <1>7 DEF Chained

-----------------------------------------------------------------------------
LEMMA IngestInv ==
    ASSUME Inv, NEW r \in Requests, NEW p \in Papers, Ingest(r, p)
    PROVE  Inv'
<1>1. Typed /\ Chained /\ Ladder /\ Effects
  BY DEF Inv
<1>2. /\ calls[r] = Quiet /\ Wait(r, "ingest", p)
      /\ disk' = disk /\ phase' = phase /\ image' = image /\ told' = told
  BY DEF Ingest
<1>3. /\ chain' \in Seq(Requests) /\ calls' \in [Requests -> Call_]
      /\ Chained'
      /\ calls' = [calls EXCEPT ![r] = [kind |-> "ingest", paper |-> p]]
      /\ chain # <<>> => chain'[1] = chain[1] /\ chain[1] # r /\ chain[1] \in Requests
  BY <1>2, WaitChains
<1>4. memory' \in Stores /\ Within(memory, memory') /\ p \in memory'.packets /\ Queued(memory')
  <2>1. CASE p \in memory.packets
    BY <2>1, <1>1 DEF Ingest, Typed, Within, Ladder
  <2>2. CASE p \notin memory.packets
    BY <2>2, <1>1 DEF Ingest, Typed, Within, Stores, Ladder, Queued
  <2> QED BY <2>1, <2>2
<1>5. Typed'
  BY <1>1, <1>2, <1>3, <1>4 DEF Typed
<1>6. Ladder'
  BY <1>1, <1>2, <1>4 DEF Ladder, Within
<1>7. Effects'
  <2>1. \A q \in Requests : DoneIn(calls'[q], memory')
    <3> SUFFICES ASSUME NEW q \in Requests PROVE DoneIn(calls'[q], memory')
      OBVIOUS
    <3>1. CASE q = r
      BY <3>1, <1>1, <1>3, <1>4 DEF DoneIn, Typed
    <3>2. CASE q # r
      BY <3>2, <1>1, <1>3, <1>4 DEF DoneIn, Typed, Effects, Within
    <3> QED BY <3>1, <3>2
  <2>2. phase # "idle" => DoneIn(calls'[chain'[1]], image)
    BY <1>1, <1>3 DEF Effects, Typed, Chained
  <2> QED BY <2>1, <2>2, <1>2 DEF Effects
<1> QED BY <1>3, <1>5, <1>6, <1>7 DEF Inv

LEMMA DecideInv ==
    ASSUME Inv, NEW r \in Requests, NEW p \in Papers, Decide(r, p)
    PROVE  Inv'
<1>1. Typed /\ Chained /\ Ladder /\ Effects
  BY DEF Inv
<1>2. /\ calls[r] = Quiet
      /\ disk' = disk /\ phase' = phase /\ image' = image /\ told' = told
  BY DEF Decide
<1>3. memory' \in Stores /\ Within(memory, memory') /\ p \in memory'.decided /\ Queued(memory')
  BY <1>1 DEF Decide, Typed, Within, Stores, Ladder, Queued
<1>4. Ladder'
  BY <1>1, <1>2, <1>3 DEF Ladder, Within
<1>5. CASE p \in memory.packets
  <2>1. Wait(r, "decide", p)
    BY <1>5 DEF Decide
  <2>2. /\ chain' \in Seq(Requests) /\ calls' \in [Requests -> Call_]
        /\ Chained'
        /\ calls' = [calls EXCEPT ![r] = [kind |-> "decide", paper |-> p]]
        /\ chain # <<>> => chain'[1] = chain[1] /\ chain[1] # r /\ chain[1] \in Requests
    BY <2>1, <1>2, WaitChains
  <2>3. Typed'
    BY <1>1, <1>2, <1>3, <2>2 DEF Typed
  <2>4. \A q \in Requests : DoneIn(calls'[q], memory')
    <3> SUFFICES ASSUME NEW q \in Requests PROVE DoneIn(calls'[q], memory')
      OBVIOUS
    <3>1. CASE q = r
      BY <3>1, <1>1, <1>3, <2>2 DEF DoneIn, Typed
    <3>2. CASE q # r
      BY <3>2, <1>1, <1>3, <2>2 DEF DoneIn, Typed, Effects, Within
    <3> QED BY <3>1, <3>2
  <2>5. phase # "idle" => DoneIn(calls'[chain'[1]], image)
    BY <1>1, <2>2 DEF Effects, Typed, Chained
  <2>6. Effects'
    BY <2>4, <2>5, <1>2 DEF Effects
  <2> QED BY <2>2, <2>3, <2>6, <1>4 DEF Inv
<1>6. CASE p \notin memory.packets
  <2>1. calls' = calls /\ chain' = chain
    BY <1>6 DEF Decide
  <2>2. Typed' /\ Chained'
    BY <2>1, <1>1, <1>2, <1>3 DEF Typed, Chained
  <2>3. Effects'
    BY <2>1, <1>1, <1>2, <1>3 DEF Effects, DoneIn, Within
  <2> QED BY <2>2, <2>3, <1>4 DEF Inv
<1> QED BY <1>5, <1>6

LEMMA ExclusionInv ==
    ASSUME Inv, NEW w \in Windows, AddExclusion(w)
    PROVE  Inv'
<1>1. /\ memory' \in Stores
      /\ memory'.packets = memory.packets /\ memory'.decided = memory.decided
      /\ memory'.listed = memory.listed
  BY DEF Inv, Typed, AddExclusion, Stores
<1>2. UNCHANGED <<disk, chain, calls, phase, image, told>>
  BY DEF AddExclusion
<1>3. Typed' /\ Chained'
  BY <1>1, <1>2 DEF Inv, Typed, Chained
<1>4. Ladder' /\ Effects'
  BY <1>1, <1>2 DEF Inv, Ladder, Effects, Within, Queued, DoneIn
<1> QED BY <1>3, <1>4 DEF Inv

LEMMA TakeImageInv ==
    ASSUME Inv, TakeImage
    PROVE  Inv'
<1>1. Typed /\ Chained /\ Ladder /\ Effects /\ chain # <<>>
  BY DEF Inv, TakeImage
<1>2. /\ image' = memory /\ phase' = "mkdir"
      /\ UNCHANGED <<memory, disk, chain, calls, told>>
  BY DEF TakeImage
<1>3. chain[1] \in Requests
  BY <1>1, HeadIsFirst
<1>4. Typed' /\ Chained'
  BY <1>1, <1>2 DEF Typed, Chained
<1>5. Ladder'
  BY <1>1, <1>2 DEF Ladder, Within
<1>6. Effects'
  BY <1>1, <1>2, <1>3 DEF Effects
<1> QED BY <1>4, <1>5, <1>6 DEF Inv

LEMMA WriteImageInv ==
    ASSUME Inv, WriteImage
    PROVE  Inv'
<1>1. Typed /\ Chained /\ Ladder /\ Effects /\ phase = "mkdir" /\ chain # <<>>
  BY DEF Inv, WriteImage, Chained
<1>2. phase' = "writing" /\ UNCHANGED <<memory, disk, chain, calls, told>>
  BY DEF WriteImage
<1>3. /\ image' \in Stores
      /\ image'.packets = image.packets /\ image'.decided = memory.decided
      /\ image'.listed = memory.listed
  BY <1>1 DEF WriteImage, Typed, Stores
<1>4. chain[1] \in Requests
  BY <1>1, HeadIsFirst
<1>5. Typed' /\ Chained'
  BY <1>1, <1>2, <1>3 DEF Typed, Chained
<1>6. Ladder'
  BY <1>1, <1>2, <1>3 DEF Ladder, Within, Queued
<1>7. Effects'
  BY <1>1, <1>2, <1>3, <1>4 DEF Effects, DoneIn
<1> QED BY <1>5, <1>6, <1>7 DEF Inv

LEMMA RenameInv ==
    ASSUME Inv, Rename
    PROVE  Inv'
<1>1. Typed /\ Chained /\ Ladder /\ Effects /\ phase = "writing" /\ chain # <<>>
  BY DEF Inv, Rename, Chained
<1>2. /\ chain' \in Seq(Requests) /\ calls' \in [Requests -> Call_] /\ phase' = "idle"
      /\ Chained'
      /\ \A r \in Requests : calls'[r] \in {calls[r], Quiet}
  BY <1>1, AnswerChains DEF Rename
<1>3. disk' = image /\ memory' = memory /\ image' = image
  BY DEF Rename
<1>4. chain[1] \in Requests /\ Head(chain) = chain[1]
  BY <1>1, HeadIsFirst
<1>5. DEFINE call == calls[chain[1]]
<1>6. call \in Call_ /\ DoneIn(call, image) /\ Within(told, image)
  BY <1>1, <1>4 DEF Typed, Effects, Ladder, Within
<1>7. told' = [told EXCEPT !.packets = IF call.kind = "ingest" THEN @ \cup {call.paper} ELSE @,
                           !.decided = IF call.kind = "decide" THEN @ \cup {call.paper} ELSE @]
  BY <1>4 DEF Rename
<1> HIDE DEF call
<1>8. /\ told'.packets = IF call.kind = "ingest" THEN told.packets \cup {call.paper} ELSE told.packets
      /\ told'.decided = IF call.kind = "decide" THEN told.decided \cup {call.paper} ELSE told.decided
      /\ told'.listed = told.listed /\ told'.excluded = told.excluded
  BY <1>1, <1>7 DEF Typed, Stores
<1>9. Within(told', image)
  BY <1>6, <1>8 DEF Within, DoneIn
<1>10. told' \in Stores
  <2>1. image.packets \subseteq Papers /\ image.decided \subseteq Papers
    BY <1>1 DEF Typed, Stores
  <2>2. told'.packets \subseteq Papers /\ told'.decided \subseteq Papers
    BY <2>1, <1>9 DEF Within
  <2>3. told' = [packets |-> told'.packets, listed |-> told'.listed,
                 decided |-> told'.decided, excluded |-> told'.excluded]
    BY <1>1, <1>7 DEF Typed, Stores
  <2>4. told'.listed \subseteq Papers /\ told'.excluded \subseteq Windows
    BY <1>1, <1>8 DEF Typed, Stores
  <2> QED BY <2>2, <2>3, <2>4 DEF Stores
<1>11. Typed'
  BY <1>1, <1>2, <1>3, <1>10 DEF Typed
<1>12. Ladder'
  BY <1>1, <1>2, <1>3, <1>9 DEF Ladder
<1>13. Effects'
  BY <1>1, <1>2, <1>3 DEF Effects, DoneIn, Quiet
<1> QED BY <1>2, <1>11, <1>12, <1>13 DEF Inv

LEMMA SaveFailsInv ==
    ASSUME Inv, SaveFails
    PROVE  Inv'
<1>1. Typed /\ Chained /\ Ladder /\ Effects /\ chain # <<>>
  BY DEF Inv, SaveFails, Chained
<1>2. /\ chain' \in Seq(Requests) /\ calls' \in [Requests -> Call_] /\ phase' = "idle"
      /\ Chained'
      /\ \A r \in Requests : calls'[r] \in {calls[r], Quiet}
  BY <1>1, AnswerChains DEF SaveFails
<1>3. UNCHANGED <<memory, disk, image, told>>
  BY DEF SaveFails
<1>4. Typed'
  BY <1>1, <1>2, <1>3 DEF Typed
<1>5. Ladder'
  BY <1>1, <1>2, <1>3 DEF Ladder
<1>6. Effects'
  BY <1>1, <1>2, <1>3 DEF Effects, DoneIn, Quiet
<1> QED BY <1>2, <1>4, <1>5, <1>6 DEF Inv

LEMMA CrashInv ==
    ASSUME Inv, Crash
    PROVE  Inv'
<1>1. Typed /\ Ladder
  BY DEF Inv
<1>2. /\ memory' = disk /\ chain' = <<>> /\ phase' = "idle"
      /\ calls' = [r \in Requests |-> Quiet] /\ UNCHANGED <<disk, image, told>>
  BY DEF Crash
<1>3. Typed' /\ Chained'
  BY <1>1, <1>2 DEF Typed, Chained, Call_, Quiet
<1>4. Ladder' /\ Effects'
  BY <1>1, <1>2 DEF Ladder, Effects, Within, DoneIn, Quiet
<1> QED BY <1>3, <1>4 DEF Inv

LEMMA StutterInv ==
    ASSUME Inv, UNCHANGED pvars
    PROVE  Inv'
  BY DEF Inv, Typed, Chained, Ladder, Effects, Within, Queued, DoneIn, pvars

LEMMA NextInv == Inv /\ [Next]_pvars => Inv'
  BY IngestInv, DecideInv, ExclusionInv, TakeImageInv, WriteImageInv, RenameInv, SaveFailsInv,
     CrashInv, StutterInv DEF Next, Call

-----------------------------------------------------------------------------
\* The variables have their types, and the open calls are exactly the chain.
THEOREM TypeCorrect == Spec => []TypeOK
<1>1. Inv => TypeOK
  BY DEF Inv, Typed, Chained, TypeOK, Call_
<1> QED BY InitInv, NextInv, <1>1, PTL DEF Spec

\* What a caller was told is done is in the file, so a crash does not undo it
\* (withStorePersistence waits for the call's own save before it answers).
THEOREM AlwaysDurable == Spec => []Durable
<1>1. Inv => Durable
  BY DEF Inv, Ladder, Within, Queued, Durable
<1> QED BY InitInv, NextInv, <1>1, PTL DEF Spec
=============================================================================
