-------------------------- MODULE StorePersistence --------------------------
(***************************************************************************)
(* The in-memory store kept in a file (withStorePersistence).  A call that  *)
(* changes the store changes memory at once, then waits in a chain of       *)
(* promises for a save of its own and is answered when that save has        *)
(* renamed its file into place.  A save copies the maps when it begins but  *)
(* keeps a reference to the queue, and turns both into text only after the  *)
(* directory was made: calls may run in between.                            *)
(***************************************************************************)
EXTENDS Naturals, Sequences

CONSTANTS
    Papers,
    Windows,       \* what "stop sharing" may name
    Requests,      \* calls that may be open at once
    None

ASSUME PersistenceAssumption == None \notin Papers

VARIABLES
    memory,        \* the store
    disk,          \* the store the state file loads as
    chain,         \* the calls waiting for their save, the one being saved first
    calls,         \* what each open call did
    phase,         \* how far the first save is
    image,         \* what it will write
    told           \* what callers were told is done

pvars == <<memory, disk, chain, calls, phase, image, told>>

\* A store: papers whose packet and event are in the maps, papers in the queue array,
\* those of them decided, and the exclusions.
Stores == [packets : SUBSET Papers, listed : SUBSET Papers, decided : SUBSET Papers,
           excluded : SUBSET Windows]
Empty == [packets |-> {}, listed |-> {}, decided |-> {}, excluded |-> {}]

Quiet == [kind |-> "idle", paper |-> None]

\* r changed the store and waits for its save.
Wait(r, kind, p) ==
    /\ calls' = [calls EXCEPT ![r] = [kind |-> kind, paper |-> p]]
    /\ chain' = Append(chain, r)

\* The first call leaves the chain.
Answer ==
    /\ calls' = [calls EXCEPT ![Head(chain)] = Quiet]
    /\ chain' = Tail(chain)
    /\ phase' = "idle"

-----------------------------------------------------------------------------
Init ==
    /\ memory = Empty /\ disk = Empty /\ image = Empty /\ told = Empty
    /\ chain = <<>>
    /\ calls = [r \in Requests |-> Quiet]
    /\ phase = "idle"

\* ingestEventAsReviewPacket; a known event changes nothing but is saved all the same.
Ingest(r, p) ==
    /\ calls[r] = Quiet
    /\ memory' = IF p \in memory.packets THEN memory
                 ELSE [memory EXCEPT !.packets = @ \cup {p}, !.listed = @ \cup {p}]
    /\ Wait(r, "ingest", p)
    /\ UNCHANGED <<disk, phase, image, told>>

\* markQueueItemDone, ignoreQueueItem: a paper without its packet throws once it is changed.
Decide(r, p) ==
    /\ calls[r] = Quiet /\ p \in memory.listed
    /\ memory' = [memory EXCEPT !.decided = @ \cup {p}]
    /\ IF p \in memory.packets THEN Wait(r, "decide", p) ELSE UNCHANGED <<calls, chain>>
    /\ UNCHANGED <<disk, phase, image, told>>

\* addFollowsWindowExclusion is not among the calls that save.
AddExclusion(w) ==
    /\ memory' = [memory EXCEPT !.excluded = @ \cup {w}]
    /\ UNCHANGED <<disk, chain, calls, phase, image, told>>

\* serializeStore
TakeImage ==
    /\ chain # <<>> /\ phase = "idle"
    /\ image' = memory
    /\ phase' = "mkdir"
    /\ UNCHANGED <<memory, disk, chain, calls, told>>

\* JSON.stringify: the maps as they were, the queue as it is.
WriteImage ==
    /\ phase = "mkdir"
    /\ image' = [image EXCEPT !.listed = memory.listed, !.decided = memory.decided]
    /\ phase' = "writing"
    /\ UNCHANGED <<memory, disk, chain, calls, told>>

RenameMutant ==
    /\ phase = "writing"
    /\ disk' = image
    /\ told' = [told EXCEPT !.packets = @ \cup {calls[r].paper : r \in {q \in Requests : calls[q].kind = "ingest"}}]
    /\ calls' = [r \in Requests |-> Quiet] /\ chain' = <<>> /\ phase' = "idle"
    /\ UNCHANGED <<memory, image>>
\* The file is in place and the first call is answered.
Rename ==
    /\ phase = "writing"
    /\ disk' = image
    /\ told' = LET call == calls[Head(chain)]
               IN  [told EXCEPT !.packets = IF call.kind = "ingest" THEN @ \cup {call.paper} ELSE @,
                                !.decided = IF call.kind = "decide" THEN @ \cup {call.paper} ELSE @]
    /\ Answer
    /\ UNCHANGED <<memory, image>>

SaveFailsMutant ==
    /\ phase \in {"mkdir", "writing"}
    /\ calls' = [calls EXCEPT ![Head(chain)] = Quiet]
    /\ chain' = Tail(chain) /\ phase' = "broken"
    /\ UNCHANGED <<memory, disk, image, told>>
\* A step of the save throws: its call fails, memory keeps the change, the chain goes on.
SaveFails ==
    /\ phase \in {"mkdir", "writing"}
    /\ Answer
    /\ UNCHANGED <<memory, disk, image, told>>

\* The gateway dies and loads the file.
Crash ==
    /\ memory' = disk
    /\ calls' = [r \in Requests |-> Quiet] /\ chain' = <<>> /\ phase' = "idle"
    /\ UNCHANGED <<disk, image, told>>

-----------------------------------------------------------------------------
Call == \E r \in Requests, p \in Papers : Ingest(r, p) \/ Decide(r, p)

Next ==
    \/ Call
    \/ \E w \in Windows : AddExclusion(w)
    \/ TakeImage \/ WriteImage \/ Rename \/ SaveFails
    \/ Crash

Spec == Init /\ [][Next]_pvars

\* Calls keep coming, saves go on and do not fail for ever.
FairSpec ==
    /\ Spec
    /\ WF_pvars(Call) /\ WF_pvars(TakeImage) /\ SF_pvars(WriteImage) /\ SF_pvars(Rename)

-----------------------------------------------------------------------------
TypeOK ==
    /\ memory \in Stores /\ disk \in Stores /\ image \in Stores /\ told \in Stores
    /\ chain \in Seq(Requests)
    /\ calls \in [Requests -> [kind : {"idle", "ingest", "decide"}, paper : Papers \cup {None}]]
    /\ phase \in {"idle", "mkdir", "writing"}
    /\ phase # "idle" => chain # <<>>
    /\ \A r \in Requests : calls[r] # Quiet <=> \E i \in 1..Len(chain) : chain[i] = r

\* What a call was told is done survives the death of the gateway: the paper's packet and
\* event, its place in the queue, and the decision on it - although a save writes maps and
\* queue of different moments.
Durable ==
    told.packets \subseteq disk.packets \cap disk.listed /\ told.decided \subseteq disk.decided

\* A failed save costs its own call an error, not the change, and an exclusion waits for
\* the save of some other call: what is in memory reaches the file, or died with the
\* gateway.
MemoryReachesDisk ==
    /\ \A p \in Papers : p \in memory.packets ~> p \in disk.packets \/ p \notin memory.packets
    /\ \A w \in Windows : w \in memory.excluded ~> w \in disk.excluded \/ w \notin memory.excluded
=============================================================================
