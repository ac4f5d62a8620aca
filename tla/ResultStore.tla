---------------------------- MODULE ResultStore ----------------------------
(***************************************************************************)
(* What the worker threads of shared/SimulatorPluginLibrary.cpp share with *)
(* Lua: the list of finished results, the identifiers of cancelled         *)
(* requests, the ring of progress counters and the task counters, with the *)
(* functions Lua calls on them.                                            *)
(*                                                                         *)
(* Every one of these functions holds g_CritSec from its first access to   *)
(* its last, so each is one step; initiateRequest takes it twice and       *)
(* starts the threads after that, so it is three.  A request publishes one *)
(* result at most (HappyEyeballs, AtMostOneResult) and is in "running"     *)
(* until it has.                                                           *)
(***************************************************************************)
EXTENDS Naturals, Sequences, FiniteSets, FiniteSetsExt, Functions

CONSTANTS
  LastId,        \* bound: requests made
  Kinds,         \* what a result may be
  FailedKinds,   \* the ones with is_error
  MaxResults,    \* results kept before the oldest is dropped (64)
  MaxCancelled,  \* MAX_CANCELLED_IDS
  MaxSlots,      \* MAX_PROGRESS_SLOTS
  LastByte,      \* bound: portions of one request's transfer
  SpawnFails,    \* whether CreateThread may fail in initiateRequest
  Collects       \* whether Lua calls collectGarbage

ASSUME StoreAssumption ==
  /\ LastId \in Nat /\ LastByte \in Nat
  /\ MaxResults \in Nat \ {0} /\ MaxCancelled \in Nat \ {0} /\ MaxSlots \in Nat \ {0}
  /\ FailedKinds \subseteq Kinds
  /\ SpawnFails \in BOOLEAN /\ Collects \in BOOLEAN

VARIABLES
  nextId,        \* g_NextRequestId
  starting,      \* initiateRequest: where it is, and for which request
  running,       \* requests whose threads will publish a result
  results,       \* g_ResultsList, newest first
  cancelled,     \* g_CancelledIds up to g_CancelledIdsCount, oldest first
  progress,      \* g_Progress: id (0 when free) and bytes counted
  progressNext,  \* g_ProgressNext
  active,        \* g_ActiveTasksCount
  completed,     \* g_TotalCompletedCount
  failed,        \* g_TotalFailedCount
  known,         \* history: identifiers initiateRequest returned to Lua
  delivered,     \* history: how often checkRequest returned the result
  silenced,      \* history: requests cancelled before their result was delivered
  forgotten,     \* history: requests whose cancellation was overwritten or cleared
  moved          \* history: portions transferred for a request

counters == <<active, completed, failed>>
ring == <<progress, progressNext>>
history == <<known, delivered, silenced, forgotten, moved>>
vars == <<nextId, starting, running, results, cancelled, ring, counters, history>>

Ids == 1 .. LastId
Slots == 1 .. MaxSlots

TypeOK ==
  /\ nextId \in 1 .. LastId + 1
  /\ starting \in [at : {"idle", "slot", "spawn"}, id : 0 .. LastId]
  /\ running \subseteq Ids
  /\ results \in Seq([id : Ids, kind : Kinds]) /\ Len(results) <= MaxResults
  /\ cancelled \in Seq(Ids) /\ Len(cancelled) <= MaxCancelled
  /\ progress \in [Slots -> [id : 0 .. LastId, bytes : 0 .. LastByte]]
  /\ progressNext \in Slots
  /\ active \in 0 .. LastId /\ completed \in 0 .. LastId /\ failed \in 0 .. LastId
  /\ known \subseteq Ids /\ silenced \subseteq Ids /\ forgotten \subseteq Ids
  /\ delivered \in [Ids -> Nat] /\ moved \in [Ids -> 0 .. LastByte]

Init ==
  /\ nextId = 1 /\ starting = [at |-> "idle", id |-> 0] /\ running = {}
  /\ results = <<>> /\ cancelled = <<>>
  /\ progress = [s \in Slots |-> [id |-> 0, bytes |-> 0]] /\ progressNext = 1
  /\ active = 0 /\ completed = 0 /\ failed = 0
  /\ known = {} /\ delivered = [i \in Ids |-> 0] /\ silenced = {} /\ forgotten = {}
  /\ moved = [i \in Ids |-> 0]

\* Where the result of a request is in the list, and where its cancellation is.
Places(id) == {k \in 1 .. Len(results) : results[k].id = id}
CancelledAt(id) == {k \in 1 .. Len(cancelled) : cancelled[k] = id}

Stored(id) == Places(id) # {}

\* The sequence without its k-th element.
Without(seq, k) == [j \in 1 .. Len(seq) - 1 |-> IF j < k THEN seq[j] ELSE seq[j + 1]]

\* The first entry of the request is unlinked.
Unlink(id) == results' = Without(results, Min(Places(id)))

RemoveCancelledId(id) == cancelled' = Without(cancelled, Min(CancelledAt(id)))

-----------------------------------------------------------------------------
(* Called by Lua                                                           *)

\* The identifier is taken and the task counted; a slot only if asked for.
InitiateRequest ==
  /\ starting.at = "idle" /\ nextId <= LastId
  /\ nextId' = nextId + 1 /\ active' = active + 1
  /\ \E at \in {"slot", "spawn"} : starting' = [at |-> at, id |-> nextId]
  /\ UNCHANGED <<running, results, cancelled, ring, completed, failed, history>>

SlotsOf(id) == {s \in Slots : progress[s].id = id}

\* A free slot first; only when there is none is one taken in turn.
ProgressStart ==
  /\ starting.at = "slot"
  /\ LET new == [id |-> starting.id, bytes |-> 0] IN
       IF SlotsOf(0) # {}
       THEN /\ progress' = [progress EXCEPT ![Min(SlotsOf(0))] = new]
            /\ UNCHANGED progressNext
       ELSE /\ progress' = [progress EXCEPT ![progressNext] = new]
            /\ progressNext' = (progressNext % MaxSlots) + 1
  /\ starting' = [starting EXCEPT !.at = "spawn"]
  /\ UNCHANGED <<nextId, running, results, cancelled, counters, history>>

StartThreads ==
  /\ starting.at = "spawn"
  /\ running' = running \cup {starting.id} /\ known' = known \cup {starting.id}
  /\ starting' = [at |-> "idle", id |-> 0]
  /\ UNCHANGED <<nextId, results, cancelled, ring, counters, delivered, silenced,
                 forgotten, moved>>

Decrement(n) == IF n > 0 THEN n - 1 ELSE n

\* CreateThread failed: Lua gets nil instead of an identifier.
StartThreadsFails ==
  /\ SpawnFails /\ starting.at = "spawn"
  /\ active' = Decrement(active)
  /\ starting' = [at |-> "idle", id |-> 0]
  /\ UNCHANGED <<nextId, running, results, cancelled, ring, completed, failed, history>>

\* GetAndRemoveResult and the event table made of it; nil changes nothing.
CheckRequest(id) ==
  /\ starting.at = "idle" /\ id \in known /\ Stored(id)
  /\ Unlink(id)
  /\ delivered' = [delivered EXCEPT ![id] = @ + 1]
  /\ UNCHANGED <<nextId, starting, running, cancelled, ring, counters, known,
                 silenced, forgotten, moved>>

IsRequestCancelled(id) == CancelledAt(id) # {}

AddCancelledId(id) ==
  cancelled' =
    IF IsRequestCancelled(id) THEN cancelled
    ELSE Append(IF Len(cancelled) < MaxCancelled THEN cancelled ELSE Tail(cancelled), id)

\* What the buffer loses without a result having come.
Forget == forgotten' = forgotten \cup (Range(cancelled) \ Range(cancelled'))

Silence(id) ==
  /\ silenced' = IF delivered[id] = 0 THEN silenced \cup {id} ELSE silenced
  /\ Forget

\* Mutation: the identifier is remembered even if the result is there.
CancelRemembers(id) ==
  /\ starting.at = "idle" /\ id \in known
  /\ AddCancelledId(id)
  /\ Silence(id)
  /\ UNCHANGED <<nextId, starting, running, results, ring, counters, known, delivered,
                 moved>>

\* A result that is there is dropped; otherwise the identifier is remembered,
\* even when the request is long over.
CancelRequest(id) ==
  /\ starting.at = "idle" /\ id \in known
  /\ IF Stored(id)
     THEN Unlink(id) /\ UNCHANGED cancelled
     ELSE AddCancelledId(id) /\ UNCHANGED results
  /\ Silence(id)
  /\ UNCHANGED <<nextId, starting, running, ring, counters, known, delivered, moved>>

\* FreeAllResults forgets what was cancelled along with the results.
CollectGarbage ==
  /\ Collects /\ starting.at = "idle"
  /\ results' = <<>> /\ cancelled' = <<>> /\ Forget
  /\ UNCHANGED <<nextId, starting, running, ring, counters, known, delivered, silenced,
                 moved>>

-----------------------------------------------------------------------------
(* Called by the worker threads                                            *)

\* Threads of a request that lost the race go on counting after its result is
\* published; they find no slot.
ProgressAdd(id) ==
  /\ id \in known /\ moved[id] < LastByte
  /\ moved' = [moved EXCEPT ![id] = @ + 1]
  /\ progress' = [s \in Slots |->
       IF s \in SlotsOf(id) THEN [progress[s] EXCEPT !.bytes = @ + 1] ELSE progress[s]]
  /\ UNCHANGED <<nextId, starting, running, results, cancelled, progressNext,
                 counters, known, delivered, silenced, forgotten>>

\* Mutation: a cancelled request keeps its slot.
FreeSlotUnlessCancelled(id) ==
  progress' = [s \in Slots |->
    IF s \in SlotsOf(id) /\ ~IsRequestCancelled(id) THEN [progress[s] EXCEPT !.id = 0]
    ELSE progress[s]]

FreeSlot(id) ==
  progress' = [s \in Slots |->
    IF s \in SlotsOf(id) THEN [progress[s] EXCEPT !.id = 0] ELSE progress[s]]

\* Mutation: a failure counts as completed, too.
CountBoth(kind) ==
  /\ active' = Decrement(active)
  /\ failed' = IF kind \in FailedKinds THEN failed + 1 ELSE failed
  /\ completed' = completed + 1

CountResult(kind) ==
  /\ active' = Decrement(active)
  /\ IF kind \in FailedKinds
     THEN failed' = failed + 1 /\ UNCHANGED completed
     ELSE completed' = completed + 1 /\ UNCHANGED failed

\* A cancelled request's result is dropped, any other one put first in the list,
\* whose oldest entry goes when it is full.
StoreResult(id, kind) ==
  IF IsRequestCancelled(id)
  THEN RemoveCancelledId(id) /\ UNCHANGED results
  ELSE /\ UNCHANGED cancelled
       /\ results' = <<[id |-> id, kind |-> kind]>> \o
            (IF Len(results) >= MaxResults THEN SubSeq(results, 1, Len(results) - 1)
                                           ELSE results)

AddResult(id, kind) ==
  /\ id \in running /\ running' = running \ {id}
  /\ FreeSlot(id) /\ CountResult(kind) /\ StoreResult(id, kind)
  /\ UNCHANGED <<nextId, starting, progressNext, history>>

-----------------------------------------------------------------------------
Lua ==
  \/ InitiateRequest \/ ProgressStart \/ StartThreads \/ StartThreadsFails
  \/ CollectGarbage
  \/ \E id \in Ids : CheckRequest(id) \/ CancelRequest(id)

Worker(id) == ProgressAdd(id) \/ \E kind \in Kinds : AddResult(id, kind)

Next == Lua \/ \E id \in Ids : Worker(id)

Spec == Init /\ [][Next]_vars

-----------------------------------------------------------------------------
(* Properties                                                              *)

\* Requests that have not published yet, the one being started included.
Pending == running \cup ({starting.id} \ {0})

\* getMemoryStats tells the truth: a task is active from initiateRequest until its
\* result is published, cancelled or not, and is then counted once.
CountersExact ==
  /\ active = Cardinality(Pending)
  /\ completed + failed = Cardinality(known \ running)

\* checkRequest returns the result of a request once at most, and never the one of
\* a cancelled request, whichever of the two threads was first, as long as the
\* cancellation is remembered: a buffer that overflows and collectGarbage forget.
DeliveredOnce ==
  \A id \in Ids :
    /\ delivered[id] + Cardinality(Places(id)) <= 1
    /\ id \in silenced \ forgotten => ~Stored(id)

\* Requests that were counted and given a slot, but whose thread could not be created.
Unstarted == (1 .. nextId - 1) \ (known \cup {starting.id})

\* A slot counts everything that was transferred for its request since it began,
\* and nothing of another: it exists before the threads do and starts from zero.
\* What is finished gives its slot back, so that the ring does not fill up with
\* dead records; only a request that was never started keeps it for good.
ProgressExact ==
  \A s \in Slots : progress[s].id # 0 =>
    /\ progress[s].bytes = moved[progress[s].id]
    /\ progress[s].id \in Pending \cup Unstarted
=============================================================================
