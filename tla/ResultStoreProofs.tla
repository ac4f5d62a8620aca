-------------------------- MODULE ResultStoreProofs --------------------------
(***************************************************************************)
(* Proofs about the results, cancellations, progress slots and counters of *)
(* module ResultStore, for any number of requests and any sizes of the     *)
(* buffers.                                                                *)
(*                                                                         *)
(* KnownInv says which identifiers are in use; CountInv and SlotInv follow *)
(* the counters and the ring of slots on top of it.  OnceInv adds what     *)
(* makes a delivery the only one: a result is in the list once, and only   *)
(* of a request that has published and was not delivered; a cancellation   *)
(* that is neither forgotten nor served is in the buffer.                  *)
(***************************************************************************)
EXTENDS ResultStore, FiniteSetTheorems, SequenceTheorems, WellFoundedInduction,
        TLAPS

\* Identifiers are given out in turn; the one being started is not known to Lua yet.
KnownInv ==
  /\ nextId \in 1 .. LastId + 1
  /\ starting \in [at : {"idle", "slot", "spawn"}, id : 0 .. LastId]
  /\ known \subseteq 1 .. nextId - 1 /\ known \subseteq Ids
  /\ running \subseteq known
  /\ starting.at = "idle" => starting.id = 0
  /\ starting.at # "idle" =>
       starting.id = nextId - 1 /\ starting.id # 0 /\ starting.id \notin known

\* CountersExact, with the types of what is counted.
CountInv ==
  /\ completed \in Nat /\ failed \in Nat
  /\ active = Cardinality(Pending)
  /\ completed + failed = Cardinality(known \ running)

\* ProgressExact, and that nothing is transferred for a request not yet started.
SlotInv ==
  /\ progress \in [Slots -> [id : 0 .. LastId, bytes : 0 .. LastByte]]
  /\ progressNext \in Slots
  /\ moved \in [Ids -> 0 .. LastByte]
  /\ \A i \in Ids \ known : moved[i] = 0
  /\ \A s \in Slots : progress[s].id # 0 =>
       /\ progress[s].bytes = moved[progress[s].id]
       /\ progress[s].id \in Pending \cup Unstarted

\* No request has two entries in the list.
UniqueIn(list) ==
  \A j, k \in 1 .. Len(list) : list[j].id = list[k].id => j = k

\* The buffer of cancelled identifiers holds this one.
Cancelled(id) == \E k \in 1 .. Len(cancelled) : cancelled[k] = id

\* The list and the buffer keep their sizes.
ListInv ==
  /\ results \in Seq([id : Ids, kind : Kinds]) /\ Len(results) <= MaxResults
  /\ cancelled \in Seq(Ids) /\ Len(cancelled) <= MaxCancelled
  /\ UniqueIn(results)

\* A stored result was published and not delivered, a silenced request is not stored
\* and, while it runs, in the buffer; unless the buffer forgot it.
OnceInv ==
  /\ delivered \in [Ids -> Nat]
  /\ silenced \subseteq known /\ forgotten \subseteq Ids
  /\ \A i \in Ids :
       /\ delivered[i] <= 1
       /\ i \in running \/ i \notin known => delivered[i] = 0
       /\ Stored(i) => i \in known \ running /\ delivered[i] = 0
       /\ i \in silenced \ forgotten => ~Stored(i) /\ (i \in running => Cancelled(i))

IInv == KnownInv /\ CountInv /\ SlotInv /\ ListInv /\ OnceInv

-----------------------------------------------------------------------------
(* What the helpers of the module return                                   *)

\* A non-empty set of natural numbers has a least element, which Min is.
LEMMA MinIn ==
  ASSUME NEW S \in SUBSET Nat, S # {}
  PROVE  Min(S) \in S
<1> DEFINE Less == OpToRel(<, Nat)
<1>1. IsWellFoundedOn(Less, Nat)
  BY NatLessThanWellFounded
<1>2. \A m, n \in Nat : m < n => <<m, n>> \in Less
  BY DEF OpToRel
<1> HIDE DEF Less
<1>3. PICK n \in S : \A m \in S : <<m, n>> \notin Less
  BY <1>1, WFMin
<1>4. ASSUME NEW m \in S PROVE n <= m
  <2>1. m \in Nat /\ n \in Nat
    OBVIOUS
  <2>2. ~(m < n)
    BY <1>2, <1>3, <2>1
  <2>. QED
    BY <2>1, <2>2
<1>. QED
  BY <1>4 DEF Min

\* Removing one entry keeps the others in order.
LEMMA WithoutEntry ==
  ASSUME NEW T, NEW seq \in Seq(T), NEW k \in 1 .. Len(seq)
  PROVE  /\ Without(seq, k) \in Seq(T) /\ Len(Without(seq, k)) = Len(seq) - 1
         /\ \A j \in 1 .. Len(seq) - 1 :
              Without(seq, k)[j] = seq[IF j < k THEN j ELSE j + 1]
         /\ \A m \in 1 .. Len(seq) : m # k =>
              \E j \in 1 .. Len(seq) - 1 : Without(seq, k)[j] = seq[m]
<1> DEFINE n == Len(seq) - 1
           s == Without(seq, k)
<1>1. n \in Nat
  OBVIOUS
<1>2. s = [j \in 1 .. n |-> IF j < k THEN seq[j] ELSE seq[j + 1]]
  BY DEF Without
<1>3. \A j \in 1 .. n : s[j] \in T
  BY <1>1, <1>2
<1>4. s \in Seq(T) /\ Len(s) = n
  BY <1>1, <1>2, <1>3
<1>5. \A j \in 1 .. n : s[j] = seq[IF j < k THEN j ELSE j + 1]
  BY <1>2
<1>6. ASSUME NEW m \in 1 .. Len(seq), m # k
      PROVE  \E j \in 1 .. n : s[j] = seq[m]
  <2>1. CASE m < k
    <3>1. m \in 1 .. n /\ s[m] = seq[m]
      BY <1>1, <1>5, <2>1
    <3>. QED
      BY <3>1
  <2>2. CASE m > k
    <3>1. m - 1 \in 1 .. n /\ s[m - 1] = seq[m]
      BY <1>1, <1>5, <2>2
    <3>. QED
      BY <3>1
  <2>. QED
    BY <1>6, <2>1, <2>2
<1>. QED
  BY <1>4, <1>5, <1>6

\* The first entry of a request is its only one, and the others keep theirs.
LEMMA Unlinks ==
  ASSUME ListInv, NEW id \in Ids, Stored(id), Unlink(id)
  PROVE  /\ results' \in Seq([id : Ids, kind : Kinds]) /\ Len(results') <= MaxResults
         /\ UniqueIn(results') /\ ~Stored(id)'
         /\ \A i \in Ids : Stored(i)' => Stored(i)
<1> DEFINE R == [id : Ids, kind : Kinds]
<1>1. Places(id) \in SUBSET Nat
  BY DEF Places
<1>2. Min(Places(id)) \in Places(id)
  BY <1>1, MinIn DEF Stored
<1>3. PICK k \in 1 .. Len(results) : results[k].id = id /\ results' = Without(results, k)
  BY <1>2 DEF Places, Unlink
<1>4. results \in Seq(R) /\ Len(results) <= MaxResults /\ UniqueIn(results)
  BY DEF ListInv
<1> HIDE DEF R
<1>5. /\ results' \in Seq(R) /\ Len(results') = Len(results) - 1
      /\ \A j \in 1 .. Len(results') : results'[j] = results[IF j < k THEN j ELSE j + 1]
  BY <1>3, <1>4, WithoutEntry
<1>6. Len(results') \in Nat /\ Len(results) \in Nat /\ MaxResults \in Nat
  BY <1>4, <1>5, StoreAssumption
<1>7. ASSUME NEW j \in 1 .. Len(results')
      PROVE  \E m \in 1 .. Len(results) : m # k /\ results'[j] = results[m]
  <2>1. (IF j < k THEN j ELSE j + 1) \in 1 .. Len(results) /\ (IF j < k THEN j ELSE j + 1) # k
    BY <1>5, <1>6
  <2>. QED
    BY <1>5, <2>1
<1>8. ~Stored(id)'
  <2>1. ASSUME NEW j \in 1 .. Len(results') PROVE results'[j].id # id
    BY <1>3, <1>4, <1>7 DEF UniqueIn
  <2>. QED
    BY <2>1 DEF Stored, Places
<1>9. UniqueIn(results')
  <2>1. SUFFICES ASSUME NEW j \in 1 .. Len(results'), NEW l \in 1 .. Len(results'),
                        results'[j].id = results'[l].id
                 PROVE  j = l
    BY DEF UniqueIn
  <2>2. (IF j < k THEN j ELSE j + 1) = (IF l < k THEN l ELSE l + 1)
    <3>1. /\ (IF j < k THEN j ELSE j + 1) \in 1 .. Len(results)
          /\ (IF l < k THEN l ELSE l + 1) \in 1 .. Len(results)
      BY <1>5, <1>6
    <3>. QED
      BY <1>4, <1>5, <2>1, <3>1 DEF UniqueIn
  <2>. QED
    BY <2>2
<1>10. \A i \in Ids : Stored(i)' => Stored(i)
  BY <1>7 DEF Stored, Places
<1>. QED
  BY <1>4, <1>5, <1>6, <1>8, <1>9, <1>10 DEF R

\* ProgressStart fills one slot, free or next in turn.
LEMMA SlotTaken ==
  ASSUME SlotInv, ProgressStart
  PROVE  /\ \E s \in Slots :
              progress' = [progress EXCEPT ![s] = [id |-> starting.id, bytes |-> 0]]
         /\ progressNext' \in Slots
<1>1. CASE SlotsOf(0) # {}
  <2>1. SlotsOf(0) \in SUBSET Nat
    BY DEF SlotsOf, Slots
  <2>2. Min(SlotsOf(0)) \in Slots
    BY <1>1, <2>1, MinIn DEF SlotsOf
  <2>. QED
    BY <1>1, <2>2 DEF ProgressStart, SlotInv
<1>2. CASE SlotsOf(0) = {}
  <2>1. (progressNext % MaxSlots) + 1 \in Slots
    BY StoreAssumption DEF SlotInv, Slots
  <2>. QED
    BY <1>2, <2>1 DEF ProgressStart, SlotInv
<1>. QED
  BY <1>1, <1>2

\* What is counted is finite.
LEMMA Finite ==
  ASSUME KnownInv
  PROVE  /\ IsFiniteSet(Pending) /\ Cardinality(Pending) <= LastId
         /\ IsFiniteSet(known \ running) /\ Cardinality(known \ running) <= LastId
<1>1. IsFiniteSet(Ids) /\ Cardinality(Ids) = LastId
  BY FS_Interval, StoreAssumption DEF Ids
<1>2. Pending \in SUBSET Ids /\ known \ running \in SUBSET Ids
  <2>1. starting.id \in 0 .. LastId /\ running \subseteq Ids /\ known \subseteq Ids
    BY DEF KnownInv
  <2>2. \A n \in 0 .. LastId : n = 0 \/ n \in Ids
    BY StoreAssumption DEF Ids
  <2>. QED
    BY <2>1, <2>2 DEF Pending
<1>. QED
  BY <1>1, <1>2, FS_Subset

\* Every action keeps track of which identifiers are in use.
LEMMA KnownStep ==
  ASSUME KnownInv, [Next]_vars
  PROVE  KnownInv'
<1>1. CASE InitiateRequest
  BY <1>1, StoreAssumption DEF KnownInv, Ids, InitiateRequest, ring, counters, history
<1>2. CASE ProgressStart
  BY <1>2, StoreAssumption DEF KnownInv, Ids, ProgressStart, ring, counters, history
<1>3. CASE StartThreads
  <2>1. starting.id = nextId - 1 /\ starting.id # 0 /\ starting.id \in 0 .. LastId
    BY <1>3 DEF KnownInv, StartThreads
  <2>2. starting.id \in Ids /\ starting.id \in 1 .. nextId - 1
    BY <2>1, StoreAssumption DEF KnownInv, Ids
  <2>3. /\ running' = running \cup {starting.id} /\ known' = known \cup {starting.id}
        /\ starting' = [at |-> "idle", id |-> 0] /\ nextId' = nextId
    BY <1>3 DEF StartThreads
  <2>4. starting' \in [at : {"idle", "slot", "spawn"}, id : 0 .. LastId]
    BY <2>3, StoreAssumption
  <2>5. known' \subseteq 1 .. nextId - 1 /\ known' \subseteq Ids /\ running' \subseteq known'
    BY <2>2, <2>3 DEF KnownInv
  <2>. QED
    BY <2>3, <2>4, <2>5 DEF KnownInv
<1>4. CASE StartThreadsFails
  BY <1>4, StoreAssumption DEF KnownInv, Ids, StartThreadsFails, ring, counters, history
<1>5. CASE CollectGarbage
  BY <1>5, StoreAssumption DEF KnownInv, Ids, CollectGarbage, ring, counters, history
<1>6. ASSUME NEW id \in Ids, CheckRequest(id)
      PROVE  KnownInv'
  BY <1>6, StoreAssumption DEF KnownInv, Ids, CheckRequest, ring, counters, history
<1>7. ASSUME NEW id \in Ids, CancelRequest(id)
      PROVE  KnownInv'
  BY <1>7, StoreAssumption DEF KnownInv, Ids, CancelRequest, ring, counters, history
<1>8. ASSUME NEW id \in Ids, ProgressAdd(id)
      PROVE  KnownInv'
  BY <1>8, StoreAssumption DEF KnownInv, Ids, ProgressAdd, ring, counters, history
<1>9. ASSUME NEW id \in Ids, NEW kind \in Kinds, AddResult(id, kind)
      PROVE  KnownInv'
  BY <1>9, StoreAssumption DEF KnownInv, Ids, AddResult, ring, counters, history
<1>10. CASE UNCHANGED vars
  BY <1>10 DEF KnownInv, vars, ring, counters, history
<1>. QED
  BY <1>1, <1>2, <1>3, <1>4, <1>5, <1>6, <1>7, <1>8, <1>9, <1>10
     DEF Next, Lua, Worker

\* Every action keeps the counters equal to what they count.
LEMMA CountStep ==
  ASSUME KnownInv, CountInv, [Next]_vars
  PROVE  CountInv'
<1>1. CASE InitiateRequest
  <2>1. Pending' = Pending \cup {nextId} /\ nextId \notin Pending
    BY <1>1 DEF KnownInv, Pending, InitiateRequest, Ids
  <2>2. Cardinality(Pending') = Cardinality(Pending) + 1
    BY <2>1, Finite, FS_AddElement
  <2>3. UNCHANGED <<completed, failed, known, running>>
    BY <1>1 DEF InitiateRequest, history
  <2>. QED
    BY <1>1, <2>2, <2>3 DEF CountInv, InitiateRequest
<1>2. CASE ProgressStart
  <2>1. UNCHANGED <<active, completed, failed, Pending, known, running>>
    BY <1>2 DEF ProgressStart, KnownInv, Pending, counters, history
  <2>. QED
    BY <2>1 DEF CountInv
<1>3. CASE StartThreads
  <2>1. UNCHANGED <<active, completed, failed, Pending, known \ running>>
    BY <1>3 DEF StartThreads, Pending, KnownInv, Ids, counters
  <2>. QED
    BY <2>1 DEF CountInv
<1>4. CASE StartThreadsFails
  <2>1. Pending' = Pending \ {starting.id} /\ starting.id \in Pending
    BY <1>4 DEF StartThreadsFails, KnownInv, Pending, Ids
  <2>2. Cardinality(Pending') = Cardinality(Pending) - 1
    BY <2>1, Finite, FS_RemoveElement
  <2>3. Cardinality(Pending) # 0
    BY <2>1, Finite, FS_EmptySet
  <2>4. Cardinality(Pending) \in Nat
    BY Finite, FS_CardinalityType
  <2>5. UNCHANGED <<completed, failed, known, running>>
    BY <1>4 DEF StartThreadsFails, history
  <2>. QED
    BY <1>4, <2>2, <2>3, <2>4, <2>5 DEF CountInv, StartThreadsFails, Decrement
<1>5. CASE CollectGarbage
  <2>1. UNCHANGED <<active, completed, failed, Pending, known, running>>
    BY <1>5 DEF CollectGarbage, Pending, ring, counters, history
  <2>. QED
    BY <2>1 DEF CountInv
<1>6. ASSUME NEW id \in Ids, CheckRequest(id)
      PROVE  CountInv'
  <2>1. UNCHANGED <<active, completed, failed, Pending, known, running>>
    BY <1>6 DEF CheckRequest, Pending, ring, counters, history
  <2>. QED
    BY <2>1 DEF CountInv
<1>7. ASSUME NEW id \in Ids, CancelRequest(id)
      PROVE  CountInv'
  <2>1. UNCHANGED <<active, completed, failed, Pending, known, running>>
    BY <1>7 DEF CancelRequest, Pending, ring, counters, history
  <2>. QED
    BY <2>1 DEF CountInv
<1>8. ASSUME NEW id \in Ids, ProgressAdd(id)
      PROVE  CountInv'
  <2>1. UNCHANGED <<active, completed, failed, Pending, known, running>>
    BY <1>8 DEF ProgressAdd, Pending, ring, counters, history
  <2>. QED
    BY <2>1 DEF CountInv
<1>9. ASSUME NEW id \in Ids, NEW kind \in Kinds, AddResult(id, kind)
      PROVE  CountInv'
  <2>1. /\ Pending' = Pending \ {id} /\ id \in Pending
        /\ (known \ running)' = (known \ running) \cup {id} /\ id \notin known \ running
    BY <1>9 DEF AddResult, KnownInv, Pending, Ids, history
  <2>2. /\ Cardinality(Pending') = Cardinality(Pending) - 1
        /\ Cardinality((known \ running)') = Cardinality(known \ running) + 1
    BY <2>1, Finite, FS_RemoveElement, FS_AddElement
  <2>3. Cardinality(Pending) # 0
    BY <2>1, Finite, FS_EmptySet
  <2>4. Cardinality(Pending) \in Nat
    BY Finite, FS_CardinalityType
  <2>5. active' = active - 1
    BY <1>9, <2>3, <2>4 DEF CountInv, AddResult, CountResult, Decrement
  <2>6. completed' \in Nat /\ failed' \in Nat /\ completed' + failed' = completed + failed + 1
    BY <1>9 DEF CountInv, AddResult, CountResult
  <2>. QED
    BY <2>2, <2>5, <2>6 DEF CountInv
<1>10. CASE UNCHANGED vars
  BY <1>10 DEF CountInv, Pending, vars, ring, counters, history
<1>. QED
  BY <1>1, <1>2, <1>3, <1>4, <1>5, <1>6, <1>7, <1>8, <1>9, <1>10
     DEF Next, Lua, Worker

\* Every action keeps the slots true to what was transferred.
LEMMA SlotStep ==
  ASSUME KnownInv, SlotInv, [Next]_vars
  PROVE  SlotInv'
<1>1. CASE InitiateRequest
  <2>1. UNCHANGED <<progress, progressNext, moved, known>> /\ Unstarted' = Unstarted
    BY <1>1 DEF InitiateRequest, Unstarted, KnownInv, Ids, ring, history
  <2>2. Pending \subseteq Pending'
    BY <1>1 DEF InitiateRequest, Pending, KnownInv
  <2>. QED
    BY <2>1, <2>2 DEF SlotInv
<1>2. CASE ProgressStart
  <2>1. PICK s \in Slots :
          progress' = [progress EXCEPT ![s] = [id |-> starting.id, bytes |-> 0]]
    BY <1>2, SlotTaken
  <2>2. progressNext' \in Slots
    BY <1>2, SlotTaken
  <2>3. UNCHANGED <<moved, known, Pending, Unstarted>>
    BY <1>2 DEF ProgressStart, Pending, Unstarted, history
  <2>4. starting.id \in Pending /\ starting.id \in Ids /\ moved[starting.id] = 0
    BY <1>2 DEF ProgressStart, KnownInv, Pending, SlotInv, Ids
  <2>5. progress'[s] = [id |-> starting.id, bytes |-> 0]
    BY <2>1 DEF SlotInv
  <2>6. \A t \in Slots \ {s} : progress'[t] = progress[t]
    BY <2>1 DEF SlotInv
  <2>7. progress' \in [Slots -> [id : 0 .. LastId, bytes : 0 .. LastByte]]
    BY <2>1, <2>4, StoreAssumption DEF SlotInv, Ids
  <2>. QED
    BY <2>2, <2>3, <2>4, <2>5, <2>6, <2>7 DEF SlotInv
<1>3. CASE StartThreads
  <2>1. /\ UNCHANGED <<progress, progressNext, moved, Pending, Unstarted>>
        /\ known \subseteq known'
    BY <1>3 DEF StartThreads, Pending, Unstarted, KnownInv, Ids, ring
  <2>. QED
    BY <2>1 DEF SlotInv
<1>4. CASE StartThreadsFails
  <2>1. UNCHANGED <<progress, progressNext, moved, known>>
    BY <1>4 DEF StartThreadsFails, ring, history
  <2>2. Pending \cup Unstarted \subseteq Pending' \cup Unstarted'
    BY <1>4 DEF StartThreadsFails, Pending, Unstarted, KnownInv, Ids, history
  <2>. QED
    BY <2>1, <2>2 DEF SlotInv
<1>5. CASE CollectGarbage
  <2>1. UNCHANGED <<progress, progressNext, moved, known, Pending, Unstarted>>
    BY <1>5 DEF CollectGarbage, Pending, Unstarted, ring, counters, history
  <2>. QED
    BY <2>1 DEF SlotInv
<1>6. ASSUME NEW id \in Ids, CheckRequest(id)
      PROVE  SlotInv'
  <2>1. UNCHANGED <<progress, progressNext, moved, known, Pending, Unstarted>>
    BY <1>6 DEF CheckRequest, Pending, Unstarted, ring, counters, history
  <2>. QED
    BY <2>1 DEF SlotInv
<1>7. ASSUME NEW id \in Ids, CancelRequest(id)
      PROVE  SlotInv'
  <2>1. UNCHANGED <<progress, progressNext, moved, known, Pending, Unstarted>>
    BY <1>7 DEF CancelRequest, Pending, Unstarted, ring, counters, history
  <2>. QED
    BY <2>1 DEF SlotInv
<1>8. ASSUME NEW id \in Ids, ProgressAdd(id)
      PROVE  SlotInv'
  <2>1. UNCHANGED <<progressNext, known, Pending, Unstarted>>
    BY <1>8 DEF ProgressAdd, Pending, Unstarted
  <2>2. \A s \in Slots : progress'[s] =
          IF progress[s].id = id THEN [progress[s] EXCEPT !.bytes = @ + 1] ELSE progress[s]
    BY <1>8 DEF ProgressAdd, SlotsOf
  <2>3. moved[id] \in Nat /\ moved[id] + 1 \in 0 .. LastByte
    BY <1>8, StoreAssumption DEF ProgressAdd, SlotInv
  <2>4. moved'[id] = moved[id] + 1 /\ \A i \in Ids \ {id} : moved'[i] = moved[i]
    BY <1>8 DEF ProgressAdd, SlotInv
  <2>5. \A s \in Slots :
          /\ progress'[s].id = progress[s].id
          /\ progress[s].id = id => progress'[s].bytes = moved[id] + 1
          /\ progress[s].id # id => progress'[s].bytes = progress[s].bytes
    <3>1. ASSUME NEW s \in Slots, progress[s].id = id
          PROVE  progress'[s].id = id /\ progress'[s].bytes = moved[id] + 1
      <4>1. progress[s] \in [id : 0 .. LastId, bytes : 0 .. LastByte]
        BY DEF SlotInv
      <4>2. progress[s].bytes = moved[id]
        BY <3>1 DEF SlotInv, Ids
      <4>. QED
        BY <2>2, <3>1, <4>1, <4>2
    <3>2. ASSUME NEW s \in Slots, progress[s].id # id PROVE progress'[s] = progress[s]
      BY <2>2, <3>2
    <3>. QED
      BY <3>1, <3>2
  <2>6. \A s \in Slots : progress'[s] \in [id : 0 .. LastId, bytes : 0 .. LastByte]
    <3>1. ASSUME NEW s \in Slots
          PROVE  progress'[s] \in [id : 0 .. LastId, bytes : 0 .. LastByte]
      <4>1. progress[s] \in [id : 0 .. LastId, bytes : 0 .. LastByte]
        BY DEF SlotInv
      <4>2. CASE progress[s].id = id
        <5>1. progress[s].bytes = moved[id]
          BY <4>2 DEF SlotInv, Ids
        <5>. QED
          BY <2>2, <2>3, <4>1, <4>2, <5>1
      <4>3. CASE progress[s].id # id
        BY <2>2, <4>1, <4>3
      <4>. QED
        BY <4>2, <4>3
    <3>. QED
      BY <3>1
  <2>7. progress' \in [Slots -> [id : 0 .. LastId, bytes : 0 .. LastByte]]
    BY <1>8, <2>6 DEF ProgressAdd
  <2>8. moved' \in [Ids -> 0 .. LastByte]
    BY <1>8, <2>3 DEF ProgressAdd, SlotInv
  <2>9. id \in known
    BY <1>8 DEF ProgressAdd
  <2>10. ASSUME NEW s \in Slots, progress'[s].id # 0
         PROVE  /\ progress'[s].bytes = moved'[progress'[s].id]
                /\ progress'[s].id \in Pending' \cup Unstarted'
    <3>1. progress[s].id \in Ids
      BY <2>5, <2>10 DEF SlotInv, Ids
    <3>2. progress'[s].bytes = moved'[progress'[s].id]
      BY <2>4, <2>5, <2>10, <3>1 DEF SlotInv
    <3>. QED
      BY <2>1, <2>5, <2>10, <3>2 DEF SlotInv
  <2>11. \A i \in Ids \ known' : moved'[i] = 0
    BY <2>1, <2>4, <2>9 DEF SlotInv
  <2>. QED
    BY <2>1, <2>7, <2>8, <2>10, <2>11 DEF SlotInv
<1>9. ASSUME NEW id \in Ids, NEW kind \in Kinds, AddResult(id, kind)
      PROVE  SlotInv'
  <2>1. UNCHANGED <<progressNext, moved, known>>
    BY <1>9 DEF AddResult, history
  <2>2. \A s \in Slots : progress'[s] =
          IF progress[s].id = id THEN [progress[s] EXCEPT !.id = 0] ELSE progress[s]
    BY <1>9 DEF AddResult, FreeSlot, SlotsOf
  <2>3. \A s \in Slots :
          /\ progress[s].id = id => progress'[s].id = 0
          /\ progress[s].id # id => progress'[s] = progress[s]
    BY <2>2 DEF SlotInv
  <2>4. \A s \in Slots : progress'[s] \in [id : 0 .. LastId, bytes : 0 .. LastByte]
    <3>1. ASSUME NEW s \in Slots
          PROVE  progress'[s] \in [id : 0 .. LastId, bytes : 0 .. LastByte]
      <4>1. progress[s] \in [id : 0 .. LastId, bytes : 0 .. LastByte] /\ 0 \in 0 .. LastId
        BY StoreAssumption DEF SlotInv
      <4>. QED
        BY <2>2, <4>1
    <3>. QED
      BY <3>1
  <2>5. progress' \in [Slots -> [id : 0 .. LastId, bytes : 0 .. LastByte]]
    BY <1>9, <2>4 DEF AddResult, FreeSlot
  <2>6. Unstarted' = Unstarted /\ Pending \ {id} \subseteq Pending'
    BY <1>9 DEF AddResult, Unstarted, Pending, history
  <2>7. ASSUME NEW s \in Slots, progress'[s].id # 0
        PROVE  /\ progress'[s].bytes = moved'[progress'[s].id]
               /\ progress'[s].id \in Pending' \cup Unstarted'
    <3>1. progress'[s] = progress[s] /\ progress[s].id # id
      BY <2>3, <2>7
    <3>. QED
      BY <2>1, <2>6, <2>7, <3>1 DEF SlotInv
  <2>. QED
    BY <2>1, <2>5, <2>7 DEF SlotInv
<1>10. CASE UNCHANGED vars
  BY <1>10 DEF SlotInv, Pending, Unstarted, vars, ring, counters, history
<1>. QED
  BY <1>1, <1>2, <1>3, <1>4, <1>5, <1>6, <1>7, <1>8, <1>9, <1>10
     DEF Next, Lua, Worker

-----------------------------------------------------------------------------
(* The list and the buffer                                                 *)

\* What leaves the buffer is counted among the forgotten.
LEMMA Forgets ==
  ASSUME ListInv, forgotten \subseteq Ids, cancelled' \in Seq(Ids), Forget
  PROVE  /\ forgotten \subseteq forgotten' /\ forgotten' \subseteq Ids
         /\ \A i \in Ids : Cancelled(i) => Cancelled(i)' \/ i \in forgotten'
<1>1. cancelled \in Seq(Ids) /\ forgotten \subseteq Ids
  BY DEF ListInv
<1>2. Range(cancelled) \subseteq Ids
  BY <1>1 DEF Range
<1>3. \A i \in Ids : Cancelled(i) => i \in Range(cancelled)
  BY <1>1 DEF Range, Cancelled
<1>4. \A i \in Ids : i \in Range(cancelled') => Cancelled(i)'
  BY DEF Range, Cancelled
<1>5. forgotten' = forgotten \cup (Range(cancelled) \ Range(cancelled'))
  BY DEF Forget
<1>. QED
  BY <1>1, <1>2, <1>3, <1>4, <1>5

\* AddCancelledId leaves the identifier in the buffer, however full that was.
LEMMA AddsCancelled ==
  ASSUME ListInv, NEW id \in Ids, AddCancelledId(id)
  PROVE  cancelled' \in Seq(Ids) /\ Len(cancelled') <= MaxCancelled /\ Cancelled(id)'
<1>1. cancelled \in Seq(Ids) /\ Len(cancelled) <= MaxCancelled /\ MaxCancelled \in Nat \ {0}
  BY StoreAssumption DEF ListInv
<1>2. CASE IsRequestCancelled(id)
  <2>1. cancelled' = cancelled
    BY <1>2 DEF AddCancelledId
  <2>. QED
    BY <1>1, <1>2, <2>1 DEF IsRequestCancelled, CancelledAt, Cancelled
<1>3. CASE ~IsRequestCancelled(id)
  <2>1. PICK c \in Seq(Ids) : cancelled' = Append(c, id) /\ Len(c) < MaxCancelled
    <3>1. CASE Len(cancelled) < MaxCancelled
      BY <1>1, <1>3, <3>1 DEF AddCancelledId
    <3>2. CASE Len(cancelled) = MaxCancelled
      <4>1. Len(cancelled) # 0 /\ Len(cancelled) \in Nat
        BY <1>1, <3>2
      <4>2. Tail(cancelled) \in Seq(Ids) /\ Len(Tail(cancelled)) = Len(cancelled) - 1
        BY <1>1, <4>1
      <4>3. cancelled' = Append(Tail(cancelled), id)
        BY <1>1, <1>3, <3>2 DEF AddCancelledId
      <4>4. Len(Tail(cancelled)) < MaxCancelled
        BY <1>1, <3>2, <4>1, <4>2
      <4>. QED
        BY <4>2, <4>3, <4>4
    <3>. QED
      BY <1>1, <3>1, <3>2
  <2>2. /\ cancelled' \in Seq(Ids) /\ Len(cancelled') = Len(c) + 1
        /\ cancelled'[Len(c) + 1] = id
    BY <2>1
  <2>. QED
    BY <1>1, <2>1, <2>2 DEF Cancelled
<1>. QED
  BY <1>2, <1>3

\* RemoveCancelledId takes one entry of the identifier and leaves the other identifiers.
LEMMA Uncancels ==
  ASSUME ListInv, NEW id \in Ids, IsRequestCancelled(id), RemoveCancelledId(id)
  PROVE  /\ cancelled' \in Seq(Ids) /\ Len(cancelled') <= MaxCancelled
         /\ \A i \in Ids \ {id} : Cancelled(i) => Cancelled(i)'
<1>1. cancelled \in Seq(Ids) /\ Len(cancelled) <= MaxCancelled /\ MaxCancelled \in Nat \ {0}
  BY StoreAssumption DEF ListInv
<1>2. CancelledAt(id) \in SUBSET Nat
  BY DEF CancelledAt
<1>3. Min(CancelledAt(id)) \in CancelledAt(id)
  BY <1>2, MinIn DEF IsRequestCancelled
<1>4. PICK k \in 1 .. Len(cancelled) : cancelled[k] = id /\ cancelled' = Without(cancelled, k)
  BY <1>3 DEF CancelledAt, RemoveCancelledId
<1>5. cancelled' \in Seq(Ids) /\ Len(cancelled') = Len(cancelled) - 1
  BY <1>1, <1>4, WithoutEntry
<1>6. ASSUME NEW i \in Ids \ {id}, Cancelled(i) PROVE Cancelled(i)'
  <2>1. PICK m \in 1 .. Len(cancelled) : cancelled[m] = i
    BY <1>6 DEF Cancelled
  <2>2. \E j \in 1 .. Len(cancelled) - 1 : cancelled'[j] = cancelled[m]
    BY <1>1, <1>4, <1>6, <2>1, WithoutEntry
  <2>. QED
    BY <1>5, <2>1, <2>2 DEF Cancelled
<1>. QED
  BY <1>1, <1>5, <1>6

\* A new result comes first; what follows was in the list before.
LEMMA Pushes ==
  ASSUME ListInv, NEW id \in Ids, NEW kind \in Kinds, StoreResult(id, kind),
         ~IsRequestCancelled(id), ~Stored(id)
  PROVE  /\ results' \in Seq([id : Ids, kind : Kinds]) /\ Len(results') <= MaxResults
         /\ UniqueIn(results')
         /\ \A i \in Ids \ {id} : Stored(i)' => Stored(i)
<1> DEFINE R == [id : Ids, kind : Kinds]
           new == [id |-> id, kind |-> kind]
<1>1. /\ results \in Seq(R) /\ Len(results) <= MaxResults /\ MaxResults \in Nat \ {0}
      /\ Len(results) \in Nat /\ UniqueIn(results)
  BY StoreAssumption DEF ListInv
<1>2. new \in R /\ new.id = id
  OBVIOUS
<1>3. results' = <<new>> \o (IF Len(results) >= MaxResults
                              THEN SubSeq(results, 1, Len(results) - 1) ELSE results)
  BY DEF StoreResult
<1>4. \A j \in 1 .. Len(results) : results[j].id # id
  BY DEF Stored, Places
<1> HIDE DEF R, new
<1>5. PICK rest \in Seq(R) :
        /\ results' = <<new>> \o rest /\ Len(rest) < MaxResults /\ Len(rest) <= Len(results)
        /\ \A j \in 1 .. Len(rest) : rest[j] = results[j]
  <2>1. CASE Len(results) < MaxResults
    <3>1. results' = <<new>> \o results
      BY <1>1, <1>3, <2>1
    <3>2. Len(results) <= Len(results) /\ \A j \in 1 .. Len(results) : results[j] = results[j]
      BY <1>1
    <3>. QED
      BY <1>1, <2>1, <3>1, <3>2, Zenon
  <2>2. CASE Len(results) >= MaxResults
    <3>1. PICK rest : rest = SubSeq(results, 1, Len(results) - 1)
      OBVIOUS
    <3>2. rest \in Seq(R) /\ Len(rest) = Len(results) - 1
      <4>1. PICK n \in Nat : n = Len(results) - 1
        BY <1>1, <2>2
      <4>2. \A j \in 1 .. n : results[j] \in R
        BY <1>1, <4>1
      <4>3. 1 \in Int /\ n \in Int
        BY <4>1
      <4>4. /\ SubSeq(results, 1, n) \in Seq(R)
            /\ Len(SubSeq(results, 1, n)) = IF 1 <= n THEN n - 1 + 1 ELSE 0
        BY <4>2, <4>3, SubSeqProperties
      <4>. QED
        BY <3>1, <4>1, <4>4
    <3>3. \A j \in 1 .. Len(rest) : rest[j] = results[j]
      BY <1>1, <2>2, <3>1, <3>2
    <3>4. results' = <<new>> \o rest
      BY <1>3, <2>2, <3>1
    <3>5. Len(rest) < MaxResults /\ Len(rest) <= Len(results)
      BY <1>1, <3>2
    <3>. QED
      BY <3>2, <3>3, <3>4, <3>5
  <2>3. Len(results) < MaxResults \/ Len(results) >= MaxResults
    BY <1>1
  <2>. QED
    BY <2>1, <2>2, <2>3, Zenon
<1>6. <<new>> \in Seq(R) /\ Len(<<new>>) = 1 /\ <<new>>[1] = new /\ Len(rest) \in Nat
  BY <1>2, <1>5
<1>7. results' \in Seq(R) /\ Len(results') = Len(rest) + 1
  BY <1>5, <1>6
<1>8. results'[1] = new /\ \A j \in 2 .. Len(rest) + 1 : results'[j] = rest[j - 1]
  BY <1>5, <1>6
<1>9. ASSUME NEW j \in 1 .. Len(results'), j # 1
      PROVE  j - 1 \in 1 .. Len(results) /\ results'[j] = results[j - 1]
  <2>1. j \in 2 .. Len(rest) + 1 /\ j - 1 \in 1 .. Len(rest)
    BY <1>6, <1>7, <1>9
  <2>. QED
    BY <1>1, <1>5, <1>6, <1>8, <2>1
<1>10. UniqueIn(results')
  <2>1. SUFFICES ASSUME NEW j \in 1 .. Len(results'), NEW k \in 1 .. Len(results'),
                        results'[j].id = results'[k].id
                 PROVE  j = k
    BY DEF UniqueIn
  <2>2. CASE j = 1 /\ k # 1
    BY <1>2, <1>4, <1>8, <1>9, <2>1, <2>2
  <2>3. CASE k = 1 /\ j # 1
    BY <1>2, <1>4, <1>8, <1>9, <2>1, <2>3
  <2>4. CASE j # 1 /\ k # 1
    <3>1. results[j - 1].id = results[k - 1].id
      BY <1>9, <2>1, <2>4
    <3>2. j - 1 = k - 1
      BY <1>1, <1>9, <2>4, <3>1 DEF UniqueIn
    <3>. QED
      BY <1>6, <1>7, <3>2
  <2>. QED
    BY <2>2, <2>3, <2>4
<1>11. ASSUME NEW i \in Ids \ {id}, Stored(i)' PROVE Stored(i)
  <2>1. PICK j \in 1 .. Len(results') : results'[j].id = i
    BY <1>11 DEF Stored, Places
  <2>2. j # 1
    BY <1>2, <1>8, <1>11, <2>1
  <2>. QED
    BY <1>9, <2>1, <2>2 DEF Stored, Places
<1>. QED
  BY <1>1, <1>5, <1>6, <1>7, <1>10, <1>11 DEF R

\* Every action keeps the list and the buffer in order.
LEMMA ListStep ==
  ASSUME KnownInv, ListInv, OnceInv, [Next]_vars
  PROVE  ListInv'
<1>1. CASE InitiateRequest
  <2>1. UNCHANGED <<results, cancelled>>
    BY <1>1 DEF InitiateRequest
  <2>. QED
    BY <2>1 DEF ListInv, UniqueIn
<1>2. CASE ProgressStart
  <2>1. UNCHANGED <<results, cancelled>>
    BY <1>2 DEF ProgressStart
  <2>. QED
    BY <2>1 DEF ListInv, UniqueIn
<1>3. CASE StartThreads
  <2>1. UNCHANGED <<results, cancelled>>
    BY <1>3 DEF StartThreads
  <2>. QED
    BY <2>1 DEF ListInv, UniqueIn
<1>4. CASE StartThreadsFails
  <2>1. UNCHANGED <<results, cancelled>>
    BY <1>4 DEF StartThreadsFails
  <2>. QED
    BY <2>1 DEF ListInv, UniqueIn
<1>5. CASE CollectGarbage
  <2>1. results' = <<>> /\ cancelled' = <<>>
    BY <1>5 DEF CollectGarbage
  <2>. QED
    BY <2>1, StoreAssumption DEF ListInv, UniqueIn
<1>6. ASSUME NEW id \in Ids, CheckRequest(id)
      PROVE  ListInv'
  <2>1. Stored(id) /\ Unlink(id) /\ cancelled' = cancelled
    BY <1>6 DEF CheckRequest
  <2>. QED
    BY <2>1, Unlinks DEF ListInv
<1>7. ASSUME NEW id \in Ids, CancelRequest(id)
      PROVE  ListInv'
  <2>1. CASE Stored(id)
    <3>1. Unlink(id) /\ cancelled' = cancelled
      BY <1>7, <2>1 DEF CancelRequest
    <3>. QED
      BY <2>1, <3>1, Unlinks DEF ListInv
  <2>2. CASE ~Stored(id)
    <3>1. AddCancelledId(id) /\ results' = results
      BY <1>7, <2>2 DEF CancelRequest
    <3>2. cancelled' \in Seq(Ids) /\ Len(cancelled') <= MaxCancelled
      BY <3>1, AddsCancelled
    <3>. QED
      BY <3>1, <3>2 DEF ListInv, UniqueIn
  <2>. QED
    BY <2>1, <2>2
<1>8. ASSUME NEW id \in Ids, ProgressAdd(id)
      PROVE  ListInv'
  <2>1. UNCHANGED <<results, cancelled>>
    BY <1>8 DEF ProgressAdd
  <2>. QED
    BY <2>1 DEF ListInv, UniqueIn
<1>9. ASSUME NEW id \in Ids, NEW kind \in Kinds, AddResult(id, kind)
      PROVE  ListInv'
  <2>1. StoreResult(id, kind) /\ ~Stored(id)
    BY <1>9 DEF AddResult, OnceInv
  <2>2. CASE IsRequestCancelled(id)
    <3>1. RemoveCancelledId(id) /\ results' = results
      BY <2>1, <2>2 DEF StoreResult
    <3>2. cancelled' \in Seq(Ids) /\ Len(cancelled') <= MaxCancelled
      BY <2>2, <3>1, Uncancels
    <3>. QED
      BY <3>1, <3>2 DEF ListInv, UniqueIn
  <2>3. CASE ~IsRequestCancelled(id)
    <3>1. cancelled' = cancelled
      BY <2>1, <2>3 DEF StoreResult
    <3>. QED
      BY <2>1, <2>3, <3>1, Pushes DEF ListInv
  <2>. QED
    BY <2>2, <2>3
<1>10. CASE UNCHANGED vars
  BY <1>10 DEF ListInv, UniqueIn, vars, ring, counters, history
<1>. QED
  BY <1>1, <1>2, <1>3, <1>4, <1>5, <1>6, <1>7, <1>8, <1>9, <1>10
     DEF Next, Lua, Worker

\* Every action keeps deliveries, cancellations and stored results apart.
LEMMA OnceStep ==
  ASSUME KnownInv, ListInv, OnceInv, [Next]_vars
  PROVE  OnceInv'
<1>1. CASE InitiateRequest
  <2>1. UNCHANGED <<results, cancelled, delivered, silenced, forgotten>>
    BY <1>1 DEF InitiateRequest, history
  <2>2. \A i \in Ids : Stored(i)' = Stored(i) /\ Cancelled(i)' = Cancelled(i)
    BY <2>1 DEF Stored, Places, Cancelled
  <2>3. UNCHANGED <<known, running>>
    BY <1>1 DEF InitiateRequest, history
  <2>. QED
    BY <2>1, <2>2, <2>3 DEF OnceInv
<1>2. CASE ProgressStart
  <2>1. UNCHANGED <<results, cancelled, delivered, silenced, forgotten>>
    BY <1>2 DEF ProgressStart, history
  <2>2. \A i \in Ids : Stored(i)' = Stored(i) /\ Cancelled(i)' = Cancelled(i)
    BY <2>1 DEF Stored, Places, Cancelled
  <2>3. UNCHANGED <<known, running>>
    BY <1>2 DEF ProgressStart, history
  <2>. QED
    BY <2>1, <2>2, <2>3 DEF OnceInv
<1>3. CASE StartThreads
  <2>1. UNCHANGED <<results, cancelled, delivered, silenced, forgotten>>
    BY <1>3 DEF StartThreads
  <2>2. \A i \in Ids : Stored(i)' = Stored(i) /\ Cancelled(i)' = Cancelled(i)
    BY <2>1 DEF Stored, Places, Cancelled
  <2>3. /\ running' = running \cup {starting.id} /\ known' = known \cup {starting.id}
        /\ starting.id \notin known
    BY <1>3 DEF StartThreads, KnownInv
  <2>4. starting.id \in Ids => delivered[starting.id] = 0
    BY <2>3 DEF OnceInv
  <2>. QED
    BY <2>1, <2>2, <2>3, <2>4 DEF OnceInv
<1>4. CASE StartThreadsFails
  <2>1. UNCHANGED <<results, cancelled, delivered, silenced, forgotten>>
    BY <1>4 DEF StartThreadsFails, history
  <2>2. \A i \in Ids : Stored(i)' = Stored(i) /\ Cancelled(i)' = Cancelled(i)
    BY <2>1 DEF Stored, Places, Cancelled
  <2>3. UNCHANGED <<known, running>>
    BY <1>4 DEF StartThreadsFails, history
  <2>. QED
    BY <2>1, <2>2, <2>3 DEF OnceInv
<1>5. CASE CollectGarbage
  <2>1. UNCHANGED <<known, running, delivered, silenced>> /\ Forget
    BY <1>5 DEF CollectGarbage
  <2>2. results' = <<>> /\ cancelled' = <<>>
    BY <1>5 DEF CollectGarbage
  <2>3. \A i \in Ids : ~Stored(i)' /\ ~Cancelled(i)'
    BY <2>2 DEF Stored, Places, Cancelled
  <2>4. cancelled' \in Seq(Ids) /\ forgotten \subseteq Ids
    BY <2>2 DEF OnceInv
  <2>5. /\ forgotten \subseteq forgotten' /\ forgotten' \subseteq Ids
        /\ \A i \in Ids : Cancelled(i) => Cancelled(i)' \/ i \in forgotten'
    BY <2>1, <2>4, Forgets
  <2>. QED
    BY <2>1, <2>3, <2>5 DEF OnceInv
<1>6. ASSUME NEW id \in Ids, CheckRequest(id)
      PROVE  OnceInv'
  <2>1. Stored(id) /\ Unlink(id)
    BY <1>6 DEF CheckRequest
  <2>2. UNCHANGED <<known, running, cancelled, silenced, forgotten>>
    BY <1>6 DEF CheckRequest
  <2>3. /\ delivered' \in [Ids -> Nat] /\ delivered'[id] = delivered[id] + 1
        /\ \A i \in Ids \ {id} : delivered'[i] = delivered[i]
    BY <1>6 DEF CheckRequest, OnceInv
  <2>4. ~Stored(id)' /\ \A i \in Ids : Stored(i)' => Stored(i)
    BY <2>1, Unlinks
  <2>5. delivered[id] = 0 /\ id \notin running /\ id \in known
    BY <2>1 DEF OnceInv
  <2>6. \A i \in Ids : Cancelled(i)' = Cancelled(i)
    BY <2>2 DEF Cancelled
  <2>. QED
    BY <2>2, <2>3, <2>4, <2>5, <2>6 DEF OnceInv
<1>7. ASSUME NEW id \in Ids, CancelRequest(id)
      PROVE  OnceInv'
  <2>1. UNCHANGED <<known, running, delivered>>
    BY <1>7 DEF CancelRequest
  <2>2. /\ id \in known /\ silenced \subseteq silenced'
        /\ silenced' \subseteq silenced \cup {id} /\ Forget
    BY <1>7 DEF CancelRequest, Silence
  <2>3. cancelled \in Seq(Ids) /\ forgotten \subseteq Ids
    BY DEF ListInv, OnceInv
  <2>4. CASE Stored(id)
    <3>1. Unlink(id) /\ cancelled' = cancelled
      BY <1>7, <2>4 DEF CancelRequest
    <3>2. ~Stored(id)' /\ \A i \in Ids : Stored(i)' => Stored(i)
      BY <2>4, <3>1, Unlinks
    <3>3. forgotten' = forgotten
      BY <2>2, <3>1 DEF Forget
    <3>4. \A i \in Ids : Cancelled(i)' = Cancelled(i)
      BY <3>1 DEF Cancelled
    <3>5. id \notin running
      BY <2>4 DEF OnceInv
    <3>. QED
      BY <2>1, <2>2, <2>3, <3>2, <3>3, <3>4, <3>5 DEF OnceInv
  <2>5. CASE ~Stored(id)
    <3>1. AddCancelledId(id) /\ results' = results
      BY <1>7, <2>5 DEF CancelRequest
    <3>2. \A i \in Ids : Stored(i)' = Stored(i)
      BY <3>1 DEF Stored, Places
    <3>3. cancelled' \in Seq(Ids) /\ Cancelled(id)'
      BY <3>1, AddsCancelled
    <3>4. /\ forgotten \subseteq forgotten' /\ forgotten' \subseteq Ids
          /\ \A i \in Ids : Cancelled(i) => Cancelled(i)' \/ i \in forgotten'
      BY <2>2, <2>3, <3>3, Forgets
    <3>. QED
      BY <2>1, <2>2, <2>5, <3>2, <3>3, <3>4 DEF OnceInv
  <2>. QED
    BY <2>4, <2>5
<1>8. ASSUME NEW id \in Ids, ProgressAdd(id)
      PROVE  OnceInv'
  <2>1. UNCHANGED <<results, cancelled, delivered, silenced, forgotten>>
    BY <1>8 DEF ProgressAdd, history
  <2>2. \A i \in Ids : Stored(i)' = Stored(i) /\ Cancelled(i)' = Cancelled(i)
    BY <2>1 DEF Stored, Places, Cancelled
  <2>3. UNCHANGED <<known, running>>
    BY <1>8 DEF ProgressAdd, history
  <2>. QED
    BY <2>1, <2>2, <2>3 DEF OnceInv
<1>9. ASSUME NEW id \in Ids, NEW kind \in Kinds, AddResult(id, kind)
      PROVE  OnceInv'
  <2>1. /\ UNCHANGED <<known, delivered, silenced, forgotten>>
        /\ id \in running /\ running' = running \ {id}
    BY <1>9 DEF AddResult, history
  <2>2. StoreResult(id, kind) /\ ~Stored(id) /\ delivered[id] = 0 /\ id \in known
    BY <1>9 DEF AddResult, OnceInv, KnownInv
  <2>3. CASE IsRequestCancelled(id)
    <3>1. RemoveCancelledId(id) /\ results' = results
      BY <2>2, <2>3 DEF StoreResult
    <3>2. \A i \in Ids : Stored(i)' = Stored(i)
      BY <3>1 DEF Stored, Places
    <3>3. \A i \in Ids \ {id} : Cancelled(i) => Cancelled(i)'
      BY <2>3, <3>1, Uncancels
    <3>. QED
      BY <2>1, <2>2, <3>2, <3>3 DEF OnceInv
  <2>4. CASE ~IsRequestCancelled(id)
    <3>1. cancelled' = cancelled
      BY <2>2, <2>4 DEF StoreResult
    <3>2. \A i \in Ids : Cancelled(i)' = Cancelled(i)
      BY <3>1 DEF Cancelled
    <3>3. \A i \in Ids \ {id} : Stored(i)' => Stored(i)
      BY <2>2, <2>4, Pushes
    <3>4. id \notin silenced \ forgotten
      BY <2>1, <2>4 DEF OnceInv, Cancelled, IsRequestCancelled, CancelledAt
    <3>. QED
      BY <2>1, <2>2, <3>2, <3>3, <3>4 DEF OnceInv
  <2>. QED
    BY <2>3, <2>4
<1>10. CASE UNCHANGED vars
  BY <1>10 DEF OnceInv, Stored, Places, Cancelled, vars, ring, counters, history
<1>. QED
  BY <1>1, <1>2, <1>3, <1>4, <1>5, <1>6, <1>7, <1>8, <1>9, <1>10
     DEF Next, Lua, Worker

\* The strengthened invariant is inductive.
LEMMA IInvStep == IInv /\ [Next]_vars => IInv'
BY KnownStep, CountStep, SlotStep, ListStep, OnceStep DEF IInv

\* It holds when nothing has been requested.
LEMMA IInvInit == Init => IInv
<1> SUFFICES ASSUME Init PROVE IInv
  OBVIOUS
<1>1. KnownInv
  BY StoreAssumption DEF Init, KnownInv, Ids
<1>2. Pending = {} /\ known \ running = {}
  BY DEF Init, Pending
<1>3. CountInv
  BY <1>2, FS_EmptySet DEF Init, CountInv
<1>4. SlotInv
  BY StoreAssumption DEF Init, SlotInv, Slots
<1>5. results = <<>> /\ cancelled = <<>>
  BY DEF Init
<1>6. ListInv
  BY <1>5, StoreAssumption DEF ListInv, UniqueIn
<1>7. OnceInv
  BY <1>5, StoreAssumption DEF Init, OnceInv, Stored, Places
<1>. QED
  BY <1>1, <1>3, <1>4, <1>6, <1>7 DEF IInv

\* The strengthened invariant holds in every reachable state of the store.
THEOREM InductiveInvariant == Spec => []IInv
BY IInvInit, IInvStep, PTL DEF Spec

\* Type correctness of the store; the counters stay below the number of requests
\* because of what they count.
THEOREM TypeCorrect == Spec => []TypeOK
<1>1. ASSUME IInv PROVE TypeOK
  <2>1. /\ active \in Nat /\ active <= LastId
        /\ completed + failed <= LastId
    <3>1. Cardinality(Pending) \in Nat
      BY <1>1, Finite, FS_CardinalityType DEF IInv
    <3>. QED
      BY <1>1, <3>1, Finite DEF IInv, CountInv
  <2>2. active \in 0 .. LastId /\ completed \in 0 .. LastId /\ failed \in 0 .. LastId
    BY <1>1, <2>1, StoreAssumption DEF IInv, CountInv
  <2>3. known \subseteq Ids /\ running \subseteq Ids /\ silenced \subseteq Ids
    BY <1>1 DEF IInv, KnownInv, OnceInv
  <2>. QED
    BY <1>1, <2>2, <2>3 DEF IInv, KnownInv, SlotInv, ListInv, OnceInv, TypeOK
<1>. QED
  BY <1>1, InductiveInvariant, PTL

\* The counters of getMemoryStats are what happened: a task is active from
\* initiateRequest until its result is published, and is then counted once.
THEOREM Counted == Spec => []CountersExact
<1>1. IInv => CountersExact
  BY DEF IInv, CountInv, CountersExact
<1>. QED
  BY <1>1, InductiveInvariant, PTL

\* checkRequest returns a result once at most, and never that of a request whose
\* cancellation is remembered, whichever of the two threads was first.
THEOREM Delivered == Spec => []DeliveredOnce
<1>1. ASSUME IInv PROVE DeliveredOnce
  <2>1. ASSUME NEW id \in Ids
        PROVE  /\ delivered[id] + Cardinality(Places(id)) <= 1
               /\ id \in silenced \ forgotten => ~Stored(id)
    <3>1. id \in silenced \ forgotten => ~Stored(id)
      BY <1>1 DEF IInv, OnceInv
    <3>2. delivered[id] \in Nat /\ delivered[id] <= 1
      BY <1>1 DEF IInv, OnceInv
    <3>3. CASE Places(id) = {}
      <4>1. Cardinality(Places(id)) = 0
        BY <3>3, FS_EmptySet
      <4>. QED
        BY <3>1, <3>2, <4>1
    <3>4. CASE Places(id) # {}
      <4>1. PICK k \in Places(id) : TRUE
        BY <3>4
      <4>2. Places(id) = {k}
        BY <1>1, <4>1 DEF IInv, ListInv, UniqueIn, Places
      <4>3. Cardinality(Places(id)) = 1
        BY <4>2, FS_Singleton
      <4>4. delivered[id] = 0
        BY <1>1, <3>4 DEF IInv, OnceInv, Stored
      <4>. QED
        BY <3>1, <4>3, <4>4
    <3>. QED
      BY <3>3, <3>4
  <2>. QED
    BY <2>1 DEF DeliveredOnce
<1>. QED
  BY <1>1, InductiveInvariant, PTL

\* A progress slot counts what was transferred for its request, all of it and nothing
\* else, and only a request that is not over, or was never started, has one.
THEOREM Progressing == Spec => []ProgressExact
<1>1. IInv => ProgressExact
  BY DEF IInv, SlotInv, ProgressExact
<1>. QED
  BY <1>1, InductiveInvariant, PTL
=============================================================================
