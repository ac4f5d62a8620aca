--------------------------- MODULE ConnPoolProofs ---------------------------
(***************************************************************************)
(* Proofs about the pool of QUIC connections of module ConnPool, for any   *)
(* number of requests, sites and slots, any clock and any change of pins.  *)
(*                                                                         *)
(* PlaceInv says what a thread holds at each control point, which makes    *)
(* the critical section of PoolTake one; KnownInv keeps a connection that  *)
(* has not been made out of everybody's sight; OwnerInv ties the flag      *)
(* zanyat to the one thread that owns the connection; IdleInv follows an   *)
(* idle connection from hand to hand; WornInv keeps what SeeWorn saw until *)
(* the lock is given up.                                                   *)
(***************************************************************************)
EXTENDS ConnPool, FiniteSetTheorems, WellFoundedInduction, TLAPS

\* After PoolReturn has cleared zanyat and before it stored or closed the connection.
InHand(r, c) == conn[r] = c /\ pc[r] \in {"dead", "remove", "store", "close"}

\* r serves or is about to serve its request over c.
Owns(r, c) ==
  conn[r] = c /\
    pc[r] \in {"scan", "busy", "evict", "relock", "using", "stamp", "unbusy"}

\* What a thread holds at each control point, the lock and the victim included.
PlaceInv ==
  \A r \in Requests :
    /\ lock = r <=> pc[r] \in {"scan", "busy"}
    /\ pc[r] \in {"busy", "evict", "relock"} => idx[r] \in Slots
    /\ pc[r] = "busy" => pool[idx[r]] # None
    /\ victim[r] # None <=> pc[r] = "evict"
    /\ pc[r] \in {"begin", "lock", "create"} => conn[r] = None
    /\ pc[r] \in {"using", "stamp", "unbusy", "dead", "remove", "store", "close"}
         => conn[r] # None
    /\ pc[r] \in {"begin", "lock", "scan", "busy", "evict", "relock", "create"}
         => memory[r] = "none"

\* A connection that has not been made is nowhere.
KnownInv ==
  \A c \in Requests : memory[c] = "none" =>
    /\ \A r \in Requests : conn[r] # c /\ victim[r] # c
    /\ \A s \in Slots : pool[s] # c

\* zanyat is set exactly while a request owns the connection, and only one does.
OwnerInv ==
  \A c \in Requests : Live(c) =>
    /\ flags[c].zanyat => \E r \in Requests : Owns(r, c)
    /\ \A r \in Requests : Owns(r, c) => flags[c].zanyat
    /\ \A r, q \in Requests : Owns(r, c) /\ Owns(q, c) => r = q

\* An idle connection is in the pool or in somebody's hands; no slot repeats another.
IdleInv ==
  /\ \A c \in Requests : Live(c) /\ ~flags[c].zanyat =>
       \/ \E s \in Slots : pool[s] = c
       \/ \E r \in Requests : victim[r] = c \/ InHand(r, c)
  /\ \A s1, s2 \in Slots : s1 # s2 /\ pool[s1] # None => pool[s1] # pool[s2]

\* What EvictsOnlyWorn asks of the connection.
WornSeen(r, c) ==
  \/ flags[c].mertvo \/ pokolenie[c] # generation
  \/ tick - poslednee[c] > IdleMs
  \/ poslednee[c] >= teper[r]
  \/ ~Live(c)

\* Neither the clock nor the pins run ahead of what was read of them.
WornInv ==
  /\ \A r \in Requests :
       /\ teper[r] <= tick
       /\ pc[r] = "busy" => WornSeen(r, pool[idx[r]])
  /\ \A c \in Requests : poslednee[c] <= tick /\ pokolenie[c] <= generation

IInv == TypeOK /\ PlaceInv /\ KnownInv /\ OwnerInv /\ IdleInv /\ WornInv

-----------------------------------------------------------------------------
(* The branches of EvictOrLeave, TakeOrPass and StoreOrClose               *)

\* An idle connection is taken out of its slot.
Evict(r) ==
  /\ pc[r] = "busy" /\ pool[idx[r]] \in Requests
  /\ Live(pool[idx[r]]) => ~flags[pool[idx[r]]].zanyat
  /\ pool' = [pool EXCEPT ![idx[r]] = None]
  /\ victim' = [victim EXCEPT ![r] = pool[idx[r]]]
  /\ lock' = None /\ Goto(r, "evict")
  /\ UNCHANGED <<site, teper, idx, conn, connVars, envVars>>

Leave(r) ==
  /\ pc[r] = "busy" /\ NextSlot(r) /\ Goto(r, "scan")
  /\ UNCHANGED <<site, teper, conn, pool, victim, lock, connVars, envVars>>

Take(r) ==
  LET c == pool[idx[r]] IN
    /\ pc[r] = "scan" /\ idx[r] \in Slots /\ c \in Requests /\ conn[r] = None
    /\ Live(c) => ~flags[c].zanyat
    /\ flags' = IF Live(c) THEN [flags EXCEPT ![c] = [flags[c] EXCEPT !.zanyat = TRUE]]
                           ELSE flags
    /\ poslednee' = IF Live(c) THEN [poslednee EXCEPT ![c] = teper[r]] ELSE poslednee
    /\ conn' = [conn EXCEPT ![r] = c]
    /\ NextSlot(r)
    /\ UNCHANGED <<pc, site, teper, victim, pool, lock, memory, pokolenie, envVars>>

Pass(r) ==
  /\ pc[r] = "scan" /\ idx[r] \in Slots /\ NextSlot(r)
  /\ UNCHANGED <<pc, site, teper, conn, victim, pool, lock, connVars, envVars>>

Keep(r) ==
  /\ pc[r] = "store" /\ lock = None
  /\ \E s \in Slots : pool[s] = conn[r]
  /\ Goto(r, "done")
  /\ UNCHANGED <<site, scanVars, pool, lock, connVars, envVars>>

Store(r) ==
  /\ pc[r] = "store" /\ lock = None
  /\ \A s \in Slots : pool[s] # conn[r]
  /\ \E s \in Slots : pool[s] = None /\ pool' = [pool EXCEPT ![s] = conn[r]]
  /\ Goto(r, "done")
  /\ UNCHANGED <<site, scanVars, lock, connVars, envVars>>

Overflow(r) ==
  /\ pc[r] = "store" /\ lock = None
  /\ Goto(r, "close")
  /\ UNCHANGED <<site, scanVars, pool, lock, connVars, envVars>>

\* A slot that is looked at holds a connection, once it was found worn.
LEMMA BusyConn ==
  ASSUME TypeOK, PlaceInv
  PROVE  \A q \in Requests : pc[q] = "busy" => idx[q] \in Slots /\ pool[idx[q]] \in Requests
BY DEF TypeOK, PlaceInv, MaybeConn

\* The first free slot is a free slot.
LEMMA MinInSlots ==
  ASSUME NEW S \in SUBSET Slots, S # {}
  PROVE  Min(S) \in S
<1> DEFINE Less == OpToRel(<, Nat)
<1>1. IsWellFoundedOn(Less, Nat)
  BY NatLessThanWellFounded
<1>2. S \subseteq Nat
  BY DEF Slots
<1>3. \A m, n \in Nat : m < n => <<m, n>> \in Less
  BY DEF OpToRel
<1> HIDE DEF Less
<1>4. PICK n \in S : \A m \in S : <<m, n>> \notin Less
  BY <1>1, <1>2, WFMin
<1>5. ASSUME NEW m \in S PROVE n <= m
  <2>1. m \in Nat /\ n \in Nat
    BY <1>2
  <2>2. ~(m < n)
    BY <1>3, <1>4, <2>1
  <2>. QED
    BY <2>1, <2>2
<1>. QED
  BY <1>5 DEF Min

\* The branches of EvictOrLeave.
LEMMA EvictCases ==
  ASSUME TypeOK, PlaceInv, NEW r \in Requests, EvictOrLeave(r)
  PROVE  Evict(r) \/ Leave(r)
<1> DEFINE c == pool[idx[r]]
<1>1. c \in Requests
  BY BusyConn DEF EvictOrLeave
<1>2. TRUE \in Reads(c, ~flags[c].zanyat) => (Live(c) => ~flags[c].zanyat)
  BY <1>1 DEF Reads
<1>. QED
  BY <1>1, <1>2 DEF EvictOrLeave, Evict, Leave

\* The branches of TakeOrPass.
LEMMA TakeCases ==
  ASSUME TypeOK, PlaceInv, NEW r \in Requests, TakeOrPass(r)
  PROVE  Take(r) \/ Pass(r)
<1> DEFINE c == pool[idx[r]]
<1>1. idx[r] \in Slots /\ c \in Requests
  BY PoolAssumption DEF TakeOrPass, TypeOK, MaybeConn, Slots
<1>2. TRUE \in Reads(c, Fits(r, c)) => (Live(c) => ~flags[c].zanyat)
  BY <1>1 DEF Reads, Fits
<1>. QED
  BY <1>1, <1>2 DEF TakeOrPass, Take, Pass, SetFlags, connVars

\* The branches of StoreOrClose.
LEMMA StoreCases ==
  ASSUME TypeOK, PlaceInv, NEW r \in Requests, StoreOrClose(r)
  PROVE  Keep(r) \/ Store(r) \/ Overflow(r)
<1> DEFINE free == {s \in Slots : pool[s] = None}
<1>1. CASE conn[r] \in Range(pool)
  BY <1>1 DEF StoreOrClose, Keep, Range, TypeOK
<1>2. CASE conn[r] \notin Range(pool) /\ free # {}
  <2>1. Min(free) \in free
    BY <1>2, MinInSlots
  <2>. QED
    BY <1>2, <2>1 DEF StoreOrClose, Store, Range, TypeOK
<1>3. CASE conn[r] \notin Range(pool) /\ free = {}
  BY <1>3 DEF StoreOrClose, Overflow
<1>. QED
  BY <1>1, <1>2, <1>3

\* The steps the lemmas below go through.
LEMMA Actions ==
  ASSUME TypeOK, PlaceInv, [Next]_vars
  PROVE  \/ \E r \in Requests :
              \/ ReadClock(r) \/ Lock(r) \/ SkipEmpty(r) \/ SeeWorn(r) \/ Evict(r) \/ Leave(r)
              \/ Take(r) \/ Pass(r) \/ CloseVictim(r) \/ Relock(r) \/ EndScan(r)
              \/ Create(r) \/ FinishRequest(r) \/ StampReturn(r) \/ ClearBusy(r)
              \/ CheckDead(r) \/ RemoveDead(r) \/ Keep(r) \/ Store(r) \/ Overflow(r)
              \/ CloseReturned(r)
         \/ \E c \in Requests : Connected(c) \/ Shutdown(c)
         \/ SetPins \/ Tick \/ UNCHANGED vars
BY EvictCases, TakeCases, StoreCases
   DEF Next, Thread, PoolTake, PoolReturn, Finished

\* What the flags of a connection may be.
Flags == [zanyat : BOOLEAN, gotovo : BOOLEAN, mertvo : BOOLEAN]

\* Changing one flag leaves the type alone.
LEMMA FlagTypes ==
  ASSUME NEW f \in Flags, NEW b \in BOOLEAN
  PROVE  /\ [f EXCEPT !.zanyat = b] \in Flags
         /\ [f EXCEPT !.gotovo = b] \in Flags
         /\ [f EXCEPT !.mertvo = b] \in Flags
BY DEF Flags

\* What does not touch the owners or zanyat of a connection keeps OwnerInv.
LEMMA OwnerFrame ==
  ASSUME OwnerInv,
         \A d \in Requests : Live(d)' => Live(d) /\ flags'[d].zanyat = flags[d].zanyat,
         \A q, d \in Requests : Owns(q, d)' = Owns(q, d)
  PROVE  OwnerInv'
BY DEF OwnerInv

\* A remainder is no larger than what it is taken of.
LEMMA ModSmall ==
  ASSUME NEW d \in Nat, NEW w \in Nat \ {0}
  PROVE  d % w <= d
OBVIOUS

\* What SeeWorn reads of a connection is what EvictsOnlyWorn allows.
LEMMA WornIsSeen ==
  ASSUME TypeOK, WornInv, NEW r \in Requests, NEW c \in Requests,
         TRUE \in Reads(c, Worn(r, c))
  PROVE  WornSeen(r, c)
<1>1. /\ tick \in Nat /\ teper[r] \in Nat /\ poslednee[c] \in Nat
      /\ Word \in Nat \ {0} /\ IdleMs \in Nat /\ teper[r] <= tick
  BY PoolAssumption DEF TypeOK, WornInv
<1>2. CASE ~Live(c) \/ flags[c].mertvo \/ pokolenie[c] # generation
  BY <1>2 DEF WornSeen
<1>3. CASE Live(c) /\ ~flags[c].mertvo /\ pokolenie[c] = generation
  <2>1. Age(r, c) > IdleMs
    BY <1>3 DEF Reads, Worn
  <2>2. CASE poslednee[c] < teper[r]
    <3>1. teper[r] - poslednee[c] \in Nat
      BY <1>1, <2>2
    <3>2. (teper[r] - poslednee[c]) % Word <= teper[r] - poslednee[c]
      BY <1>1, <3>1, ModSmall
    <3>3. (teper[r] - poslednee[c]) % Word \in Nat
      BY <1>1, <3>1
    <3>. QED
      BY <1>1, <2>1, <3>2, <3>3 DEF Age, WornSeen
  <2>. QED
    BY <1>1, <2>2 DEF WornSeen
<1>. QED
  BY <1>2, <1>3

\* Every action keeps the types.
LEMMA TypeStep ==
  ASSUME TypeOK, PlaceInv, [Next]_vars
  PROVE  TypeOK'
<1>1. ASSUME NEW r \in Requests, ReadClock(r)
      PROVE  TypeOK'
  BY <1>1, PoolAssumption DEF TypeOK, PlaceInv, MaybeConn, Slots, Pcs, NextSlot,
     PoolCloseConn, ReadClock, Goto, scanVars, connVars, envVars
<1>2. ASSUME NEW r \in Requests, Lock(r)
      PROVE  TypeOK'
  BY <1>2, PoolAssumption DEF TypeOK, PlaceInv, MaybeConn, Slots, Pcs, NextSlot,
     PoolCloseConn, Lock, Goto, scanVars, connVars, envVars
<1>3. ASSUME NEW r \in Requests, SkipEmpty(r)
      PROVE  TypeOK'
  BY <1>3, PoolAssumption DEF TypeOK, PlaceInv, MaybeConn, Slots, Pcs, NextSlot,
     PoolCloseConn, SkipEmpty, Goto, scanVars, connVars, envVars
<1>4. ASSUME NEW r \in Requests, SeeWorn(r)
      PROVE  TypeOK'
  BY <1>4, PoolAssumption DEF TypeOK, PlaceInv, MaybeConn, Slots, Pcs, NextSlot,
     PoolCloseConn, SeeWorn, Goto, scanVars, connVars, envVars
<1>5. ASSUME NEW r \in Requests, Evict(r)
      PROVE  TypeOK'
  BY <1>5, PoolAssumption DEF TypeOK, PlaceInv, MaybeConn, Slots, Pcs, NextSlot,
     PoolCloseConn, Evict, Goto, scanVars, connVars, envVars
<1>6. ASSUME NEW r \in Requests, Leave(r)
      PROVE  TypeOK'
  BY <1>6, PoolAssumption DEF TypeOK, PlaceInv, MaybeConn, Slots, Pcs, NextSlot,
     PoolCloseConn, Leave, Goto, scanVars, connVars, envVars
<1>7. ASSUME NEW r \in Requests, Take(r)
      PROVE  TypeOK'
  <2>1. flags \in [Requests -> Flags]
    BY DEF TypeOK, Flags
  <2>2. PICK c \in Requests :
          /\ pc[r] = "scan" /\ idx[r] \in Slots
          /\ \/ flags' = flags
             \/ flags' = [flags EXCEPT ![c] = [flags[c] EXCEPT !.zanyat = TRUE]]
          /\ \/ poslednee' = poslednee
             \/ poslednee' = [poslednee EXCEPT ![c] = teper[r]]
          /\ conn' = [conn EXCEPT ![r] = c]
          /\ idx' = [idx EXCEPT ![r] = idx[r] + 1]
          /\ UNCHANGED <<pc, site, teper, victim, pool, lock, memory, pokolenie, envVars>>
    <3>1. pool[idx[r]] \in Requests
      BY <1>7 DEF Take
    <3>. QED
      BY <1>7, <3>1 DEF Take, NextSlot, Live
  <2>3. [flags[c] EXCEPT !.zanyat = TRUE] \in Flags
    BY <2>1, <2>2, FlagTypes
  <2>4. flags' \in [Requests -> Flags]
    BY <2>1, <2>2, <2>3
  <2>5. poslednee' \in [Requests -> 0 .. LastTick]
    BY <2>2 DEF TypeOK
  <2>6. conn' \in [Requests -> MaybeConn]
    BY <2>2 DEF TypeOK, MaybeConn
  <2>7. idx' \in [Requests -> 1 .. PoolSize + 1]
    BY <2>2, PoolAssumption DEF TypeOK, Slots
  <2>. QED
    BY <2>2, <2>4, <2>5, <2>6, <2>7 DEF TypeOK, Flags, envVars
<1>8. ASSUME NEW r \in Requests, Pass(r)
      PROVE  TypeOK'
  BY <1>8, PoolAssumption DEF TypeOK, PlaceInv, MaybeConn, Slots, Pcs, NextSlot,
     PoolCloseConn, Pass, Goto, scanVars, connVars, envVars
<1>9. ASSUME NEW r \in Requests, CloseVictim(r)
      PROVE  TypeOK'
  BY <1>9, PoolAssumption DEF TypeOK, PlaceInv, MaybeConn, Slots, Pcs, NextSlot,
     PoolCloseConn, CloseVictim, Goto, scanVars, connVars, envVars
<1>10. ASSUME NEW r \in Requests, Relock(r)
      PROVE  TypeOK'
  BY <1>10, PoolAssumption DEF TypeOK, PlaceInv, MaybeConn, Slots, Pcs, NextSlot,
     PoolCloseConn, Relock, Goto, scanVars, connVars, envVars
<1>11. ASSUME NEW r \in Requests, EndScan(r)
      PROVE  TypeOK'
  BY <1>11, PoolAssumption DEF TypeOK, PlaceInv, MaybeConn, Slots, Pcs, NextSlot,
     PoolCloseConn, EndScan, Goto, scanVars, connVars, envVars
<1>12. ASSUME NEW r \in Requests, Create(r)
      PROVE  TypeOK'
  <2>1. flags \in [Requests -> Flags]
    BY DEF TypeOK, Flags
  <2>2. PICK failed \in BOOLEAN :
          flags' = [flags EXCEPT ![r] = [zanyat |-> TRUE, gotovo |-> FALSE, mertvo |-> failed]]
    BY <1>12, PoolAssumption DEF Create
  <2>3. [zanyat |-> TRUE, gotovo |-> FALSE, mertvo |-> failed] \in Flags
    BY DEF Flags
  <2>4. flags' \in [Requests -> Flags]
    BY <2>1, <2>2, <2>3
  <2>. QED
    BY <1>12, <2>4, PoolAssumption
       DEF Flags, TypeOK, PlaceInv, MaybeConn, Slots, Pcs, NextSlot, Create, Goto, scanVars,
           connVars, envVars
<1>13. ASSUME NEW r \in Requests, FinishRequest(r)
      PROVE  TypeOK'
  BY <1>13, PoolAssumption DEF TypeOK, PlaceInv, MaybeConn, Slots, Pcs, NextSlot,
     PoolCloseConn, FinishRequest, Goto, scanVars, connVars, envVars
<1>14. ASSUME NEW r \in Requests, StampReturn(r)
      PROVE  TypeOK'
  BY <1>14, PoolAssumption DEF TypeOK, PlaceInv, MaybeConn, Slots, Pcs, NextSlot,
     PoolCloseConn, StampReturn, Goto, scanVars, connVars, envVars
<1>15. ASSUME NEW r \in Requests, ClearBusy(r)
      PROVE  TypeOK'
  <2>1. flags \in [Requests -> Flags]
    BY DEF TypeOK, Flags
  <2>2. PICK c \in Requests : c = conn[r]
    BY <1>15 DEF ClearBusy, TypeOK, PlaceInv, MaybeConn
  <2>3. [flags[c] EXCEPT !.zanyat = FALSE] \in Flags
    BY <2>1, <2>2, FlagTypes
  <2>4. flags' = flags \/ flags' = [flags EXCEPT ![c] = [flags[c] EXCEPT !.zanyat = FALSE]]
    BY <1>15, <2>2 DEF ClearBusy, SetFlags
  <2>5. flags' \in [Requests -> Flags]
    BY <2>1, <2>3, <2>4
  <2>. QED
    BY <1>15, <2>5, PoolAssumption
       DEF Flags, TypeOK, PlaceInv, MaybeConn, Slots, Pcs, NextSlot, ClearBusy, Goto, scanVars,
           connVars, envVars
<1>16. ASSUME NEW r \in Requests, CheckDead(r)
      PROVE  TypeOK'
  BY <1>16, PoolAssumption DEF TypeOK, PlaceInv, MaybeConn, Slots, Pcs, NextSlot,
     PoolCloseConn, CheckDead, Goto, scanVars, connVars, envVars
<1>17. ASSUME NEW r \in Requests, RemoveDead(r)
      PROVE  TypeOK'
  BY <1>17, PoolAssumption DEF TypeOK, PlaceInv, MaybeConn, Slots, Pcs, NextSlot,
     PoolCloseConn, RemoveDead, Goto, scanVars, connVars, envVars
<1>18. ASSUME NEW r \in Requests, Keep(r)
      PROVE  TypeOK'
  BY <1>18, PoolAssumption DEF TypeOK, PlaceInv, MaybeConn, Slots, Pcs, NextSlot,
     PoolCloseConn, Keep, Goto, scanVars, connVars, envVars
<1>19. ASSUME NEW r \in Requests, Store(r)
      PROVE  TypeOK'
  BY <1>19, PoolAssumption DEF TypeOK, PlaceInv, MaybeConn, Slots, Pcs, NextSlot,
     PoolCloseConn, Store, Goto, scanVars, connVars, envVars
<1>20. ASSUME NEW r \in Requests, Overflow(r)
      PROVE  TypeOK'
  BY <1>20, PoolAssumption DEF TypeOK, PlaceInv, MaybeConn, Slots, Pcs, NextSlot,
     PoolCloseConn, Overflow, Goto, scanVars, connVars, envVars
<1>21. ASSUME NEW r \in Requests, CloseReturned(r)
      PROVE  TypeOK'
  BY <1>21, PoolAssumption DEF TypeOK, PlaceInv, MaybeConn, Slots, Pcs, NextSlot,
     PoolCloseConn, CloseReturned, Goto, scanVars, connVars, envVars
<1>22. ASSUME NEW c \in Requests, Connected(c)
      PROVE  TypeOK'
  <2>1. flags \in [Requests -> Flags]
    BY DEF TypeOK, Flags
  <2>2. c \in Requests
    BY <1>22 DEF Connected
  <2>3. [flags[c] EXCEPT !.gotovo = TRUE] \in Flags
    BY <2>1, <2>2, FlagTypes
  <2>4. flags' = flags \/ flags' = [flags EXCEPT ![c] = [flags[c] EXCEPT !.gotovo = TRUE]]
    BY <1>22, <2>2 DEF Connected, SetFlags
  <2>5. flags' \in [Requests -> Flags]
    BY <2>1, <2>3, <2>4
  <2>. QED
    BY <1>22, <2>5, PoolAssumption
       DEF Flags, TypeOK, PlaceInv, MaybeConn, Slots, Pcs, NextSlot, Connected, Goto, scanVars,
           connVars, envVars
<1>23. ASSUME NEW c \in Requests, Shutdown(c)
      PROVE  TypeOK'
  <2>1. flags \in [Requests -> Flags]
    BY DEF TypeOK, Flags
  <2>2. c \in Requests
    BY <1>23 DEF Shutdown
  <2>3. [flags[c] EXCEPT !.mertvo = TRUE] \in Flags
    BY <2>1, <2>2, FlagTypes
  <2>4. flags' = flags \/ flags' = [flags EXCEPT ![c] = [flags[c] EXCEPT !.mertvo = TRUE]]
    BY <1>23, <2>2 DEF Shutdown, SetFlags
  <2>5. flags' \in [Requests -> Flags]
    BY <2>1, <2>3, <2>4
  <2>. QED
    BY <1>23, <2>5, PoolAssumption
       DEF Flags, TypeOK, PlaceInv, MaybeConn, Slots, Pcs, NextSlot, Shutdown, Goto, scanVars,
           connVars, envVars
<1>24. CASE SetPins
  BY <1>24, PoolAssumption DEF TypeOK, PlaceInv, MaybeConn, Slots, Pcs, NextSlot,
     PoolCloseConn, SetPins, Goto, scanVars, connVars, envVars
<1>25. CASE Tick
  BY <1>25, PoolAssumption DEF TypeOK, PlaceInv, MaybeConn, Slots, Pcs, NextSlot,
     PoolCloseConn, Tick, Goto, scanVars, connVars, envVars
<1>26. CASE UNCHANGED vars
  BY <1>26 DEF TypeOK, MaybeConn, vars, scanVars, connVars, envVars
<1>. QED
  BY <1>1, <1>2, <1>3, <1>4, <1>5, <1>6, <1>7, <1>8, <1>9, <1>10, <1>11, <1>12, <1>13,
     <1>14, <1>15, <1>16, <1>17, <1>18, <1>19, <1>20, <1>21, <1>22, <1>23, <1>24, <1>25,
     <1>26, Actions

\* Every action leaves its thread where PlaceInv expects it, and the others where they were.
LEMMA PlaceStep ==
  ASSUME TypeOK, PlaceInv, KnownInv, [Next]_vars
  PROVE  PlaceInv'
<1>1. ASSUME NEW r \in Requests, ReadClock(r)
      PROVE  PlaceInv'
  BY <1>1, PoolAssumption DEF TypeOK, PlaceInv, MaybeConn, Slots, NextSlot, ReadClock,
     Goto, scanVars, connVars, envVars
<1>2. ASSUME NEW r \in Requests, Lock(r)
      PROVE  PlaceInv'
  BY <1>2, PoolAssumption DEF TypeOK, PlaceInv, MaybeConn, Slots, NextSlot, Lock, Goto,
     scanVars, connVars, envVars
<1>3. ASSUME NEW r \in Requests, SkipEmpty(r)
      PROVE  PlaceInv'
  BY <1>3, PoolAssumption DEF TypeOK, PlaceInv, MaybeConn, Slots, NextSlot, SkipEmpty,
     Goto, scanVars, connVars, envVars
<1>4. ASSUME NEW r \in Requests, SeeWorn(r)
      PROVE  PlaceInv'
  BY <1>4, PoolAssumption DEF TypeOK, PlaceInv, MaybeConn, Slots, NextSlot, SeeWorn, Goto,
     scanVars, connVars, envVars
<1>5. ASSUME NEW r \in Requests, Evict(r)
      PROVE  PlaceInv'
  BY <1>5, PoolAssumption DEF TypeOK, PlaceInv, MaybeConn, Slots, NextSlot, Evict, Goto,
     scanVars, connVars, envVars
<1>6. ASSUME NEW r \in Requests, Leave(r)
      PROVE  PlaceInv'
  BY <1>6, PoolAssumption DEF TypeOK, PlaceInv, MaybeConn, Slots, NextSlot, Leave, Goto,
     scanVars, connVars, envVars
<1>7. ASSUME NEW r \in Requests, Take(r)
      PROVE  PlaceInv'
  BY <1>7, PoolAssumption DEF TypeOK, PlaceInv, MaybeConn, Slots, NextSlot, Take, Goto,
     scanVars, connVars, envVars
<1>8. ASSUME NEW r \in Requests, Pass(r)
      PROVE  PlaceInv'
  BY <1>8, PoolAssumption DEF TypeOK, PlaceInv, MaybeConn, Slots, NextSlot, Pass, Goto,
     scanVars, connVars, envVars
<1>9. ASSUME NEW r \in Requests, CloseVictim(r)
      PROVE  PlaceInv'
  <2>1. victim[r] \in Requests /\ pc[r] = "evict"
    BY <1>9 DEF TypeOK, PlaceInv, MaybeConn, CloseVictim
  <2>2. memory[victim[r]] # "none"
    BY <2>1 DEF KnownInv
  <2>3. \A q \in Requests : memory[q] = "none" => memory'[q] = "none"
    BY <1>9, <2>1, <2>2 DEF TypeOK, CloseVictim, PoolCloseConn
  <2>4. /\ pc'[r] = "relock" /\ victim'[r] = None
        /\ \A q \in Requests \ {r} : pc'[q] = pc[q] /\ victim'[q] = victim[q]
    BY <1>9 DEF TypeOK, CloseVictim, Goto
  <2>5. UNCHANGED <<lock, idx, pool, conn>>
    BY <1>9 DEF CloseVictim
  <2>. QED
    BY <2>1, <2>3, <2>4, <2>5 DEF PlaceInv
<1>10. ASSUME NEW r \in Requests, Relock(r)
      PROVE  PlaceInv'
  BY <1>10, PoolAssumption DEF TypeOK, PlaceInv, MaybeConn, Slots, NextSlot, Relock, Goto,
     scanVars, connVars, envVars
<1>11. ASSUME NEW r \in Requests, EndScan(r)
      PROVE  PlaceInv'
  BY <1>11, PoolAssumption DEF TypeOK, PlaceInv, MaybeConn, Slots, NextSlot, EndScan, Goto,
     scanVars, connVars, envVars
<1>12. ASSUME NEW r \in Requests, Create(r)
      PROVE  PlaceInv'
  BY <1>12, PoolAssumption DEF TypeOK, PlaceInv, MaybeConn, Slots, NextSlot, Create, Goto,
     scanVars, connVars, envVars
<1>13. ASSUME NEW r \in Requests, FinishRequest(r)
      PROVE  PlaceInv'
  BY <1>13, PoolAssumption DEF TypeOK, PlaceInv, MaybeConn, Slots, NextSlot, FinishRequest,
     Goto, scanVars, connVars, envVars
<1>14. ASSUME NEW r \in Requests, StampReturn(r)
      PROVE  PlaceInv'
  BY <1>14, PoolAssumption DEF TypeOK, PlaceInv, MaybeConn, Slots, NextSlot, StampReturn,
     Goto, scanVars, connVars, envVars
<1>15. ASSUME NEW r \in Requests, ClearBusy(r)
      PROVE  PlaceInv'
  BY <1>15, PoolAssumption DEF TypeOK, PlaceInv, MaybeConn, Slots, NextSlot, ClearBusy,
     Goto, scanVars, connVars, envVars
<1>16. ASSUME NEW r \in Requests, CheckDead(r)
      PROVE  PlaceInv'
  BY <1>16, PoolAssumption DEF TypeOK, PlaceInv, MaybeConn, Slots, NextSlot, CheckDead,
     Goto, scanVars, connVars, envVars
<1>17. ASSUME NEW r \in Requests, RemoveDead(r)
      PROVE  PlaceInv'
  BY <1>17, PoolAssumption DEF TypeOK, PlaceInv, MaybeConn, Slots, NextSlot, RemoveDead,
     Goto, scanVars, connVars, envVars
<1>18. ASSUME NEW r \in Requests, Keep(r)
      PROVE  PlaceInv'
  BY <1>18, PoolAssumption DEF TypeOK, PlaceInv, MaybeConn, Slots, NextSlot, Keep, Goto,
     scanVars, connVars, envVars
<1>19. ASSUME NEW r \in Requests, Store(r)
      PROVE  PlaceInv'
  BY <1>19, PoolAssumption DEF TypeOK, PlaceInv, MaybeConn, Slots, NextSlot, Store, Goto,
     scanVars, connVars, envVars
<1>20. ASSUME NEW r \in Requests, Overflow(r)
      PROVE  PlaceInv'
  BY <1>20, PoolAssumption DEF TypeOK, PlaceInv, MaybeConn, Slots, NextSlot, Overflow,
     Goto, scanVars, connVars, envVars
<1>21. ASSUME NEW r \in Requests, CloseReturned(r)
      PROVE  PlaceInv'
  <2>1. conn[r] \in Requests
    BY <1>21 DEF TypeOK, PlaceInv, MaybeConn, CloseReturned
  <2>2. memory[conn[r]] # "none"
    BY <2>1 DEF KnownInv
  <2>3. \A q \in Requests : memory[q] = "none" => memory'[q] = "none"
    BY <1>21, <2>1, <2>2 DEF TypeOK, CloseReturned, PoolCloseConn
  <2>4. /\ pc'[r] = "done" /\ pc[r] = "close"
        /\ \A q \in Requests \ {r} : pc'[q] = pc[q]
    BY <1>21 DEF TypeOK, CloseReturned, Goto
  <2>5. UNCHANGED <<lock, idx, pool, conn, victim>>
    BY <1>21 DEF CloseReturned, scanVars
  <2>. QED
    BY <2>3, <2>4, <2>5 DEF PlaceInv
<1>22. ASSUME NEW c \in Requests, Connected(c)
      PROVE  PlaceInv'
  BY <1>22, PoolAssumption DEF TypeOK, PlaceInv, MaybeConn, Slots, NextSlot, Connected,
     Goto, scanVars, connVars, envVars
<1>23. ASSUME NEW c \in Requests, Shutdown(c)
      PROVE  PlaceInv'
  BY <1>23, PoolAssumption DEF TypeOK, PlaceInv, MaybeConn, Slots, NextSlot, Shutdown,
     Goto, scanVars, connVars, envVars
<1>24. CASE SetPins
  BY <1>24, PoolAssumption DEF TypeOK, PlaceInv, MaybeConn, Slots, NextSlot, SetPins, Goto,
     scanVars, connVars, envVars
<1>25. CASE Tick
  BY <1>25, PoolAssumption DEF TypeOK, PlaceInv, MaybeConn, Slots, NextSlot, Tick, Goto,
     scanVars, connVars, envVars
<1>26. CASE UNCHANGED vars
  BY <1>26 DEF PlaceInv, vars, scanVars, connVars, envVars
<1>. QED
  BY <1>1, <1>2, <1>3, <1>4, <1>5, <1>6, <1>7, <1>8, <1>9, <1>10, <1>11, <1>12, <1>13,
     <1>14, <1>15, <1>16, <1>17, <1>18, <1>19, <1>20, <1>21, <1>22, <1>23, <1>24, <1>25,
     <1>26, Actions

\* No action spreads a connection that has not been made.
LEMMA KnownStep ==
  ASSUME TypeOK, PlaceInv, KnownInv, [Next]_vars
  PROVE  KnownInv'
<1>1. ASSUME NEW r \in Requests, ReadClock(r)
      PROVE  KnownInv'
  <2>1. UNCHANGED <<memory, conn, victim, pool>>
    BY <1>1 DEF ReadClock, scanVars, connVars
  <2>. QED
    BY <2>1 DEF KnownInv
<1>2. ASSUME NEW r \in Requests, Lock(r)
      PROVE  KnownInv'
  <2>1. UNCHANGED <<memory, conn, victim, pool>>
    BY <1>2 DEF Lock, scanVars, connVars
  <2>. QED
    BY <2>1 DEF KnownInv
<1>3. ASSUME NEW r \in Requests, SkipEmpty(r)
      PROVE  KnownInv'
  <2>1. UNCHANGED <<memory, conn, victim, pool>>
    BY <1>3 DEF SkipEmpty, scanVars, connVars
  <2>. QED
    BY <2>1 DEF KnownInv
<1>4. ASSUME NEW r \in Requests, SeeWorn(r)
      PROVE  KnownInv'
  <2>1. UNCHANGED <<memory, conn, victim, pool>>
    BY <1>4 DEF SeeWorn, scanVars, connVars
  <2>. QED
    BY <2>1 DEF KnownInv
<1>5. ASSUME NEW r \in Requests, Evict(r)
      PROVE  KnownInv'
  <2>1. UNCHANGED <<memory, conn>> /\ pool[idx[r]] \in Requests /\ idx[r] \in Slots
    BY <1>5 DEF Evict, PlaceInv, connVars
  <2>2. \A q \in Requests : victim'[q] = victim[q] \/ victim'[q] = pool[idx[r]]
    BY <1>5 DEF TypeOK, Evict
  <2>3. \A s \in Slots : pool'[s] = pool[s] \/ pool'[s] = None
    BY <1>5 DEF TypeOK, Evict
  <2>. QED
    BY <2>1, <2>2, <2>3, PoolAssumption DEF KnownInv
<1>6. ASSUME NEW r \in Requests, Leave(r)
      PROVE  KnownInv'
  <2>1. UNCHANGED <<memory, conn, victim, pool>>
    BY <1>6 DEF Leave, scanVars, connVars
  <2>. QED
    BY <2>1 DEF KnownInv
<1>7. ASSUME NEW r \in Requests, Take(r)
      PROVE  KnownInv'
  BY <1>7, PoolAssumption DEF TypeOK, PlaceInv, KnownInv, MaybeConn, Slots, PoolCloseConn,
     Take, scanVars, connVars, envVars
<1>8. ASSUME NEW r \in Requests, Pass(r)
      PROVE  KnownInv'
  <2>1. UNCHANGED <<memory, conn, victim, pool>>
    BY <1>8 DEF Pass, scanVars, connVars
  <2>. QED
    BY <2>1 DEF KnownInv
<1>9. ASSUME NEW r \in Requests, CloseVictim(r)
      PROVE  KnownInv'
  BY <1>9, PoolAssumption DEF TypeOK, PlaceInv, KnownInv, MaybeConn, Slots, PoolCloseConn,
     CloseVictim, scanVars, connVars, envVars
<1>10. ASSUME NEW r \in Requests, Relock(r)
      PROVE  KnownInv'
  <2>1. UNCHANGED <<memory, conn, victim, pool>>
    BY <1>10 DEF Relock, scanVars, connVars
  <2>. QED
    BY <2>1 DEF KnownInv
<1>11. ASSUME NEW r \in Requests, EndScan(r)
      PROVE  KnownInv'
  <2>1. UNCHANGED <<memory, conn, victim, pool>>
    BY <1>11 DEF EndScan, scanVars, connVars
  <2>. QED
    BY <2>1 DEF KnownInv
<1>12. ASSUME NEW r \in Requests, Create(r)
      PROVE  KnownInv'
  BY <1>12, PoolAssumption DEF TypeOK, PlaceInv, KnownInv, MaybeConn, Slots, PoolCloseConn,
     Create, scanVars, connVars, envVars
<1>13. ASSUME NEW r \in Requests, FinishRequest(r)
      PROVE  KnownInv'
  <2>1. UNCHANGED <<memory, conn, victim, pool>>
    BY <1>13 DEF FinishRequest, scanVars, connVars
  <2>. QED
    BY <2>1 DEF KnownInv
<1>14. ASSUME NEW r \in Requests, StampReturn(r)
      PROVE  KnownInv'
  <2>1. UNCHANGED <<memory, conn, victim, pool>>
    BY <1>14 DEF StampReturn, scanVars, connVars
  <2>. QED
    BY <2>1 DEF KnownInv
<1>15. ASSUME NEW r \in Requests, ClearBusy(r)
      PROVE  KnownInv'
  <2>1. UNCHANGED <<memory, conn, victim, pool>>
    BY <1>15 DEF ClearBusy, scanVars, connVars
  <2>. QED
    BY <2>1 DEF KnownInv
<1>16. ASSUME NEW r \in Requests, CheckDead(r)
      PROVE  KnownInv'
  <2>1. UNCHANGED <<memory, conn, victim, pool>>
    BY <1>16 DEF CheckDead, scanVars, connVars
  <2>. QED
    BY <2>1 DEF KnownInv
<1>17. ASSUME NEW r \in Requests, RemoveDead(r)
      PROVE  KnownInv'
  BY <1>17, PoolAssumption DEF TypeOK, PlaceInv, KnownInv, MaybeConn, Slots, PoolCloseConn,
     RemoveDead, scanVars, connVars, envVars
<1>18. ASSUME NEW r \in Requests, Keep(r)
      PROVE  KnownInv'
  <2>1. UNCHANGED <<memory, conn, victim, pool>>
    BY <1>18 DEF Keep, scanVars, connVars
  <2>. QED
    BY <2>1 DEF KnownInv
<1>19. ASSUME NEW r \in Requests, Store(r)
      PROVE  KnownInv'
  BY <1>19, PoolAssumption DEF TypeOK, PlaceInv, KnownInv, MaybeConn, Slots, PoolCloseConn,
     Store, scanVars, connVars, envVars
<1>20. ASSUME NEW r \in Requests, Overflow(r)
      PROVE  KnownInv'
  <2>1. UNCHANGED <<memory, conn, victim, pool>>
    BY <1>20 DEF Overflow, scanVars, connVars
  <2>. QED
    BY <2>1 DEF KnownInv
<1>21. ASSUME NEW r \in Requests, CloseReturned(r)
      PROVE  KnownInv'
  BY <1>21, PoolAssumption DEF TypeOK, PlaceInv, KnownInv, MaybeConn, Slots, PoolCloseConn,
     CloseReturned, scanVars, connVars, envVars
<1>22. ASSUME NEW c \in Requests, Connected(c)
      PROVE  KnownInv'
  <2>1. UNCHANGED <<memory, conn, victim, pool>>
    BY <1>22 DEF Connected, scanVars, connVars
  <2>. QED
    BY <2>1 DEF KnownInv
<1>23. ASSUME NEW c \in Requests, Shutdown(c)
      PROVE  KnownInv'
  <2>1. UNCHANGED <<memory, conn, victim, pool>>
    BY <1>23 DEF Shutdown, scanVars, connVars
  <2>. QED
    BY <2>1 DEF KnownInv
<1>24. CASE SetPins
  <2>1. UNCHANGED <<memory, conn, victim, pool>>
    BY <1>24 DEF SetPins, scanVars, connVars
  <2>. QED
    BY <2>1 DEF KnownInv
<1>25. CASE Tick
  <2>1. UNCHANGED <<memory, conn, victim, pool>>
    BY <1>25 DEF Tick, scanVars, connVars
  <2>. QED
    BY <2>1 DEF KnownInv
<1>26. CASE UNCHANGED vars
  BY <1>26 DEF KnownInv, vars, scanVars, connVars, envVars
<1>. QED
  BY <1>1, <1>2, <1>3, <1>4, <1>5, <1>6, <1>7, <1>8, <1>9, <1>10, <1>11, <1>12, <1>13,
     <1>14, <1>15, <1>16, <1>17, <1>18, <1>19, <1>20, <1>21, <1>22, <1>23, <1>24, <1>25,
     <1>26, Actions

\* No action gives away a connection that has an owner.
LEMMA OwnerStep ==
  ASSUME TypeOK, PlaceInv, KnownInv, OwnerInv, [Next]_vars
  PROVE  OwnerInv'
<1>1. ASSUME NEW r \in Requests, ReadClock(r)
      PROVE  OwnerInv'
  <2>1. \A d \in Requests : Live(d)' => Live(d) /\ flags'[d].zanyat = flags[d].zanyat
    BY <1>1, PoolAssumption DEF TypeOK, PlaceInv, MaybeConn, Live, PoolCloseConn,
       ReadClock, connVars
  <2>2. \A q, d \in Requests : Owns(q, d)' = Owns(q, d)
    BY <1>1, PoolAssumption DEF TypeOK, PlaceInv, Owns, ReadClock, Goto, scanVars
  <2>. QED
    BY <2>1, <2>2, OwnerFrame
<1>2. ASSUME NEW r \in Requests, Lock(r)
      PROVE  OwnerInv'
  <2>1. \A d \in Requests : Live(d)' => Live(d) /\ flags'[d].zanyat = flags[d].zanyat
    BY <1>2, PoolAssumption DEF TypeOK, PlaceInv, MaybeConn, Live, PoolCloseConn, Lock,
       connVars
  <2>2. \A q, d \in Requests : Owns(q, d)' = Owns(q, d)
    BY <1>2, PoolAssumption DEF TypeOK, PlaceInv, Owns, Lock, Goto, scanVars
  <2>. QED
    BY <2>1, <2>2, OwnerFrame
<1>3. ASSUME NEW r \in Requests, SkipEmpty(r)
      PROVE  OwnerInv'
  <2>1. \A d \in Requests : Live(d)' => Live(d) /\ flags'[d].zanyat = flags[d].zanyat
    BY <1>3, PoolAssumption DEF TypeOK, PlaceInv, MaybeConn, Live, PoolCloseConn,
       SkipEmpty, connVars
  <2>2. \A q, d \in Requests : Owns(q, d)' = Owns(q, d)
    BY <1>3, PoolAssumption DEF TypeOK, PlaceInv, Owns, SkipEmpty, Goto, scanVars
  <2>. QED
    BY <2>1, <2>2, OwnerFrame
<1>4. ASSUME NEW r \in Requests, SeeWorn(r)
      PROVE  OwnerInv'
  <2>1. \A d \in Requests : Live(d)' => Live(d) /\ flags'[d].zanyat = flags[d].zanyat
    BY <1>4, PoolAssumption DEF TypeOK, PlaceInv, MaybeConn, Live, PoolCloseConn, SeeWorn,
       connVars
  <2>2. \A q, d \in Requests : Owns(q, d)' = Owns(q, d)
    BY <1>4, PoolAssumption DEF TypeOK, PlaceInv, Owns, SeeWorn, Goto, scanVars
  <2>. QED
    BY <2>1, <2>2, OwnerFrame
<1>5. ASSUME NEW r \in Requests, Evict(r)
      PROVE  OwnerInv'
  <2>1. \A d \in Requests : Live(d)' => Live(d) /\ flags'[d].zanyat = flags[d].zanyat
    BY <1>5, PoolAssumption DEF TypeOK, PlaceInv, MaybeConn, Live, PoolCloseConn, Evict,
       connVars
  <2>2. \A q, d \in Requests : Owns(q, d)' = Owns(q, d)
    BY <1>5, PoolAssumption DEF TypeOK, PlaceInv, Owns, Evict, Goto, scanVars
  <2>. QED
    BY <2>1, <2>2, OwnerFrame
<1>6. ASSUME NEW r \in Requests, Leave(r)
      PROVE  OwnerInv'
  <2>1. \A d \in Requests : Live(d)' => Live(d) /\ flags'[d].zanyat = flags[d].zanyat
    BY <1>6, PoolAssumption DEF TypeOK, PlaceInv, MaybeConn, Live, PoolCloseConn, Leave,
       connVars
  <2>2. \A q, d \in Requests : Owns(q, d)' = Owns(q, d)
    BY <1>6, PoolAssumption DEF TypeOK, PlaceInv, Owns, Leave, Goto, scanVars
  <2>. QED
    BY <2>1, <2>2, OwnerFrame
<1>7. ASSUME NEW r \in Requests, Take(r)
      PROVE  OwnerInv'
  <2>1. PICK c \in Requests :
          /\ c = pool[idx[r]] /\ conn[r] = None /\ pc[r] = "scan"
          /\ conn' = [conn EXCEPT ![r] = c] /\ UNCHANGED pc
    BY <1>7 DEF Take
  <2>2. \A d \in Requests : Live(d)' = Live(d)
    BY <1>7 DEF Take, Live
  <2>3. \A d \in Requests \ {c} : flags'[d] = flags[d]
    BY <1>7, <2>1 DEF TypeOK, Take
  <2>4. Live(c) => flags'[c].zanyat
    BY <1>7, <2>1 DEF TypeOK, Take
  <2>5. Live(c) => \A q \in Requests : ~Owns(q, c)
    BY <1>7, <2>1 DEF OwnerInv, Take
  <2>6. Owns(r, c)' /\ \A d \in Requests : ~Owns(r, d)
    BY <2>1, PoolAssumption DEF TypeOK, Owns
  <2>7. \A d \in Requests \ {c} : ~Owns(r, d)'
    BY <2>1 DEF TypeOK, Owns
  <2>8. \A q \in Requests \ {r}, d \in Requests : Owns(q, d)' = Owns(q, d)
    BY <2>1 DEF TypeOK, Owns
  <2>9. ASSUME NEW d \in Requests, Live(d)', d # c
        PROVE  /\ flags'[d].zanyat => \E q \in Requests : Owns(q, d)'
               /\ \A q \in Requests : Owns(q, d)' => flags'[d].zanyat
               /\ \A p, q \in Requests : Owns(p, d)' /\ Owns(q, d)' => p = q
    BY <2>2, <2>3, <2>6, <2>7, <2>8, <2>9 DEF OwnerInv
  <2>10. Live(c)' => /\ flags'[c].zanyat
                     /\ \A q \in Requests : Owns(q, c)' => q = r
    BY <2>1, <2>2, <2>4, <2>5, <2>8
  <2>. QED
    BY <2>1, <2>6, <2>9, <2>10 DEF OwnerInv
<1>8. ASSUME NEW r \in Requests, Pass(r)
      PROVE  OwnerInv'
  <2>1. \A d \in Requests : Live(d)' => Live(d) /\ flags'[d].zanyat = flags[d].zanyat
    BY <1>8, PoolAssumption DEF TypeOK, PlaceInv, MaybeConn, Live, PoolCloseConn, Pass,
       connVars
  <2>2. \A q, d \in Requests : Owns(q, d)' = Owns(q, d)
    BY <1>8, PoolAssumption DEF TypeOK, PlaceInv, Owns, Pass, Goto, scanVars
  <2>. QED
    BY <2>1, <2>2, OwnerFrame
<1>9. ASSUME NEW r \in Requests, CloseVictim(r)
      PROVE  OwnerInv'
  <2>1. \A d \in Requests : Live(d)' => Live(d) /\ flags'[d].zanyat = flags[d].zanyat
    BY <1>9, PoolAssumption DEF TypeOK, PlaceInv, MaybeConn, Live, PoolCloseConn,
       CloseVictim, connVars
  <2>2. \A q, d \in Requests : Owns(q, d)' = Owns(q, d)
    BY <1>9, PoolAssumption DEF TypeOK, PlaceInv, Owns, CloseVictim, Goto, scanVars
  <2>. QED
    BY <2>1, <2>2, OwnerFrame
<1>10. ASSUME NEW r \in Requests, Relock(r)
      PROVE  OwnerInv'
  <2>1. \A d \in Requests : Live(d)' => Live(d) /\ flags'[d].zanyat = flags[d].zanyat
    BY <1>10, PoolAssumption DEF TypeOK, PlaceInv, MaybeConn, Live, PoolCloseConn, Relock,
       connVars
  <2>2. \A q, d \in Requests : Owns(q, d)' = Owns(q, d)
    BY <1>10, PoolAssumption DEF TypeOK, PlaceInv, Owns, Relock, Goto, scanVars
  <2>. QED
    BY <2>1, <2>2, OwnerFrame
<1>11. ASSUME NEW r \in Requests, EndScan(r)
      PROVE  OwnerInv'
  <2>1. \A d \in Requests : Live(d)' => Live(d) /\ flags'[d].zanyat = flags[d].zanyat
    BY <1>11, PoolAssumption DEF TypeOK, PlaceInv, MaybeConn, Live, PoolCloseConn, EndScan,
       connVars
  <2>2. \A q, d \in Requests : Owns(q, d)' = Owns(q, d)
    BY <1>11, PoolAssumption DEF TypeOK, PlaceInv, Owns, EndScan, Goto, scanVars
  <2>. QED
    BY <2>1, <2>2, OwnerFrame
<1>12. ASSUME NEW r \in Requests, Create(r)
      PROVE  OwnerInv'
  <2>1. \A d \in Requests \ {r} : Live(d)' = Live(d) /\ flags'[d] = flags[d]
    BY <1>12 DEF TypeOK, Create, Live
  <2>2. flags'[r].zanyat
    BY <1>12 DEF TypeOK, Create
  <2>3. memory[r] = "none" /\ conn[r] = None
    BY <1>12 DEF PlaceInv, Create
  <2>4. \A q \in Requests : ~Owns(q, r)
    BY <2>3 DEF KnownInv, Owns
  <2>5. Owns(r, r)' /\ \A d \in Requests \ {r} : ~Owns(r, d)'
    BY <1>12 DEF TypeOK, Owns, Create, Goto
  <2>6. \A d \in Requests : ~Owns(r, d)
    BY <2>3, PoolAssumption DEF Owns
  <2>7. \A q \in Requests \ {r}, d \in Requests : Owns(q, d)' = Owns(q, d)
    BY <1>12 DEF TypeOK, Owns, Create, Goto
  <2>8. ASSUME NEW d \in Requests, Live(d)', d # r
        PROVE  /\ flags'[d].zanyat => \E q \in Requests : Owns(q, d)'
               /\ \A q \in Requests : Owns(q, d)' => flags'[d].zanyat
               /\ \A p, q \in Requests : Owns(p, d)' /\ Owns(q, d)' => p = q
    BY <2>1, <2>5, <2>6, <2>7, <2>8 DEF OwnerInv
  <2>9. \A q \in Requests : Owns(q, r)' => q = r
    BY <2>4, <2>7
  <2>. QED
    BY <2>2, <2>5, <2>8, <2>9 DEF OwnerInv
<1>13. ASSUME NEW r \in Requests, FinishRequest(r)
      PROVE  OwnerInv'
  <2>1. \A d \in Requests : Live(d)' => Live(d) /\ flags'[d].zanyat = flags[d].zanyat
    BY <1>13, PoolAssumption DEF TypeOK, PlaceInv, MaybeConn, Live, PoolCloseConn,
       FinishRequest, connVars
  <2>2. \A q, d \in Requests : Owns(q, d)' = Owns(q, d)
    BY <1>13, PoolAssumption DEF TypeOK, PlaceInv, Owns, FinishRequest, Goto, scanVars
  <2>. QED
    BY <2>1, <2>2, OwnerFrame
<1>14. ASSUME NEW r \in Requests, StampReturn(r)
      PROVE  OwnerInv'
  <2>1. \A d \in Requests : Live(d)' => Live(d) /\ flags'[d].zanyat = flags[d].zanyat
    BY <1>14, PoolAssumption DEF TypeOK, PlaceInv, MaybeConn, Live, PoolCloseConn,
       StampReturn, connVars
  <2>2. \A q, d \in Requests : Owns(q, d)' = Owns(q, d)
    BY <1>14, PoolAssumption DEF TypeOK, PlaceInv, Owns, StampReturn, Goto, scanVars
  <2>. QED
    BY <2>1, <2>2, OwnerFrame
<1>15. ASSUME NEW r \in Requests, ClearBusy(r)
      PROVE  OwnerInv'
  <2>1. PICK c \in Requests : c = conn[r] /\ pc[r] = "unbusy" /\ Owns(r, c)
    BY <1>15 DEF TypeOK, PlaceInv, MaybeConn, ClearBusy, Owns
  <2>2. \A d \in Requests : Live(d)' = Live(d)
    BY <1>15 DEF ClearBusy, Live
  <2>3. \A d \in Requests \ {c} : flags'[d] = flags[d]
    BY <1>15, <2>1 DEF TypeOK, ClearBusy, SetFlags
  <2>4. Live(c) => ~flags'[c].zanyat
    BY <1>15, <2>1 DEF TypeOK, ClearBusy, SetFlags
  <2>5. \A d \in Requests : ~Owns(r, d)'
    BY <1>15 DEF TypeOK, Owns, ClearBusy, Goto
  <2>6. \A q \in Requests \ {r}, d \in Requests : Owns(q, d)' = Owns(q, d)
    BY <1>15 DEF TypeOK, Owns, ClearBusy, Goto, scanVars
  <2>7. \A d \in Requests \ {c} : ~Owns(r, d)
    BY <2>1 DEF Owns
  <2>8. ASSUME NEW d \in Requests, Live(d)', d # c
        PROVE  /\ flags'[d].zanyat => \E q \in Requests : Owns(q, d)'
               /\ \A q \in Requests : Owns(q, d)' => flags'[d].zanyat
               /\ \A p, q \in Requests : Owns(p, d)' /\ Owns(q, d)' => p = q
    BY <2>2, <2>3, <2>5, <2>6, <2>7, <2>8 DEF OwnerInv
  <2>9. Live(c)' => \A q \in Requests : ~Owns(q, c)'
    BY <2>1, <2>2, <2>5, <2>6 DEF OwnerInv
  <2>. QED
    BY <2>1, <2>2, <2>4, <2>8, <2>9 DEF OwnerInv
<1>16. ASSUME NEW r \in Requests, CheckDead(r)
      PROVE  OwnerInv'
  <2>1. \A d \in Requests : Live(d)' => Live(d) /\ flags'[d].zanyat = flags[d].zanyat
    BY <1>16, PoolAssumption DEF TypeOK, PlaceInv, MaybeConn, Live, PoolCloseConn,
       CheckDead, connVars
  <2>2. \A q, d \in Requests : Owns(q, d)' = Owns(q, d)
    BY <1>16, PoolAssumption DEF TypeOK, PlaceInv, Owns, CheckDead, Goto, scanVars
  <2>. QED
    BY <2>1, <2>2, OwnerFrame
<1>17. ASSUME NEW r \in Requests, RemoveDead(r)
      PROVE  OwnerInv'
  <2>1. \A d \in Requests : Live(d)' => Live(d) /\ flags'[d].zanyat = flags[d].zanyat
    BY <1>17, PoolAssumption DEF TypeOK, PlaceInv, MaybeConn, Live, PoolCloseConn,
       RemoveDead, connVars
  <2>2. \A q, d \in Requests : Owns(q, d)' = Owns(q, d)
    BY <1>17, PoolAssumption DEF TypeOK, PlaceInv, Owns, RemoveDead, Goto, scanVars
  <2>. QED
    BY <2>1, <2>2, OwnerFrame
<1>18. ASSUME NEW r \in Requests, Keep(r)
      PROVE  OwnerInv'
  <2>1. \A d \in Requests : Live(d)' => Live(d) /\ flags'[d].zanyat = flags[d].zanyat
    BY <1>18, PoolAssumption DEF TypeOK, PlaceInv, MaybeConn, Live, PoolCloseConn, Keep,
       connVars
  <2>2. \A q, d \in Requests : Owns(q, d)' = Owns(q, d)
    BY <1>18, PoolAssumption DEF TypeOK, PlaceInv, Owns, Keep, Goto, scanVars
  <2>. QED
    BY <2>1, <2>2, OwnerFrame
<1>19. ASSUME NEW r \in Requests, Store(r)
      PROVE  OwnerInv'
  <2>1. \A d \in Requests : Live(d)' => Live(d) /\ flags'[d].zanyat = flags[d].zanyat
    BY <1>19, PoolAssumption DEF TypeOK, PlaceInv, MaybeConn, Live, PoolCloseConn, Store,
       connVars
  <2>2. \A q, d \in Requests : Owns(q, d)' = Owns(q, d)
    BY <1>19, PoolAssumption DEF TypeOK, PlaceInv, Owns, Store, Goto, scanVars
  <2>. QED
    BY <2>1, <2>2, OwnerFrame
<1>20. ASSUME NEW r \in Requests, Overflow(r)
      PROVE  OwnerInv'
  <2>1. \A d \in Requests : Live(d)' => Live(d) /\ flags'[d].zanyat = flags[d].zanyat
    BY <1>20, PoolAssumption DEF TypeOK, PlaceInv, MaybeConn, Live, PoolCloseConn,
       Overflow, connVars
  <2>2. \A q, d \in Requests : Owns(q, d)' = Owns(q, d)
    BY <1>20, PoolAssumption DEF TypeOK, PlaceInv, Owns, Overflow, Goto, scanVars
  <2>. QED
    BY <2>1, <2>2, OwnerFrame
<1>21. ASSUME NEW r \in Requests, CloseReturned(r)
      PROVE  OwnerInv'
  <2>1. \A d \in Requests : Live(d)' => Live(d) /\ flags'[d].zanyat = flags[d].zanyat
    BY <1>21, PoolAssumption DEF TypeOK, PlaceInv, MaybeConn, Live, PoolCloseConn,
       CloseReturned, connVars
  <2>2. \A q, d \in Requests : Owns(q, d)' = Owns(q, d)
    BY <1>21, PoolAssumption DEF TypeOK, PlaceInv, Owns, CloseReturned, Goto, scanVars
  <2>. QED
    BY <2>1, <2>2, OwnerFrame
<1>22. ASSUME NEW c \in Requests, Connected(c)
      PROVE  OwnerInv'
  <2>1. \A d \in Requests : Live(d)' => Live(d) /\ flags'[d].zanyat = flags[d].zanyat
    BY <1>22, PoolAssumption DEF TypeOK, PlaceInv, MaybeConn, Live, PoolCloseConn,
       Connected, connVars
  <2>2. \A q, d \in Requests : Owns(q, d)' = Owns(q, d)
    BY <1>22, PoolAssumption DEF TypeOK, PlaceInv, Owns, Connected, Goto, scanVars
  <2>. QED
    BY <2>1, <2>2, OwnerFrame
<1>23. ASSUME NEW c \in Requests, Shutdown(c)
      PROVE  OwnerInv'
  <2>1. \A d \in Requests : Live(d)' => Live(d) /\ flags'[d].zanyat = flags[d].zanyat
    BY <1>23, PoolAssumption DEF TypeOK, PlaceInv, MaybeConn, Live, PoolCloseConn,
       Shutdown, connVars
  <2>2. \A q, d \in Requests : Owns(q, d)' = Owns(q, d)
    BY <1>23, PoolAssumption DEF TypeOK, PlaceInv, Owns, Shutdown, Goto, scanVars
  <2>. QED
    BY <2>1, <2>2, OwnerFrame
<1>24. CASE SetPins
  <2>1. \A d \in Requests : Live(d)' => Live(d) /\ flags'[d].zanyat = flags[d].zanyat
    BY <1>24, PoolAssumption DEF TypeOK, PlaceInv, MaybeConn, Live, PoolCloseConn, SetPins,
       connVars
  <2>2. \A q, d \in Requests : Owns(q, d)' = Owns(q, d)
    BY <1>24, PoolAssumption DEF TypeOK, PlaceInv, Owns, SetPins, Goto, scanVars
  <2>. QED
    BY <2>1, <2>2, OwnerFrame
<1>25. CASE Tick
  <2>1. \A d \in Requests : Live(d)' => Live(d) /\ flags'[d].zanyat = flags[d].zanyat
    BY <1>25, PoolAssumption DEF TypeOK, PlaceInv, MaybeConn, Live, PoolCloseConn, Tick,
       connVars
  <2>2. \A q, d \in Requests : Owns(q, d)' = Owns(q, d)
    BY <1>25, PoolAssumption DEF TypeOK, PlaceInv, Owns, Tick, Goto, scanVars
  <2>. QED
    BY <2>1, <2>2, OwnerFrame
<1>26. CASE UNCHANGED vars
  BY <1>26 DEF OwnerInv, Owns, Live, vars, scanVars, connVars, envVars
<1>. QED
  BY <1>1, <1>2, <1>3, <1>4, <1>5, <1>6, <1>7, <1>8, <1>9, <1>10, <1>11, <1>12, <1>13,
     <1>14, <1>15, <1>16, <1>17, <1>18, <1>19, <1>20, <1>21, <1>22, <1>23, <1>24, <1>25,
     <1>26, Actions

\* No action loses or doubles an idle connection.
LEMMA IdleStep ==
  ASSUME TypeOK, PlaceInv, KnownInv, IdleInv, [Next]_vars
  PROVE  IdleInv'
<1>1. ASSUME NEW r \in Requests, ReadClock(r)
      PROVE  IdleInv'
  <2>1. \A d \in Requests : Live(d)' => Live(d) /\ flags'[d].zanyat = flags[d].zanyat
    BY <1>1, PoolAssumption DEF TypeOK, PlaceInv, MaybeConn, Live, PoolCloseConn,
       ReadClock, connVars
  <2>2. UNCHANGED pool
    BY <1>1 DEF ReadClock
  <2>3. \A d \in Requests : Live(d)' => \A q \in Requests :
          (victim[q] = d => victim'[q] = d) /\ (InHand(q, d) => InHand(q, d)')
    BY <1>1, PoolAssumption DEF TypeOK, PlaceInv, MaybeConn, InHand, ReadClock, Goto, Live,
       PoolCloseConn, scanVars
  <2>. QED
    BY <2>1, <2>2, <2>3 DEF IdleInv
<1>2. ASSUME NEW r \in Requests, Lock(r)
      PROVE  IdleInv'
  <2>1. \A d \in Requests : Live(d)' => Live(d) /\ flags'[d].zanyat = flags[d].zanyat
    BY <1>2, PoolAssumption DEF TypeOK, PlaceInv, MaybeConn, Live, PoolCloseConn, Lock,
       connVars
  <2>2. UNCHANGED pool
    BY <1>2 DEF Lock
  <2>3. \A d \in Requests : Live(d)' => \A q \in Requests :
          (victim[q] = d => victim'[q] = d) /\ (InHand(q, d) => InHand(q, d)')
    BY <1>2, PoolAssumption DEF TypeOK, PlaceInv, MaybeConn, InHand, Lock, Goto, Live,
       PoolCloseConn, scanVars
  <2>. QED
    BY <2>1, <2>2, <2>3 DEF IdleInv
<1>3. ASSUME NEW r \in Requests, SkipEmpty(r)
      PROVE  IdleInv'
  <2>1. \A d \in Requests : Live(d)' => Live(d) /\ flags'[d].zanyat = flags[d].zanyat
    BY <1>3, PoolAssumption DEF TypeOK, PlaceInv, MaybeConn, Live, PoolCloseConn,
       SkipEmpty, connVars
  <2>2. UNCHANGED pool
    BY <1>3 DEF SkipEmpty
  <2>3. \A d \in Requests : Live(d)' => \A q \in Requests :
          (victim[q] = d => victim'[q] = d) /\ (InHand(q, d) => InHand(q, d)')
    BY <1>3, PoolAssumption DEF TypeOK, PlaceInv, MaybeConn, InHand, SkipEmpty, Goto, Live,
       PoolCloseConn, scanVars
  <2>. QED
    BY <2>1, <2>2, <2>3 DEF IdleInv
<1>4. ASSUME NEW r \in Requests, SeeWorn(r)
      PROVE  IdleInv'
  <2>1. \A d \in Requests : Live(d)' => Live(d) /\ flags'[d].zanyat = flags[d].zanyat
    BY <1>4, PoolAssumption DEF TypeOK, PlaceInv, MaybeConn, Live, PoolCloseConn, SeeWorn,
       connVars
  <2>2. UNCHANGED pool
    BY <1>4 DEF SeeWorn
  <2>3. \A d \in Requests : Live(d)' => \A q \in Requests :
          (victim[q] = d => victim'[q] = d) /\ (InHand(q, d) => InHand(q, d)')
    BY <1>4, PoolAssumption DEF TypeOK, PlaceInv, MaybeConn, InHand, SeeWorn, Goto, Live,
       PoolCloseConn, scanVars
  <2>. QED
    BY <2>1, <2>2, <2>3 DEF IdleInv
<1>5. ASSUME NEW r \in Requests, Evict(r)
      PROVE  IdleInv'
  <2>1. UNCHANGED <<memory, flags>>
    BY <1>5 DEF Evict, connVars
  <2>2. /\ idx[r] \in Slots /\ pool'[idx[r]] = None
        /\ \A s \in Slots \ {idx[r]} : pool'[s] = pool[s]
    BY <1>5 DEF TypeOK, PlaceInv, Evict
  <2>3. victim'[r] = pool[idx[r]] /\ \A q \in Requests \ {r} : victim'[q] = victim[q]
    BY <1>5 DEF TypeOK, Evict
  <2>4. victim[r] = None
    BY <1>5 DEF PlaceInv, Evict
  <2>5. \A q, d \in Requests : InHand(q, d)' = InHand(q, d)
    BY <1>5 DEF TypeOK, InHand, Evict, Goto
  <2>6. ASSUME NEW d \in Requests, Live(d)', ~flags'[d].zanyat
        PROVE  \/ \E s \in Slots : pool'[s] = d
               \/ \E q \in Requests : victim'[q] = d \/ InHand(q, d)'
    <3>1. Live(d) /\ ~flags[d].zanyat /\ d # None
      BY <2>1, <2>6, PoolAssumption DEF Live
    <3>2. CASE \E s \in Slots : pool[s] = d
      BY <2>2, <2>3, <3>2
    <3>3. CASE \E q \in Requests : victim[q] = d
      BY <2>3, <2>4, <3>1, <3>3
    <3>4. CASE \E q \in Requests : InHand(q, d)
      BY <2>5, <3>4
    <3>. QED
      BY <3>1, <3>2, <3>3, <3>4 DEF IdleInv
  <2>7. \A s1, s2 \in Slots : s1 # s2 /\ pool'[s1] # None => pool'[s1] # pool'[s2]
    BY <2>2 DEF IdleInv
  <2>. QED
    BY <2>6, <2>7 DEF IdleInv
<1>6. ASSUME NEW r \in Requests, Leave(r)
      PROVE  IdleInv'
  <2>1. \A d \in Requests : Live(d)' => Live(d) /\ flags'[d].zanyat = flags[d].zanyat
    BY <1>6, PoolAssumption DEF TypeOK, PlaceInv, MaybeConn, Live, PoolCloseConn, Leave,
       connVars
  <2>2. UNCHANGED pool
    BY <1>6 DEF Leave
  <2>3. \A d \in Requests : Live(d)' => \A q \in Requests :
          (victim[q] = d => victim'[q] = d) /\ (InHand(q, d) => InHand(q, d)')
    BY <1>6, PoolAssumption DEF TypeOK, PlaceInv, MaybeConn, InHand, Leave, Goto, Live,
       PoolCloseConn, scanVars
  <2>. QED
    BY <2>1, <2>2, <2>3 DEF IdleInv
<1>7. ASSUME NEW r \in Requests, Take(r)
      PROVE  IdleInv'
  <2>1. \A d \in Requests : Live(d)' = Live(d)
    BY <1>7 DEF Take, Live
  <2>2. \A d \in Requests : Live(d) /\ flags[d].zanyat => flags'[d].zanyat
    BY <1>7 DEF TypeOK, Take
  <2>3. UNCHANGED <<pool, victim>>
    BY <1>7 DEF Take
  <2>4. \A q, d \in Requests : InHand(q, d)' = InHand(q, d)
    BY <1>7 DEF TypeOK, InHand, Take
  <2>. QED
    BY <2>1, <2>2, <2>3, <2>4 DEF IdleInv
<1>8. ASSUME NEW r \in Requests, Pass(r)
      PROVE  IdleInv'
  <2>1. \A d \in Requests : Live(d)' => Live(d) /\ flags'[d].zanyat = flags[d].zanyat
    BY <1>8, PoolAssumption DEF TypeOK, PlaceInv, MaybeConn, Live, PoolCloseConn, Pass,
       connVars
  <2>2. UNCHANGED pool
    BY <1>8 DEF Pass
  <2>3. \A d \in Requests : Live(d)' => \A q \in Requests :
          (victim[q] = d => victim'[q] = d) /\ (InHand(q, d) => InHand(q, d)')
    BY <1>8, PoolAssumption DEF TypeOK, PlaceInv, MaybeConn, InHand, Pass, Goto, Live,
       PoolCloseConn, scanVars
  <2>. QED
    BY <2>1, <2>2, <2>3 DEF IdleInv
<1>9. ASSUME NEW r \in Requests, CloseVictim(r)
      PROVE  IdleInv'
  <2>1. \A d \in Requests : Live(d)' => Live(d) /\ flags'[d].zanyat = flags[d].zanyat
    BY <1>9, PoolAssumption DEF TypeOK, PlaceInv, MaybeConn, Live, PoolCloseConn,
       CloseVictim, connVars
  <2>2. UNCHANGED pool
    BY <1>9 DEF CloseVictim
  <2>3. \A d \in Requests : Live(d)' => \A q \in Requests :
          (victim[q] = d => victim'[q] = d) /\ (InHand(q, d) => InHand(q, d)')
    BY <1>9, PoolAssumption DEF TypeOK, PlaceInv, MaybeConn, InHand, CloseVictim, Goto,
       Live, PoolCloseConn, scanVars
  <2>. QED
    BY <2>1, <2>2, <2>3 DEF IdleInv
<1>10. ASSUME NEW r \in Requests, Relock(r)
      PROVE  IdleInv'
  <2>1. \A d \in Requests : Live(d)' => Live(d) /\ flags'[d].zanyat = flags[d].zanyat
    BY <1>10, PoolAssumption DEF TypeOK, PlaceInv, MaybeConn, Live, PoolCloseConn, Relock,
       connVars
  <2>2. UNCHANGED pool
    BY <1>10 DEF Relock
  <2>3. \A d \in Requests : Live(d)' => \A q \in Requests :
          (victim[q] = d => victim'[q] = d) /\ (InHand(q, d) => InHand(q, d)')
    BY <1>10, PoolAssumption DEF TypeOK, PlaceInv, MaybeConn, InHand, Relock, Goto, Live,
       PoolCloseConn, scanVars
  <2>. QED
    BY <2>1, <2>2, <2>3 DEF IdleInv
<1>11. ASSUME NEW r \in Requests, EndScan(r)
      PROVE  IdleInv'
  <2>1. \A d \in Requests : Live(d)' => Live(d) /\ flags'[d].zanyat = flags[d].zanyat
    BY <1>11, PoolAssumption DEF TypeOK, PlaceInv, MaybeConn, Live, PoolCloseConn, EndScan,
       connVars
  <2>2. UNCHANGED pool
    BY <1>11 DEF EndScan
  <2>3. \A d \in Requests : Live(d)' => \A q \in Requests :
          (victim[q] = d => victim'[q] = d) /\ (InHand(q, d) => InHand(q, d)')
    BY <1>11, PoolAssumption DEF TypeOK, PlaceInv, MaybeConn, InHand, EndScan, Goto, Live,
       PoolCloseConn, scanVars
  <2>. QED
    BY <2>1, <2>2, <2>3 DEF IdleInv
<1>12. ASSUME NEW r \in Requests, Create(r)
      PROVE  IdleInv'
  <2>1. \A d \in Requests \ {r} : Live(d)' = Live(d) /\ flags'[d] = flags[d]
    BY <1>12 DEF TypeOK, Create, Live
  <2>2. flags'[r].zanyat
    BY <1>12 DEF TypeOK, Create
  <2>3. UNCHANGED <<pool, victim>>
    BY <1>12 DEF Create
  <2>4. \A q \in Requests, d \in Requests : InHand(q, d)' = InHand(q, d)
    BY <1>12 DEF TypeOK, InHand, Create, Goto
  <2>. QED
    BY <2>1, <2>2, <2>3, <2>4 DEF IdleInv
<1>13. ASSUME NEW r \in Requests, FinishRequest(r)
      PROVE  IdleInv'
  <2>1. \A d \in Requests : Live(d)' => Live(d) /\ flags'[d].zanyat = flags[d].zanyat
    BY <1>13, PoolAssumption DEF TypeOK, PlaceInv, MaybeConn, Live, PoolCloseConn,
       FinishRequest, connVars
  <2>2. UNCHANGED pool
    BY <1>13 DEF FinishRequest
  <2>3. \A d \in Requests : Live(d)' => \A q \in Requests :
          (victim[q] = d => victim'[q] = d) /\ (InHand(q, d) => InHand(q, d)')
    BY <1>13, PoolAssumption DEF TypeOK, PlaceInv, MaybeConn, InHand, FinishRequest, Goto,
       Live, PoolCloseConn, scanVars
  <2>. QED
    BY <2>1, <2>2, <2>3 DEF IdleInv
<1>14. ASSUME NEW r \in Requests, StampReturn(r)
      PROVE  IdleInv'
  <2>1. \A d \in Requests : Live(d)' => Live(d) /\ flags'[d].zanyat = flags[d].zanyat
    BY <1>14, PoolAssumption DEF TypeOK, PlaceInv, MaybeConn, Live, PoolCloseConn,
       StampReturn, connVars
  <2>2. UNCHANGED pool
    BY <1>14 DEF StampReturn
  <2>3. \A d \in Requests : Live(d)' => \A q \in Requests :
          (victim[q] = d => victim'[q] = d) /\ (InHand(q, d) => InHand(q, d)')
    BY <1>14, PoolAssumption DEF TypeOK, PlaceInv, MaybeConn, InHand, StampReturn, Goto,
       Live, PoolCloseConn, scanVars
  <2>. QED
    BY <2>1, <2>2, <2>3 DEF IdleInv
<1>15. ASSUME NEW r \in Requests, ClearBusy(r)
      PROVE  IdleInv'
  <2>1. \A d \in Requests : Live(d)' = Live(d)
    BY <1>15 DEF ClearBusy, Live
  <2>2. \A d \in Requests : d # conn[r] => flags'[d] = flags[d]
    BY <1>15 DEF TypeOK, ClearBusy, SetFlags
  <2>3. /\ \A d \in Requests : conn[r] = d => InHand(r, d)'
        /\ \A d \in Requests : ~InHand(r, d)
    BY <1>15 DEF TypeOK, InHand, ClearBusy, Goto, scanVars
  <2>4. UNCHANGED <<pool, victim>>
    BY <1>15 DEF ClearBusy, scanVars
  <2>5. \A q \in Requests \ {r}, d \in Requests : InHand(q, d)' = InHand(q, d)
    BY <1>15 DEF TypeOK, InHand, ClearBusy, Goto, scanVars
  <2>. QED
    BY <2>1, <2>2, <2>3, <2>4, <2>5 DEF IdleInv
<1>16. ASSUME NEW r \in Requests, CheckDead(r)
      PROVE  IdleInv'
  <2>1. \A d \in Requests : Live(d)' => Live(d) /\ flags'[d].zanyat = flags[d].zanyat
    BY <1>16, PoolAssumption DEF TypeOK, PlaceInv, MaybeConn, Live, PoolCloseConn,
       CheckDead, connVars
  <2>2. UNCHANGED pool
    BY <1>16 DEF CheckDead
  <2>3. \A d \in Requests : Live(d)' => \A q \in Requests :
          (victim[q] = d => victim'[q] = d) /\ (InHand(q, d) => InHand(q, d)')
    BY <1>16, PoolAssumption DEF TypeOK, PlaceInv, MaybeConn, InHand, CheckDead, Goto,
       Live, PoolCloseConn, scanVars
  <2>. QED
    BY <2>1, <2>2, <2>3 DEF IdleInv
<1>17. ASSUME NEW r \in Requests, RemoveDead(r)
      PROVE  IdleInv'
  <2>1. UNCHANGED <<memory, flags, victim>>
    BY <1>17 DEF RemoveDead, connVars, scanVars
  <2>2. \A s \in Slots : pool'[s] = IF pool[s] = conn[r] THEN None ELSE pool[s]
    BY <1>17 DEF RemoveDead
  <2>3. \A q, d \in Requests : InHand(q, d)' = InHand(q, d)
    BY <1>17 DEF TypeOK, InHand, RemoveDead, Goto, scanVars
  <2>4. \A d \in Requests : conn[r] = d => InHand(r, d)
    BY <1>17 DEF InHand, RemoveDead
  <2>5. ASSUME NEW d \in Requests, Live(d)', ~flags'[d].zanyat
        PROVE  \/ \E s \in Slots : pool'[s] = d
               \/ \E q \in Requests : victim'[q] = d \/ InHand(q, d)'
    BY <2>1, <2>2, <2>3, <2>4, <2>5 DEF IdleInv, Live
  <2>6. \A s1, s2 \in Slots : s1 # s2 /\ pool'[s1] # None => pool'[s1] # pool'[s2]
    BY <2>2 DEF IdleInv
  <2>. QED
    BY <2>5, <2>6 DEF IdleInv
<1>18. ASSUME NEW r \in Requests, Keep(r)
      PROVE  IdleInv'
  <2>1. UNCHANGED <<memory, flags, victim, pool>>
    BY <1>18 DEF Keep, connVars, scanVars
  <2>2. \A q \in Requests, d \in Requests : d # conn[r] => InHand(q, d)' = InHand(q, d)
    BY <1>18 DEF TypeOK, InHand, Keep, Goto, scanVars
  <2>3. \E s \in Slots : pool[s] = conn[r]
    BY <1>18 DEF Keep
  <2>. QED
    BY <2>1, <2>2, <2>3 DEF IdleInv, Live
<1>19. ASSUME NEW r \in Requests, Store(r)
      PROVE  IdleInv'
  <2>1. UNCHANGED <<memory, flags, victim>>
    BY <1>19 DEF Store, connVars, scanVars
  <2>2. \A q \in Requests, d \in Requests : d # conn[r] => InHand(q, d)' = InHand(q, d)
    BY <1>19 DEF TypeOK, InHand, Store, Goto, scanVars
  <2>3. PICK s \in Slots : pool[s] = None /\ pool' = [pool EXCEPT ![s] = conn[r]]
    BY <1>19 DEF Store
  <2>4. \A t \in Slots : pool[t] # conn[r]
    BY <1>19 DEF Store
  <2>5. pool'[s] = conn[r] /\ \A t \in Slots \ {s} : pool'[t] = pool[t]
    BY <2>3 DEF TypeOK
  <2>6. ASSUME NEW d \in Requests, Live(d)', ~flags'[d].zanyat
        PROVE  \/ \E t \in Slots : pool'[t] = d
               \/ \E q \in Requests : victim'[q] = d \/ InHand(q, d)'
    BY <2>1, <2>2, <2>3, <2>5, <2>6, PoolAssumption DEF IdleInv, Live
  <2>7. \A s1, s2 \in Slots : s1 # s2 /\ pool'[s1] # None => pool'[s1] # pool'[s2]
    BY <2>4, <2>5 DEF IdleInv
  <2>. QED
    BY <2>6, <2>7 DEF IdleInv
<1>20. ASSUME NEW r \in Requests, Overflow(r)
      PROVE  IdleInv'
  <2>1. \A d \in Requests : Live(d)' => Live(d) /\ flags'[d].zanyat = flags[d].zanyat
    BY <1>20, PoolAssumption DEF TypeOK, PlaceInv, MaybeConn, Live, PoolCloseConn,
       Overflow, connVars
  <2>2. UNCHANGED pool
    BY <1>20 DEF Overflow
  <2>3. \A d \in Requests : Live(d)' => \A q \in Requests :
          (victim[q] = d => victim'[q] = d) /\ (InHand(q, d) => InHand(q, d)')
    BY <1>20, PoolAssumption DEF TypeOK, PlaceInv, MaybeConn, InHand, Overflow, Goto, Live,
       PoolCloseConn, scanVars
  <2>. QED
    BY <2>1, <2>2, <2>3 DEF IdleInv
<1>21. ASSUME NEW r \in Requests, CloseReturned(r)
      PROVE  IdleInv'
  <2>1. \A d \in Requests : Live(d)' => Live(d) /\ flags'[d].zanyat = flags[d].zanyat
    BY <1>21, PoolAssumption DEF TypeOK, PlaceInv, MaybeConn, Live, PoolCloseConn,
       CloseReturned, connVars
  <2>2. UNCHANGED pool
    BY <1>21 DEF CloseReturned
  <2>3. \A d \in Requests : Live(d)' => \A q \in Requests :
          (victim[q] = d => victim'[q] = d) /\ (InHand(q, d) => InHand(q, d)')
    BY <1>21, PoolAssumption DEF TypeOK, PlaceInv, MaybeConn, InHand, CloseReturned, Goto,
       Live, PoolCloseConn, scanVars
  <2>. QED
    BY <2>1, <2>2, <2>3 DEF IdleInv
<1>22. ASSUME NEW c \in Requests, Connected(c)
      PROVE  IdleInv'
  <2>1. \A d \in Requests : Live(d)' => Live(d) /\ flags'[d].zanyat = flags[d].zanyat
    BY <1>22, PoolAssumption DEF TypeOK, PlaceInv, MaybeConn, Live, PoolCloseConn,
       Connected, connVars
  <2>2. UNCHANGED pool
    BY <1>22 DEF Connected
  <2>3. \A d \in Requests : Live(d)' => \A q \in Requests :
          (victim[q] = d => victim'[q] = d) /\ (InHand(q, d) => InHand(q, d)')
    BY <1>22, PoolAssumption DEF TypeOK, PlaceInv, MaybeConn, InHand, Connected, Goto,
       Live, PoolCloseConn, scanVars
  <2>. QED
    BY <2>1, <2>2, <2>3 DEF IdleInv
<1>23. ASSUME NEW c \in Requests, Shutdown(c)
      PROVE  IdleInv'
  <2>1. \A d \in Requests : Live(d)' => Live(d) /\ flags'[d].zanyat = flags[d].zanyat
    BY <1>23, PoolAssumption DEF TypeOK, PlaceInv, MaybeConn, Live, PoolCloseConn,
       Shutdown, connVars
  <2>2. UNCHANGED pool
    BY <1>23 DEF Shutdown
  <2>3. \A d \in Requests : Live(d)' => \A q \in Requests :
          (victim[q] = d => victim'[q] = d) /\ (InHand(q, d) => InHand(q, d)')
    BY <1>23, PoolAssumption DEF TypeOK, PlaceInv, MaybeConn, InHand, Shutdown, Goto, Live,
       PoolCloseConn, scanVars
  <2>. QED
    BY <2>1, <2>2, <2>3 DEF IdleInv
<1>24. CASE SetPins
  <2>1. \A d \in Requests : Live(d)' => Live(d) /\ flags'[d].zanyat = flags[d].zanyat
    BY <1>24, PoolAssumption DEF TypeOK, PlaceInv, MaybeConn, Live, PoolCloseConn, SetPins,
       connVars
  <2>2. UNCHANGED pool
    BY <1>24 DEF SetPins
  <2>3. \A d \in Requests : Live(d)' => \A q \in Requests :
          (victim[q] = d => victim'[q] = d) /\ (InHand(q, d) => InHand(q, d)')
    BY <1>24, PoolAssumption DEF TypeOK, PlaceInv, MaybeConn, InHand, SetPins, Goto, Live,
       PoolCloseConn, scanVars
  <2>. QED
    BY <2>1, <2>2, <2>3 DEF IdleInv
<1>25. CASE Tick
  <2>1. \A d \in Requests : Live(d)' => Live(d) /\ flags'[d].zanyat = flags[d].zanyat
    BY <1>25, PoolAssumption DEF TypeOK, PlaceInv, MaybeConn, Live, PoolCloseConn, Tick,
       connVars
  <2>2. UNCHANGED pool
    BY <1>25 DEF Tick
  <2>3. \A d \in Requests : Live(d)' => \A q \in Requests :
          (victim[q] = d => victim'[q] = d) /\ (InHand(q, d) => InHand(q, d)')
    BY <1>25, PoolAssumption DEF TypeOK, PlaceInv, MaybeConn, InHand, Tick, Goto, Live,
       PoolCloseConn, scanVars
  <2>. QED
    BY <2>1, <2>2, <2>3 DEF IdleInv
<1>26. CASE UNCHANGED vars
  BY <1>26 DEF IdleInv, InHand, Live, vars, scanVars, connVars, envVars
<1>. QED
  BY <1>1, <1>2, <1>3, <1>4, <1>5, <1>6, <1>7, <1>8, <1>9, <1>10, <1>11, <1>12, <1>13,
     <1>14, <1>15, <1>16, <1>17, <1>18, <1>19, <1>20, <1>21, <1>22, <1>23, <1>24, <1>25,
     <1>26, Actions

\* No action takes back what SeeWorn saw, but by returning the connection.
LEMMA WornStep ==
  ASSUME TypeOK, PlaceInv, KnownInv, WornInv, [Next]_vars
  PROVE  WornInv'
<1>1. ASSUME NEW r \in Requests, ReadClock(r)
      PROVE  WornInv'
  <2>1. /\ teper'[r] = tick /\ pc'[r] = "lock"
        /\ \A q \in Requests \ {r} : teper'[q] = teper[q]
    BY <1>1 DEF TypeOK, ReadClock, Goto
  <2>2. UNCHANGED <<tick, generation, memory, flags, poslednee, pokolenie>>
    BY <1>1 DEF ReadClock, envVars, connVars
  <2>3. \A q \in Requests : pc'[q] = "busy" =>
          pc[q] = "busy" /\ idx'[q] = idx[q] /\ pool'[idx[q]] = pool[idx[q]]
    BY <1>1, PoolAssumption DEF TypeOK, PlaceInv, ReadClock, Goto, NextSlot, scanVars
  <2>5. tick \in Nat /\ generation \in Nat /\ \A q \in Requests :
          teper[q] \in Nat /\ poslednee[q] \in Nat /\ pokolenie[q] \in Nat
    BY PoolAssumption DEF TypeOK
  <2>. QED
    BY <2>1, <2>2, <2>3, <2>5, BusyConn DEF WornInv, WornSeen, Live
<1>2. ASSUME NEW r \in Requests, Lock(r)
      PROVE  WornInv'
  <2>1. \A q \in Requests : teper'[q] = teper[q]
    BY <1>2 DEF Lock, scanVars
  <2>2. UNCHANGED <<tick, generation>>
    BY <1>2 DEF Lock, envVars
  <2>3. \A q \in Requests : pc'[q] = "busy" =>
          pc[q] = "busy" /\ idx'[q] = idx[q] /\ pool'[idx[q]] = pool[idx[q]]
    BY <1>2, PoolAssumption DEF TypeOK, PlaceInv, Lock, Goto, NextSlot, scanVars
  <2>4. \A d \in Requests :
          /\ poslednee'[d] = poslednee[d] /\ pokolenie'[d] = pokolenie[d]
          /\ Live(d)' => Live(d)
          /\ flags[d].mertvo => flags'[d].mertvo
    BY <1>2, PoolAssumption DEF TypeOK, PlaceInv, MaybeConn, Lock, PoolCloseConn, SetFlags,
       Live, connVars
  <2>. QED
    BY <2>1, <2>2, <2>3, <2>4, BusyConn DEF WornInv, WornSeen
<1>3. ASSUME NEW r \in Requests, SkipEmpty(r)
      PROVE  WornInv'
  <2>1. \A q \in Requests : teper'[q] = teper[q]
    BY <1>3 DEF SkipEmpty, scanVars
  <2>2. UNCHANGED <<tick, generation>>
    BY <1>3 DEF SkipEmpty, envVars
  <2>3. \A q \in Requests : pc'[q] = "busy" =>
          pc[q] = "busy" /\ idx'[q] = idx[q] /\ pool'[idx[q]] = pool[idx[q]]
    BY <1>3, PoolAssumption DEF TypeOK, PlaceInv, SkipEmpty, Goto, NextSlot, scanVars
  <2>4. \A d \in Requests :
          /\ poslednee'[d] = poslednee[d] /\ pokolenie'[d] = pokolenie[d]
          /\ Live(d)' => Live(d)
          /\ flags[d].mertvo => flags'[d].mertvo
    BY <1>3, PoolAssumption DEF TypeOK, PlaceInv, MaybeConn, SkipEmpty, PoolCloseConn,
       SetFlags, Live, connVars
  <2>. QED
    BY <2>1, <2>2, <2>3, <2>4, BusyConn DEF WornInv, WornSeen
<1>4. ASSUME NEW r \in Requests, SeeWorn(r)
      PROVE  WornInv'
  <2>1. UNCHANGED <<teper, idx, pool, tick, generation, memory, flags, poslednee, pokolenie>>
    BY <1>4 DEF SeeWorn, envVars, connVars, scanVars
  <2>0. idx[r] \in Slots
    BY <1>4, PoolAssumption DEF SeeWorn, TypeOK, Slots
  <2>2. PICK c \in Requests : c = pool[idx[r]] /\ TRUE \in Reads(c, Worn(r, c))
    BY <1>4, <2>0 DEF SeeWorn, TypeOK, MaybeConn
  <2>3. \A q \in Requests \ {r} : pc'[q] = pc[q]
    BY <1>4 DEF TypeOK, SeeWorn, Goto
  <2>4. WornSeen(r, c)
    BY <2>2, WornIsSeen
  <2>5. \A q \in Requests : pc'[q] = "busy" => WornSeen(q, pool[idx[q]])
    BY <2>2, <2>3, <2>4 DEF WornInv
  <2>. QED
    BY <2>1, <2>5 DEF WornInv, WornSeen, Live
<1>5. ASSUME NEW r \in Requests, Evict(r)
      PROVE  WornInv'
  <2>1. \A q \in Requests : teper'[q] = teper[q]
    BY <1>5 DEF Evict, scanVars
  <2>2. UNCHANGED <<tick, generation>>
    BY <1>5 DEF Evict, envVars
  <2>3. \A q \in Requests : pc'[q] = "busy" =>
          pc[q] = "busy" /\ idx'[q] = idx[q] /\ pool'[idx[q]] = pool[idx[q]]
    BY <1>5, PoolAssumption DEF TypeOK, PlaceInv, Evict, Goto, NextSlot, scanVars
  <2>4. \A d \in Requests :
          /\ poslednee'[d] = poslednee[d] /\ pokolenie'[d] = pokolenie[d]
          /\ Live(d)' => Live(d)
          /\ flags[d].mertvo => flags'[d].mertvo
    BY <1>5, PoolAssumption DEF TypeOK, PlaceInv, MaybeConn, Evict, PoolCloseConn,
       SetFlags, Live, connVars
  <2>. QED
    BY <2>1, <2>2, <2>3, <2>4, BusyConn DEF WornInv, WornSeen
<1>6. ASSUME NEW r \in Requests, Leave(r)
      PROVE  WornInv'
  <2>1. \A q \in Requests : teper'[q] = teper[q]
    BY <1>6 DEF Leave, scanVars
  <2>2. UNCHANGED <<tick, generation>>
    BY <1>6 DEF Leave, envVars
  <2>3. \A q \in Requests : pc'[q] = "busy" =>
          pc[q] = "busy" /\ idx'[q] = idx[q] /\ pool'[idx[q]] = pool[idx[q]]
    BY <1>6, PoolAssumption DEF TypeOK, PlaceInv, Leave, Goto, NextSlot, scanVars
  <2>4. \A d \in Requests :
          /\ poslednee'[d] = poslednee[d] /\ pokolenie'[d] = pokolenie[d]
          /\ Live(d)' => Live(d)
          /\ flags[d].mertvo => flags'[d].mertvo
    BY <1>6, PoolAssumption DEF TypeOK, PlaceInv, MaybeConn, Leave, PoolCloseConn,
       SetFlags, Live, connVars
  <2>. QED
    BY <2>1, <2>2, <2>3, <2>4, BusyConn DEF WornInv, WornSeen
<1>7. ASSUME NEW r \in Requests, Take(r)
      PROVE  WornInv'
  <2>1. UNCHANGED <<teper, pc, tick, generation, pokolenie>>
    BY <1>7 DEF Take, envVars
  <2>2. \A q \in Requests : pc[q] # "busy"
    BY <1>7, PoolAssumption DEF Take, PlaceInv
  <2>3. \A d \in Requests : poslednee'[d] = poslednee[d] \/ poslednee'[d] = teper[r]
    BY <1>7 DEF TypeOK, Take
  <2>. QED
    BY <2>1, <2>2, <2>3 DEF WornInv
<1>8. ASSUME NEW r \in Requests, Pass(r)
      PROVE  WornInv'
  <2>1. \A q \in Requests : teper'[q] = teper[q]
    BY <1>8 DEF Pass, scanVars
  <2>2. UNCHANGED <<tick, generation>>
    BY <1>8 DEF Pass, envVars
  <2>3. \A q \in Requests : pc'[q] = "busy" =>
          pc[q] = "busy" /\ idx'[q] = idx[q] /\ pool'[idx[q]] = pool[idx[q]]
    BY <1>8, PoolAssumption DEF TypeOK, PlaceInv, Pass, Goto, NextSlot, scanVars
  <2>4. \A d \in Requests :
          /\ poslednee'[d] = poslednee[d] /\ pokolenie'[d] = pokolenie[d]
          /\ Live(d)' => Live(d)
          /\ flags[d].mertvo => flags'[d].mertvo
    BY <1>8, PoolAssumption DEF TypeOK, PlaceInv, MaybeConn, Pass, PoolCloseConn, SetFlags,
       Live, connVars
  <2>. QED
    BY <2>1, <2>2, <2>3, <2>4, BusyConn DEF WornInv, WornSeen
<1>9. ASSUME NEW r \in Requests, CloseVictim(r)
      PROVE  WornInv'
  <2>1. \A q \in Requests : teper'[q] = teper[q]
    BY <1>9 DEF CloseVictim, scanVars
  <2>2. UNCHANGED <<tick, generation>>
    BY <1>9 DEF CloseVictim, envVars
  <2>3. \A q \in Requests : pc'[q] = "busy" =>
          pc[q] = "busy" /\ idx'[q] = idx[q] /\ pool'[idx[q]] = pool[idx[q]]
    BY <1>9, PoolAssumption DEF TypeOK, PlaceInv, CloseVictim, Goto, NextSlot, scanVars
  <2>4. \A d \in Requests :
          /\ poslednee'[d] = poslednee[d] /\ pokolenie'[d] = pokolenie[d]
          /\ Live(d)' => Live(d)
          /\ flags[d].mertvo => flags'[d].mertvo
    BY <1>9, PoolAssumption DEF TypeOK, PlaceInv, MaybeConn, CloseVictim, PoolCloseConn,
       SetFlags, Live, connVars
  <2>. QED
    BY <2>1, <2>2, <2>3, <2>4, BusyConn DEF WornInv, WornSeen
<1>10. ASSUME NEW r \in Requests, Relock(r)
      PROVE  WornInv'
  <2>1. \A q \in Requests : teper'[q] = teper[q]
    BY <1>10 DEF Relock, scanVars
  <2>2. UNCHANGED <<tick, generation>>
    BY <1>10 DEF Relock, envVars
  <2>3. \A q \in Requests : pc'[q] = "busy" =>
          pc[q] = "busy" /\ idx'[q] = idx[q] /\ pool'[idx[q]] = pool[idx[q]]
    BY <1>10, PoolAssumption DEF TypeOK, PlaceInv, Relock, Goto, NextSlot, scanVars
  <2>4. \A d \in Requests :
          /\ poslednee'[d] = poslednee[d] /\ pokolenie'[d] = pokolenie[d]
          /\ Live(d)' => Live(d)
          /\ flags[d].mertvo => flags'[d].mertvo
    BY <1>10, PoolAssumption DEF TypeOK, PlaceInv, MaybeConn, Relock, PoolCloseConn,
       SetFlags, Live, connVars
  <2>. QED
    BY <2>1, <2>2, <2>3, <2>4, BusyConn DEF WornInv, WornSeen
<1>11. ASSUME NEW r \in Requests, EndScan(r)
      PROVE  WornInv'
  <2>1. \A q \in Requests : teper'[q] = teper[q]
    BY <1>11 DEF EndScan, scanVars
  <2>2. UNCHANGED <<tick, generation>>
    BY <1>11 DEF EndScan, envVars
  <2>3. \A q \in Requests : pc'[q] = "busy" =>
          pc[q] = "busy" /\ idx'[q] = idx[q] /\ pool'[idx[q]] = pool[idx[q]]
    BY <1>11, PoolAssumption DEF TypeOK, PlaceInv, EndScan, Goto, NextSlot, scanVars
  <2>4. \A d \in Requests :
          /\ poslednee'[d] = poslednee[d] /\ pokolenie'[d] = pokolenie[d]
          /\ Live(d)' => Live(d)
          /\ flags[d].mertvo => flags'[d].mertvo
    BY <1>11, PoolAssumption DEF TypeOK, PlaceInv, MaybeConn, EndScan, PoolCloseConn,
       SetFlags, Live, connVars
  <2>. QED
    BY <2>1, <2>2, <2>3, <2>4, BusyConn DEF WornInv, WornSeen
<1>12. ASSUME NEW r \in Requests, Create(r)
      PROVE  WornInv'
  <2>1. UNCHANGED <<teper, idx, pool, tick, generation>>
    BY <1>12 DEF Create, envVars
  <2>2. \A q \in Requests : pc'[q] = "busy" => pc[q] = "busy"
    BY <1>12 DEF TypeOK, Create, Goto
  <2>3. \A s \in Slots : pool[s] # r
    BY <1>12 DEF PlaceInv, KnownInv, Create
  <2>4. \A d \in Requests \ {r} :
          /\ poslednee'[d] = poslednee[d] /\ pokolenie'[d] = pokolenie[d]
          /\ Live(d)' = Live(d) /\ flags'[d] = flags[d]
    BY <1>12 DEF TypeOK, Create, Live
  <2>5. tick \in Nat /\ generation \in Nat /\ \A q \in Requests :
          teper[q] \in Nat /\ poslednee[q] \in Nat /\ pokolenie[q] \in Nat
    BY PoolAssumption DEF TypeOK
  <2>6. poslednee'[r] = tick /\ pokolenie'[r] = generation
    BY <1>12 DEF TypeOK, Create
  <2>7. \A q \in Requests : pc'[q] = "busy" => WornSeen(q, pool[idx[q]])'
    BY <2>1, <2>2, <2>3, <2>4, BusyConn DEF WornInv, WornSeen
  <2>. QED
    BY <2>1, <2>4, <2>5, <2>6, <2>7 DEF WornInv
<1>13. ASSUME NEW r \in Requests, FinishRequest(r)
      PROVE  WornInv'
  <2>1. \A q \in Requests : teper'[q] = teper[q]
    BY <1>13 DEF FinishRequest, scanVars
  <2>2. UNCHANGED <<tick, generation>>
    BY <1>13 DEF FinishRequest, envVars
  <2>3. \A q \in Requests : pc'[q] = "busy" =>
          pc[q] = "busy" /\ idx'[q] = idx[q] /\ pool'[idx[q]] = pool[idx[q]]
    BY <1>13, PoolAssumption DEF TypeOK, PlaceInv, FinishRequest, Goto, NextSlot, scanVars
  <2>4. \A d \in Requests :
          /\ poslednee'[d] = poslednee[d] /\ pokolenie'[d] = pokolenie[d]
          /\ Live(d)' => Live(d)
          /\ flags[d].mertvo => flags'[d].mertvo
    BY <1>13, PoolAssumption DEF TypeOK, PlaceInv, MaybeConn, FinishRequest, PoolCloseConn,
       SetFlags, Live, connVars
  <2>. QED
    BY <2>1, <2>2, <2>3, <2>4, BusyConn DEF WornInv, WornSeen
<1>14. ASSUME NEW r \in Requests, StampReturn(r)
      PROVE  WornInv'
  <2>1. UNCHANGED <<teper, idx, pool, tick, generation, memory, flags, pokolenie>>
    BY <1>14 DEF StampReturn, envVars, scanVars
  <2>2. \A q \in Requests : pc'[q] = "busy" => pc[q] = "busy"
    BY <1>14 DEF TypeOK, StampReturn, Goto
  <2>3. \A d \in Requests : poslednee'[d] = poslednee[d] \/ poslednee'[d] = tick
    BY <1>14 DEF TypeOK, StampReturn
  <2>5. tick \in Nat /\ generation \in Nat /\ \A q \in Requests :
          teper[q] \in Nat /\ poslednee[q] \in Nat /\ pokolenie[q] \in Nat
    BY PoolAssumption DEF TypeOK
  <2>. QED
    BY <2>1, <2>2, <2>3, <2>5, BusyConn DEF WornInv, WornSeen, Live
<1>15. ASSUME NEW r \in Requests, ClearBusy(r)
      PROVE  WornInv'
  <2>1. \A q \in Requests : teper'[q] = teper[q]
    BY <1>15 DEF ClearBusy, scanVars
  <2>2. UNCHANGED <<tick, generation>>
    BY <1>15 DEF ClearBusy, envVars
  <2>3. \A q \in Requests : pc'[q] = "busy" =>
          pc[q] = "busy" /\ idx'[q] = idx[q] /\ pool'[idx[q]] = pool[idx[q]]
    BY <1>15, PoolAssumption DEF TypeOK, PlaceInv, ClearBusy, Goto, NextSlot, scanVars
  <2>4. \A d \in Requests :
          /\ poslednee'[d] = poslednee[d] /\ pokolenie'[d] = pokolenie[d]
          /\ Live(d)' => Live(d)
          /\ flags[d].mertvo => flags'[d].mertvo
    BY <1>15, PoolAssumption DEF TypeOK, PlaceInv, MaybeConn, ClearBusy, PoolCloseConn,
       SetFlags, Live, connVars
  <2>. QED
    BY <2>1, <2>2, <2>3, <2>4, BusyConn DEF WornInv, WornSeen
<1>16. ASSUME NEW r \in Requests, CheckDead(r)
      PROVE  WornInv'
  <2>1. \A q \in Requests : teper'[q] = teper[q]
    BY <1>16 DEF CheckDead, scanVars
  <2>2. UNCHANGED <<tick, generation>>
    BY <1>16 DEF CheckDead, envVars
  <2>3. \A q \in Requests : pc'[q] = "busy" =>
          pc[q] = "busy" /\ idx'[q] = idx[q] /\ pool'[idx[q]] = pool[idx[q]]
    BY <1>16, PoolAssumption DEF TypeOK, PlaceInv, CheckDead, Goto, NextSlot, scanVars
  <2>4. \A d \in Requests :
          /\ poslednee'[d] = poslednee[d] /\ pokolenie'[d] = pokolenie[d]
          /\ Live(d)' => Live(d)
          /\ flags[d].mertvo => flags'[d].mertvo
    BY <1>16, PoolAssumption DEF TypeOK, PlaceInv, MaybeConn, CheckDead, PoolCloseConn,
       SetFlags, Live, connVars
  <2>. QED
    BY <2>1, <2>2, <2>3, <2>4, BusyConn DEF WornInv, WornSeen
<1>17. ASSUME NEW r \in Requests, RemoveDead(r)
      PROVE  WornInv'
  <2>1. \A q \in Requests : teper'[q] = teper[q]
    BY <1>17 DEF RemoveDead, scanVars
  <2>2. UNCHANGED <<tick, generation>>
    BY <1>17 DEF RemoveDead, envVars
  <2>3. \A q \in Requests : pc'[q] = "busy" =>
          pc[q] = "busy" /\ idx'[q] = idx[q] /\ pool'[idx[q]] = pool[idx[q]]
    BY <1>17, PoolAssumption DEF TypeOK, PlaceInv, RemoveDead, Goto, NextSlot, scanVars
  <2>4. \A d \in Requests :
          /\ poslednee'[d] = poslednee[d] /\ pokolenie'[d] = pokolenie[d]
          /\ Live(d)' => Live(d)
          /\ flags[d].mertvo => flags'[d].mertvo
    BY <1>17, PoolAssumption DEF TypeOK, PlaceInv, MaybeConn, RemoveDead, PoolCloseConn,
       SetFlags, Live, connVars
  <2>. QED
    BY <2>1, <2>2, <2>3, <2>4, BusyConn DEF WornInv, WornSeen
<1>18. ASSUME NEW r \in Requests, Keep(r)
      PROVE  WornInv'
  <2>1. \A q \in Requests : teper'[q] = teper[q]
    BY <1>18 DEF Keep, scanVars
  <2>2. UNCHANGED <<tick, generation>>
    BY <1>18 DEF Keep, envVars
  <2>3. \A q \in Requests : pc'[q] = "busy" =>
          pc[q] = "busy" /\ idx'[q] = idx[q] /\ pool'[idx[q]] = pool[idx[q]]
    BY <1>18, PoolAssumption DEF TypeOK, PlaceInv, Keep, Goto, NextSlot, scanVars
  <2>4. \A d \in Requests :
          /\ poslednee'[d] = poslednee[d] /\ pokolenie'[d] = pokolenie[d]
          /\ Live(d)' => Live(d)
          /\ flags[d].mertvo => flags'[d].mertvo
    BY <1>18, PoolAssumption DEF TypeOK, PlaceInv, MaybeConn, Keep, PoolCloseConn,
       SetFlags, Live, connVars
  <2>. QED
    BY <2>1, <2>2, <2>3, <2>4, BusyConn DEF WornInv, WornSeen
<1>19. ASSUME NEW r \in Requests, Store(r)
      PROVE  WornInv'
  <2>1. \A q \in Requests : teper'[q] = teper[q]
    BY <1>19 DEF Store, scanVars
  <2>2. UNCHANGED <<tick, generation>>
    BY <1>19 DEF Store, envVars
  <2>3. \A q \in Requests : pc'[q] = "busy" =>
          pc[q] = "busy" /\ idx'[q] = idx[q] /\ pool'[idx[q]] = pool[idx[q]]
    BY <1>19, PoolAssumption DEF TypeOK, PlaceInv, Store, Goto, NextSlot, scanVars
  <2>4. \A d \in Requests :
          /\ poslednee'[d] = poslednee[d] /\ pokolenie'[d] = pokolenie[d]
          /\ Live(d)' => Live(d)
          /\ flags[d].mertvo => flags'[d].mertvo
    BY <1>19, PoolAssumption DEF TypeOK, PlaceInv, MaybeConn, Store, PoolCloseConn,
       SetFlags, Live, connVars
  <2>. QED
    BY <2>1, <2>2, <2>3, <2>4, BusyConn DEF WornInv, WornSeen
<1>20. ASSUME NEW r \in Requests, Overflow(r)
      PROVE  WornInv'
  <2>1. \A q \in Requests : teper'[q] = teper[q]
    BY <1>20 DEF Overflow, scanVars
  <2>2. UNCHANGED <<tick, generation>>
    BY <1>20 DEF Overflow, envVars
  <2>3. \A q \in Requests : pc'[q] = "busy" =>
          pc[q] = "busy" /\ idx'[q] = idx[q] /\ pool'[idx[q]] = pool[idx[q]]
    BY <1>20, PoolAssumption DEF TypeOK, PlaceInv, Overflow, Goto, NextSlot, scanVars
  <2>4. \A d \in Requests :
          /\ poslednee'[d] = poslednee[d] /\ pokolenie'[d] = pokolenie[d]
          /\ Live(d)' => Live(d)
          /\ flags[d].mertvo => flags'[d].mertvo
    BY <1>20, PoolAssumption DEF TypeOK, PlaceInv, MaybeConn, Overflow, PoolCloseConn,
       SetFlags, Live, connVars
  <2>. QED
    BY <2>1, <2>2, <2>3, <2>4, BusyConn DEF WornInv, WornSeen
<1>21. ASSUME NEW r \in Requests, CloseReturned(r)
      PROVE  WornInv'
  <2>1. \A q \in Requests : teper'[q] = teper[q]
    BY <1>21 DEF CloseReturned, scanVars
  <2>2. UNCHANGED <<tick, generation>>
    BY <1>21 DEF CloseReturned, envVars
  <2>3. \A q \in Requests : pc'[q] = "busy" =>
          pc[q] = "busy" /\ idx'[q] = idx[q] /\ pool'[idx[q]] = pool[idx[q]]
    BY <1>21, PoolAssumption DEF TypeOK, PlaceInv, CloseReturned, Goto, NextSlot, scanVars
  <2>4. \A d \in Requests :
          /\ poslednee'[d] = poslednee[d] /\ pokolenie'[d] = pokolenie[d]
          /\ Live(d)' => Live(d)
          /\ flags[d].mertvo => flags'[d].mertvo
    BY <1>21, PoolAssumption DEF TypeOK, PlaceInv, MaybeConn, CloseReturned, PoolCloseConn,
       SetFlags, Live, connVars
  <2>. QED
    BY <2>1, <2>2, <2>3, <2>4, BusyConn DEF WornInv, WornSeen
<1>22. ASSUME NEW c \in Requests, Connected(c)
      PROVE  WornInv'
  <2>1. \A q \in Requests : teper'[q] = teper[q]
    BY <1>22 DEF Connected, scanVars
  <2>2. UNCHANGED <<tick, generation>>
    BY <1>22 DEF Connected, envVars
  <2>3. \A q \in Requests : pc'[q] = "busy" =>
          pc[q] = "busy" /\ idx'[q] = idx[q] /\ pool'[idx[q]] = pool[idx[q]]
    BY <1>22, PoolAssumption DEF TypeOK, PlaceInv, Connected, Goto, NextSlot, scanVars
  <2>4. \A d \in Requests :
          /\ poslednee'[d] = poslednee[d] /\ pokolenie'[d] = pokolenie[d]
          /\ Live(d)' => Live(d)
          /\ flags[d].mertvo => flags'[d].mertvo
    BY <1>22, PoolAssumption DEF TypeOK, PlaceInv, MaybeConn, Connected, PoolCloseConn,
       SetFlags, Live, connVars
  <2>. QED
    BY <2>1, <2>2, <2>3, <2>4, BusyConn DEF WornInv, WornSeen
<1>23. ASSUME NEW c \in Requests, Shutdown(c)
      PROVE  WornInv'
  <2>1. \A q \in Requests : teper'[q] = teper[q]
    BY <1>23 DEF Shutdown, scanVars
  <2>2. UNCHANGED <<tick, generation>>
    BY <1>23 DEF Shutdown, envVars
  <2>3. \A q \in Requests : pc'[q] = "busy" =>
          pc[q] = "busy" /\ idx'[q] = idx[q] /\ pool'[idx[q]] = pool[idx[q]]
    BY <1>23, PoolAssumption DEF TypeOK, PlaceInv, Shutdown, Goto, NextSlot, scanVars
  <2>4. \A d \in Requests :
          /\ poslednee'[d] = poslednee[d] /\ pokolenie'[d] = pokolenie[d]
          /\ Live(d)' => Live(d)
          /\ flags[d].mertvo => flags'[d].mertvo
    BY <1>23, PoolAssumption DEF TypeOK, PlaceInv, MaybeConn, Shutdown, PoolCloseConn,
       SetFlags, Live, connVars
  <2>. QED
    BY <2>1, <2>2, <2>3, <2>4, BusyConn DEF WornInv, WornSeen
<1>24. CASE SetPins
  <2>1. UNCHANGED <<pc, teper, idx, pool, tick, memory, flags, poslednee, pokolenie>>
    BY <1>24 DEF SetPins, connVars, scanVars
  <2>5. tick \in Nat /\ generation \in Nat /\ \A q \in Requests :
          teper[q] \in Nat /\ poslednee[q] \in Nat /\ pokolenie[q] \in Nat
    BY PoolAssumption DEF TypeOK
  <2>6. generation' = generation + 1
    BY <1>24 DEF SetPins
  <2>. QED
    BY <2>1, <2>5, <2>6, BusyConn DEF WornInv, WornSeen, Live
<1>25. CASE Tick
  <2>1. UNCHANGED <<pc, teper, idx, pool, generation, memory, flags, poslednee, pokolenie>>
    BY <1>25 DEF Tick, connVars, scanVars
  <2>5. tick \in Nat /\ generation \in Nat /\ \A q \in Requests :
          teper[q] \in Nat /\ poslednee[q] \in Nat /\ pokolenie[q] \in Nat
    BY PoolAssumption DEF TypeOK
  <2>6. tick' = tick + 1
    BY <1>25 DEF Tick
  <2>. QED
    BY <2>1, <2>5, <2>6, BusyConn, PoolAssumption DEF WornInv, WornSeen, Live
<1>26. CASE UNCHANGED vars
  BY <1>26 DEF WornInv, WornSeen, Live, vars, scanVars, connVars, envVars
<1>. QED
  BY <1>1, <1>2, <1>3, <1>4, <1>5, <1>6, <1>7, <1>8, <1>9, <1>10, <1>11, <1>12, <1>13,
     <1>14, <1>15, <1>16, <1>17, <1>18, <1>19, <1>20, <1>21, <1>22, <1>23, <1>24, <1>25,
     <1>26, Actions

\* The strengthened invariant is inductive.
LEMMA IInvStep == IInv /\ [Next]_vars => IInv'
BY TypeStep, PlaceStep, KnownStep, OwnerStep, IdleStep, WornStep DEF IInv

\* It holds when no request has begun and the pool is empty.
LEMMA IInvInit == Init => IInv
<1>1. Init => TypeOK
  BY PoolAssumption DEF Init, TypeOK, Slots, MaybeConn, Pcs
<1>2. Init => PlaceInv /\ KnownInv
  BY PoolAssumption DEF Init, PlaceInv, KnownInv, Slots
<1>3. Init => OwnerInv /\ IdleInv /\ WornInv
  BY PoolAssumption DEF Init, OwnerInv, IdleInv, WornInv, WornSeen, Live, Slots
<1>. QED
  BY <1>1, <1>2, <1>3 DEF IInv

\* The strengthened invariant holds in every reachable state of the pool.
THEOREM InductiveInvariant == Spec => []IInv
BY IInvInit, IInvStep, PTL DEF Spec

\* Type correctness of the pool.
THEOREM TypeCorrect == Spec => []TypeOK
<1>1. IInv => TypeOK
  BY DEF IInv
<1>. QED
  BY <1>1, InductiveInvariant, PTL

\* The owners PoolTake and PoolReturn know are those of the property.
LEMMA OwnersAre == \A c \in Requests : Owners(c) = {r \in Requests : Owns(r, c)}
BY DEF Owners, Owns

\* A connection that is not freed serves one request at a time, whatever PoolTake and
\* PoolReturn of other requests do meanwhile.
THEOREM OneOwner == Spec => []OneRequestPerConn
<1>1. ASSUME IInv PROVE OneRequestPerConn
  <2>1. SUFFICES ASSUME NEW c \in Requests, Live(c)
                 PROVE  Cardinality(Owners(c)) <= 1
    BY DEF OneRequestPerConn
  <2>2. \A r, q \in Owners(c) : r = q
    BY <1>1, <2>1, OwnersAre DEF IInv, OwnerInv
  <2>3. CASE Owners(c) = {}
    BY <2>3, FS_EmptySet
  <2>4. CASE Owners(c) # {}
    <3>1. PICK r \in Owners(c) : TRUE
      BY <2>4
    <3>2. Owners(c) = {r}
      BY <2>2, <3>1
    <3>. QED
      BY <3>2, FS_Singleton
  <2>. QED
    BY <2>3, <2>4
<1>. QED
  BY <1>1, InductiveInvariant, PTL

\* PoolTake and PoolReturn lose no live connection and store none twice: a busy one has
\* an owner, an idle one is in one slot or with a thread that will store or close it.
\* Of a connection that was closed it says nothing, not that it is closed but once.
THEOREM NothingLost == Spec => []NoConnLost
<1>1. ASSUME IInv PROVE NoConnLost
  <2>1. ASSUME NEW c \in Requests, Live(c), flags[c].zanyat PROVE Owners(c) # {}
    BY <1>1, <2>1, OwnersAre DEF IInv, OwnerInv
  <2>2. ASSUME NEW c \in Requests, Live(c), ~flags[c].zanyat
        PROVE  \/ c \in Range(pool)
               \/ \E r \in Requests :
                    \/ victim[r] = c
                    \/ conn[r] = c /\ pc[r] \in {"dead", "remove", "store", "close"}
    BY <1>1, <2>2 DEF IInv, IdleInv, InHand, TypeOK, Range
  <2>3. \A s1, s2 \in Slots : s1 # s2 /\ pool[s1] # None => pool[s1] # pool[s2]
    BY <1>1 DEF IInv, IdleInv
  <2>. QED
    BY <2>1, <2>2, <2>3 DEF NoConnLost
<1>. QED
  BY <1>1, InductiveInvariant, PTL

\* PoolTake evicts only a connection that is dead, bound to older pins, idle for too
\* long, or returned after the clock was read.
THEOREM WornEvicted == Spec => EvictsOnlyWorn
<1>1. ASSUME IInv, [Next]_vars, NEW r \in Requests, victim'[r] # None, victim[r] = None
      PROVE  WornSeen(r, victim'[r])
  <2>1. ASSUME NEW q \in Requests, EvictOrLeave(q)
        PROVE  WornSeen(r, victim'[r])
    <3>1. q = r
      BY <1>1, <2>1 DEF IInv, TypeOK, EvictOrLeave
    <3>2. victim'[r] = pool[idx[r]] /\ pc[r] = "busy"
      BY <1>1, <2>1, <3>1 DEF IInv, TypeOK, EvictOrLeave
    <3>. QED
      BY <1>1, <3>2 DEF IInv, WornInv
  <2>2. ASSUME NEW q \in Requests, CloseVictim(q) PROVE FALSE
    BY <1>1, <2>2 DEF IInv, TypeOK, CloseVictim
  <2>3. ASSUME UNCHANGED victim PROVE FALSE
    BY <1>1, <2>3
  <2>. QED
    BY <1>1, <2>1, <2>2, <2>3
       DEF Next, Thread, PoolTake, PoolReturn, Finished, ReadClock, Lock, SkipEmpty,
           SeeWorn, TakeOrPass, Relock, EndScan, Create, FinishRequest, StampReturn,
           ClearBusy, CheckDead, RemoveDead, StoreOrClose, CloseReturned, Connected,
           Shutdown, SetPins, Tick, vars, scanVars
<1>2. IInv /\ [Next]_vars =>
        [\A r \in Requests : victim'[r] # None /\ victim[r] = None =>
           LET c == victim'[r] IN
             \/ flags[c].mertvo \/ pokolenie[c] # generation
             \/ tick - poslednee[c] > IdleMs
             \/ poslednee[c] >= teper[r]
             \/ ~Live(c)]_vars
  BY <1>1 DEF WornSeen
<1>. QED
  BY <1>2, InductiveInvariant, PTL DEF Spec, EvictsOnlyWorn
=============================================================================
