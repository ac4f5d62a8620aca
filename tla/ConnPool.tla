------------------------------ MODULE ConnPool ------------------------------
(***************************************************************************)
(* The pool of QUIC connections in shared/SimulatorPluginLibrary.cpp:      *)
(* PoolTake, PoolReturn and PoolCloseConn as the QUIC threads of           *)
(* concurrent requests run them, with MsQuic's callbacks, the clock and    *)
(* setPins changing what they read.                                        *)
(*                                                                         *)
(* g_PoolLock protects the slots only.  The flags of a connection are      *)
(* volatile fields written with and without the lock, so every access to   *)
(* one of them by PoolReturn is a step, and so is every slot PoolTake      *)
(* looks at.  A critical section that touches nothing but the slots is     *)
(* one step.                                                               *)
(*                                                                         *)
(* A request creates at most one connection, which bears its name.  Freed  *)
(* memory is not given out again: a read of it may return anything and a   *)
(* write to it is lost.                                                    *)
(***************************************************************************)
EXTENDS Integers, FiniteSets, FiniteSetsExt, Functions

CONSTANTS
  Requests,       \* the requests; each runs Http3ThreadFunc once
  Sites,          \* host and port pairs
  None,           \* no connection, no request
  PoolSize,       \* HTTP3_POOL_SIZE
  IdleMs,         \* HTTP3_CONN_IDLE_MS, in ticks
  Word,           \* GetTickCount wraps here (2^32 ms)
  LastTick,       \* bound: the clock stops here
  LastGeneration, \* bound: calls of setPins
  MaxInFlight,    \* bound: requests running at once
  Mortal          \* whether MsQuic may shut a connection down

ASSUME PoolAssumption ==
  /\ PoolSize \in Nat \ {0} /\ IdleMs \in Nat /\ LastTick \in Nat
  /\ Word \in Nat /\ Word > LastTick /\ LastGeneration \in Nat
  /\ MaxInFlight \in Nat \ {0} /\ Mortal \in BOOLEAN
  /\ None \notin Requests

VARIABLES
  pc,          \* control point of every request's QUIC thread
  site,        \* where the request goes
  teper,       \* PoolTake: the time read before the lock
  idx,         \* PoolTake: the slot being looked at
  conn,        \* the connection the thread works on (nash, victim, c)
  victim,      \* PoolTake: the connection taken out to be closed
  pool,        \* g_Pool
  lock,        \* g_PoolLock
  memory,      \* of a connection: "none", "live" or "freed"
  flags,       \* of a connection: zanyat, gotovo, mertvo
  poslednee,   \* of a connection: when it was last taken or returned
  pokolenie,   \* of a connection: pin_pokolenie
  tick,        \* GetTickCount
  generation   \* g_PinyPokolenie

connVars == <<memory, flags, poslednee, pokolenie>>
scanVars == <<teper, idx, conn, victim>>
envVars == <<tick, generation>>
vars == <<pc, site, scanVars, pool, lock, connVars, envVars>>

Slots == 1 .. PoolSize
MaybeConn == Requests \cup {None}

Pcs == {"begin", "lock", "scan", "busy", "evict", "relock", "create", "using",
        "stamp", "unbusy", "dead", "remove", "store", "close", "done"}

TypeOK ==
  /\ pc \in [Requests -> Pcs] /\ site \in [Requests -> Sites]
  /\ teper \in [Requests -> 0 .. LastTick]
  /\ idx \in [Requests -> 1 .. PoolSize + 1]
  /\ conn \in [Requests -> MaybeConn] /\ victim \in [Requests -> MaybeConn]
  /\ pool \in [Slots -> MaybeConn] /\ lock \in MaybeConn
  /\ memory \in [Requests -> {"none", "live", "freed"}]
  /\ flags \in [Requests -> [zanyat : BOOLEAN, gotovo : BOOLEAN, mertvo : BOOLEAN]]
  /\ poslednee \in [Requests -> 0 .. LastTick]
  /\ pokolenie \in [Requests -> 0 .. LastGeneration]
  /\ tick \in 0 .. LastTick /\ generation \in 0 .. LastGeneration

Init ==
  /\ pc = [r \in Requests |-> "begin"]
  /\ site \in [Requests -> Sites]
  /\ teper = [r \in Requests |-> 0] /\ idx = [r \in Requests |-> 1]
  /\ conn = [r \in Requests |-> None] /\ victim = [r \in Requests |-> None]
  /\ pool = [s \in Slots |-> None] /\ lock = None
  /\ memory = [c \in Requests |-> "none"]
  /\ flags = [c \in Requests |-> [zanyat |-> FALSE, gotovo |-> FALSE, mertvo |-> FALSE]]
  /\ poslednee = [c \in Requests |-> 0] /\ pokolenie = [c \in Requests |-> 0]
  /\ tick = 0 /\ generation = 0

Goto(r, label) == pc' = [pc EXCEPT ![r] = label]
Live(c) == memory[c] = "live"
Running(r) == pc[r] \notin {"begin", "done"}

\* What reading a condition on c's fields may give.
Reads(c, value) == IF Live(c) THEN {value} ELSE BOOLEAN

\* A write to c's flags; lost when c is freed.
SetFlags(c, new) == flags' = IF Live(c) THEN [flags EXCEPT ![c] = new] ELSE flags

-----------------------------------------------------------------------------
(* PoolTake                                                                *)

\* The clock is read before the lock is taken.
ReadClock(r) ==
  /\ pc[r] = "begin"
  /\ Cardinality({q \in Requests : Running(q)}) < MaxInFlight
  /\ teper' = [teper EXCEPT ![r] = tick]
  /\ Goto(r, "lock")
  /\ UNCHANGED <<site, idx, conn, victim, pool, lock, connVars, envVars>>

Lock(r) ==
  /\ pc[r] = "lock" /\ lock = None
  /\ lock' = r /\ Goto(r, "scan")
  /\ UNCHANGED <<site, scanVars, pool, connVars, envVars>>

\* Mutation: the difference is taken the other way round.
AgeSwapped(r, c) == (poslednee[c] - teper[r]) % Word

\* teper - poslednee in unsigned arithmetic.
Age(r, c) == (teper[r] - poslednee[c]) % Word

Worn(r, c) ==
  flags[c].mertvo \/ Age(r, c) > IdleMs \/ pokolenie[c] # generation

\* Mutation: a busy connection is handed out too.
FitsBusy(r, c) == flags[c].gotovo /\ site[c] = site[r]

Fits(r, c) == flags[c].gotovo /\ ~flags[c].zanyat /\ site[c] = site[r]

NextSlot(r) == idx' = [idx EXCEPT ![r] = @ + 1]

SkipEmpty(r) ==
  /\ pc[r] = "scan" /\ idx[r] <= PoolSize /\ pool[idx[r]] = None
  /\ NextSlot(r)
  /\ UNCHANGED <<pc, site, teper, conn, victim, pool, lock, connVars, envVars>>

\* Worn out: whether it is busy is read after that.
SeeWorn(r) ==
  /\ pc[r] = "scan" /\ idx[r] <= PoolSize
  /\ LET c == pool[idx[r]] IN
       /\ c # None /\ TRUE \in Reads(c, Worn(r, c))
  /\ Goto(r, "busy")
  /\ UNCHANGED <<site, scanVars, pool, lock, connVars, envVars>>

\* A busy one is left; an idle one leaves its slot, and the lock is released
\* while it is closed.
EvictOrLeave(r) ==
  /\ pc[r] = "busy"
  /\ LET c == pool[idx[r]] IN
       /\ \/ /\ TRUE \in Reads(c, ~flags[c].zanyat)
             /\ pool' = [pool EXCEPT ![idx[r]] = None]
             /\ victim' = [victim EXCEPT ![r] = c]
             /\ lock' = None /\ Goto(r, "evict") /\ UNCHANGED idx
          \/ /\ TRUE \in Reads(c, flags[c].zanyat)
             /\ NextSlot(r) /\ Goto(r, "scan")
             /\ UNCHANGED <<pool, victim, lock>>
  /\ UNCHANGED <<site, teper, conn, connVars, envVars>>

\* The first sound one is taken.  Only a holder of the lock sets zanyat, so
\* the test and the writes are one step.
TakeOrPass(r) ==
  /\ pc[r] = "scan" /\ idx[r] <= PoolSize
  /\ LET c == pool[idx[r]] IN
       /\ c # None /\ FALSE \in Reads(c, Worn(r, c))
       /\ \/ /\ conn[r] = None /\ TRUE \in Reads(c, Fits(r, c))
             /\ SetFlags(c, [flags[c] EXCEPT !.zanyat = TRUE])
             /\ poslednee' = IF Live(c) THEN [poslednee EXCEPT ![c] = teper[r]]
                                        ELSE poslednee
             /\ conn' = [conn EXCEPT ![r] = c]
          \/ /\ conn[r] # None \/ FALSE \in Reads(c, Fits(r, c))
             /\ UNCHANGED <<flags, poslednee, conn>>
  /\ NextSlot(r)
  /\ UNCHANGED <<pc, site, teper, victim, pool, lock, memory, pokolenie, envVars>>

\* PoolCloseConn: ConnectionShutdown and ConnectionClose, then HeapFree.
PoolCloseConn(c) == memory' = [memory EXCEPT ![c] = "freed"]

CloseVictim(r) ==
  /\ pc[r] = "evict"
  /\ PoolCloseConn(victim[r])
  /\ victim' = [victim EXCEPT ![r] = None]
  /\ Goto(r, "relock")
  /\ UNCHANGED <<site, teper, idx, conn, pool, lock, flags, poslednee, pokolenie,
                 envVars>>

\* Mutation: the slot after an evicted one is skipped.
RelockTwice(r) ==
  /\ pc[r] = "relock" /\ lock = None
  /\ lock' = r /\ idx' = [idx EXCEPT ![r] = @ + 2] /\ Goto(r, "scan")
  /\ UNCHANGED <<site, teper, conn, victim, pool, connVars, envVars>>

Relock(r) ==
  /\ pc[r] = "relock" /\ lock = None
  /\ lock' = r /\ NextSlot(r) /\ Goto(r, "scan")
  /\ UNCHANGED <<site, teper, conn, victim, pool, connVars, envVars>>

EndScan(r) ==
  /\ pc[r] = "scan" /\ idx[r] > PoolSize
  /\ lock' = None
  /\ Goto(r, IF conn[r] = None THEN "create" ELSE "using")
  /\ UNCHANGED <<site, scanVars, pool, connVars, envVars>>

-----------------------------------------------------------------------------
(* Http3ThreadFunc around the pool, and PoolReturn                         *)

\* The cold path.  A failed ConnectionOpen or ConnectionStart leaves the
\* connection marked dead.
Create(r) ==
  /\ pc[r] = "create"
  /\ \E failed \in {FALSE, Mortal} :
       flags' = [flags EXCEPT ![r] =
                   [zanyat |-> TRUE, gotovo |-> FALSE, mertvo |-> failed]]
  /\ memory' = [memory EXCEPT ![r] = "live"]
  /\ poslednee' = [poslednee EXCEPT ![r] = tick]
  /\ pokolenie' = [pokolenie EXCEPT ![r] = generation]
  /\ conn' = [conn EXCEPT ![r] = r]
  /\ Goto(r, "using")
  /\ UNCHANGED <<site, teper, idx, victim, pool, lock, envVars>>

\* The request is over, whatever came of it: ozhidayushchiy is cleared.
FinishRequest(r) ==
  /\ pc[r] = "using"
  /\ Goto(r, "stamp")
  /\ UNCHANGED <<site, scanVars, pool, lock, connVars, envVars>>

StampReturn(r) ==
  /\ pc[r] = "stamp"
  /\ poslednee' = IF Live(conn[r]) THEN [poslednee EXCEPT ![conn[r]] = tick]
                                   ELSE poslednee
  /\ Goto(r, "unbusy")
  /\ UNCHANGED <<site, scanVars, pool, lock, memory, flags, pokolenie, envVars>>

ClearBusy(r) ==
  /\ pc[r] = "unbusy"
  /\ SetFlags(conn[r], [flags[conn[r]] EXCEPT !.zanyat = FALSE])
  /\ Goto(r, "dead")
  /\ UNCHANGED <<site, scanVars, pool, lock, memory, poslednee, pokolenie, envVars>>

CheckDead(r) ==
  /\ pc[r] = "dead"
  /\ \E mertvo \in Reads(conn[r], flags[conn[r]].mertvo) :
       Goto(r, IF mertvo THEN "remove" ELSE "store")
  /\ UNCHANGED <<site, scanVars, pool, lock, connVars, envVars>>

RemoveDead(r) ==
  /\ pc[r] = "remove" /\ lock = None
  /\ pool' = [s \in Slots |-> IF pool[s] = conn[r] THEN None ELSE pool[s]]
  /\ Goto(r, "close")
  /\ UNCHANGED <<site, scanVars, lock, connVars, envVars>>

\* Mutation: with a full pool the connection is not closed.
StoreOrForget(r) ==
  /\ pc[r] = "store" /\ lock = None
  /\ LET free == {s \in Slots : pool[s] = None} IN
       IF conn[r] \notin Range(pool) /\ free # {}
       THEN pool' = [pool EXCEPT ![Min(free)] = conn[r]]
       ELSE UNCHANGED pool
  /\ Goto(r, "done")
  /\ UNCHANGED <<site, scanVars, lock, connVars, envVars>>

\* Kept where it is, else put into the first free slot, else closed.
StoreOrClose(r) ==
  /\ pc[r] = "store" /\ lock = None
  /\ LET free == {s \in Slots : pool[s] = None} IN
       IF conn[r] \in Range(pool) THEN UNCHANGED pool /\ Goto(r, "done")
       ELSE IF free # {}
            THEN pool' = [pool EXCEPT ![Min(free)] = conn[r]] /\ Goto(r, "done")
            ELSE UNCHANGED pool /\ Goto(r, "close")
  /\ UNCHANGED <<site, scanVars, lock, connVars, envVars>>

CloseReturned(r) ==
  /\ pc[r] = "close"
  /\ PoolCloseConn(conn[r])
  /\ Goto(r, "done")
  /\ UNCHANGED <<site, scanVars, pool, lock, flags, poslednee, pokolenie, envVars>>

-----------------------------------------------------------------------------
(* MsQuic's callbacks, setPins and the clock                               *)

Connected(c) ==
  /\ Live(c) /\ ~flags[c].gotovo /\ ~flags[c].mertvo
  /\ flags' = [flags EXCEPT ![c].gotovo = TRUE]
  /\ UNCHANGED <<pc, site, scanVars, pool, lock, memory, poslednee, pokolenie,
                 envVars>>

Shutdown(c) ==
  /\ Mortal /\ Live(c) /\ ~flags[c].mertvo
  /\ flags' = [flags EXCEPT ![c].mertvo = TRUE]
  /\ UNCHANGED <<pc, site, scanVars, pool, lock, memory, poslednee, pokolenie,
                 envVars>>

SetPins ==
  /\ generation < LastGeneration
  /\ generation' = generation + 1
  /\ UNCHANGED <<pc, site, scanVars, pool, lock, connVars, tick>>

Tick ==
  /\ tick < LastTick
  /\ tick' = tick + 1
  /\ UNCHANGED <<pc, site, scanVars, pool, lock, connVars, generation>>

PoolTake(r) ==
  \/ ReadClock(r) \/ Lock(r) \/ SkipEmpty(r) \/ SeeWorn(r) \/ EvictOrLeave(r)
  \/ TakeOrPass(r) \/ CloseVictim(r) \/ Relock(r) \/ EndScan(r)

PoolReturn(r) ==
  \/ StampReturn(r) \/ ClearBusy(r) \/ CheckDead(r) \/ RemoveDead(r)
  \/ StoreOrClose(r) \/ CloseReturned(r)

Thread(r) == PoolTake(r) \/ Create(r) \/ FinishRequest(r) \/ PoolReturn(r)

\* Every request is over and nothing else is asked of the pool.
Finished == (\A r \in Requests : pc[r] = "done") /\ UNCHANGED vars

Next ==
  \/ \E r \in Requests : Thread(r) \/ Connected(r) \/ Shutdown(r)
  \/ SetPins \/ Tick \/ Finished

Spec == Init /\ [][Next]_vars

-----------------------------------------------------------------------------
(* Properties                                                              *)

\* The request a connection was given to, until PoolReturn clears zanyat.
Owners(c) ==
  {r \in Requests : conn[r] = c /\
     pc[r] \in {"scan", "busy", "evict", "relock", "using", "stamp", "unbusy"}}

\* The design rule above HTTP3_POOL_SIZE: no connection serves two requests at
\* a time, whatever PoolTake and PoolReturn of other requests do meanwhile.
OneRequestPerConn ==
  \A c \in Requests : Live(c) => Cardinality(Owners(c)) <= 1

\* No connection is lost or doubled: zanyat is set only while a request owns it,
\* so a forgotten flag never keeps a connection from being reused and closed; an
\* idle one is in one slot of the pool or in the hands of a thread about to store
\* or close it (in two slots, it would be handed out from one after it was closed
\* from the other).  It speaks of live connections: a worn one that PoolTake evicts
\* and closes once its returner has cleared zanyat (1442) may be closed by the
\* returner again (1448, 1456) or put back into the pool (1454).
NoConnLost ==
  /\ \A c \in Requests : Live(c) =>
       IF flags[c].zanyat THEN Owners(c) # {}
       ELSE \/ c \in Range(pool)
            \/ \E r \in Requests :
                 \/ victim[r] = c
                 \/ conn[r] = c /\ pc[r] \in {"dead", "remove", "store", "close"}
  /\ \A s1, s2 \in Slots : s1 # s2 /\ pool[s1] # None => pool[s1] # pool[s2]

\* test_app/analiz_invarianta.py counts it as a violation when a connection is
\* closed while it serves a request; PoolReturn clears zanyat before it looks
\* whether the connection is dead.
ClosesOnlyIdle ==
  [][\A c, r \in Requests :
       Live(c) /\ memory'[c] = "freed" => ~(pc[r] = "using" /\ conn[r] = c)]_vars

\* PoolTake takes out a connection only when it is dead, was checked against an
\* older set of pins, or has been idle for longer than HTTP3_CONN_IDLE_MS.  One
\* that came back since the clock was read, before the lock, is taken out as well:
\* after the slot was seen worn, or because its age is negative, which unsigned
\* arithmetic makes huge.
EvictsOnlyWorn ==
  [][\A r \in Requests : victim'[r] # None /\ victim[r] = None =>
       LET c == victim'[r] IN
         \/ flags[c].mertvo \/ pokolenie[c] # generation
         \/ tick - poslednee[c] > IdleMs
         \/ poslednee[c] >= teper[r]
         \/ ~Live(c)]_vars
=============================================================================
