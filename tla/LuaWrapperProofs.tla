-------------------------- MODULE LuaWrapperProofs --------------------------
(***************************************************************************)
(* Proofs about the Lua wrapper of module LuaWrapper, for any number of    *)
(* requests and any sizes of the native buffers.                           *)
(*                                                                         *)
(* NumberInv: whatever the wrapper knows of a request, its identifier has  *)
(* been given out, and the one being started is new.  ReachInv: who may    *)
(* still call a listener, that it has not been called yet, and that a      *)
(* listener nobody can reach was told or dropped.                          *)
(***************************************************************************)
EXTENDS LuaWrapper, TLAPS

TypeInv ==
  /\ nextId \in 1 .. LastId + 1
  /\ starting \in [at : {"idle", "slot", "spawn"}, id : 0 .. LastId]
  /\ known \subseteq Ids /\ activeListeners \subseteq Ids /\ snapshot \subseteq Ids
  /\ network \subseteq Ids /\ dropped \subseteq Ids /\ promised \subseteq Ids
  /\ inside \in Ids \cup {None}
  /\ heard \in [Ids -> 0 .. 1]

\* Identifiers that have been given out, except for the one being started.
Given == (1 .. nextId - 1) \ {starting.id}

NumberInv ==
  /\ starting.at = "idle" => starting.id = 0
  /\ starting.at # "idle" => starting.id = nextId - 1 /\ starting.id # 0
  /\ known \subseteq Given /\ dropped \subseteq Given /\ promised \subseteq Given
  /\ \A id \in Ids : Reachable(id) \/ heard[id] > 0 => id \in Given

ReachInv ==
  /\ \A id \in network : id \notin activeListeners \cup snapshot \cup {inside}
  /\ \A id \in Ids : id \in snapshot \cup {inside} => id \in activeListeners \cup dropped
  /\ \A id \in Ids : Reachable(id) => heard[id] = 0
  /\ \A id \in known : heard[id] > 0 \/ Reachable(id) \/ id \in dropped
  /\ "Runtime" \in globals => \A id \in promised : ~Reachable(id) /\ heard[id] = 0

IInv == TypeInv /\ NumberInv /\ ReachInv

numbers == <<nextId, starting, known>>

\* What the calls of the store do to the identifiers.
LEMMA StoreFrame ==
  /\ Store!InitiateRequest =>
       /\ starting.at = "idle" /\ nextId <= LastId /\ nextId' = nextId + 1 /\ known' = known
       /\ starting' \in [at : {"slot", "spawn"}, id : {nextId}]
  /\ Store!ProgressStart =>
       /\ starting.at = "slot" /\ UNCHANGED <<nextId, known>>
       /\ starting' = [starting EXCEPT !.at = "spawn"]
  /\ Store!StartThreads =>
       /\ starting.at = "spawn" /\ nextId' = nextId /\ known' = known \cup {starting.id}
       /\ starting' = [at |-> "idle", id |-> 0]
  /\ Store!StartThreadsFails =>
       /\ starting.at = "spawn" /\ UNCHANGED <<nextId, known>>
       /\ starting' = [at |-> "idle", id |-> 0]
  /\ Store!CollectGarbage => UNCHANGED numbers
  /\ \A id \in Ids : Store!CheckRequest(id) => id \in known /\ UNCHANGED numbers
  /\ \A id \in Ids : Store!CancelRequest(id) => id \in known /\ UNCHANGED numbers
  /\ \A id \in Ids : Store!Worker(id) => UNCHANGED numbers
<1>1. Store!InitiateRequest =>
        /\ starting.at = "idle" /\ nextId <= LastId /\ nextId' = nextId + 1 /\ known' = known
        /\ starting' \in [at : {"slot", "spawn"}, id : {nextId}]
  BY DEF Store!InitiateRequest, Store!history
<1>2. Store!ProgressStart =>
        /\ starting.at = "slot" /\ UNCHANGED <<nextId, known>>
        /\ starting' = [starting EXCEPT !.at = "spawn"]
  BY DEF Store!ProgressStart, Store!history
<1>3. Store!StartThreads =>
        /\ starting.at = "spawn" /\ nextId' = nextId /\ known' = known \cup {starting.id}
        /\ starting' = [at |-> "idle", id |-> 0]
  BY DEF Store!StartThreads
<1>4. Store!StartThreadsFails =>
        /\ starting.at = "spawn" /\ UNCHANGED <<nextId, known>>
        /\ starting' = [at |-> "idle", id |-> 0]
  BY DEF Store!StartThreadsFails, Store!history
<1>5. Store!CollectGarbage => UNCHANGED numbers
  BY DEF Store!CollectGarbage, numbers
<1>6. \A id \in Ids : Store!CheckRequest(id) => id \in known /\ UNCHANGED numbers
  BY DEF Store!CheckRequest, numbers
<1>7. \A id \in Ids : Store!CancelRequest(id) => id \in known /\ UNCHANGED numbers
  BY DEF Store!CancelRequest, numbers
<1>8. \A id \in Ids : Store!Worker(id) => UNCHANGED numbers
  BY DEF Store!Worker, Store!ProgressAdd, Store!AddResult, Store!history, numbers
<1>. QED
  BY <1>1, <1>2, <1>3, <1>4, <1>5, <1>6, <1>7, <1>8

\* A result that check finds is handed to network.request, lost where there is none,
\* or told.
LEMMA DeliverFrame ==
  ASSUME NEW id \in Ids, CheckDelivers(id)
  PROVE  /\ id \in known /\ id \in snapshot /\ inside = None
         /\ snapshot' = snapshot \ {id} /\ activeListeners' = activeListeners \ {id}
         /\ UNCHANGED <<nextId, starting, known, globals, inside, promised>>
         /\ \/ network' = network \cup {id} /\ UNCHANGED <<heard, dropped>>
            \/ dropped' = dropped \cup {id} /\ UNCHANGED <<heard, network>>
            \/ heard' = [heard EXCEPT ![id] = @ + 1] /\ UNCHANGED <<network, dropped>>
BY StoreFrame DEF CheckDelivers, Called, Repeat, Tell, numbers

\* Every action keeps the variables in their types: a listener that is told has not
\* been told before.
LEMMA TypeStep ==
  ASSUME IInv, [Next]_vars
  PROVE  TypeInv'
<1>1. CASE RequestNative
  BY <1>1, StoreFrame, WrapperAssumption DEF IInv, TypeInv, ReachInv, Reachable, None, Ids,
     Store!Ids, RequestNative, numbers, wrapperVars, luaVars, waiting, history
<1>2. CASE RequestRegisters
  BY <1>2, StoreFrame, WrapperAssumption DEF IInv, TypeInv, NumberInv, None, Ids, Store!Ids,
     RequestRegisters, numbers, luaVars, waiting, history
<1>3. CASE RequestFallsBack
  BY <1>3, StoreFrame, WrapperAssumption DEF IInv, TypeInv, NumberInv, None, Ids, Store!Ids,
     RequestFallsBack, Repeat, numbers, luaVars, history
<1>4. ASSUME NEW id \in Ids, Cancel(id)
      PROVE  TypeInv'
  BY <1>4, StoreFrame, WrapperAssumption DEF IInv, TypeInv, ReachInv, Reachable, None, Ids,
     Store!Ids, Cancel, Forsaken, numbers, luaVars, waiting
<1>5. CASE CollectGarbage
  BY <1>5, StoreFrame, WrapperAssumption DEF IInv, TypeInv, ReachInv, Reachable, None, Ids,
     Store!Ids, CollectGarbage, numbers, luaVars, waiting
<1>6. CASE Return
  BY <1>6, WrapperAssumption DEF IInv, TypeInv, ReachInv, Reachable, None, Ids, Store!Ids,
     Return, storeVars, waiting, history
<1>7. CASE PumpEvents
  BY <1>7, WrapperAssumption DEF IInv, TypeInv, ReachInv, Reachable, None, Ids, Store!Ids,
     PumpEvents, AppRuns, storeVars, waiting, history
<1>8. ASSUME NEW id \in Ids, CheckDelivers(id)
      PROVE  TypeInv'
  <2>1. id \in snapshot /\ heard[id] = 0
    BY <1>8, DeliverFrame DEF IInv, ReachInv, Reachable
  <2>2. heard' \in [Ids -> 0 .. 1] /\ network' \subseteq Ids /\ dropped' \subseteq Ids
    BY <1>8, <2>1, DeliverFrame DEF IInv, TypeInv
  <2>. QED
    BY <1>8, <2>2, DeliverFrame DEF IInv, TypeInv
<1>9. ASSUME NEW id \in Ids, CheckProgresses(id)
      PROVE  TypeInv'
  BY <1>9, WrapperAssumption DEF IInv, TypeInv, ReachInv, Reachable, None, Ids, Store!Ids,
     CheckProgresses, Called, storeVars, history
<1>10. ASSUME NEW id \in Ids, CheckWaits(id)
      PROVE  TypeInv'
  BY <1>10, WrapperAssumption DEF IInv, TypeInv, ReachInv, Reachable, None, Ids, Store!Ids,
     CheckWaits, Rest, Called, storeVars, waiting, history
<1>11. ASSUME NEW id \in Ids, CheckOverdue(id)
      PROVE  TypeInv'
  BY <1>11, StoreFrame, WrapperAssumption DEF IInv, TypeInv, ReachInv, Reachable, None, Ids,
     Store!Ids, CheckOverdue, Rest, Called, Tell, numbers, waiting
<1>12. ASSUME NEW id \in Ids, Elapse(id)
      PROVE  TypeInv'
  BY <1>12, WrapperAssumption DEF IInv, TypeInv, ReachInv, Reachable, None, Ids, Store!Ids,
     Elapse, storeVars, luaVars, history
<1>13. ASSUME NEW id \in Ids, NetworkAnswers(id)
      PROVE  TypeInv'
  BY <1>13, WrapperAssumption DEF IInv, TypeInv, ReachInv, Reachable, None, Ids, Store!Ids,
     NetworkAnswers, AppRuns, Tell, storeVars
<1>14. ASSUME NEW id \in Ids, Worker(id)
      PROVE  TypeInv'
  BY <1>14, StoreFrame, WrapperAssumption DEF IInv, TypeInv, ReachInv, Reachable, None, Ids,
     Store!Ids, Worker, numbers, wrapperVars, luaVars, waiting, history
<1>15. CASE UNCHANGED vars
  BY <1>15, WrapperAssumption DEF IInv, TypeInv, ReachInv, Reachable, None, Ids, Store!Ids,
     vars, wrapperVars, storeVars, luaVars, waiting, history
<1>. QED
  BY <1>1, <1>2, <1>3, <1>4, <1>5, <1>6, <1>7, <1>8, <1>9, <1>10,
     <1>11, <1>12, <1>13, <1>14, <1>15
     DEF Next, App, Check

\* Every action keeps NumberInv.
LEMMA NumberStep ==
  ASSUME IInv, [Next]_vars
  PROVE  NumberInv'
<1>1. CASE RequestNative
  BY <1>1, StoreFrame, WrapperAssumption DEF IInv, TypeInv, NumberInv, Given, Reachable,
     None, Ids, Store!Ids, RequestNative, numbers, wrapperVars, luaVars, waiting, history
<1>2. CASE RequestRegisters
  BY <1>2, StoreFrame, WrapperAssumption DEF IInv, TypeInv, NumberInv, Given, Reachable,
     None, Ids, Store!Ids, RequestRegisters, numbers, luaVars, waiting, history
<1>3. CASE RequestFallsBack
  BY <1>3, StoreFrame, WrapperAssumption DEF IInv, TypeInv, NumberInv, Given, Reachable,
     None, Ids, Store!Ids, RequestFallsBack, Repeat, numbers, luaVars, history
<1>4. ASSUME NEW id \in Ids, Cancel(id)
      PROVE  NumberInv'
  BY <1>4, StoreFrame, WrapperAssumption DEF IInv, TypeInv, NumberInv, Given, Reachable,
     None, Ids, Store!Ids, Cancel, Forsaken, numbers, luaVars, waiting
<1>5. CASE CollectGarbage
  BY <1>5, StoreFrame, WrapperAssumption DEF IInv, TypeInv, NumberInv, Given, Reachable,
     None, Ids, Store!Ids, CollectGarbage, numbers, luaVars, waiting
<1>6. CASE Return
  BY <1>6, WrapperAssumption DEF IInv, TypeInv, NumberInv, Given, Reachable, None, Ids,
     Store!Ids, Return, storeVars, waiting, history
<1>7. CASE PumpEvents
  BY <1>7, WrapperAssumption DEF IInv, TypeInv, NumberInv, Given, Reachable, None, Ids,
     Store!Ids, PumpEvents, AppRuns, storeVars, waiting, history
<1>8. ASSUME NEW id \in Ids, CheckDelivers(id)
      PROVE  NumberInv'
  <2>1. UNCHANGED <<nextId, starting, known, promised>> /\ id \in Given /\ Given' = Given
    BY <1>8, DeliverFrame DEF IInv, NumberInv, Given
  <2>2. dropped' \subseteq Given
    BY <1>8, <2>1, DeliverFrame DEF IInv, NumberInv
  <2>3. \A u \in Ids : Reachable(u)' \/ heard'[u] > 0 => u = id \/ Reachable(u) \/ heard[u] > 0
    BY <1>8, DeliverFrame DEF IInv, TypeInv, Reachable
  <2>. QED
    BY <2>1, <2>2, <2>3 DEF IInv, NumberInv
<1>9. ASSUME NEW id \in Ids, CheckProgresses(id)
      PROVE  NumberInv'
  BY <1>9, WrapperAssumption DEF IInv, TypeInv, NumberInv, Given, Reachable, None, Ids,
     Store!Ids, CheckProgresses, Called, storeVars, history
<1>10. ASSUME NEW id \in Ids, CheckWaits(id)
      PROVE  NumberInv'
  BY <1>10, WrapperAssumption DEF IInv, TypeInv, NumberInv, Given, Reachable, None, Ids,
     Store!Ids, CheckWaits, Rest, Called, storeVars, waiting, history
<1>11. ASSUME NEW id \in Ids, CheckOverdue(id)
      PROVE  NumberInv'
  BY <1>11, StoreFrame, WrapperAssumption DEF IInv, TypeInv, NumberInv, Given, Reachable,
     None, Ids, Store!Ids, CheckOverdue, Rest, Called, Tell, numbers, waiting
<1>12. ASSUME NEW id \in Ids, Elapse(id)
      PROVE  NumberInv'
  BY <1>12, WrapperAssumption DEF IInv, TypeInv, NumberInv, Given, Reachable, None, Ids,
     Store!Ids, Elapse, storeVars, luaVars, history
<1>13. ASSUME NEW id \in Ids, NetworkAnswers(id)
      PROVE  NumberInv'
  BY <1>13, WrapperAssumption DEF IInv, TypeInv, NumberInv, Given, Reachable, None, Ids,
     Store!Ids, NetworkAnswers, AppRuns, Tell, storeVars
<1>14. ASSUME NEW id \in Ids, Worker(id)
      PROVE  NumberInv'
  BY <1>14, StoreFrame, WrapperAssumption DEF IInv, TypeInv, NumberInv, Given, Reachable,
     None, Ids, Store!Ids, Worker, numbers, wrapperVars, luaVars, waiting, history
<1>15. CASE UNCHANGED vars
  BY <1>15, WrapperAssumption DEF IInv, TypeInv, NumberInv, Given, Reachable, None, Ids,
     Store!Ids, vars, wrapperVars, storeVars, luaVars, waiting, history
<1>. QED
  BY <1>1, <1>2, <1>3, <1>4, <1>5, <1>6, <1>7, <1>8, <1>9, <1>10,
     <1>11, <1>12, <1>13, <1>14, <1>15
     DEF Next, App, Check

\* Every action keeps ReachInv.
LEMMA ReachStep ==
  ASSUME IInv, [Next]_vars
  PROVE  ReachInv'
<1>1. CASE RequestNative
  BY <1>1, StoreFrame, WrapperAssumption DEF IInv, TypeInv, NumberInv, ReachInv, Given,
     Reachable, None, Ids, Store!Ids, RequestNative, numbers, wrapperVars, luaVars, waiting,
     history
<1>2. CASE RequestRegisters
  BY <1>2, StoreFrame, WrapperAssumption DEF IInv, TypeInv, NumberInv, ReachInv, Given,
     Reachable, None, Ids, Store!Ids, RequestRegisters, numbers, luaVars, waiting, history
<1>3. CASE RequestFallsBack
  BY <1>3, StoreFrame, WrapperAssumption DEF IInv, TypeInv, NumberInv, ReachInv, Given,
     Reachable, None, Ids, Store!Ids, RequestFallsBack, Repeat, numbers, luaVars, history
<1>4. ASSUME NEW id \in Ids, Cancel(id)
      PROVE  ReachInv'
  BY <1>4, StoreFrame, WrapperAssumption DEF IInv, TypeInv, NumberInv, ReachInv, Given,
     Reachable, None, Ids, Store!Ids, Cancel, Forsaken, numbers, luaVars, waiting
<1>5. CASE CollectGarbage
  BY <1>5, StoreFrame, WrapperAssumption DEF IInv, TypeInv, NumberInv, ReachInv, Given,
     Reachable, None, Ids, Store!Ids, CollectGarbage, numbers, luaVars, waiting
<1>6. CASE Return
  BY <1>6, WrapperAssumption DEF IInv, TypeInv, NumberInv, ReachInv, Given, Reachable, None,
     Ids, Store!Ids, Return, storeVars, waiting, history
<1>7. CASE PumpEvents
  BY <1>7, WrapperAssumption DEF IInv, TypeInv, NumberInv, ReachInv, Given, Reachable, None,
     Ids, Store!Ids, PumpEvents, AppRuns, storeVars, waiting, history
<1>8. ASSUME NEW id \in Ids, CheckDelivers(id)
      PROVE  ReachInv'
  <2>1. id \notin network \cup promised \/ "Runtime" \notin globals
    BY <1>8, DeliverFrame DEF IInv, ReachInv, Reachable
  <2>2. heard[id] = 0 /\ id \notin network /\ id # None
    BY <1>8, DeliverFrame, WrapperAssumption DEF IInv, ReachInv, Reachable, None, Ids, Store!Ids
  <2>3. \A u \in Ids \ {id} : heard'[u] = heard[u] /\ (Reachable(u)' <=> Reachable(u))
    BY <1>8, DeliverFrame DEF IInv, TypeInv, Reachable
  <2>4. \/ heard'[id] = 0 /\ (Reachable(id)' \/ id \in dropped')
        \/ heard'[id] > 0 /\ ~Reachable(id)'
    BY <1>8, <2>2, DeliverFrame DEF IInv, TypeInv, Reachable
  <2>5. /\ \A u \in network' : u \notin (activeListeners \cup snapshot \cup {inside})'
        /\ \A u \in Ids : u \in (snapshot \cup {inside})' => u \in (activeListeners \cup dropped)'
    BY <1>8, <2>2, DeliverFrame DEF IInv, ReachInv, None
  <2>6. /\ \A u \in Ids : Reachable(u)' => heard'[u] = 0
        /\ \A u \in known' : heard'[u] > 0 \/ Reachable(u)' \/ u \in dropped'
    BY <1>8, <2>3, <2>4, DeliverFrame DEF IInv, TypeInv, ReachInv
  <2>7. "Runtime" \in globals' => \A u \in promised' : ~Reachable(u)' /\ heard'[u] = 0
    BY <1>8, <2>1, <2>3, DeliverFrame DEF IInv, TypeInv, ReachInv
  <2>. QED
    BY <2>5, <2>6, <2>7 DEF ReachInv
<1>9. ASSUME NEW id \in Ids, CheckProgresses(id)
      PROVE  ReachInv'
  BY <1>9, WrapperAssumption DEF IInv, TypeInv, NumberInv, ReachInv, Given, Reachable, None,
     Ids, Store!Ids, CheckProgresses, Called, storeVars, history
<1>10. ASSUME NEW id \in Ids, CheckWaits(id)
      PROVE  ReachInv'
  BY <1>10, WrapperAssumption DEF IInv, TypeInv, NumberInv, ReachInv, Given, Reachable, None,
     Ids, Store!Ids, CheckWaits, Rest, Called, storeVars, waiting, history
<1>11. ASSUME NEW id \in Ids, CheckOverdue(id)
      PROVE  ReachInv'
  BY <1>11, StoreFrame, WrapperAssumption DEF IInv, TypeInv, NumberInv, ReachInv, Given,
     Reachable, None, Ids, Store!Ids, CheckOverdue, Rest, Called, Tell, numbers, waiting
<1>12. ASSUME NEW id \in Ids, Elapse(id)
      PROVE  ReachInv'
  BY <1>12, WrapperAssumption DEF IInv, TypeInv, NumberInv, ReachInv, Given, Reachable, None,
     Ids, Store!Ids, Elapse, storeVars, luaVars, history
<1>13. ASSUME NEW id \in Ids, NetworkAnswers(id)
      PROVE  ReachInv'
  BY <1>13, WrapperAssumption DEF IInv, TypeInv, NumberInv, ReachInv, Given, Reachable, None,
     Ids, Store!Ids, NetworkAnswers, AppRuns, Tell, storeVars
<1>14. ASSUME NEW id \in Ids, Worker(id)
      PROVE  ReachInv'
  BY <1>14, StoreFrame, WrapperAssumption DEF IInv, TypeInv, NumberInv, ReachInv, Given,
     Reachable, None, Ids, Store!Ids, Worker, numbers, wrapperVars, luaVars, waiting, history
<1>15. CASE UNCHANGED vars
  BY <1>15, WrapperAssumption DEF IInv, TypeInv, NumberInv, ReachInv, Given, Reachable, None,
     Ids, Store!Ids, vars, wrapperVars, storeVars, luaVars, waiting, history
<1>. QED
  BY <1>1, <1>2, <1>3, <1>4, <1>5, <1>6, <1>7, <1>8, <1>9, <1>10,
     <1>11, <1>12, <1>13, <1>14, <1>15
     DEF Next, App, Check

\* The initial state.
LEMMA IInvInit == Init => IInv
BY WrapperAssumption
   DEF Init, IInv, TypeInv, NumberInv, ReachInv, Given, Reachable, None, Ids, Store!Ids,
       Store!Init

\* The parts together.
LEMMA IInvStep == IInv /\ [Next]_vars => IInv'
<1>. SUFFICES ASSUME IInv, [Next]_vars PROVE IInv'
  OBVIOUS
<1>. QED
  BY TypeStep, NumberStep, ReachStep DEF IInv

\* Types, identifiers and who can be reached, in every reachable state.
THEOREM InductiveInvariant == Spec => []IInv
BY IInvInit, IInvStep, PTL DEF Spec

\* In Solar2D a cancelled request stays silent (440-454), whatever the native layer
\* forgets of the cancellation and however the pass over the listeners goes on, unless
\* it is with network.request already or the pass has still to call it.
THEOREM Silenced == Spec => []CancelSilences
<1>1. IInv => CancelSilences
  BY DEF IInv, ReachInv, CancelSilences
<1>. QED
  BY <1>1, InductiveInvariant, PTL

\* The fate of a request depends on what was told, dropped, and on who can reach it.
LEMMA SameFate ==
  ASSUME NEW u \in Ids, heard'[u] = heard[u], u \in dropped' <=> u \in dropped,
         Reachable(u)' <=> Reachable(u)
  PROVE  Fate(u)' = Fate(u)
BY DEF Fate

LEMMA FateFrame ==
  ASSUME UNCHANGED <<heard, dropped>>, \A u \in Ids : Reachable(u)' <=> Reachable(u)
  PROVE  UNCHANGED Report!vars
<1>1. \A u \in Ids : Fate(u)' = Fate(u)
  BY SameFate
<1>. QED
  BY <1>1 DEF Report!vars

\* A listener that can be reached is told, and nobody can reach it any more.
LEMMA TellStep ==
  ASSUME IInv, NEW id \in Ids, Reachable(id), heard[id] = 0,
         heard' = [heard EXCEPT ![id] = @ + 1], dropped' = dropped,
         \A u \in Ids \ {id} : Reachable(u)' <=> Reachable(u)
  PROVE  Report!Next
<1>1. heard'[id] = 1 /\ \A u \in Ids \ {id} : heard'[u] = heard[u]
  BY DEF IInv, TypeInv
<1>2. heard'[id] > 0 /\ heard'[id] # 0 /\ ~(heard[id] > 0)
  BY <1>1
<1>3. Fate(id) = "open"
  BY <1>2, Zenon DEF Fate
<1>4. Fate(id)' = "told"
  BY <1>2, Zenon DEF Fate
<1>5. \A u \in Ids \ {id} : Fate(u)' = Fate(u)
  BY <1>1, SameFate
<1>6. Report!Tell(id)
  BY <1>3, <1>4, <1>5 DEF Report!Tell
<1>. QED
  BY <1>6 DEF Report!Next

\* Nobody is told; the listeners of S, which could be reached, are given up.
LEMMA DropStep ==
  ASSUME IInv, NEW S \in SUBSET Ids, heard' = heard,
         \A u \in S : Reachable(u) /\ ~Reachable(u)' /\ u \in dropped',
         \A u \in Ids \ S : /\ Reachable(u)' <=> Reachable(u)
                            /\ u \in dropped' \ dropped => Reachable(u) \/ heard[u] > 0
                            /\ u \in dropped => u \in dropped'
  PROVE  Report!Next
<1>1. \A u \in S : heard[u] = 0 /\ ~(heard[u] > 0)
  BY DEF IInv, TypeInv, ReachInv
<1>2. \A u \in S : Fate(u) = "open" /\ Fate(u)' = "dropped"
  <2>. SUFFICES ASSUME NEW u \in S PROVE Fate(u) = "open" /\ Fate(u)' = "dropped"
    OBVIOUS
  <2>1. heard[u] = 0 /\ ~(heard[u] > 0) /\ heard'[u] = 0 /\ ~(heard'[u] > 0)
    BY <1>1
  <2>2. Fate(u) = "open"
    BY <2>1, Zenon DEF Fate
  <2>3. Fate(u)' = "dropped"
    BY <2>1, Zenon DEF Fate
  <2>. QED
    BY <2>2, <2>3
<1>3. ASSUME NEW u \in Ids \ S
      PROVE  Fate(u)' = Fate(u)
  <2>1. CASE u \in dropped' <=> u \in dropped
    BY <2>1, SameFate
  <2>2. CASE u \in dropped' \ dropped /\ heard[u] > 0
    <3>1. heard[u] > 0 /\ heard'[u] > 0 /\ heard[u] # 0 /\ heard'[u] # 0
      BY <2>2 DEF IInv, TypeInv
    <3>2. Fate(u) = "told" /\ Fate(u)' = "told"
      BY <3>1, Zenon DEF Fate
    <3>. QED
      BY <3>2
  <2>3. CASE u \in dropped' \ dropped /\ Reachable(u)
    <3>1. heard[u] = 0 /\ heard'[u] = 0 /\ ~(heard[u] > 0) /\ ~(heard'[u] > 0)
      BY <2>3 DEF IInv, ReachInv
    <3>2. Reachable(u) /\ Reachable(u)'
      BY <2>3
    <3>3. Fate(u) = "open" /\ Fate(u)' = "open"
      BY <3>1, <3>2, Zenon DEF Fate
    <3>. QED
      BY <3>3
  <2>. QED
    BY <2>1, <2>2, <2>3
<1>4. Report!Drop(S)
  BY <1>2, <1>3 DEF Report!Drop
<1>. QED
  BY <1>4 DEF Report!Next

\* A step opens a request, tells a listener, gives up some, or is nothing to OneReport.
LEMMA ReportStep ==
  ASSUME IInv, [Next]_vars
  PROVE  [Report!Next]_Report!vars
<1>1. CASE RequestNative
  <2>1. heard' = heard /\ dropped' = dropped
    BY <1>1 DEF RequestNative, wrapperVars, luaVars, waiting, history
  <2>2. \A u \in Ids : Reachable(u)' <=> Reachable(u)
    BY <1>1 DEF IInv, ReachInv, Reachable, None, Ids, Store!Ids, RequestNative, wrapperVars,
       luaVars, waiting, history
  <2>. QED
    BY <2>1, <2>2, FateFrame
<1>2. CASE RequestRegisters
  <2>1. starting.id \in Ids /\ ~Reachable(starting.id) /\ heard[starting.id] = 0
        /\ starting.id \notin dropped
    BY <1>2, StoreFrame DEF IInv, TypeInv, NumberInv, Given, Ids, Store!Ids, RequestRegisters
  <2>2. PICK id \in Ids : id = starting.id
    BY <2>1
  <2>3. UNCHANGED <<heard, dropped>>
    BY <1>2 DEF RequestRegisters, history
  <2>4. Reachable(id)' /\ \A u \in Ids \ {id} : Reachable(u)' <=> Reachable(u)
    BY <1>2, <2>2 DEF Reachable, RequestRegisters, luaVars, waiting, history
  <2>5. Fate(id) = "idle"
    <3>1. ~(heard[id] > 0) /\ ~Reachable(id) /\ id \notin dropped
      BY <2>1, <2>2
    <3>. QED
      BY <3>1, Zenon DEF Fate
  <2>6. heard'[id] = 0 /\ ~(heard'[id] > 0)
    BY <2>1, <2>2, <2>3
  <2>7. Fate(id)' = "open"
    BY <2>4, <2>6, Zenon DEF Fate
  <2>8. \A u \in Ids \ {id} : Fate(u)' = Fate(u)
    BY <2>3, <2>4, SameFate
  <2>9. Report!Open(id)
    BY <2>3, <2>5, <2>7, <2>8 DEF Report!Open
  <2>. QED
    BY <2>9 DEF Report!Next
<1>3. CASE RequestFallsBack
  <2>1. starting.id \in Ids /\ ~Reachable(starting.id) /\ heard[starting.id] = 0
        /\ starting.id \notin dropped
    BY <1>3, StoreFrame DEF IInv, TypeInv, NumberInv, Given, Ids, Store!Ids, RequestFallsBack
  <2>2. PICK id \in Ids : id = starting.id
    BY <2>1
  <2>3. UNCHANGED <<heard, dropped>>
    BY <1>3 DEF RequestFallsBack, history
  <2>10. CASE "network" \notin globals
    <3>1. \A u \in Ids : Reachable(u)' <=> Reachable(u)
      BY <1>3, <2>10 DEF Reachable, RequestFallsBack, Repeat, luaVars, waiting, history
    <3>. QED
      BY <2>3, <3>1, FateFrame
  <2>. SUFFICES ASSUME "network" \in globals PROVE [Report!Next]_Report!vars
    BY <2>10
  <2>4. Reachable(id)' /\ \A u \in Ids \ {id} : Reachable(u)' <=> Reachable(u)
    BY <1>3, <2>2 DEF Reachable, RequestFallsBack, Repeat, luaVars, waiting, history
  <2>5. Fate(id) = "idle"
    <3>1. ~(heard[id] > 0) /\ ~Reachable(id) /\ id \notin dropped
      BY <2>1, <2>2
    <3>. QED
      BY <3>1, Zenon DEF Fate
  <2>6. heard'[id] = 0 /\ ~(heard'[id] > 0)
    BY <2>1, <2>2, <2>3
  <2>7. Fate(id)' = "open"
    BY <2>4, <2>6, Zenon DEF Fate
  <2>8. \A u \in Ids \ {id} : Fate(u)' = Fate(u)
    BY <2>3, <2>4, SameFate
  <2>9. Report!Open(id)
    BY <2>3, <2>5, <2>7, <2>8 DEF Report!Open
  <2>. QED
    BY <2>9 DEF Report!Next
<1>4. ASSUME NEW id \in Ids, Cancel(id)
      PROVE  [Report!Next]_Report!vars
  <2>1. UNCHANGED heard /\ id \in known /\ dropped' = dropped \cup {id}
    BY <1>4, StoreFrame DEF Cancel, Forsaken
  <2>2. heard[id] > 0 \/ Reachable(id) \/ id \in dropped
    BY <2>1 DEF IInv, ReachInv
  <2>3. \A u \in Ids \ {id} : Reachable(u)' <=> Reachable(u)
    BY <1>4 DEF Cancel, Reachable, luaVars, waiting
  <2>4. Reachable(id)' => Reachable(id)
    BY <1>4 DEF Cancel, Reachable, luaVars, waiting
  <2>5. CASE Reachable(id) /\ ~Reachable(id)'
    <3>1. {id} \in SUBSET Ids
      OBVIOUS
    <3>. QED
      BY <2>1, <2>3, <2>5, <3>1, DropStep
  <2>6. CASE Reachable(id)' <=> Reachable(id)
    <3>1. {} \in SUBSET Ids /\ Ids \ {} = Ids
      OBVIOUS
    <3>2. \A u \in Ids : /\ Reachable(u)' <=> Reachable(u)
                         /\ u \in dropped' \ dropped => Reachable(u) \/ heard[u] > 0
                         /\ u \in dropped => u \in dropped'
      BY <2>1, <2>2, <2>3, <2>6
    <3>. QED
      BY <2>1, <3>1, <3>2, DropStep
  <2>. QED
    BY <2>4, <2>5, <2>6
<1>5. CASE CollectGarbage
  <2>. DEFINE S == activeListeners \ (snapshot \cup {inside})
  <2>1. heard' = heard /\ dropped' = dropped \cup activeListeners /\ S \in SUBSET Ids
    BY <1>5 DEF IInv, TypeInv, CollectGarbage
  <2>2. \A u \in Ids : Reachable(u)' <=> u \in snapshot \cup network \cup {inside}
    BY <1>5 DEF CollectGarbage, Reachable, luaVars, waiting
  <2>3. \A u \in Ids :
          Reachable(u) <=> u \in activeListeners \cup snapshot \cup network \cup {inside}
    BY DEF Reachable
  <2>4. \A u \in S : Reachable(u) /\ ~Reachable(u)' /\ u \in dropped'
    BY <2>1, <2>2, <2>3 DEF IInv, ReachInv
  <2>5. \A u \in Ids \ S : /\ Reachable(u)' <=> Reachable(u)
                           /\ u \in dropped' \ dropped => Reachable(u) \/ heard[u] > 0
                           /\ u \in dropped => u \in dropped'
    BY <2>1, <2>2, <2>3
  <2>. HIDE DEF S
  <2>. QED
    BY <2>1, <2>4, <2>5, DropStep
<1>6. CASE Return
  <2>1. heard' = heard /\ dropped' = dropped
    BY <1>6 DEF Return, storeVars, waiting, history
  <2>2. \A u \in Ids : Reachable(u)' <=> Reachable(u)
    BY <1>6 DEF IInv, ReachInv, Reachable, None, Ids, Store!Ids, Return, storeVars, waiting,
       history
  <2>. QED
    BY <2>1, <2>2, FateFrame
<1>7. CASE PumpEvents
  <2>1. heard' = heard /\ dropped' = dropped
    BY <1>7 DEF PumpEvents, AppRuns, storeVars, waiting, history
  <2>2. \A u \in Ids : Reachable(u)' <=> Reachable(u)
    BY <1>7 DEF IInv, ReachInv, Reachable, None, Ids, Store!Ids, PumpEvents, AppRuns,
       storeVars, waiting, history
  <2>. QED
    BY <2>1, <2>2, FateFrame
<1>8. ASSUME NEW id \in Ids, CheckDelivers(id)
      PROVE  [Report!Next]_Report!vars
  <2>1. PICK k \in 1 .. Len(results) :
          IF results[k].kind \in TransportFailed
          THEN /\ Repeat({id})
               /\ dropped' = IF "network" \in globals THEN dropped ELSE dropped \cup {id}
               /\ UNCHANGED <<heard, calling>>
          ELSE Tell(id) /\ UNCHANGED <<network, dropped>>
    BY <1>8 DEF CheckDelivers
  <2>2. /\ id \in snapshot /\ inside = None /\ inside' = inside
        /\ snapshot' = snapshot \ {id} /\ activeListeners' = activeListeners \ {id}
    BY <1>8 DEF CheckDelivers, Called
  <2>3. /\ Reachable(id) /\ heard[id] = 0 /\ id \notin network /\ id # None
    BY <2>2, WrapperAssumption DEF IInv, ReachInv, Reachable, None, Ids, Store!Ids
  <2>4. CASE results[k].kind \in TransportFailed /\ "network" \in globals
    <3>1. UNCHANGED <<heard, dropped>> /\ network' = network \cup {id}
      BY <2>1, <2>4 DEF Repeat
    <3>2. \A u \in Ids : Reachable(u)' <=> Reachable(u)
      BY <2>2, <3>1 DEF Reachable
    <3>. QED
      BY <3>1, <3>2, FateFrame
  <2>5. CASE results[k].kind \in TransportFailed /\ "network" \notin globals
    <3>1. heard' = heard /\ network' = network /\ dropped' = dropped \cup {id}
      BY <2>1, <2>5 DEF Repeat
    <3>2. ~Reachable(id)' /\ \A u \in Ids \ {id} : Reachable(u)' <=> Reachable(u)
      BY <2>2, <2>3, <3>1 DEF Reachable
    <3>3. {id} \in SUBSET Ids
      OBVIOUS
    <3>. QED
      BY <2>3, <3>1, <3>2, <3>3, DropStep
  <2>6. CASE results[k].kind \notin TransportFailed
    <3>1. heard' = [heard EXCEPT ![id] = @ + 1] /\ network' = network /\ dropped' = dropped
      BY <2>1, <2>6 DEF Tell
    <3>2. ~Reachable(id)' /\ \A u \in Ids \ {id} : Reachable(u)' <=> Reachable(u)
      BY <2>2, <2>3, <3>1 DEF Reachable
    <3>. QED
      BY <2>3, <3>1, <3>2, TellStep
  <2>. QED
    BY <2>4, <2>5, <2>6
<1>9. ASSUME NEW id \in Ids, CheckProgresses(id)
      PROVE  [Report!Next]_Report!vars
  <2>1. heard' = heard /\ dropped' = dropped
    BY <1>9 DEF CheckProgresses, Called, storeVars, history
  <2>2. \A u \in Ids : Reachable(u)' <=> Reachable(u)
    BY <1>9 DEF IInv, ReachInv, Reachable, None, Ids, Store!Ids, CheckProgresses, Called,
       storeVars, history
  <2>. QED
    BY <2>1, <2>2, FateFrame
<1>10. ASSUME NEW id \in Ids, CheckWaits(id)
      PROVE  [Report!Next]_Report!vars
  <2>1. UNCHANGED <<heard, dropped>>
    BY <1>10 DEF CheckWaits, history
  <2>2. \A u \in Ids \ {id} : Reachable(u)' <=> Reachable(u)
    BY <1>10 DEF CheckWaits, Rest, Called, Reachable, None, Ids, Store!Ids, waiting
  <2>3. Reachable(id) /\ (id \in activeListeners \/ id \in dropped)
    BY <1>10 DEF IInv, ReachInv, CheckWaits, Rest, Called, Reachable
  <2>4. CASE Reachable(id)'
    BY <2>1, <2>2, <2>3, <2>4, FateFrame
  <2>5. CASE ~Reachable(id)'
    <3>1. id \notin activeListeners
      BY <1>10, <2>5 DEF CheckWaits, Reachable
    <3>2. {id} \in SUBSET Ids
      OBVIOUS
    <3>. QED
      BY <2>1, <2>2, <2>3, <2>5, <3>1, <3>2, DropStep
  <2>. QED
    BY <2>4, <2>5
<1>11. ASSUME NEW id \in Ids, CheckOverdue(id)
      PROVE  [Report!Next]_Report!vars
  <2>1. Reachable(id) /\ heard[id] = 0
    BY <1>11 DEF IInv, ReachInv, Reachable, CheckOverdue, Rest, Called, Tell
  <2>2. heard' = [heard EXCEPT ![id] = @ + 1] /\ dropped' = dropped
    BY <1>11 DEF CheckOverdue, Rest, Called, Tell
  <2>3. ~Reachable(id)' /\ \A u \in Ids \ {id} : Reachable(u)' <=> Reachable(u)
    BY <1>11 DEF IInv, ReachInv, Reachable, None, Ids, Store!Ids, CheckOverdue, Rest, Called,
       Tell, waiting
  <2>. QED
    BY <2>1, <2>2, <2>3, TellStep
<1>12. ASSUME NEW id \in Ids, Elapse(id)
      PROVE  [Report!Next]_Report!vars
  <2>1. heard' = heard /\ dropped' = dropped
    BY <1>12 DEF Elapse, storeVars, luaVars, history
  <2>2. \A u \in Ids : Reachable(u)' <=> Reachable(u)
    BY <1>12 DEF IInv, ReachInv, Reachable, None, Ids, Store!Ids, Elapse, storeVars, luaVars,
       history
  <2>. QED
    BY <2>1, <2>2, FateFrame
<1>13. ASSUME NEW id \in Ids, NetworkAnswers(id)
      PROVE  [Report!Next]_Report!vars
  <2>1. Reachable(id) /\ heard[id] = 0
    BY <1>13 DEF IInv, ReachInv, Reachable, NetworkAnswers, AppRuns, Tell
  <2>2. heard' = [heard EXCEPT ![id] = @ + 1] /\ dropped' = dropped
    BY <1>13 DEF NetworkAnswers, AppRuns, Tell
  <2>3. ~Reachable(id)' /\ \A u \in Ids \ {id} : Reachable(u)' <=> Reachable(u)
    BY <1>13 DEF IInv, ReachInv, Reachable, None, Ids, Store!Ids, NetworkAnswers, AppRuns,
       Tell, storeVars
  <2>. QED
    BY <2>1, <2>2, <2>3, TellStep
<1>14. ASSUME NEW id \in Ids, Worker(id)
      PROVE  [Report!Next]_Report!vars
  <2>1. heard' = heard /\ dropped' = dropped
    BY <1>14 DEF Worker, wrapperVars, luaVars, waiting, history
  <2>2. \A u \in Ids : Reachable(u)' <=> Reachable(u)
    BY <1>14 DEF IInv, ReachInv, Reachable, None, Ids, Store!Ids, Worker, wrapperVars,
       luaVars, waiting, history
  <2>. QED
    BY <2>1, <2>2, FateFrame
<1>15. CASE UNCHANGED vars
  <2>1. heard' = heard /\ dropped' = dropped
    BY <1>15 DEF vars, wrapperVars, storeVars, luaVars, waiting, history
  <2>2. \A u \in Ids : Reachable(u)' <=> Reachable(u)
    BY <1>15 DEF IInv, ReachInv, Reachable, None, Ids, Store!Ids, vars, wrapperVars,
       storeVars, luaVars, waiting, history
  <2>. QED
    BY <2>1, <2>2, FateFrame
<1>. QED
  BY <1>1, <1>2, <1>3, <1>4, <1>5, <1>6, <1>7, <1>8, <1>9, <1>10,
     <1>11, <1>12, <1>13, <1>14, <1>15
     DEF Next, App, Check

\* The wrapper implements OneReport: the listener is told the end once, and never
\* once nothing can reach it any more.
THEOREM Refinement == Spec => RefinesOneReport
<1>1. Init => Report!Init
  <2>. SUFFICES ASSUME Init PROVE Report!Init
    OBVIOUS
  <2>1. \A u \in Ids : heard[u] = 0 /\ ~(heard[u] > 0) /\ ~Reachable(u) /\ u \notin dropped
    BY WrapperAssumption DEF Init, Reachable, None, Ids, Store!Ids
  <2>2. \A u \in Ids : Fate(u) = "idle"
    BY <2>1, Zenon DEF Fate
  <2>. QED
    BY <2>2 DEF Init, Report!Init
<1>. QED
  BY <1>1, ReportStep, InductiveInvariant, PTL DEF Spec, RefinesOneReport, Report!Spec

\* Whatever the wrapper does, the native store sees one of its own calls or nothing,
\* so that what holds of ResultStore holds under the wrapper.
THEOREM StoreBelow == Spec => Store!Spec
<1>1. Init => Store!Init
  BY DEF Init
<1>2. ASSUME [Next]_vars
      PROVE  [Store!Next]_Store!vars
  <2>1. CASE RequestNative
    BY <2>1 DEF RequestNative, Ids, Store!Next, Store!Lua
  <2>2. CASE RequestRegisters
    BY <2>2 DEF RequestRegisters, Ids, Store!Next, Store!Lua
  <2>3. CASE RequestFallsBack
    BY <2>3 DEF RequestFallsBack, Ids, Store!Next, Store!Lua
  <2>4. ASSUME NEW id \in Ids, Cancel(id)
        PROVE  [Store!Next]_Store!vars
    BY <2>4 DEF Cancel, Ids, Store!Next, Store!Lua
  <2>5. CASE CollectGarbage
    BY <2>5 DEF CollectGarbage, Ids, Store!Next, Store!Lua
  <2>6. CASE Return
    BY <2>6 DEF Return, storeVars, Store!vars, Store!ring, Store!counters, Store!history
  <2>7. CASE PumpEvents
    BY <2>7 DEF PumpEvents, storeVars, Store!vars, Store!ring, Store!counters, Store!history
  <2>8. ASSUME NEW id \in Ids, CheckDelivers(id)
        PROVE  [Store!Next]_Store!vars
    BY <2>8 DEF CheckDelivers, Ids, Store!Next, Store!Lua
  <2>9. ASSUME NEW id \in Ids, CheckProgresses(id)
        PROVE  [Store!Next]_Store!vars
    BY <2>9 DEF CheckProgresses, storeVars, Store!vars, Store!ring, Store!counters,
       Store!history
  <2>10. ASSUME NEW id \in Ids, CheckWaits(id)
        PROVE  [Store!Next]_Store!vars
    BY <2>10 DEF CheckWaits, storeVars, Store!vars, Store!ring, Store!counters, Store!history
  <2>11. ASSUME NEW id \in Ids, CheckOverdue(id)
        PROVE  [Store!Next]_Store!vars
    BY <2>11 DEF CheckOverdue, Ids, Store!Next, Store!Lua
  <2>12. ASSUME NEW id \in Ids, Elapse(id)
        PROVE  [Store!Next]_Store!vars
    BY <2>12 DEF Elapse, storeVars, Store!vars, Store!ring, Store!counters, Store!history
  <2>13. ASSUME NEW id \in Ids, NetworkAnswers(id)
        PROVE  [Store!Next]_Store!vars
    BY <2>13 DEF NetworkAnswers, storeVars, Store!vars, Store!ring, Store!counters,
       Store!history
  <2>14. ASSUME NEW id \in Ids, Worker(id)
        PROVE  [Store!Next]_Store!vars
    BY <2>14 DEF Worker, Ids, Store!Next
  <2>15. CASE UNCHANGED vars
    BY <2>15 DEF vars, storeVars, Store!vars, Store!ring, Store!counters, Store!history
  <2>. QED
    BY <1>2, <2>1, <2>2, <2>3, <2>4, <2>5, <2>6, <2>7, <2>8,
       <2>9, <2>10, <2>11, <2>12, <2>13, <2>14, <2>15
       DEF Next, App, Check
<1>. QED
  BY <1>1, <1>2, PTL DEF Spec, Store!Spec
=============================================================================
