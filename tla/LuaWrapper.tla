----------------------------- MODULE LuaWrapper -----------------------------
(***************************************************************************)
(* M.request, M.cancel, M.collectGarbage and M.pumpEvents of               *)
(* lua/plugin_http3.lua over the native layer of Windows (ResultStore),    *)
(* which is polled: a listener per request asks checkRequest once per pass *)
(* over the listeners, reports progress, gives up when the request is      *)
(* overdue, and turns a failed transport into a network.request.           *)
(*                                                                         *)
(* There is one Lua thread.  The application calls the module between two  *)
(* passes or inside a callback of its own; what it does not do is to pump  *)
(* events from inside a callback.  Passes over the listeners of enterFrame *)
(* are Solar2D's and taken to work like pumpEvents, over a snapshot.       *)
(*                                                                         *)
(* The module runs in Solar2D and, for its tests, in a plain interpreter   *)
(* (the CLI mode of pumpEvents) where Runtime and network need not exist:  *)
(* it tests for both, and does less without them.                          *)
(***************************************************************************)
EXTENDS Naturals, Sequences, FiniteSets

CONSTANTS
  LastId, Kinds, FailedKinds, MaxResults, MaxCancelled, MaxSlots, LastByte,
  SpawnFails, Collects,   \* of ResultStore
  TransportFailed,        \* the kinds whose reason is NATIVE_TRANSPORT_FAILED
  Hosts,                  \* the sets of globals of Solar2D the module may find
  Watched                 \* identifiers of the requests that ask for progress events

ASSUME WrapperAssumption ==
  /\ LastId \in Nat /\ TransportFailed \subseteq FailedKinds
  /\ Hosts \subseteq SUBSET {"Runtime", "network"}

VARIABLES
  globals,          \* the globals of Solar2D that exist, the same all along
  nextId, starting, running, results, cancelled, progress, progressNext,
  active, completed, failed, known, delivered, silenced, forgotten, moved,
  activeListeners,  \* requests whose polling listener is registered
  snapshot,         \* listeners this pass has still to call
  inside,           \* the listener between its progress event and its overdue test
  calling,          \* whether the application's callback is running
  shown,            \* peredano_na_proshlom, 0 until "began"
  late,             \* requests that have waited for more than maxWaitMs
  network,          \* requests handed to network.request that it has not answered
  heard,            \* history: final events of a request
  dropped,          \* history: requests cancelled, garbage-collected, or failed with
                    \* no network.request to repeat them
  promised          \* history: requests cancelled when nothing was on its way to them

Store == INSTANCE ResultStore

storeVars == <<nextId, starting, running, results, cancelled, progress, progressNext, active,
               completed, failed, known, delivered, silenced, forgotten, moved>>
luaVars == <<globals, snapshot, inside, calling>>
waiting == <<shown, late, network>>
history == <<heard, dropped, promised>>
wrapperVars == <<activeListeners, luaVars, waiting, history>>
vars == <<storeVars, wrapperVars>>

Ids == Store!Ids
None == 0

Init ==
  /\ Store!Init
  /\ globals \in Hosts
  /\ activeListeners = {} /\ snapshot = {} /\ inside = None /\ calling = FALSE
  /\ shown = [i \in Ids |-> 0] /\ late = {} /\ network = {}
  /\ heard = [i \in Ids |-> 0] /\ dropped = {} /\ promised = {}

-----------------------------------------------------------------------------
(* Called by the application                                               *)

\* Nothing but the application's own code is running in Lua.
AppRuns == calling \/ (snapshot = {} /\ inside = None)

\* M.request up to and inside the native call.
RequestNative ==
  /\ AppRuns /\ (Store!InitiateRequest \/ Store!ProgressStart)
  /\ starting'.at = "slot" => nextId \in Watched
  /\ UNCHANGED wrapperVars

\* An identifier came back: the polling listener is registered.
RequestRegisters ==
  /\ AppRuns /\ Store!StartThreads
  /\ activeListeners' = activeListeners \cup {starting.id}
  /\ UNCHANGED <<luaVars, waiting, history>>

\* network.request is called for the requests in S, if there is one.
Repeat(S) == network' = IF "network" \in globals THEN network \cup S ELSE network

\* nil came back: network.request serves the request from the start.
RequestFallsBack ==
  /\ AppRuns /\ Store!StartThreadsFails /\ Repeat({starting.id})
  /\ UNCHANGED <<activeListeners, luaVars, shown, late, history>>

\* Something may still call the listener of id.
Reachable(id) == id \in activeListeners \cup snapshot \cup network \cup {inside}

\* The request is cancelled; no pass and no network.request is on its way to it.
Forsaken(id) ==
  /\ dropped' = dropped \cup {id}
  /\ promised' = IF heard[id] = 0 /\ id \notin snapshot \cup network \cup {inside}
                 THEN promised \cup {id} ELSE promised

\* Mutation: the polling listener stays registered.
CancelNativeOnly(id) ==
  /\ AppRuns /\ Store!CancelRequest(id) /\ Forsaken(id)
  /\ UNCHANGED <<activeListeners, luaVars, waiting, heard>>

\* M.cancel knows nothing of network.request, nor of the pass that is going on, and
\* takes the listener away only where there is a Runtime to take it from.
Cancel(id) ==
  /\ AppRuns /\ Store!CancelRequest(id) /\ Forsaken(id)
  /\ activeListeners' = IF "Runtime" \in globals THEN activeListeners \ {id}
                        ELSE activeListeners
  /\ UNCHANGED <<luaVars, waiting, heard>>

\* M.collectGarbage takes the listeners of requests in flight away with the rest.
CollectGarbage ==
  /\ AppRuns /\ Store!CollectGarbage
  /\ activeListeners' = {} /\ dropped' = dropped \cup activeListeners
  /\ UNCHANGED <<luaVars, waiting, heard, promised>>

\* The callback returns.
Return ==
  /\ calling /\ starting.at = "idle"
  /\ calling' = FALSE
  /\ UNCHANGED <<storeVars, globals, activeListeners, snapshot, inside, waiting, history>>

-----------------------------------------------------------------------------
(* A pass over the listeners                                               *)

PumpEvents ==
  /\ AppRuns /\ ~calling /\ starting.at = "idle" /\ activeListeners # {}
  /\ snapshot' = activeListeners
  /\ UNCHANGED <<storeVars, globals, activeListeners, inside, calling, waiting, history>>

\* The application's listener is called with the end of a request.
Tell(id) == heard' = [heard EXCEPT ![id] = @ + 1] /\ calling' = TRUE

\* The listener of id is called for the first time in this pass.
Called(id) == id \in snapshot /\ inside = None /\ ~calling

\* check with a result: wrapperListener hands a failed transport to
\* network.request, and everything else, PIN_FAILED included, to the application.
\* Without network.request nobody is told of the failure.
CheckDelivers(id) ==
  /\ Called(id) /\ Store!CheckRequest(id)
  /\ snapshot' = snapshot \ {id} /\ activeListeners' = activeListeners \ {id}
  /\ \E k \in 1 .. Len(results) :
       /\ results[k].id = id
       /\ IF results[k].kind \in TransportFailed
          THEN /\ Repeat({id})
               /\ dropped' = IF "network" \in globals THEN dropped ELSE dropped \cup {id}
               /\ UNCHANGED <<heard, calling>>
          ELSE Tell(id) /\ UNCHANGED <<network, dropped>>
  /\ UNCHANGED <<globals, inside, shown, late, promised>>

\* The bytes counted in the slot of id, of which more than shown are news.
Transferred(id) == {progress[s].bytes : s \in Store!SlotsOf(id)}
News(id) == \E bytes \in Transferred(id) : bytes > shown[id]

\* check without a result, proverit_progress: "began" or "progress" is sent.
CheckProgresses(id) ==
  /\ Called(id) /\ ~Store!Stored(id) /\ News(id)
  /\ \E bytes \in Transferred(id) : shown' = [shown EXCEPT ![id] = bytes]
  /\ snapshot' = snapshot \ {id} /\ inside' = id /\ calling' = TRUE
  /\ UNCHANGED <<storeVars, globals, activeListeners, late, network, history>>

\* The rest of check comes after the progress event or at once; the half second
\* between two events may not be over, so that news can wait.
Rest(id) == (inside = id /\ ~calling) \/ (Called(id) /\ ~Store!Stored(id))

CheckWaits(id) ==
  /\ Rest(id) /\ id \notin late
  /\ snapshot' = snapshot \ {id} /\ inside' = None
  /\ UNCHANGED <<storeVars, globals, activeListeners, calling, waiting, history>>

\* Mutation: the listener of an overdue request stays registered.
CheckOverdueAgain(id) ==
  /\ Rest(id) /\ id \in late
  /\ snapshot' = snapshot \ {id} /\ inside' = None
  /\ Store!CancelRequest(id) /\ Tell(id)
  /\ UNCHANGED <<globals, activeListeners, waiting, dropped, promised>>

\* Mutation: an overdue request is cancelled without a word.
CheckOverdueSilent(id) ==
  /\ Rest(id) /\ id \in late
  /\ snapshot' = snapshot \ {id} /\ inside' = None
  /\ activeListeners' = activeListeners \ {id}
  /\ Store!CancelRequest(id)
  /\ UNCHANGED <<globals, calling, waiting, history>>

\* More than maxWaitMs have passed: the native request is cancelled and the
\* timeout reported, whether or not the listener is still registered.
CheckOverdue(id) ==
  /\ Rest(id) /\ id \in late
  /\ snapshot' = snapshot \ {id} /\ inside' = None
  /\ activeListeners' = activeListeners \ {id}
  /\ Store!CancelRequest(id) /\ Tell(id)
  /\ UNCHANGED <<globals, waiting, dropped, promised>>

Check(id) == CheckDelivers(id) \/ CheckProgresses(id) \/ CheckWaits(id) \/ CheckOverdue(id)

-----------------------------------------------------------------------------
(* Outside the module                                                      *)

\* timeout + 2 seconds have passed since startTime.
Elapse(id) ==
  /\ id \in activeListeners \ late
  /\ late' = late \cup {id}
  /\ UNCHANGED <<storeVars, activeListeners, luaVars, shown, network, history>>

\* network.request ends; its event comes between two passes.
NetworkAnswers(id) ==
  /\ id \in network /\ AppRuns /\ ~calling /\ starting.at = "idle"
  /\ network' = network \ {id} /\ Tell(id)
  /\ UNCHANGED <<storeVars, globals, activeListeners, snapshot, inside, shown, late, dropped,
                 promised>>

Worker(id) == Store!Worker(id) /\ UNCHANGED wrapperVars

App ==
  \/ RequestNative \/ RequestRegisters \/ RequestFallsBack \/ CollectGarbage \/ Return
  \/ \E id \in Ids : Cancel(id)

Next ==
  \/ App \/ PumpEvents
  \/ \E id \in Ids : Check(id) \/ Elapse(id) \/ NetworkAnswers(id) \/ Worker(id)

\* The Lua thread goes on from where it is, in a request or in a pass over the
\* listeners, passes come, time passes, network.request ends (its own time-out); the
\* native threads need not answer.
Fairness ==
  /\ WF_vars(RequestNative \/ RequestRegisters)
  /\ WF_vars(PumpEvents \/ Return \/ \E id \in Ids : Check(id))
  /\ WF_vars(\E id \in Ids : Elapse(id)) /\ SF_vars(\E id \in Ids : NetworkAnswers(id))

Spec == Init /\ [][Next]_vars /\ Fairness

-----------------------------------------------------------------------------
(* Properties                                                              *)

\* In Solar2D a request that was cancelled when it was neither with network.request
\* nor in the pass going on is not heard of again, even if the native layer forgets
\* the cancellation (its ring overflows, collectGarbage clears it) and keeps the
\* result, and even if it is overdue.  Where there is no Runtime M.cancel leaves the
\* listener registered (442), and an overdue one is told "Request Timeout" (386-394),
\* although ReadMe.md:372 says that it is called "if the request was not cancelled".
CancelSilences == "Runtime" \in globals => \A id \in promised : heard[id] = 0

\* Every request whose listener was registered (it is known) is told its end at last,
\* whatever becomes of its result in the native list, unless it is cancelled,
\* collectGarbage takes its listener away, or its transport fails where there is no
\* network.request: then wrapperListener (203-214) prints a line and calls nobody.
EventuallyHeard ==
  \A id \in Ids : []<>(id \in known => heard[id] = 1 \/ id \in dropped)

Fate(id) ==
  CASE heard[id] > 0 -> "told"
    [] heard[id] = 0 /\ Reachable(id) -> "open"
    [] heard[id] = 0 /\ ~Reachable(id) /\ id \in dropped -> "dropped"
    [] OTHER -> "idle"

Report == INSTANCE OneReport WITH Requests <- Ids, fate <- [id \in Ids |-> Fate(id)]

\* The application is told the end of a request once, and never once nothing can
\* reach its listener any more.
RefinesOneReport == Report!Spec
=============================================================================
