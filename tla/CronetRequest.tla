---------------------------- MODULE CronetRequest ----------------------------
(***************************************************************************)
(* A request on Android (LuaLoaderInternal.java) between four threads:     *)
(* Lua's, which asks, cancels and runs the tasks other threads send it;    *)
(* the executor's, which starts Cronet and runs its callbacks; the         *)
(* watchdog's; and Cronet's network thread, known from how this code uses  *)
(* it: cancel() does nothing before start() or once an outcome is decided, *)
(* and exactly one of onSucceeded, onFailed and onCanceled follows.        *)
(* Time is abstracted: the watchdog may fire at any moment after it is     *)
(* set, the pause after a failed initialisation may end at any moment.     *)
(***************************************************************************)
EXTENDS Naturals, Sequences

CONSTANTS
  Requests,
  Watched,   \* those that asked for progress events, of which one is modelled
  PinSets,   \* what the application may set: the pins of one host after another
  None

ASSUME CronetAssumption ==
  /\ Watched \subseteq Requests
  /\ None \notin Requests /\ None \notin UNION PinSets /\ {} \notin PinSets

VARIABLES
  pc,          \* the request's task on sExecutor
  cronet,      \* UrlRequest: "none" before start(), "going", then its outcome
  callback,    \* "none", "report" between the two halves of the last callback, "done"
  watchdog,    \* "none", "set", "fired" before it cancels, "over"
  poTaymautu,  \* flag: the watchdog ended it
  otmenen,     \* flag: the caller ended it
  moved,       \* the progress event: "no", "reading" inside a read of the body, "yes"
  active,      \* sActiveRequestsMap
  engine,      \* the pins the engine was built with, Unbuilt while there is no engine
  building,    \* the pins the builder holds, Unbuilt while there is no builder
  bypass,      \* builder and engine: chains of locally installed roots escape the pins
  pins,        \* sPinHosty, sPinKlyuchi
  monitor,     \* whose task holds the class monitor
  banned,      \* before sCronetSboyDo
  lua,         \* what the Lua thread is in the middle of
  tasks,       \* tasks sent to the Lua thread
  completed, failed,  \* sTotalCompleted, sTotalFailed
  heard,       \* history: final events the listener was called with
  released,    \* history: how often the listener's reference was deleted
  stopped,     \* history: requests Cronet stopped on the caller's cancel()
  gap          \* history: why the builder lacks pins: "none", "expired" or "refused"

flags == <<poTaymautu, otmenen>>
built == <<engine, building, bypass, gap>>
engineVars == <<built, pins, monitor, banned>>
counters == <<completed, failed>>
history == <<heard, released, stopped>>
vars == <<pc, cronet, callback, watchdog, flags, moved, active, engineVars, lua, tasks,
          counters, history>>

Finals == {"answer", "pin", "timeout", "fallback"}
Silent == {"release", "received", "sent"}   \* "sent": progress of the body
Outcomes == {"succeeded", "failed", "pinned", "canceled"}
Idle == [at |-> "idle", request |-> None]
NoPins == {}
Unbuilt == {None}

TypeOK ==
  /\ pc \in [Requests -> {"idle", "refused", "queued", "init", "build", "start", "armed",
                          "fail", "done"}]
  /\ cronet \in [Requests -> {"none", "going"} \cup Outcomes]
  /\ callback \in [Requests -> {"none", "report", "done"}]
  /\ watchdog \in [Requests -> {"none", "set", "fired", "over"}]
  /\ poTaymautu \in [Requests -> BOOLEAN] /\ otmenen \in [Requests -> BOOLEAN]
  /\ moved \in [Requests -> {"no", "reading", "yes"}]
  /\ active \subseteq Requests
  /\ {engine, building} \subseteq (SUBSET UNION PinSets) \cup {Unbuilt}
  /\ pins \in PinSets \cup {NoPins}
  /\ bypass \in BOOLEAN /\ gap \in {"none", "expired", "refused"}
  /\ monitor \in Requests \cup {None} /\ banned \in BOOLEAN
  /\ lua \in [at : {"idle", "flag", "stop"}, request : Requests \cup {None}]
  /\ tasks \in Seq([request : Requests, kind : Finals \cup Silent])
  /\ completed \in Nat /\ failed \in Nat
  /\ heard \in [Requests -> 0 .. 1] /\ released \in [Requests -> 0 .. 1]
  /\ stopped \subseteq Requests

Init ==
  /\ pc = [r \in Requests |-> "idle"] /\ cronet = [r \in Requests |-> "none"]
  /\ callback = [r \in Requests |-> "none"] /\ watchdog = [r \in Requests |-> "none"]
  /\ poTaymautu = [r \in Requests |-> FALSE] /\ otmenen = [r \in Requests |-> FALSE]
  /\ moved = [r \in Requests |-> "no"] /\ active = {}
  /\ engine = Unbuilt /\ building = Unbuilt /\ bypass = TRUE /\ gap = "none"
  /\ pins = NoPins /\ monitor = None /\ banned = FALSE
  /\ lua = Idle /\ tasks = <<>> /\ completed = 0 /\ failed = 0
  /\ heard = [r \in Requests |-> 0] /\ released = [r \in Requests |-> 0]
  /\ stopped = {}

Goto(r, label) == pc' = [pc EXCEPT ![r] = label]
Send(r, kind) == tasks' = Append(tasks, [request |-> r, kind |-> kind])

\* UrlRequest.cancel()
CancelCronet(r) ==
  IF cronet[r] = "going" THEN cronet' = [cronet EXCEPT ![r] = "canceled"] ELSE UNCHANGED cronet

-----------------------------------------------------------------------------
(* Lua thread                                                              *)

\* InitiateRequestWrapper.invoke.  Without a context, or soon after a failed
\* initialisation, the answer is nil and nothing is started.
Ask(r) ==
  /\ lua = Idle /\ pc[r] = "idle"
  /\ pc' \in {[pc EXCEPT ![r] = "refused"], [pc EXCEPT ![r] = "queued"]}
  /\ banned => pc'[r] = "refused"
  /\ UNCHANGED <<cronet, callback, watchdog, flags, moved, active, engineVars, lua, tasks,
                 counters, history>>

\* Mutation: setPins does not take the monitor.
SetPinsUnlocked(p) ==
  /\ lua = Idle /\ engine = Unbuilt /\ pins' = p /\ pins # p
  /\ UNCHANGED <<pc, cronet, callback, watchdog, flags, moved, active, built, monitor, banned,
                 lua, tasks, counters, history>>

\* SetPinsWrapper.invoke waits for an initialisation in progress and refuses
\* once the engine is built.
SetPins(p) ==
  /\ lua = Idle /\ monitor = None /\ engine = Unbuilt
  /\ pins # p /\ pins' = p
  /\ UNCHANGED <<pc, cronet, callback, watchdog, flags, moved, active, built, monitor, banned,
                 lua, tasks, counters, history>>

\* CancelWrapper.invoke: without an entry it answers false and changes nothing.
CancelTake(r) ==
  /\ lua = Idle /\ r \in active
  /\ active' = active \ {r} /\ lua' = [at |-> "flag", request |-> r]
  /\ UNCHANGED <<pc, cronet, callback, watchdog, flags, moved, engineVars, tasks, counters,
                 history>>

CancelFlag(r) ==
  /\ lua = [at |-> "flag", request |-> r]
  /\ otmenen' = [otmenen EXCEPT ![r] = TRUE] /\ lua' = [lua EXCEPT !.at = "stop"]
  /\ UNCHANGED <<pc, cronet, callback, watchdog, poTaymautu, moved, active, engineVars, tasks,
                 counters, history>>

CancelStop(r) ==
  /\ lua = [at |-> "stop", request |-> r]
  /\ CancelCronet(r)
  /\ stopped' = IF cronet[r] = "going" THEN stopped \cup {r} ELSE stopped
  /\ failed' = failed + 1 /\ lua' = Idle
  /\ UNCHANGED <<pc, callback, watchdog, flags, moved, active, engineVars, tasks, completed,
                 heard, released>>

\* Mutation: a progress event deletes the reference too.
RunTaskDeletes ==
  /\ lua = Idle /\ tasks # <<>>
  /\ LET task == Head(tasks) IN
       /\ heard' = [heard EXCEPT ![task.request] = @ + (IF task.kind \in Finals THEN 1 ELSE 0)]
       /\ released' = [released EXCEPT ![task.request] = @ + 1]
  /\ tasks' = Tail(tasks)
  /\ UNCHANGED <<pc, cronet, callback, watchdog, flags, moved, active, engineVars, lua,
                 counters, stopped>>

\* executeUsing of the oldest task: every task but a progress event deletes
\* the listener's reference, every one but osvobodit's calls the listener.
RunTask ==
  /\ lua = Idle /\ tasks # <<>>
  /\ LET task == Head(tasks) IN
       /\ heard' = [heard EXCEPT ![task.request] = @ + (IF task.kind \in Finals THEN 1 ELSE 0)]
       /\ released' = [released EXCEPT ![task.request] =
                                          @ + (IF task.kind \in Finals \cup {"release"} THEN 1 ELSE 0)]
  /\ tasks' = Tail(tasks)
  /\ UNCHANGED <<pc, cronet, callback, watchdog, flags, moved, active, engineVars, lua,
                 counters, stopped>>

-----------------------------------------------------------------------------
(* Executor thread: the Runnable of invoke, initializeCronet and           *)
(* startCronetRequest                                                      *)

\* initializeCronet enters the monitor: the engine is there, a failure is
\* recent, or this task is the one that builds.
EnterMonitor(r) ==
  /\ pc[r] = "queued" /\ monitor = None
  /\ \/ engine # Unbuilt /\ Goto(r, "start") /\ UNCHANGED monitor
     \/ engine = Unbuilt /\ banned /\ Goto(r, "fail") /\ UNCHANGED monitor
     \/ engine = Unbuilt /\ ~banned /\ Goto(r, "init") /\ monitor' = r
  /\ UNCHANGED <<cronet, callback, watchdog, flags, moved, active, built, pins, banned, lua,
                 tasks, counters, history>>

\* Mutation: the builder is never given the pins.
GivePinsForgets(r) ==
  /\ pc[r] = "init" /\ Goto(r, "build")
  /\ building' = NoPins /\ bypass' = TRUE /\ gap' = "none"
  /\ UNCHANGED <<cronet, callback, watchdog, flags, moved, active, engine, pins, monitor,
                 banned, lua, tasks, counters, history>>

\* A new builder gets the pins host by host, then loses its exemption of locally
\* installed roots.  A set whose date has passed is not handed over.  An exception
\* at one host leaves the builder with the hosts before it, in the application's
\* order, and with the exemption.
GivePins(r) ==
  /\ pc[r] = "init" /\ Goto(r, "build")
  /\ \/ building' = pins /\ bypass' = (pins = NoPins) /\ gap' = "none"
     \/ pins # NoPins /\ building' = NoPins /\ bypass' = TRUE /\ gap' = "expired"
     \/ building' \in (SUBSET pins) \ {pins} /\ bypass' = TRUE /\ gap' = "refused"
  /\ UNCHANGED <<cronet, callback, watchdog, flags, moved, active, engine, pins, monitor,
                 banned, lua, tasks, counters, history>>

BuildEngine(r) ==
  /\ pc[r] = "build"
  /\ engine' = building /\ building' = Unbuilt /\ monitor' = None /\ Goto(r, "start")
  /\ UNCHANGED <<cronet, callback, watchdog, flags, moved, active, bypass, gap, pins, banned,
                 lua, tasks, counters, history>>

\* The provider is missing or the build throws: zapomnitSboy.
InitFails(r) ==
  /\ pc[r] = "build"
  /\ banned' = TRUE /\ building' = Unbuilt /\ monitor' = None /\ Goto(r, "fail")
  /\ UNCHANGED <<cronet, callback, watchdog, flags, moved, active, engine, bypass, gap, pins,
                 lua, tasks, counters, history>>

PauseEnds ==
  /\ banned /\ banned' = FALSE
  /\ UNCHANGED <<pc, cronet, callback, watchdog, flags, moved, active, built, pins, monitor,
                 lua, tasks, counters, history>>

\* The entry is put before start(), so that cancel() finds it from here on;
\* then the watchdog is scheduled.
PutActive(r) ==
  /\ pc[r] = "start"
  /\ active' = active \cup {r}
  /\ watchdog' = [watchdog EXCEPT ![r] = "set"]
  /\ Goto(r, "armed")
  /\ UNCHANGED <<cronet, callback, flags, moved, engineVars, lua, tasks, counters, history>>

StartRequest(r) ==
  /\ pc[r] = "armed"
  /\ cronet' = [cronet EXCEPT ![r] = "going"] /\ Goto(r, "done")
  /\ UNCHANGED <<callback, watchdog, flags, moved, active, engineVars, lua, tasks, counters,
                 history>>

\* Cronet rejects the method, a header or the URL with an exception.
StartThrows(r) ==
  /\ pc[r] \in {"start", "armed"}
  /\ Goto(r, "fail")
  /\ UNCHANGED <<cronet, callback, watchdog, flags, moved, active, engineVars, lua, tasks,
                 counters, history>>

\* The failed initialisation and the catch of run().
FailRequest(r) ==
  /\ pc[r] = "fail"
  /\ active' = active \ {r} /\ failed' = failed + 1 /\ Send(r, "fallback")
  /\ Goto(r, "done")
  /\ UNCHANGED <<cronet, callback, watchdog, flags, moved, engineVars, lua, completed, history>>

-----------------------------------------------------------------------------
(* Watchdog thread                                                         *)

WatchdogFires(r) ==
  /\ watchdog[r] = "set"
  /\ watchdog' = [watchdog EXCEPT ![r] = "fired"]
  /\ poTaymautu' = [poTaymautu EXCEPT ![r] = TRUE]
  /\ UNCHANGED <<pc, cronet, callback, otmenen, moved, active, engineVars, lua, tasks,
                 counters, history>>

\* Mutation: the watchdog reports the timeout itself as well.
WatchdogReports(r) ==
  /\ watchdog[r] = "fired"
  /\ watchdog' = [watchdog EXCEPT ![r] = "over"] /\ CancelCronet(r) /\ Send(r, "timeout")
  /\ UNCHANGED <<pc, callback, flags, moved, active, engineVars, lua, counters, history>>

WatchdogCancels(r) ==
  /\ watchdog[r] = "fired"
  /\ watchdog' = [watchdog EXCEPT ![r] = "over"] /\ CancelCronet(r)
  /\ UNCHANGED <<pc, callback, flags, moved, active, engineVars, lua, tasks, counters, history>>

-----------------------------------------------------------------------------
(* Cronet and its callbacks, which run one after another on the executor   *)

\* Only an engine built with pins can find a key that is not among them.
Decide(r) ==
  /\ cronet[r] = "going"
  /\ \E outcome \in {"succeeded", "failed"} \cup (IF engine = NoPins THEN {} ELSE {"pinned"}) :
       cronet' = [cronet EXCEPT ![r] = outcome]
  /\ UNCHANGED <<pc, callback, watchdog, flags, moved, active, engineVars, lua, tasks,
                 counters, history>>

\* onResponseStarted and onReadCompleted.
DownloadProgress(r) ==
  /\ r \in Watched /\ cronet[r] # "none" /\ callback[r] = "none" /\ moved[r] = "no"
  /\ moved' = [moved EXCEPT ![r] = "yes"] /\ Send(r, "received")
  /\ UNCHANGED <<pc, cronet, callback, watchdog, flags, active, engineVars, lua, counters,
                 history>>

\* TeloSoSchyotom.read runs on a thread of its own beside the callbacks.
UploadReadBegins(r) ==
  /\ r \in Watched /\ cronet[r] = "going" /\ moved[r] = "no"
  /\ moved' = [moved EXCEPT ![r] = "reading"]
  /\ UNCHANGED <<pc, cronet, callback, watchdog, flags, active, engineVars, lua, tasks,
                 counters, history>>

UploadProgress(r) ==
  /\ moved[r] = "reading"
  /\ moved' = [moved EXCEPT ![r] = "yes"] /\ Send(r, "sent")
  /\ UNCHANGED <<pc, cronet, callback, watchdog, flags, active, engineVars, lua, counters,
                 history>>

\* Mutation: the entry is not removed when Cronet has ended the request.
LastCallbackKeeps(r) ==
  /\ cronet[r] \in Outcomes /\ callback[r] = "none"
  /\ watchdog' = [watchdog EXCEPT ![r] = IF @ = "set" THEN "over" ELSE @]
  /\ callback' = [callback EXCEPT ![r] = "report"]
  /\ UNCHANGED <<pc, cronet, flags, moved, active, engineVars, lua, tasks, counters, history>>

\* The first half of onSucceeded, onFailed and onCanceled: a watchdog that has
\* not fired yet is called off, and the entry leaves the map.
LastCallback(r) ==
  /\ cronet[r] \in Outcomes /\ callback[r] = "none"
  /\ watchdog' = [watchdog EXCEPT ![r] = IF @ = "set" THEN "over" ELSE @]
  /\ active' = active \ {r}
  /\ callback' = [callback EXCEPT ![r] = "report"]
  /\ UNCHANGED <<pc, cronet, flags, moved, engineVars, lua, tasks, counters, history>>

\* Mutation: a timeout the caller forestalled is still reported.
VerdictTimeoutFirst(r) ==
  CASE cronet[r] = "succeeded" -> "answer"
    [] cronet[r] = "pinned" -> "pin"
    [] cronet[r] = "canceled" /\ poTaymautu[r] -> "timeout"
    [] cronet[r] = "canceled" /\ otmenen[r] -> "release"
    [] OTHER -> "fallback"

\* What the listener will be told: onFailed does not ask who stopped the
\* request, onCanceled does.
Verdict(r) ==
  CASE cronet[r] = "succeeded" -> "answer"
    [] cronet[r] = "pinned" -> "pin"
    [] cronet[r] = "canceled" /\ otmenen[r] -> "release"
    [] cronet[r] = "canceled" /\ ~otmenen[r] /\ poTaymautu[r] -> "timeout"
    [] OTHER -> "fallback"

ReportCallback(r) ==
  /\ callback[r] = "report"
  /\ callback' = [callback EXCEPT ![r] = "done"] /\ Send(r, Verdict(r))
  /\ IF cronet[r] = "succeeded"
     THEN completed' = completed + 1 /\ UNCHANGED failed
     ELSE failed' = failed + 1 /\ UNCHANGED completed
  /\ UNCHANGED <<pc, cronet, watchdog, flags, moved, active, engineVars, lua, history>>

-----------------------------------------------------------------------------

LuaCalls ==
  \/ \E r \in Requests : Ask(r) \/ CancelTake(r) \/ CancelFlag(r) \/ CancelStop(r)
  \/ \E p \in PinSets \cup {NoPins} : SetPins(p)
  \/ RunTask

ExecutorTask(r) ==
  \/ EnterMonitor(r) \/ GivePins(r) \/ BuildEngine(r) \/ InitFails(r) \/ PutActive(r)
  \/ StartRequest(r) \/ StartThrows(r) \/ FailRequest(r)

Watchdog(r) == WatchdogFires(r) \/ WatchdogCancels(r)

LastCallbacks(r) == LastCallback(r) \/ ReportCallback(r)

Cronet(r) == Decide(r) \/ DownloadProgress(r) \/ UploadReadBegins(r) \/ UploadProgress(r)

Next ==
  \/ LuaCalls \/ PauseEnds
  \/ \E r \in Requests : ExecutorTask(r) \/ Watchdog(r) \/ LastCallbacks(r) \/ Cronet(r)

\* Lua runs its tasks and returns from cancel(), the executor runs, the watchdog's
\* time comes; a request has a bounded number of these steps.  The network may stay
\* silent for ever, and nobody has to ask.
Fairness ==
  /\ WF_vars(RunTask \/ \E r \in Requests : CancelFlag(r) \/ CancelStop(r))
  /\ WF_vars(\E r \in Requests : ExecutorTask(r) \/ LastCallbacks(r))
  /\ WF_vars(\E r \in Requests : Watchdog(r))

Spec == Init /\ [][Next]_vars /\ Fairness

-----------------------------------------------------------------------------
(* Properties                                                              *)

\* Needs the listener's reference.
Needs(i) == tasks[i].kind # "sent"

\* The listener's reference is deleted at most once, and no task that needs it
\* is left behind: whoever ends a request, the exception path, one of three
\* callbacks or osvobodit, it is the last of the request's tasks, except for
\* progress of a body, whose reader is not stopped by the callbacks.
ReleasedLast ==
  \A i \in 1 .. Len(tasks) : Needs(i) =>
    /\ released[tasks[i].request] = 0
    /\ \A j \in 1 .. i - 1 :
         Needs(j) /\ tasks[j].request = tasks[i].request => tasks[j].kind = "received"

\* A request that was still going when cancel() stopped it, with the watchdog
\* racing, ends without a call of its listener: only its reference is deleted.
CancelHonoured ==
  \A r \in stopped :
    /\ heard[r] = 0
    /\ \A i \in 1 .. Len(tasks) : tasks[i].request = r => tasks[i].kind \in Silent

\* The engine is built once per process, in one of several tasks that may try, and
\* setPins comes before, between and after the attempts: the pins in force are those of
\* the last setPins that said true, without the exemption of local roots.  Two things
\* are allowed to spoil that, and only as far as said: the date of the set had passed
\* (322), and then no pin is in force; the builder threw at a host (330), and then
\* some of the pins are missing and the exemption stays.
PinsInEngine ==
  engine # Unbuilt =>
    /\ gap = "none" => engine = pins /\ (bypass => pins = NoPins)
    /\ gap = "expired" => engine = NoPins
    /\ gap = "refused" => engine \subseteq pins /\ engine # pins

\* Every request that was accepted ends: its reference is deleted and its
\* entry leaves the map, unless the watchdog fired before start() and the
\* network stays silent, when nothing is left to end it.
EventuallyEnded ==
  \A r \in Requests :
    []<>(\/ pc[r] \in {"idle", "refused"}
         \/ released[r] = 1 /\ r \notin active
         \/ watchdog[r] = "over" /\ cronet[r] = "going")

Fate(r) ==
  CASE heard[r] > 0 -> "told"
    [] heard[r] = 0 /\ released[r] > 0 -> "dropped"
    [] pc[r] \in {"idle", "refused"} -> "idle"
    [] OTHER -> "open"

Report == INSTANCE OneReport WITH fate <- [r \in Requests |-> Fate(r)]

\* The listener is told once or the request is dropped, never both.
RefinesOneReport == Report!Spec
=============================================================================
