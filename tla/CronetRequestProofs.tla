------------------------ MODULE CronetRequestProofs ------------------------
(***************************************************************************)
(* Proofs about the Android layer of module CronetRequest, for any number  *)
(* of requests and any sets of pins.                                       *)
(*                                                                         *)
(* StageInv orders what the executor, Cronet and its last callback have    *)
(* done for a request, and says of a request that cancel() stopped that    *)
(* its flag was set before.  MonitorInv follows the pins through the class *)
(* monitor into the engine.  QueueInv follows the end of a request from    *)
(* whoever sends it, once, over the tasks of the Lua thread to the         *)
(* listener and the deletion of its reference.                             *)
(*                                                                         *)
(* The last part is about the hints of module QuicHints, which the same    *)
(* threads keep: BuilderInv about the one that builds the engine, KeptInv  *)
(* about what earlier processes saved.                                     *)
(***************************************************************************)
EXTENDS CronetRequest, QuicHints, SequenceTheorems, TLAPS

StageInv ==
  /\ \A r \in Requests :
       /\ pc[r] # "done" => cronet[r] = "none"
       /\ cronet[r] \notin Outcomes => callback[r] = "none"
       /\ r \in stopped => cronet[r] = "canceled" /\ otmenen[r]
  /\ lua.at = "stop" => otmenen[lua.request]

\* What gap says of the pins of a builder or an engine, against those in force.
Spoiled(given) ==
  /\ gap = "none" => given = pins /\ (bypass => pins = NoPins)
  /\ gap = "expired" => given = NoPins
  /\ gap = "refused" => given \subseteq pins /\ given # pins

\* The engine is built inside the monitor, with the pins that were in force there.
MonitorInv ==
  /\ \A r \in Requests :
       /\ monitor = r <=> pc[r] \in {"init", "build"}
       /\ pc[r] = "build" => Spoiled(building)
  /\ monitor # None => engine = Unbuilt
  /\ engine # Unbuilt => Spoiled(engine)

\* The task that ends the request has been sent: by FailRequest or a last callback.
Ended(r) == callback[r] = "done" \/ (pc[r] = "done" /\ cronet[r] = "none")

Ending == Finals \cup {"release"}

\* What ends a request is sent once; nothing that needs its reference follows.
QueueInv ==
  /\ ReleasedLast
  /\ \A i \in 1 .. Len(tasks), u \in Requests :
       tasks[i].request = u /\ tasks[i].kind \in Ending => Ended(u)
  /\ \A i \in 1 .. Len(tasks) : tasks[i].request \in stopped => tasks[i].kind \notin Finals
  /\ \A r \in Requests :
       /\ released[r] > 0 => Ended(r)
       /\ heard[r] <= released[r]
       /\ r \in stopped => heard[r] = 0

IInv == TypeOK /\ StageInv /\ MonitorInv /\ QueueInv

Task == [request : Requests, kind : Finals \cup Silent]

\* The queue, and what is left of it when its first task has run.
LEMMA QueueFacts ==
  ASSUME TypeOK
  PROVE  /\ Len(tasks) \in Nat
         /\ \A i \in 1 .. Len(tasks) :
              /\ tasks[i] \in Task /\ tasks[i].request \in Requests
              /\ tasks[i].kind \in Finals \cup Silent
         /\ tasks # <<>> =>
              /\ 1 \in 1 .. Len(tasks) /\ Head(tasks) = tasks[1]
              /\ Tail(tasks) \in Seq(Task) /\ Len(Tail(tasks)) = Len(tasks) - 1
              /\ \A i \in 1 .. Len(Tail(tasks)) : Tail(tasks)[i] = tasks[i + 1]
<1>1. tasks \in Seq(Task)
  BY DEF TypeOK, Task
<1>2. Len(tasks) \in Nat /\ \A i \in 1 .. Len(tasks) : tasks[i] \in Task
  BY <1>1, ElementOfSeq, LenProperties
<1>3. ASSUME tasks # <<>>
      PROVE  1 \in 1 .. Len(tasks) /\ Head(tasks) = tasks[1]
  BY <1>1, <1>3, EmptySeq
<1>4. ASSUME tasks # <<>>
      PROVE  /\ Tail(tasks) \in Seq(Task) /\ Len(Tail(tasks)) = Len(tasks) - 1
             /\ \A i \in 1 .. Len(Tail(tasks)) : Tail(tasks)[i] = tasks[i + 1]
  BY <1>1, <1>4, HeadTailProperties
<1>5. \A e \in Task : e.request \in Requests /\ e.kind \in Finals \cup Silent
  BY DEF Task
<1>. QED
  BY <1>2, <1>3, <1>4, <1>5

\* The queue after a task has been sent.
LEMMA SendFacts ==
  ASSUME TypeOK, NEW r \in Requests, NEW kind \in Finals \cup Silent, Send(r, kind)
  PROVE  /\ tasks' \in Seq(Task) /\ Len(tasks') = Len(tasks) + 1
         /\ tasks'[Len(tasks) + 1].request = r /\ tasks'[Len(tasks) + 1].kind = kind
         /\ \A i \in 1 .. Len(tasks) : tasks'[i] = tasks[i]
<1>1. tasks \in Seq(Task) /\ [request |-> r, kind |-> kind] \in Task
  BY DEF TypeOK, Task
<1>2. tasks' = Append(tasks, [request |-> r, kind |-> kind])
  BY DEF Send
<1>. QED
  BY <1>1, <1>2

\* The verdict is a task the listener understands, and silence when cancel()
\* has stopped the request.
LEMMA VerdictFacts ==
  ASSUME TypeOK, StageInv, NEW r \in Requests
  PROVE  Verdict(r) \in Ending /\ (r \in stopped => Verdict(r) = "release")
BY DEF TypeOK, StageInv, Verdict, Ending, Finals, Outcomes

\* Every action keeps the variables in their types; a listener is told, and its
\* reference deleted, at most once.
LEMMA TypeStep ==
  ASSUME IInv, [Next]_vars
  PROVE  TypeOK'
<1>1. ASSUME NEW r \in Requests, Ask(r)
      PROVE  TypeOK'
  BY <1>1 DEF IInv, TypeOK, Ask, Idle, flags, engineVars, built, counters, history
<1>2. ASSUME NEW r \in Requests, CancelTake(r)
      PROVE  TypeOK'
  BY <1>2 DEF IInv, TypeOK, CancelTake, Idle, flags, engineVars, built, counters, history
<1>3. ASSUME NEW r \in Requests, CancelFlag(r)
      PROVE  TypeOK'
  BY <1>3 DEF IInv, TypeOK, CancelFlag, engineVars, built, counters, history
<1>4. ASSUME NEW r \in Requests, CancelStop(r)
      PROVE  TypeOK'
  BY <1>4 DEF IInv, TypeOK, CancelStop, CancelCronet, Idle, Outcomes, flags, engineVars, built
<1>5. ASSUME NEW p \in PinSets \cup {NoPins}, SetPins(p)
      PROVE  TypeOK'
  BY <1>5 DEF IInv, TypeOK, SetPins, built, Idle, flags, counters, history
<1>6. CASE RunTask
  <2>1. /\ 1 \in 1 .. Len(tasks) /\ Head(tasks) = tasks[1] /\ tasks[1].request \in Requests
        /\ Tail(tasks) \in Seq(Task)
    BY <1>6, QueueFacts DEF IInv, RunTask
  <2>2. Needs(1) => released[tasks[1].request] = 0 /\ heard[tasks[1].request] = 0
    BY <2>1 DEF IInv, TypeOK, QueueInv, ReleasedLast
  <2>3. tasks[1].kind \in Ending => Needs(1)
    BY DEF Ending, Finals, Needs
  <2>4. heard' \in [Requests -> 0 .. 1]
    BY <1>6, <2>1, <2>2, <2>3 DEF IInv, TypeOK, RunTask, Ending
  <2>5. released' \in [Requests -> 0 .. 1]
    BY <1>6, <2>1, <2>2, <2>3 DEF IInv, TypeOK, RunTask, Ending
  <2>. QED
    BY <1>6, <2>1, <2>4, <2>5 DEF IInv, TypeOK, Task, RunTask, flags, engineVars, built, counters
<1>7. CASE PauseEnds
  BY <1>7 DEF IInv, TypeOK, PauseEnds, built, flags, counters, history
<1>8. ASSUME NEW r \in Requests, EnterMonitor(r)
      PROVE  TypeOK'
  BY <1>8 DEF IInv, TypeOK, EnterMonitor, built, Goto, flags, counters, history
<1>9. ASSUME NEW r \in Requests, GivePins(r)
      PROVE  TypeOK'
  <2>1. pins \subseteq UNION PinSets
    BY DEF IInv, TypeOK, NoPins
  <2>2. /\ building' \in SUBSET UNION PinSets /\ bypass' \in BOOLEAN
        /\ gap' \in {"none", "expired", "refused"}
    BY <1>9, <2>1 DEF GivePins, NoPins
  <2>3. /\ UNCHANGED <<cronet, callback, watchdog, flags, moved, active, engine, pins>>
        /\ UNCHANGED <<monitor, banned, lua, tasks, counters, history>>
        /\ pc' = [pc EXCEPT ![r] = "build"]
    BY <1>9 DEF GivePins, Goto
  <2>. QED
    BY <2>2, <2>3 DEF IInv, TypeOK, flags, counters, history
<1>10. ASSUME NEW r \in Requests, BuildEngine(r)
      PROVE  TypeOK'
  BY <1>10 DEF IInv, TypeOK, BuildEngine, Goto, flags, counters, history
<1>11. ASSUME NEW r \in Requests, InitFails(r)
      PROVE  TypeOK'
  BY <1>11 DEF IInv, TypeOK, InitFails, Goto, flags, counters, history
<1>12. ASSUME NEW r \in Requests, PutActive(r)
      PROVE  TypeOK'
  BY <1>12 DEF IInv, TypeOK, PutActive, Goto, flags, engineVars, built, counters, history
<1>13. ASSUME NEW r \in Requests, StartRequest(r)
      PROVE  TypeOK'
  BY <1>13 DEF IInv, TypeOK, StartRequest, Goto, Outcomes, flags, engineVars, built, counters,
     history
<1>14. ASSUME NEW r \in Requests, StartThrows(r)
      PROVE  TypeOK'
  BY <1>14 DEF IInv, TypeOK, StartThrows, Goto, flags, engineVars, built, counters, history
<1>15. ASSUME NEW r \in Requests, FailRequest(r)
      PROVE  TypeOK'
  <2>1. "fallback" \in Finals \cup Silent
    BY DEF Finals
  <2>2. tasks' \in Seq(Task)
    BY <1>15, <2>1, SendFacts DEF IInv, FailRequest
  <2>. QED
    BY <1>15, <2>2 DEF IInv, TypeOK, Task, FailRequest, Goto, flags, engineVars, built, history
<1>16. ASSUME NEW r \in Requests, WatchdogFires(r)
      PROVE  TypeOK'
  BY <1>16 DEF IInv, TypeOK, WatchdogFires, engineVars, built, counters, history
<1>17. ASSUME NEW r \in Requests, WatchdogCancels(r)
      PROVE  TypeOK'
  BY <1>17 DEF IInv, TypeOK, WatchdogCancels, CancelCronet, Outcomes, flags, engineVars, built,
     counters, history
<1>18. ASSUME NEW r \in Requests, LastCallback(r)
      PROVE  TypeOK'
  BY <1>18 DEF IInv, TypeOK, LastCallback, Outcomes, flags, engineVars, built, counters, history
<1>19. ASSUME NEW r \in Requests, ReportCallback(r)
      PROVE  TypeOK'
  <2>1. Verdict(r) \in Finals \cup Silent
    BY VerdictFacts DEF IInv, Ending, Silent
  <2>2. tasks' \in Seq(Task)
    BY <1>19, <2>1, SendFacts DEF IInv, ReportCallback
  <2>. QED
    BY <1>19, <2>2 DEF IInv, TypeOK, Task, ReportCallback, flags, engineVars, built, history
<1>20. ASSUME NEW r \in Requests, Decide(r)
      PROVE  TypeOK'
  BY <1>20 DEF IInv, TypeOK, Decide, Outcomes, flags, engineVars, built, counters, history
<1>21. ASSUME NEW r \in Requests, DownloadProgress(r)
      PROVE  TypeOK'
  <2>1. "received" \in Finals \cup Silent
    BY DEF Silent
  <2>2. tasks' \in Seq(Task)
    BY <1>21, <2>1, SendFacts DEF IInv, DownloadProgress
  <2>. QED
    BY <1>21, <2>2 DEF IInv, TypeOK, Task, DownloadProgress, flags, engineVars, built, counters,
       history
<1>22. ASSUME NEW r \in Requests, UploadReadBegins(r)
      PROVE  TypeOK'
  BY <1>22 DEF IInv, TypeOK, UploadReadBegins, flags, engineVars, built, counters, history
<1>23. ASSUME NEW r \in Requests, UploadProgress(r)
      PROVE  TypeOK'
  <2>1. "sent" \in Finals \cup Silent
    BY DEF Silent
  <2>2. tasks' \in Seq(Task)
    BY <1>23, <2>1, SendFacts DEF IInv, UploadProgress
  <2>. QED
    BY <1>23, <2>2 DEF IInv, TypeOK, Task, UploadProgress, flags, engineVars, built, counters,
       history
<1>24. CASE UNCHANGED vars
  BY <1>24 DEF IInv, TypeOK, vars, flags, engineVars, built, counters, history
<1>. QED
  BY <1>1, <1>2, <1>3, <1>4, <1>5, <1>6, <1>7, <1>8, <1>9, <1>10, <1>11, <1>12, <1>13,
     <1>14, <1>15, <1>16, <1>17, <1>18, <1>19, <1>20, <1>21, <1>22, <1>23, <1>24
     DEF Next, LuaCalls, ExecutorTask, Watchdog, LastCallbacks, Cronet

\* Every action keeps StageInv.
LEMMA StageStep ==
  ASSUME IInv, [Next]_vars
  PROVE  StageInv'
<1>1. ASSUME NEW r \in Requests, Ask(r)
      PROVE  StageInv'
  BY <1>1, CronetAssumption DEF IInv, TypeOK, StageInv, Ask, Idle, Outcomes, flags,
     engineVars, built, counters, history
<1>2. ASSUME NEW r \in Requests, CancelTake(r)
      PROVE  StageInv'
  BY <1>2, CronetAssumption DEF IInv, TypeOK, StageInv, CancelTake, Idle, Outcomes, flags,
     engineVars, built, counters, history
<1>3. ASSUME NEW r \in Requests, CancelFlag(r)
      PROVE  StageInv'
  BY <1>3, CronetAssumption DEF IInv, TypeOK, StageInv, CancelFlag, Outcomes, engineVars, built,
     counters, history
<1>4. ASSUME NEW r \in Requests, CancelStop(r)
      PROVE  StageInv'
  BY <1>4, CronetAssumption DEF IInv, TypeOK, StageInv, CancelStop, CancelCronet, Idle,
     Outcomes, flags, engineVars, built
<1>5. ASSUME NEW p \in PinSets \cup {NoPins}, SetPins(p)
      PROVE  StageInv'
  BY <1>5, CronetAssumption DEF IInv, TypeOK, StageInv, SetPins, built, Idle, Outcomes, flags,
     counters, history
<1>6. CASE RunTask
  BY <1>6, CronetAssumption DEF IInv, TypeOK, StageInv, RunTask, Idle, Outcomes, flags,
     engineVars, built, counters
<1>7. CASE PauseEnds
  BY <1>7, CronetAssumption DEF IInv, TypeOK, StageInv, PauseEnds, built, Outcomes, flags, counters,
     history
<1>8. ASSUME NEW r \in Requests, EnterMonitor(r)
      PROVE  StageInv'
  BY <1>8, CronetAssumption DEF IInv, TypeOK, StageInv, EnterMonitor, built, Goto, Outcomes, flags,
     counters, history
<1>9. ASSUME NEW r \in Requests, GivePins(r)
      PROVE  StageInv'
  BY <1>9, CronetAssumption DEF IInv, TypeOK, StageInv, GivePins, Goto, Outcomes, flags,
     counters, history
<1>10. ASSUME NEW r \in Requests, BuildEngine(r)
      PROVE  StageInv'
  BY <1>10, CronetAssumption DEF IInv, TypeOK, StageInv, BuildEngine, Goto, Outcomes, flags,
     counters, history
<1>11. ASSUME NEW r \in Requests, InitFails(r)
      PROVE  StageInv'
  BY <1>11, CronetAssumption DEF IInv, TypeOK, StageInv, InitFails, Goto, Outcomes, flags,
     counters, history
<1>12. ASSUME NEW r \in Requests, PutActive(r)
      PROVE  StageInv'
  BY <1>12, CronetAssumption DEF IInv, TypeOK, StageInv, PutActive, Goto, Outcomes, flags,
     engineVars, built, counters, history
<1>13. ASSUME NEW r \in Requests, StartRequest(r)
      PROVE  StageInv'
  BY <1>13, CronetAssumption DEF IInv, TypeOK, StageInv, StartRequest, Goto, Outcomes, flags,
     engineVars, built, counters, history
<1>14. ASSUME NEW r \in Requests, StartThrows(r)
      PROVE  StageInv'
  BY <1>14, CronetAssumption DEF IInv, TypeOK, StageInv, StartThrows, Goto, Outcomes, flags,
     engineVars, built, counters, history
<1>15. ASSUME NEW r \in Requests, FailRequest(r)
      PROVE  StageInv'
  BY <1>15, CronetAssumption DEF IInv, TypeOK, StageInv, FailRequest, Goto, Outcomes, flags,
     engineVars, built, history
<1>16. ASSUME NEW r \in Requests, WatchdogFires(r)
      PROVE  StageInv'
  BY <1>16, CronetAssumption DEF IInv, TypeOK, StageInv, WatchdogFires, Outcomes, engineVars, built,
     counters, history
<1>17. ASSUME NEW r \in Requests, WatchdogCancels(r)
      PROVE  StageInv'
  BY <1>17, CronetAssumption DEF IInv, TypeOK, StageInv, WatchdogCancels, CancelCronet,
     Outcomes, flags, engineVars, built, counters, history
<1>18. ASSUME NEW r \in Requests, LastCallback(r)
      PROVE  StageInv'
  BY <1>18, CronetAssumption DEF IInv, TypeOK, StageInv, LastCallback, Outcomes, flags,
     engineVars, built, counters, history
<1>19. ASSUME NEW r \in Requests, ReportCallback(r)
      PROVE  StageInv'
  BY <1>19, CronetAssumption DEF IInv, TypeOK, StageInv, ReportCallback, Outcomes, flags,
     engineVars, built, history
<1>20. ASSUME NEW r \in Requests, Decide(r)
      PROVE  StageInv'
  BY <1>20, CronetAssumption DEF IInv, TypeOK, StageInv, Decide, Outcomes, flags, engineVars, built,
     counters, history
<1>21. ASSUME NEW r \in Requests, DownloadProgress(r)
      PROVE  StageInv'
  BY <1>21, CronetAssumption DEF IInv, TypeOK, StageInv, DownloadProgress, Outcomes, flags,
     engineVars, built, counters, history
<1>22. ASSUME NEW r \in Requests, UploadReadBegins(r)
      PROVE  StageInv'
  BY <1>22, CronetAssumption DEF IInv, TypeOK, StageInv, UploadReadBegins, Outcomes, flags,
     engineVars, built, counters, history
<1>23. ASSUME NEW r \in Requests, UploadProgress(r)
      PROVE  StageInv'
  BY <1>23, CronetAssumption DEF IInv, TypeOK, StageInv, UploadProgress, Outcomes, flags,
     engineVars, built, counters, history
<1>24. CASE UNCHANGED vars
  BY <1>24 DEF IInv, StageInv, vars, flags, engineVars, built, counters, history
<1>. QED
  BY <1>1, <1>2, <1>3, <1>4, <1>5, <1>6, <1>7, <1>8, <1>9, <1>10, <1>11, <1>12, <1>13,
     <1>14, <1>15, <1>16, <1>17, <1>18, <1>19, <1>20, <1>21, <1>22, <1>23, <1>24
     DEF Next, LuaCalls, ExecutorTask, Watchdog, LastCallbacks, Cronet

\* Every action keeps MonitorInv.
LEMMA MonitorStep ==
  ASSUME IInv, [Next]_vars
  PROVE  MonitorInv'
<1>1. ASSUME NEW r \in Requests, Ask(r)
      PROVE  MonitorInv'
  BY <1>1, CronetAssumption DEF IInv, TypeOK, MonitorInv, Spoiled, Ask, Idle, flags,
     engineVars, built, counters, history
<1>2. ASSUME NEW r \in Requests, CancelTake(r)
      PROVE  MonitorInv'
  BY <1>2, CronetAssumption DEF IInv, TypeOK, MonitorInv, Spoiled, CancelTake, Idle,
     flags, engineVars, built, counters, history
<1>3. ASSUME NEW r \in Requests, CancelFlag(r)
      PROVE  MonitorInv'
  BY <1>3, CronetAssumption DEF IInv, TypeOK, MonitorInv, Spoiled, CancelFlag,
     engineVars, built, counters, history
<1>4. ASSUME NEW r \in Requests, CancelStop(r)
      PROVE  MonitorInv'
  BY <1>4, CronetAssumption DEF IInv, TypeOK, MonitorInv, Spoiled, CancelStop,
     CancelCronet, Idle, flags, engineVars, built
<1>5. ASSUME NEW p \in PinSets \cup {NoPins}, SetPins(p)
      PROVE  MonitorInv'
  BY <1>5, CronetAssumption DEF IInv, TypeOK, MonitorInv, Spoiled, SetPins, built, Idle, flags,
     counters, history
<1>6. CASE RunTask
  BY <1>6, CronetAssumption DEF IInv, TypeOK, MonitorInv, Spoiled, RunTask, Idle, flags,
     engineVars, built, counters
<1>7. CASE PauseEnds
  BY <1>7, CronetAssumption DEF IInv, TypeOK, MonitorInv, Spoiled, PauseEnds, built, flags,
     counters, history
<1>8. ASSUME NEW r \in Requests, EnterMonitor(r)
      PROVE  MonitorInv'
  BY <1>8, CronetAssumption DEF IInv, TypeOK, MonitorInv, Spoiled, EnterMonitor, built, Goto,
     flags, counters, history
<1>9. ASSUME NEW r \in Requests, GivePins(r)
      PROVE  MonitorInv'
  <2>1. monitor = r /\ engine = Unbuilt /\ UNCHANGED <<monitor, engine, pins>>
    BY <1>9, CronetAssumption DEF IInv, MonitorInv, GivePins
  <2>2. Spoiled(building)'
    BY <1>9 DEF GivePins, Spoiled
  <2>3. \A u \in Requests : /\ monitor' = u <=> pc'[u] \in {"init", "build"}
                            /\ pc'[u] = "build" => pc[u] = "build" \/ u = r
    BY <1>9, <2>1 DEF IInv, TypeOK, MonitorInv, GivePins, Goto
  <2>. QED
    BY <2>1, <2>2, <2>3 DEF MonitorInv
<1>10. ASSUME NEW r \in Requests, BuildEngine(r)
      PROVE  MonitorInv'
  BY <1>10, CronetAssumption DEF IInv, TypeOK, MonitorInv, Spoiled, BuildEngine, Goto,
     flags, counters, history
<1>11. ASSUME NEW r \in Requests, InitFails(r)
      PROVE  MonitorInv'
  BY <1>11, CronetAssumption DEF IInv, TypeOK, MonitorInv, Spoiled, InitFails, Goto,
     flags, counters, history
<1>12. ASSUME NEW r \in Requests, PutActive(r)
      PROVE  MonitorInv'
  BY <1>12, CronetAssumption DEF IInv, TypeOK, MonitorInv, Spoiled, PutActive, Goto,
     flags, engineVars, built, counters, history
<1>13. ASSUME NEW r \in Requests, StartRequest(r)
      PROVE  MonitorInv'
  BY <1>13, CronetAssumption DEF IInv, TypeOK, MonitorInv, Spoiled, StartRequest, Goto,
     flags, engineVars, built, counters, history
<1>14. ASSUME NEW r \in Requests, StartThrows(r)
      PROVE  MonitorInv'
  BY <1>14, CronetAssumption DEF IInv, TypeOK, MonitorInv, Spoiled, StartThrows, Goto,
     flags, engineVars, built, counters, history
<1>15. ASSUME NEW r \in Requests, FailRequest(r)
      PROVE  MonitorInv'
  BY <1>15, CronetAssumption DEF IInv, TypeOK, MonitorInv, Spoiled, FailRequest, Goto,
     flags, engineVars, built, history
<1>16. ASSUME NEW r \in Requests, WatchdogFires(r)
      PROVE  MonitorInv'
  BY <1>16, CronetAssumption DEF IInv, TypeOK, MonitorInv, Spoiled, WatchdogFires,
     engineVars, built, counters, history
<1>17. ASSUME NEW r \in Requests, WatchdogCancels(r)
      PROVE  MonitorInv'
  BY <1>17, CronetAssumption DEF IInv, TypeOK, MonitorInv, Spoiled, WatchdogCancels,
     CancelCronet, flags, engineVars, built, counters, history
<1>18. ASSUME NEW r \in Requests, LastCallback(r)
      PROVE  MonitorInv'
  BY <1>18, CronetAssumption DEF IInv, TypeOK, MonitorInv, Spoiled, LastCallback, flags,
     engineVars, built, counters, history
<1>19. ASSUME NEW r \in Requests, ReportCallback(r)
      PROVE  MonitorInv'
  BY <1>19, CronetAssumption DEF IInv, TypeOK, MonitorInv, Spoiled, ReportCallback,
     flags, engineVars, built, history
<1>20. ASSUME NEW r \in Requests, Decide(r)
      PROVE  MonitorInv'
  BY <1>20, CronetAssumption DEF IInv, TypeOK, MonitorInv, Spoiled, Decide, flags,
     engineVars, built, counters, history
<1>21. ASSUME NEW r \in Requests, DownloadProgress(r)
      PROVE  MonitorInv'
  BY <1>21, CronetAssumption DEF IInv, TypeOK, MonitorInv, Spoiled, DownloadProgress,
     flags, engineVars, built, counters, history
<1>22. ASSUME NEW r \in Requests, UploadReadBegins(r)
      PROVE  MonitorInv'
  BY <1>22, CronetAssumption DEF IInv, TypeOK, MonitorInv, Spoiled, UploadReadBegins,
     flags, engineVars, built, counters, history
<1>23. ASSUME NEW r \in Requests, UploadProgress(r)
      PROVE  MonitorInv'
  BY <1>23, CronetAssumption DEF IInv, TypeOK, MonitorInv, Spoiled, UploadProgress,
     flags, engineVars, built, counters, history
<1>24. CASE UNCHANGED vars
  BY <1>24 DEF IInv, MonitorInv, Spoiled, vars, flags, engineVars, built, counters, history
<1>. QED
  BY <1>1, <1>2, <1>3, <1>4, <1>5, <1>6, <1>7, <1>8, <1>9, <1>10, <1>11, <1>12, <1>13,
     <1>14, <1>15, <1>16, <1>17, <1>18, <1>19, <1>20, <1>21, <1>22, <1>23, <1>24
     DEF Next, LuaCalls, ExecutorTask, Watchdog, LastCallbacks, Cronet

\* A step that sends nothing and runs no task keeps QueueInv: what was ended stays
\* ended, and cancel() stops only requests that are not.
LEMMA QuietStep ==
  ASSUME IInv, UNCHANGED <<tasks, heard, released>>,
         \A u \in Requests : Ended(u) => Ended(u)',
         \A u \in Requests : u \in stopped' => u \in stopped \/ ~Ended(u)
  PROVE  QueueInv'
<1>1. \A i \in 1 .. Len(tasks) : tasks[i].request \in Requests
  BY QueueFacts DEF IInv
<1>2. \A u \in Requests : ~Ended(u) => released[u] = 0 /\ heard[u] = 0
  BY DEF IInv, TypeOK, QueueInv
<1>3. ReleasedLast'
  BY DEF IInv, QueueInv, ReleasedLast, Needs
<1>4. \A i \in 1 .. Len(tasks'), u \in Requests :
        tasks'[i].request = u /\ tasks'[i].kind \in Ending => Ended(u)'
  BY DEF IInv, QueueInv
<1>5. \A i \in 1 .. Len(tasks') : tasks'[i].request \in stopped' => tasks'[i].kind \notin Finals
  BY <1>1 DEF IInv, QueueInv, Ending
<1>6. \A u \in Requests : /\ released'[u] > 0 => Ended(u)'
                          /\ heard'[u] <= released'[u]
                          /\ u \in stopped' => heard'[u] = 0
  BY <1>2 DEF IInv, QueueInv
<1>. QED
  BY <1>3, <1>4, <1>5, <1>6 DEF QueueInv, Ending

\* A step that sends a task keeps QueueInv when the request was not ended before, or
\* the task does not need its reference.
LEMMA SendStep ==
  ASSUME IInv, NEW r \in Requests, NEW kind \in Finals \cup Silent, Send(r, kind),
         UNCHANGED <<heard, released, stopped>>,
         \A u \in Requests : Ended(u) => Ended(u)',
         kind # "sent" => ~Ended(r),
         kind \in Ending => Ended(r)',
         r \in stopped => kind \notin Finals
  PROVE  QueueInv'
<1>1. /\ Len(tasks) \in Nat /\ \A i \in 1 .. Len(tasks) : tasks[i].request \in Requests
      /\ \A i \in 1 .. Len(tasks) : tasks[i].kind \in Finals \cup Silent
  BY QueueFacts DEF IInv
<1>2. /\ Len(tasks') = Len(tasks) + 1
      /\ tasks'[Len(tasks) + 1].request = r /\ tasks'[Len(tasks) + 1].kind = kind
      /\ \A i \in 1 .. Len(tasks) : tasks'[i] = tasks[i]
  BY SendFacts DEF IInv
<1>3. \A i \in 1 .. Len(tasks') : i \in 1 .. Len(tasks) \/ i = Len(tasks) + 1
  BY <1>1, <1>2
<1>4. kind # "sent" => released[r] = 0
  BY DEF IInv, TypeOK, QueueInv
<1>5. kind # "sent" =>
        \A j \in 1 .. Len(tasks) : tasks[j].request = r => tasks[j].kind \notin Ending
  BY DEF IInv, QueueInv
<1>6. kind # "sent" =>
        \A j \in 1 .. Len(tasks) : tasks[j].request = r /\ Needs(j) => tasks[j].kind = "received"
  BY <1>1, <1>5 DEF Needs, Ending, Silent
<1>7. ReleasedLast'
  <2>. SUFFICES ASSUME NEW i \in 1 .. Len(tasks'), tasks'[i].kind # "sent"
                PROVE  /\ released[tasks'[i].request] = 0
                       /\ \A j \in 1 .. i - 1 :
                            tasks'[j].kind # "sent" /\ tasks'[j].request = tasks'[i].request
                              => tasks'[j].kind = "received"
    BY DEF ReleasedLast, Needs
  <2>1. CASE i \in 1 .. Len(tasks)
    <3>1. /\ tasks'[i] = tasks[i]
          /\ \A j \in 1 .. i - 1 : j \in 1 .. Len(tasks) /\ tasks'[j] = tasks[j]
      BY <1>1, <1>2, <2>1
    <3>. QED
      BY <2>1, <3>1 DEF IInv, QueueInv, ReleasedLast, Needs
  <2>2. CASE i = Len(tasks) + 1
    <3>1. tasks'[i].request = r /\ tasks'[i].kind = kind
      BY <1>2, <2>2
    <3>2. \A j \in 1 .. i - 1 : j \in 1 .. Len(tasks) /\ tasks'[j] = tasks[j]
      BY <1>1, <1>2, <2>2
    <3>. QED
      BY <1>4, <1>6, <3>1, <3>2 DEF Needs
  <2>. QED
    BY <1>3, <2>1, <2>2
<1>8. \A i \in 1 .. Len(tasks'), u \in Requests :
        tasks'[i].request = u /\ tasks'[i].kind \in Ending => Ended(u)'
  <2>. SUFFICES ASSUME NEW i \in 1 .. Len(tasks'), tasks'[i].kind \in Ending,
                       NEW u \in Requests, tasks'[i].request = u
                PROVE  Ended(u)'
    OBVIOUS
  <2>1. CASE i \in 1 .. Len(tasks)
    BY <1>2, <2>1 DEF IInv, QueueInv
  <2>2. CASE i = Len(tasks) + 1
    BY <1>2, <2>2
  <2>. QED
    BY <1>3, <2>1, <2>2
<1>9. \A i \in 1 .. Len(tasks') : tasks'[i].request \in stopped' => tasks'[i].kind \notin Finals
  BY <1>2, <1>3 DEF IInv, QueueInv
<1>10. \A u \in Requests : /\ released'[u] > 0 => Ended(u)'
                           /\ heard'[u] <= released'[u]
                           /\ u \in stopped' => heard'[u] = 0
  BY DEF IInv, QueueInv
<1>. QED
  BY <1>7, <1>8, <1>9, <1>10 DEF QueueInv, Ending

\* Every action keeps QueueInv.
LEMMA QueueStep ==
  ASSUME IInv, [Next]_vars
  PROVE  QueueInv'
<1>1. ASSUME NEW r \in Requests, Ask(r)
      PROVE  QueueInv'
  <2>1. UNCHANGED <<tasks, heard, released, stopped>>
    BY <1>1 DEF Ask, flags, engineVars, built, counters, history
  <2>2. \A u \in Requests : Ended(u) => Ended(u)'
    BY <1>1 DEF IInv, TypeOK, StageInv, Ended, Outcomes, Ask, flags, engineVars, built, counters,
       history
  <2>. QED
    BY <2>1, <2>2, QuietStep
<1>2. ASSUME NEW r \in Requests, CancelTake(r)
      PROVE  QueueInv'
  <2>1. UNCHANGED <<tasks, heard, released, stopped>>
    BY <1>2 DEF CancelTake, flags, engineVars, built, counters, history
  <2>2. \A u \in Requests : Ended(u) => Ended(u)'
    BY <1>2 DEF IInv, TypeOK, StageInv, Ended, Outcomes, CancelTake, flags, engineVars, built,
       counters, history
  <2>. QED
    BY <2>1, <2>2, QuietStep
<1>3. ASSUME NEW r \in Requests, CancelFlag(r)
      PROVE  QueueInv'
  <2>1. UNCHANGED <<tasks, heard, released, stopped>>
    BY <1>3 DEF CancelFlag, engineVars, built, counters, history
  <2>2. \A u \in Requests : Ended(u) => Ended(u)'
    BY <1>3 DEF IInv, TypeOK, StageInv, Ended, Outcomes, CancelFlag, engineVars, built, counters,
       history
  <2>. QED
    BY <2>1, <2>2, QuietStep
<1>4. ASSUME NEW r \in Requests, CancelStop(r)
      PROVE  QueueInv'
  <2>1. UNCHANGED <<tasks, heard, released>>
    BY <1>4 DEF CancelStop, flags, engineVars, built
  <2>2. \A u \in Requests : Ended(u) => Ended(u)'
    BY <1>4 DEF IInv, TypeOK, StageInv, Ended, Outcomes, CancelStop, CancelCronet, flags,
       engineVars, built
  <2>3. \A u \in Requests : u \in stopped' => u \in stopped \/ ~Ended(u)
    BY <1>4 DEF IInv, StageInv, Ended, Outcomes, CancelStop
  <2>. QED
    BY <2>1, <2>2, <2>3, QuietStep
<1>5. ASSUME NEW p \in PinSets \cup {NoPins}, SetPins(p)
      PROVE  QueueInv'
  <2>1. UNCHANGED <<tasks, heard, released, stopped>>
    BY <1>5 DEF SetPins, built, flags, counters, history
  <2>2. \A u \in Requests : Ended(u) => Ended(u)'
    BY <1>5 DEF IInv, TypeOK, StageInv, Ended, Outcomes, SetPins, built, flags, counters, history
  <2>. QED
    BY <2>1, <2>2, QuietStep
<1>6. CASE RunTask
  <2>1. /\ Len(tasks) \in Nat /\ 1 \in 1 .. Len(tasks) /\ Head(tasks) = tasks[1]
        /\ \A i \in 1 .. Len(tasks) : tasks[i].request \in Requests
        /\ tasks' = Tail(tasks) /\ Len(tasks') = Len(tasks) - 1
        /\ \A i \in 1 .. Len(tasks') : tasks'[i] = tasks[i + 1]
    BY <1>6, QueueFacts DEF IInv, RunTask
  <2>2. PICK r \in Requests : r = tasks[1].request
    BY <2>1
  <2>3. UNCHANGED <<pc, cronet, callback, stopped>>
    BY <1>6 DEF RunTask
  <2>4. \A u \in Requests : Ended(u)' <=> Ended(u)
    BY <2>3 DEF Ended
  <2>5. /\ \A u \in Requests \ {r} : heard'[u] = heard[u] /\ released'[u] = released[u]
        /\ heard'[r] = heard[r] + (IF tasks[1].kind \in Finals THEN 1 ELSE 0)
        /\ released'[r] = released[r] + (IF tasks[1].kind \in Ending THEN 1 ELSE 0)
    BY <1>6, <2>1, <2>2 DEF IInv, TypeOK, RunTask, Ending
  <2>6. \A i \in 1 .. Len(tasks') : i + 1 \in 1 .. Len(tasks) /\ 1 \in 1 .. (i + 1) - 1
    BY <2>1
  <2>7. \A i \in 1 .. Len(tasks') :
          Needs(i + 1) /\ tasks[i + 1].request = r => tasks[1].kind \notin Ending
    <3>. SUFFICES ASSUME NEW i \in 1 .. Len(tasks'), Needs(i + 1), tasks[i + 1].request = r,
                         tasks[1].kind \in Ending
                  PROVE  FALSE
      OBVIOUS
    <3>1. Needs(1)
      BY DEF Needs, Ending, Finals
    <3>2. tasks[1].kind = "received"
      BY <2>2, <2>6, <3>1 DEF IInv, QueueInv, ReleasedLast
    <3>. QED
      BY <3>2 DEF Ending, Finals
  <2>8. ReleasedLast'
    <3>. SUFFICES ASSUME NEW i \in 1 .. Len(tasks'), tasks[i + 1].kind # "sent"
                  PROVE  /\ released'[tasks[i + 1].request] = 0
                         /\ \A j \in 1 .. i - 1 :
                              tasks[j + 1].request = tasks[i + 1].request /\ tasks[j + 1].kind # "sent"
                                => tasks[j + 1].kind = "received"
      <4>1. \A i \in 1 .. Len(tasks') : \A j \in 1 .. i - 1 : j \in 1 .. Len(tasks')
        BY <2>1
      <4>. QED
        BY <2>1, <4>1 DEF ReleasedLast, Needs
    <3>1. Needs(i + 1)
      BY DEF Needs
    <3>2. released[tasks[i + 1].request] = 0
      BY <2>6, <3>1 DEF IInv, QueueInv, ReleasedLast
    <3>3. released'[tasks[i + 1].request] = 0
      BY <2>1, <2>5, <2>6, <2>7, <3>1, <3>2
    <3>4. \A j \in 1 .. i - 1 : j + 1 \in 1 .. (i + 1) - 1
      BY <2>1
    <3>. QED
      BY <2>6, <3>1, <3>3, <3>4 DEF IInv, QueueInv, ReleasedLast, Needs
  <2>9. \A i \in 1 .. Len(tasks'), u \in Requests :
          tasks'[i].request = u /\ tasks'[i].kind \in Ending => Ended(u)'
    BY <2>1, <2>4, <2>6 DEF IInv, QueueInv
  <2>10. \A i \in 1 .. Len(tasks') : tasks'[i].request \in stopped' => tasks'[i].kind \notin Finals
    BY <2>1, <2>3, <2>6 DEF IInv, QueueInv
  <2>11. \A u \in Requests : /\ released'[u] > 0 => Ended(u)'
                             /\ heard'[u] <= released'[u]
                             /\ u \in stopped' => heard'[u] = 0
    <3>1. tasks[1].kind \in Ending => Ended(r)
      BY <2>1, <2>2 DEF IInv, QueueInv
    <3>2. r \in stopped => tasks[1].kind \notin Finals
      BY <2>1, <2>2 DEF IInv, QueueInv
    <3>3. tasks[1].kind \in Finals => tasks[1].kind \in Ending
      BY DEF Ending
    <3>4. released \in [Requests -> 0 .. 1] /\ heard \in [Requests -> 0 .. 1]
      BY DEF IInv, TypeOK
    <3>5. \A u \in Requests : /\ released[u] > 0 => Ended(u)
                              /\ heard[u] <= released[u]
                              /\ u \in stopped => heard[u] = 0
      BY DEF IInv, QueueInv
    <3>6. /\ released'[r] > 0 => Ended(r)'
          /\ heard'[r] <= released'[r]
          /\ r \in stopped' => heard'[r] = 0
      BY <2>3, <2>4, <2>5, <3>1, <3>2, <3>3, <3>4, <3>5
    <3>. QED
      BY <2>3, <2>4, <2>5, <3>5, <3>6
  <2>. QED
    BY <2>8, <2>9, <2>10, <2>11 DEF QueueInv, Ending
<1>7. CASE PauseEnds
  <2>1. UNCHANGED <<tasks, heard, released, stopped>>
    BY <1>7 DEF PauseEnds, built, flags, counters, history
  <2>2. \A u \in Requests : Ended(u) => Ended(u)'
    BY <1>7 DEF IInv, TypeOK, StageInv, Ended, Outcomes, PauseEnds, built, flags, counters, history
  <2>. QED
    BY <2>1, <2>2, QuietStep
<1>8. ASSUME NEW r \in Requests, EnterMonitor(r)
      PROVE  QueueInv'
  <2>1. UNCHANGED <<tasks, heard, released, stopped>>
    BY <1>8 DEF EnterMonitor, built, flags, counters, history
  <2>2. \A u \in Requests : Ended(u) => Ended(u)'
    BY <1>8 DEF IInv, TypeOK, StageInv, Ended, Outcomes, EnterMonitor, built, Goto, flags, counters,
       history
  <2>. QED
    BY <2>1, <2>2, QuietStep
<1>9. ASSUME NEW r \in Requests, GivePins(r)
      PROVE  QueueInv'
  <2>1. UNCHANGED <<tasks, heard, released, stopped>>
    BY <1>9 DEF GivePins, flags, counters, history
  <2>2. \A u \in Requests : Ended(u) => Ended(u)'
    BY <1>9 DEF IInv, TypeOK, StageInv, Ended, Outcomes, GivePins, Goto, flags, counters,
       history
  <2>. QED
    BY <2>1, <2>2, QuietStep
<1>10. ASSUME NEW r \in Requests, BuildEngine(r)
      PROVE  QueueInv'
  <2>1. UNCHANGED <<tasks, heard, released, stopped>>
    BY <1>10 DEF BuildEngine, flags, counters, history
  <2>2. \A u \in Requests : Ended(u) => Ended(u)'
    BY <1>10 DEF IInv, TypeOK, StageInv, Ended, Outcomes, BuildEngine, Goto, flags, counters,
       history
  <2>. QED
    BY <2>1, <2>2, QuietStep
<1>11. ASSUME NEW r \in Requests, InitFails(r)
      PROVE  QueueInv'
  <2>1. UNCHANGED <<tasks, heard, released, stopped>>
    BY <1>11 DEF InitFails, flags, counters, history
  <2>2. \A u \in Requests : Ended(u) => Ended(u)'
    BY <1>11 DEF IInv, TypeOK, StageInv, Ended, Outcomes, InitFails, Goto, flags, counters,
       history
  <2>. QED
    BY <2>1, <2>2, QuietStep
<1>12. ASSUME NEW r \in Requests, PutActive(r)
      PROVE  QueueInv'
  <2>1. UNCHANGED <<tasks, heard, released, stopped>>
    BY <1>12 DEF PutActive, flags, engineVars, built, counters, history
  <2>2. \A u \in Requests : Ended(u) => Ended(u)'
    BY <1>12 DEF IInv, TypeOK, StageInv, Ended, Outcomes, PutActive, Goto, flags, engineVars, built,
       counters, history
  <2>. QED
    BY <2>1, <2>2, QuietStep
<1>13. ASSUME NEW r \in Requests, StartRequest(r)
      PROVE  QueueInv'
  <2>1. UNCHANGED <<tasks, heard, released, stopped>>
    BY <1>13 DEF StartRequest, flags, engineVars, built, counters, history
  <2>2. \A u \in Requests : Ended(u) => Ended(u)'
    BY <1>13 DEF IInv, TypeOK, StageInv, Ended, Outcomes, StartRequest, Goto, flags,
       engineVars, built, counters, history
  <2>. QED
    BY <2>1, <2>2, QuietStep
<1>14. ASSUME NEW r \in Requests, StartThrows(r)
      PROVE  QueueInv'
  <2>1. UNCHANGED <<tasks, heard, released, stopped>>
    BY <1>14 DEF StartThrows, flags, engineVars, built, counters, history
  <2>2. \A u \in Requests : Ended(u) => Ended(u)'
    BY <1>14 DEF IInv, TypeOK, StageInv, Ended, Outcomes, StartThrows, Goto, flags,
       engineVars, built, counters, history
  <2>. QED
    BY <2>1, <2>2, QuietStep
<1>15. ASSUME NEW r \in Requests, FailRequest(r)
      PROVE  QueueInv'
  <2>1. "fallback" \in Finals \cup Silent /\ (r \in stopped => "fallback" \notin Finals)
    BY <1>15 DEF IInv, StageInv, FailRequest, Finals
  <2>2. Send(r, "fallback") /\ UNCHANGED <<heard, released, stopped>>
    BY <1>15 DEF FailRequest, flags, engineVars, built, history
  <2>3. \A u \in Requests : Ended(u) => Ended(u)'
    BY <1>15 DEF IInv, TypeOK, StageInv, Ended, Outcomes, FailRequest, Goto, flags,
       engineVars, built, history
  <2>4. "fallback" # "sent" => ~Ended(r)
    BY <1>15 DEF IInv, StageInv, Ended, Outcomes, FailRequest
  <2>5. "fallback" \in Ending => Ended(r)'
    BY <1>15 DEF IInv, TypeOK, StageInv, Ended, Ending, Finals, Outcomes, FailRequest, Goto
  <2>. QED
    BY <2>1, <2>2, <2>3, <2>4, <2>5, SendStep
<1>16. ASSUME NEW r \in Requests, WatchdogFires(r)
      PROVE  QueueInv'
  <2>1. UNCHANGED <<tasks, heard, released, stopped>>
    BY <1>16 DEF WatchdogFires, engineVars, built, counters, history
  <2>2. \A u \in Requests : Ended(u) => Ended(u)'
    BY <1>16 DEF IInv, TypeOK, StageInv, Ended, Outcomes, WatchdogFires, engineVars, built,
       counters, history
  <2>. QED
    BY <2>1, <2>2, QuietStep
<1>17. ASSUME NEW r \in Requests, WatchdogCancels(r)
      PROVE  QueueInv'
  <2>1. UNCHANGED <<tasks, heard, released, stopped>>
    BY <1>17 DEF WatchdogCancels, flags, engineVars, built, counters, history
  <2>2. \A u \in Requests : Ended(u) => Ended(u)'
    BY <1>17 DEF IInv, TypeOK, StageInv, Ended, Outcomes, WatchdogCancels, CancelCronet,
       flags, engineVars, built, counters, history
  <2>. QED
    BY <2>1, <2>2, QuietStep
<1>18. ASSUME NEW r \in Requests, LastCallback(r)
      PROVE  QueueInv'
  <2>1. UNCHANGED <<tasks, heard, released, stopped>>
    BY <1>18 DEF LastCallback, flags, engineVars, built, counters, history
  <2>2. \A u \in Requests : Ended(u) => Ended(u)'
    BY <1>18 DEF IInv, TypeOK, StageInv, Ended, Outcomes, LastCallback, flags, engineVars, built,
       counters, history
  <2>. QED
    BY <2>1, <2>2, QuietStep
<1>19. ASSUME NEW r \in Requests, ReportCallback(r)
      PROVE  QueueInv'
  <2>1. Verdict(r) \in Finals \cup Silent /\ (r \in stopped => Verdict(r) \notin Finals)
    BY VerdictFacts DEF IInv, Ending, Finals, Silent
  <2>2. Send(r, Verdict(r)) /\ UNCHANGED <<heard, released, stopped>>
    BY <1>19 DEF ReportCallback, flags, engineVars, built, history
  <2>3. \A u \in Requests : Ended(u) => Ended(u)'
    BY <1>19 DEF IInv, TypeOK, StageInv, Ended, Outcomes, ReportCallback, flags, engineVars, built,
       history
  <2>4. Verdict(r) # "sent" => ~Ended(r)
    BY <1>19 DEF IInv, StageInv, Ended, Outcomes, ReportCallback
  <2>5. Verdict(r) \in Ending => Ended(r)'
    BY <1>19 DEF IInv, TypeOK, StageInv, Ended, Ending, Finals, Outcomes, ReportCallback
  <2>. QED
    BY <2>1, <2>2, <2>3, <2>4, <2>5, SendStep
<1>20. ASSUME NEW r \in Requests, Decide(r)
      PROVE  QueueInv'
  <2>1. UNCHANGED <<tasks, heard, released, stopped>>
    BY <1>20 DEF Decide, flags, engineVars, built, counters, history
  <2>2. \A u \in Requests : Ended(u) => Ended(u)'
    BY <1>20 DEF IInv, TypeOK, StageInv, Ended, Outcomes, Decide, flags, engineVars, built,
       counters, history
  <2>. QED
    BY <2>1, <2>2, QuietStep
<1>21. ASSUME NEW r \in Requests, DownloadProgress(r)
      PROVE  QueueInv'
  <2>1. "received" \in Finals \cup Silent /\ (r \in stopped => "received" \notin Finals)
    BY DEF Finals, Silent
  <2>2. Send(r, "received") /\ UNCHANGED <<heard, released, stopped>>
    BY <1>21 DEF DownloadProgress, flags, engineVars, built, counters, history
  <2>3. \A u \in Requests : Ended(u) => Ended(u)'
    BY <1>21 DEF IInv, TypeOK, StageInv, Ended, Outcomes, DownloadProgress, flags,
       engineVars, built, counters, history
  <2>4. "received" # "sent" => ~Ended(r)
    BY <1>21 DEF IInv, StageInv, Ended, Outcomes, DownloadProgress
  <2>5. "received" \in Ending => Ended(r)'
    BY <1>21 DEF IInv, TypeOK, StageInv, Ended, Ending, Finals, Outcomes, DownloadProgress
  <2>. QED
    BY <2>1, <2>2, <2>3, <2>4, <2>5, SendStep
<1>22. ASSUME NEW r \in Requests, UploadReadBegins(r)
      PROVE  QueueInv'
  <2>1. UNCHANGED <<tasks, heard, released, stopped>>
    BY <1>22 DEF UploadReadBegins, flags, engineVars, built, counters, history
  <2>2. \A u \in Requests : Ended(u) => Ended(u)'
    BY <1>22 DEF IInv, TypeOK, StageInv, Ended, Outcomes, UploadReadBegins, flags,
       engineVars, built, counters, history
  <2>. QED
    BY <2>1, <2>2, QuietStep
<1>23. ASSUME NEW r \in Requests, UploadProgress(r)
      PROVE  QueueInv'
  <2>1. "sent" \in Finals \cup Silent /\ (r \in stopped => "sent" \notin Finals)
    BY DEF Finals, Silent
  <2>2. Send(r, "sent") /\ UNCHANGED <<heard, released, stopped>>
    BY <1>23 DEF UploadProgress, flags, engineVars, built, counters, history
  <2>3. \A u \in Requests : Ended(u) => Ended(u)'
    BY <1>23 DEF IInv, TypeOK, StageInv, Ended, Outcomes, UploadProgress, flags, engineVars, built,
       counters, history
  <2>4. "sent" # "sent" => ~Ended(r)
    BY <1>23 DEF IInv, StageInv, Ended, Outcomes, UploadProgress
  <2>5. "sent" \in Ending => Ended(r)'
    BY <1>23 DEF IInv, TypeOK, StageInv, Ended, Ending, Finals, Outcomes, UploadProgress
  <2>. QED
    BY <2>1, <2>2, <2>3, <2>4, <2>5, SendStep
<1>24. CASE UNCHANGED vars
  <2>1. UNCHANGED <<tasks, heard, released, stopped>>
    BY <1>24 DEF vars, history
  <2>2. \A u \in Requests : Ended(u) => Ended(u)'
    BY <1>24 DEF Ended, vars
  <2>. QED
    BY <2>1, <2>2, QuietStep
<1>. QED
  BY <1>1, <1>2, <1>3, <1>4, <1>5, <1>6, <1>7, <1>8, <1>9, <1>10, <1>11, <1>12, <1>13,
     <1>14, <1>15, <1>16, <1>17, <1>18, <1>19, <1>20, <1>21, <1>22, <1>23, <1>24
     DEF Next, LuaCalls, ExecutorTask, Watchdog, LastCallbacks, Cronet

\* The initial state.
LEMMA IInvInit == Init => IInv
<1>. SUFFICES ASSUME Init PROVE IInv
  OBVIOUS
<1>1. TypeOK
  <2>1. tasks \in Seq([request : Requests, kind : Finals \cup Silent])
    BY EmptySeq DEF Init
  <2>2. lua \in [at : {"idle", "flag", "stop"}, request : Requests \cup {None}]
    BY DEF Init, Idle
  <2>3. /\ {engine, building} \subseteq (SUBSET UNION PinSets) \cup {Unbuilt}
        /\ pins \in PinSets \cup {NoPins} /\ bypass \in BOOLEAN
        /\ gap \in {"none", "expired", "refused"}
    BY DEF Init
  <2>4. /\ pc \in [Requests -> {"idle", "refused", "queued", "init", "build", "start", "armed",
                               "fail", "done"}]
        /\ cronet \in [Requests -> {"none", "going"} \cup Outcomes]
        /\ callback \in [Requests -> {"none", "report", "done"}]
        /\ watchdog \in [Requests -> {"none", "set", "fired", "over"}]
        /\ poTaymautu \in [Requests -> BOOLEAN] /\ otmenen \in [Requests -> BOOLEAN]
        /\ moved \in [Requests -> {"no", "reading", "yes"}]
    BY DEF Init
  <2>5. heard \in [Requests -> 0 .. 1] /\ released \in [Requests -> 0 .. 1]
    BY DEF Init
  <2>6. active \subseteq Requests /\ stopped \subseteq Requests
    BY DEF Init
  <2>7. completed \in Nat /\ failed \in Nat
    BY DEF Init
  <2>8. monitor \in Requests \cup {None} /\ banned \in BOOLEAN
    BY DEF Init
  <2>. QED
    BY <2>1, <2>2, <2>3, <2>4, <2>5, <2>6, <2>7, <2>8 DEF TypeOK
<1>2. StageInv
  BY DEF Init, StageInv, Idle
<1>3. MonitorInv
  BY CronetAssumption DEF Init, MonitorInv
<1>4. QueueInv
  BY DEF Init, QueueInv, ReleasedLast
<1>. QED
  BY <1>1, <1>2, <1>3, <1>4 DEF IInv

\* The parts together.
LEMMA IInvStep == IInv /\ [Next]_vars => IInv'
<1>. SUFFICES ASSUME IInv, [Next]_vars PROVE IInv'
  OBVIOUS
<1>. QED
  BY TypeStep, StageStep, MonitorStep, QueueStep DEF IInv

\* Types, stages, monitor and queue, in every reachable state.
THEOREM InductiveInvariant == Spec => []IInv
BY IInvInit, IInvStep, PTL DEF Spec

\* The types of the variables: of heard and released, that a listener is told at
\* most once and its reference deleted at most once.
THEOREM TypeCorrect == Spec => []TypeOK
<1>1. IInv => TypeOK
  BY DEF IInv
<1>. QED
  BY <1>1, InductiveInvariant, PTL

\* Nothing that needs the listener's reference follows the task that deletes it,
\* whichever of the executor, a last callback or osvobodit sent that.
THEOREM LastReleases == Spec => []ReleasedLast
<1>1. IInv => ReleasedLast
  BY DEF IInv, QueueInv
<1>. QED
  BY <1>1, InductiveInvariant, PTL

\* A request that cancel() stopped while it was going stays silent, also when the
\* watchdog fires at the same moment (682-706, 1016).
THEOREM Honoured == Spec => []CancelHonoured
<1>1. IInv => CancelHonoured
  <2>. SUFFICES ASSUME IInv PROVE CancelHonoured
    OBVIOUS
  <2>1. \A i \in 1 .. Len(tasks) : tasks[i].kind \in Finals \cup Silent
    BY QueueFacts DEF IInv
  <2>2. stopped \subseteq Requests
    BY DEF IInv, TypeOK
  <2>. QED
    BY <2>1, <2>2 DEF IInv, QueueInv, CancelHonoured
<1>. QED
  BY <1>1, InductiveInvariant, PTL

\* The engine has the pins of the last setPins that said true, none because their date
\* had passed, or a part because the builder threw at a host (320-333), whatever the
\* order of setPins, of failed attempts and of the first requests (660-667).
THEOREM PinsReachEngine == Spec => []PinsInEngine
<1>1. IInv => PinsInEngine
  BY DEF IInv, MonitorInv, Spoiled, PinsInEngine
<1>. QED
  BY <1>1, InductiveInvariant, PTL

\* A step opens a request, tells a listener, drops a request, or is nothing to
\* OneReport.
LEMMA ReportStep ==
  ASSUME IInv, [Next]_vars
  PROVE  [Report!Next]_Report!vars
<1>1. ASSUME NEW r \in Requests, Ask(r)
      PROVE  [Report!Next]_Report!vars
  <2>1. heard' = heard /\ released' = released /\ heard[r] = 0 /\ released[r] = 0
    BY <1>1 DEF IInv, TypeOK, StageInv, QueueInv, Ended, Outcomes, Ask, history
  <2>2. CASE pc' = [pc EXCEPT ![r] = "refused"]
    <3>1. \A u \in Requests : pc'[u] \in {"idle", "refused"} <=> pc[u] \in {"idle", "refused"}
      BY <1>1, <2>2 DEF IInv, TypeOK, Ask
    <3>. QED
      BY <2>1, <3>1 DEF Fate, Report!vars
  <2>3. CASE pc' = [pc EXCEPT ![r] = "queued"]
    <3>1. pc[r] = "idle" /\ pc'[r] = "queued" /\ \A u \in Requests \ {r} : pc'[u] = pc[u]
      BY <1>1, <2>3 DEF IInv, TypeOK, Ask
    <3>2. Fate(r) = "idle" /\ Fate(r)' = "open" /\ \A u \in Requests \ {r} : Fate(u)' = Fate(u)
      BY <2>1, <3>1 DEF Fate
    <3>3. Report!Open(r)
      BY <2>1, <3>2 DEF Report!Open
    <3>. QED
      BY <3>3 DEF Report!Next
  <2>. QED
    BY <1>1, <2>2, <2>3 DEF Ask
<1>2. ASSUME NEW r \in Requests, CancelTake(r)
      PROVE  [Report!Next]_Report!vars
  <2>1. UNCHANGED <<heard, released>>
    BY <1>2 DEF CancelTake, flags, engineVars, built, counters, history
  <2>2. \A u \in Requests : pc'[u] \in {"idle", "refused"} <=> pc[u] \in {"idle", "refused"}
    BY <1>2 DEF IInv, TypeOK, CancelTake, flags, engineVars, built, counters, history
  <2>. QED
    BY <2>1, <2>2 DEF Fate, Report!vars
<1>3. ASSUME NEW r \in Requests, CancelFlag(r)
      PROVE  [Report!Next]_Report!vars
  <2>1. UNCHANGED <<heard, released>>
    BY <1>3 DEF CancelFlag, engineVars, built, counters, history
  <2>2. \A u \in Requests : pc'[u] \in {"idle", "refused"} <=> pc[u] \in {"idle", "refused"}
    BY <1>3 DEF IInv, TypeOK, CancelFlag, engineVars, built, counters, history
  <2>. QED
    BY <2>1, <2>2 DEF Fate, Report!vars
<1>4. ASSUME NEW r \in Requests, CancelStop(r)
      PROVE  [Report!Next]_Report!vars
  <2>1. UNCHANGED <<heard, released>>
    BY <1>4 DEF CancelStop, flags, engineVars, built
  <2>2. \A u \in Requests : pc'[u] \in {"idle", "refused"} <=> pc[u] \in {"idle", "refused"}
    BY <1>4 DEF IInv, TypeOK, CancelStop, flags, engineVars, built
  <2>. QED
    BY <2>1, <2>2 DEF Fate, Report!vars
<1>5. ASSUME NEW p \in PinSets \cup {NoPins}, SetPins(p)
      PROVE  [Report!Next]_Report!vars
  <2>1. UNCHANGED <<heard, released>>
    BY <1>5 DEF SetPins, built, flags, counters, history
  <2>2. \A u \in Requests : pc'[u] \in {"idle", "refused"} <=> pc[u] \in {"idle", "refused"}
    BY <1>5 DEF IInv, TypeOK, SetPins, built, flags, counters, history
  <2>. QED
    BY <2>1, <2>2 DEF Fate, Report!vars
<1>6. CASE RunTask
  <2>1. /\ 1 \in 1 .. Len(tasks) /\ Head(tasks) = tasks[1] /\ tasks[1].request \in Requests
        /\ tasks[1].kind \in Finals \cup Silent
    BY <1>6, QueueFacts DEF IInv, RunTask
  <2>2. PICK u \in Requests : u = tasks[1].request
    BY <2>1
  <2>3. pc' = pc /\ heard \in [Requests -> 0 .. 1] /\ released \in [Requests -> 0 .. 1]
    BY <1>6 DEF IInv, TypeOK, RunTask
  <2>4. /\ heard' = [heard EXCEPT ![u] = @ + (IF tasks[1].kind \in Finals THEN 1 ELSE 0)]
        /\ released' = [released EXCEPT ![u] = @ + (IF tasks[1].kind \in Ending THEN 1 ELSE 0)]
    BY <1>6, <2>1, <2>2 DEF RunTask, Ending
  <2>5. CASE tasks[1].kind \notin Ending
    <3>1. heard' = heard /\ released' = released
      BY <2>3, <2>4, <2>5 DEF Ending
    <3>. QED
      BY <2>3, <3>1 DEF Fate, Report!vars
  <2>6. CASE tasks[1].kind \in Ending
    <3>1. Needs(1)
      BY <2>6 DEF Ending, Finals, Needs
    <3>2. released[u] = 0 /\ heard[u] = 0
      BY <2>1, <2>2, <2>3, <3>1 DEF IInv, QueueInv, ReleasedLast
    <3>3. Ended(u)
      BY <2>1, <2>2, <2>6 DEF IInv, QueueInv
    <3>4. pc[u] = "done"
      BY <3>3 DEF IInv, StageInv, Ended, Outcomes
    <3>5. Fate(u) = "open"
      BY <3>2, <3>4 DEF Fate
    <3>6. /\ released'[u] = 1
          /\ \A v \in Requests \ {u} : heard'[v] = heard[v] /\ released'[v] = released[v]
      BY <2>3, <2>4, <2>6, <3>2
    <3>7. \A v \in Requests \ {u} : Fate(v)' = Fate(v)
      BY <2>3, <3>6 DEF Fate
    <3>8. CASE tasks[1].kind \in Finals
      <4>1. heard' = [heard EXCEPT ![u] = @ + 1] /\ heard'[u] = 1
        BY <2>3, <2>4, <3>2, <3>8
      <4>2. heard'[u] > 0 /\ heard'[u] # 0 /\ pc'[u] \notin {"idle", "refused"}
        BY <2>3, <3>4, <4>1
      <4>3. Fate(u)' = "told"
        BY <4>2, Zenon DEF Fate
      <4>4. Report!Tell(u)
        BY <3>5, <3>7, <4>1, <4>3 DEF Report!Tell
      <4>. QED
        BY <4>4 DEF Report!Next
    <3>9. CASE tasks[1].kind \notin Finals
      <4>1. heard' = heard
        BY <2>3, <2>4, <3>9
      <4>2. ~(heard'[u] > 0) /\ heard'[u] = 0 /\ released'[u] > 0
        BY <3>2, <3>6, <4>1
      <4>3. pc'[u] \notin {"idle", "refused"}
        BY <2>3, <3>4
      <4>4. Fate(u)' = "dropped"
        BY <4>2, <4>3, Zenon DEF Fate
      <4>5. Report!Drop({u})
        BY <3>5, <3>7, <4>1, <4>4 DEF Report!Drop
      <4>6. {u} \in SUBSET Requests
        OBVIOUS
      <4>. QED
        BY <4>5, <4>6 DEF Report!Next
    <3>. QED
      BY <3>8, <3>9
  <2>. QED
    BY <2>5, <2>6
<1>7. CASE PauseEnds
  <2>1. UNCHANGED <<heard, released>>
    BY <1>7 DEF PauseEnds, built, flags, counters, history
  <2>2. \A u \in Requests : pc'[u] \in {"idle", "refused"} <=> pc[u] \in {"idle", "refused"}
    BY <1>7 DEF IInv, TypeOK, PauseEnds, built, flags, counters, history
  <2>. QED
    BY <2>1, <2>2 DEF Fate, Report!vars
<1>8. ASSUME NEW r \in Requests, EnterMonitor(r)
      PROVE  [Report!Next]_Report!vars
  <2>1. UNCHANGED <<heard, released>>
    BY <1>8 DEF EnterMonitor, built, flags, counters, history
  <2>2. \A u \in Requests : pc'[u] \in {"idle", "refused"} <=> pc[u] \in {"idle", "refused"}
    BY <1>8 DEF IInv, TypeOK, EnterMonitor, built, Goto, flags, counters, history
  <2>. QED
    BY <2>1, <2>2 DEF Fate, Report!vars
<1>9. ASSUME NEW r \in Requests, GivePins(r)
      PROVE  [Report!Next]_Report!vars
  <2>1. UNCHANGED <<heard, released>>
    BY <1>9 DEF GivePins, flags, counters, history
  <2>2. \A u \in Requests : pc'[u] \in {"idle", "refused"} <=> pc[u] \in {"idle", "refused"}
    BY <1>9 DEF IInv, TypeOK, GivePins, Goto, flags, counters, history
  <2>. QED
    BY <2>1, <2>2 DEF Fate, Report!vars
<1>10. ASSUME NEW r \in Requests, BuildEngine(r)
      PROVE  [Report!Next]_Report!vars
  <2>1. UNCHANGED <<heard, released>>
    BY <1>10 DEF BuildEngine, flags, counters, history
  <2>2. \A u \in Requests : pc'[u] \in {"idle", "refused"} <=> pc[u] \in {"idle", "refused"}
    BY <1>10 DEF IInv, TypeOK, BuildEngine, Goto, flags, counters, history
  <2>. QED
    BY <2>1, <2>2 DEF Fate, Report!vars
<1>11. ASSUME NEW r \in Requests, InitFails(r)
      PROVE  [Report!Next]_Report!vars
  <2>1. UNCHANGED <<heard, released>>
    BY <1>11 DEF InitFails, flags, counters, history
  <2>2. \A u \in Requests : pc'[u] \in {"idle", "refused"} <=> pc[u] \in {"idle", "refused"}
    BY <1>11 DEF IInv, TypeOK, InitFails, Goto, flags, counters, history
  <2>. QED
    BY <2>1, <2>2 DEF Fate, Report!vars
<1>12. ASSUME NEW r \in Requests, PutActive(r)
      PROVE  [Report!Next]_Report!vars
  <2>1. UNCHANGED <<heard, released>>
    BY <1>12 DEF PutActive, flags, engineVars, built, counters, history
  <2>2. \A u \in Requests : pc'[u] \in {"idle", "refused"} <=> pc[u] \in {"idle", "refused"}
    BY <1>12 DEF IInv, TypeOK, PutActive, Goto, flags, engineVars, built, counters, history
  <2>. QED
    BY <2>1, <2>2 DEF Fate, Report!vars
<1>13. ASSUME NEW r \in Requests, StartRequest(r)
      PROVE  [Report!Next]_Report!vars
  <2>1. UNCHANGED <<heard, released>>
    BY <1>13 DEF StartRequest, flags, engineVars, built, counters, history
  <2>2. \A u \in Requests : pc'[u] \in {"idle", "refused"} <=> pc[u] \in {"idle", "refused"}
    BY <1>13 DEF IInv, TypeOK, StartRequest, Goto, flags, engineVars, built, counters, history
  <2>. QED
    BY <2>1, <2>2 DEF Fate, Report!vars
<1>14. ASSUME NEW r \in Requests, StartThrows(r)
      PROVE  [Report!Next]_Report!vars
  <2>1. UNCHANGED <<heard, released>>
    BY <1>14 DEF StartThrows, flags, engineVars, built, counters, history
  <2>2. \A u \in Requests : pc'[u] \in {"idle", "refused"} <=> pc[u] \in {"idle", "refused"}
    BY <1>14 DEF IInv, TypeOK, StartThrows, Goto, flags, engineVars, built, counters, history
  <2>. QED
    BY <2>1, <2>2 DEF Fate, Report!vars
<1>15. ASSUME NEW r \in Requests, FailRequest(r)
      PROVE  [Report!Next]_Report!vars
  <2>1. UNCHANGED <<heard, released>>
    BY <1>15 DEF FailRequest, flags, engineVars, built, history
  <2>2. \A u \in Requests : pc'[u] \in {"idle", "refused"} <=> pc[u] \in {"idle", "refused"}
    BY <1>15 DEF IInv, TypeOK, FailRequest, Goto, flags, engineVars, built, history
  <2>. QED
    BY <2>1, <2>2 DEF Fate, Report!vars
<1>16. ASSUME NEW r \in Requests, WatchdogFires(r)
      PROVE  [Report!Next]_Report!vars
  <2>1. UNCHANGED <<heard, released>>
    BY <1>16 DEF WatchdogFires, engineVars, built, counters, history
  <2>2. \A u \in Requests : pc'[u] \in {"idle", "refused"} <=> pc[u] \in {"idle", "refused"}
    BY <1>16 DEF IInv, TypeOK, WatchdogFires, engineVars, built, counters, history
  <2>. QED
    BY <2>1, <2>2 DEF Fate, Report!vars
<1>17. ASSUME NEW r \in Requests, WatchdogCancels(r)
      PROVE  [Report!Next]_Report!vars
  <2>1. UNCHANGED <<heard, released>>
    BY <1>17 DEF WatchdogCancels, flags, engineVars, built, counters, history
  <2>2. \A u \in Requests : pc'[u] \in {"idle", "refused"} <=> pc[u] \in {"idle", "refused"}
    BY <1>17 DEF IInv, TypeOK, WatchdogCancels, flags, engineVars, built, counters, history
  <2>. QED
    BY <2>1, <2>2 DEF Fate, Report!vars
<1>18. ASSUME NEW r \in Requests, LastCallback(r)
      PROVE  [Report!Next]_Report!vars
  <2>1. UNCHANGED <<heard, released>>
    BY <1>18 DEF LastCallback, flags, engineVars, built, counters, history
  <2>2. \A u \in Requests : pc'[u] \in {"idle", "refused"} <=> pc[u] \in {"idle", "refused"}
    BY <1>18 DEF IInv, TypeOK, LastCallback, flags, engineVars, built, counters, history
  <2>. QED
    BY <2>1, <2>2 DEF Fate, Report!vars
<1>19. ASSUME NEW r \in Requests, ReportCallback(r)
      PROVE  [Report!Next]_Report!vars
  <2>1. UNCHANGED <<heard, released>>
    BY <1>19 DEF ReportCallback, flags, engineVars, built, history
  <2>2. \A u \in Requests : pc'[u] \in {"idle", "refused"} <=> pc[u] \in {"idle", "refused"}
    BY <1>19 DEF IInv, TypeOK, ReportCallback, flags, engineVars, built, history
  <2>. QED
    BY <2>1, <2>2 DEF Fate, Report!vars
<1>20. ASSUME NEW r \in Requests, Decide(r)
      PROVE  [Report!Next]_Report!vars
  <2>1. UNCHANGED <<heard, released>>
    BY <1>20 DEF Decide, flags, engineVars, built, counters, history
  <2>2. \A u \in Requests : pc'[u] \in {"idle", "refused"} <=> pc[u] \in {"idle", "refused"}
    BY <1>20 DEF IInv, TypeOK, Decide, flags, engineVars, built, counters, history
  <2>. QED
    BY <2>1, <2>2 DEF Fate, Report!vars
<1>21. ASSUME NEW r \in Requests, DownloadProgress(r)
      PROVE  [Report!Next]_Report!vars
  <2>1. UNCHANGED <<heard, released>>
    BY <1>21 DEF DownloadProgress, flags, engineVars, built, counters, history
  <2>2. \A u \in Requests : pc'[u] \in {"idle", "refused"} <=> pc[u] \in {"idle", "refused"}
    BY <1>21 DEF IInv, TypeOK, DownloadProgress, flags, engineVars, built, counters, history
  <2>. QED
    BY <2>1, <2>2 DEF Fate, Report!vars
<1>22. ASSUME NEW r \in Requests, UploadReadBegins(r)
      PROVE  [Report!Next]_Report!vars
  <2>1. UNCHANGED <<heard, released>>
    BY <1>22 DEF UploadReadBegins, flags, engineVars, built, counters, history
  <2>2. \A u \in Requests : pc'[u] \in {"idle", "refused"} <=> pc[u] \in {"idle", "refused"}
    BY <1>22 DEF IInv, TypeOK, UploadReadBegins, flags, engineVars, built, counters, history
  <2>. QED
    BY <2>1, <2>2 DEF Fate, Report!vars
<1>23. ASSUME NEW r \in Requests, UploadProgress(r)
      PROVE  [Report!Next]_Report!vars
  <2>1. UNCHANGED <<heard, released>>
    BY <1>23 DEF UploadProgress, flags, engineVars, built, counters, history
  <2>2. \A u \in Requests : pc'[u] \in {"idle", "refused"} <=> pc[u] \in {"idle", "refused"}
    BY <1>23 DEF IInv, TypeOK, UploadProgress, flags, engineVars, built, counters, history
  <2>. QED
    BY <2>1, <2>2 DEF Fate, Report!vars
<1>24. CASE UNCHANGED vars
  BY <1>24 DEF Fate, Report!vars, vars, history
<1>. QED
  BY <1>1, <1>2, <1>3, <1>4, <1>5, <1>6, <1>7, <1>8, <1>9, <1>10, <1>11, <1>12, <1>13,
     <1>14, <1>15, <1>16, <1>17, <1>18, <1>19, <1>20, <1>21, <1>22, <1>23, <1>24
     DEF Next, LuaCalls, ExecutorTask, Watchdog, LastCallbacks, Cronet

\* The Android layer implements OneReport: a listener is told the end once, or the
\* request is dropped, never both, and nothing follows.
THEOREM Refinement == Spec => RefinesOneReport
<1>1. Init => Report!Init
  BY DEF Init, Report!Init, Fate
<1>. QED
  BY <1>1, ReportStep, InductiveInvariant, PTL DEF Spec, RefinesOneReport, Report!Spec

-----------------------------------------------------------------------------
(* The QUIC hints of the same process, module QuicHints, for any number of *)
(* requests, hosts and processes that follow each other.  Its Tasks are    *)
(* the threads of Requests seen from another side; no step relates the two.*)

Building == {"load", "remember", "copy", "put", "build"}

\* One thread builds, and by then the host of its own request is in the list.
BuilderInv ==
  \A r \in Tasks :
    /\ holder = r => task[r] \in Building /\ hinted = NoEngine
    /\ task[r] \in {"load", "build"} => holder = r
    /\ task[r] \in Building => holder = r \/ hinted # NoEngine
    /\ task[r] \in {"copy", "put", "build"} => HostIzUrl[r] \in hosty \cup {Nil}

\* The hosts of the file this process started with are in everything it has written
\* since, and in everything it is about to write.
KeptInv ==
  unread \/
    /\ old \subseteq disk /\ old \subseteq prefs
    /\ hinted # NoEngine => old \subseteq hosty
    /\ \A r \in Tasks :
         /\ task[r] \in Building \ {"load"} => old \subseteq hosty
         /\ task[r] = "put" => old \subseteq kopiya[r]

HintsInv == HintsTypeOK /\ BuilderInv /\ KeptInv

\* Every action of a thread, the file and the next process keep the types.
LEMMA HintsTypeStep ==
  ASSUME HintsInv, [HintsNext]_hintsVars
  PROVE  HintsTypeOK'
<1>1. ASSUME NEW r \in Tasks, AskHint(r)
      PROVE  HintsTypeOK'
  BY <1>1, HintsAssumption DEF HintsInv, HintsTypeOK, AskHint, GotoHint,
     NoEngine, HintsAssumption
<1>2. ASSUME NEW r \in Tasks, Initialize(r)
      PROVE  HintsTypeOK'
  BY <1>2, HintsAssumption DEF HintsInv, HintsTypeOK, Initialize, GotoHint,
     NoEngine, HintsAssumption
<1>3. ASSUME NEW r \in Tasks, Load(r)
      PROVE  HintsTypeOK'
  <2>1. hosty' \in SUBSET Hosts /\ unread' \in BOOLEAN
    BY <1>3 DEF HintsInv, HintsTypeOK, Load
  <2>. QED
    BY <1>3, <2>1 DEF HintsInv, HintsTypeOK, Load, GotoHint
<1>4. ASSUME NEW r \in Tasks, Remember(r)
      PROVE  HintsTypeOK'
  BY <1>4, HintsAssumption DEF HintsInv, HintsTypeOK, Remember, GotoHint, Remembered,
     NoEngine, HintsAssumption
<1>5. ASSUME NEW r \in Tasks, Copy(r)
      PROVE  HintsTypeOK'
  BY <1>5, HintsAssumption DEF HintsInv, HintsTypeOK, Copy, GotoHint,
     NoEngine, HintsAssumption
<1>6. ASSUME NEW r \in Tasks, Put(r)
      PROVE  HintsTypeOK'
  BY <1>6, HintsAssumption DEF HintsInv, HintsTypeOK, Put, GotoHint, Remembered,
     NoEngine, HintsAssumption
<1>7. ASSUME NEW r \in Tasks, Build(r)
      PROVE  HintsTypeOK'
  BY <1>7, HintsAssumption DEF HintsInv, HintsTypeOK, Build, GotoHint,
     NoEngine, HintsAssumption
<1>8. CASE Flush
  BY <1>8, HintsAssumption DEF HintsInv, HintsTypeOK, Flush, NoEngine, HintsAssumption
<1>9. CASE Restart
  <2>1. {prefs, disk, old} \subseteq SUBSET Hosts
    BY DEF HintsInv, HintsTypeOK
  <2>2. hosty' = {} /\ prefs' = disk /\ disk' = disk /\ old' = disk
    BY <1>9 DEF Restart
  <2>3. hosty' \in SUBSET Hosts /\ prefs' \in SUBSET Hosts /\ disk' \in SUBSET Hosts
        /\ old' \in SUBSET Hosts
    BY <2>1, <2>2
  <2>4. life' \in 0 .. LastLife
    BY <1>9, HintsAssumption DEF HintsInv, HintsTypeOK, Restart, HintsAssumption
  <2>5. task' \in [Tasks -> {"idle", "queued", "load", "remember", "copy", "put", "build", "over"}]
    BY <1>9 DEF Restart
  <2>6. kopiya' \in [Tasks -> SUBSET Hosts]
    BY <1>9 DEF Restart
  <2>7. /\ holder' \in Tasks \cup {Nil} /\ hinted' \in (SUBSET Hosts) \cup {NoEngine}
        /\ unread' \in BOOLEAN
    BY <1>9 DEF Restart
  <2>. QED
    BY <2>3, <2>4, <2>5, <2>6, <2>7 DEF HintsTypeOK
<1>10. CASE UNCHANGED hintsVars
  BY <1>10 DEF HintsInv, HintsTypeOK, hintsVars
<1>. QED
  BY <1>1, <1>2, <1>3, <1>4, <1>5, <1>6, <1>7, <1>8, <1>9, <1>10
     DEF HintsNext, Thread

\* The engine is built inside the monitor, by a thread that has been through the list.
LEMMA BuilderStep ==
  ASSUME HintsInv, [HintsNext]_hintsVars
  PROVE  BuilderInv'
<1>1. ASSUME NEW r \in Tasks, AskHint(r)
      PROVE  BuilderInv'
  BY <1>1, HintsAssumption DEF HintsInv, HintsTypeOK, BuilderInv, AskHint, GotoHint,
     NoEngine, Building, HintsAssumption
<1>2. ASSUME NEW r \in Tasks, Initialize(r)
      PROVE  BuilderInv'
  BY <1>2, HintsAssumption DEF HintsInv, HintsTypeOK, BuilderInv, Initialize, GotoHint,
     NoEngine, Building, HintsAssumption
<1>3. ASSUME NEW r \in Tasks, Load(r)
      PROVE  BuilderInv'
  BY <1>3, HintsAssumption DEF HintsInv, HintsTypeOK, BuilderInv, Load, GotoHint,
     NoEngine, Building, HintsAssumption
<1>4. ASSUME NEW r \in Tasks, Remember(r)
      PROVE  BuilderInv'
  BY <1>4, HintsAssumption DEF HintsInv, HintsTypeOK, BuilderInv, Remember, GotoHint, Remembered,
     NoEngine, Building, HintsAssumption
<1>5. ASSUME NEW r \in Tasks, Copy(r)
      PROVE  BuilderInv'
  BY <1>5, HintsAssumption DEF HintsInv, HintsTypeOK, BuilderInv, Copy, GotoHint,
     NoEngine, Building, HintsAssumption
<1>6. ASSUME NEW r \in Tasks, Put(r)
      PROVE  BuilderInv'
  BY <1>6, HintsAssumption DEF HintsInv, HintsTypeOK, BuilderInv, Put, GotoHint, Remembered,
     NoEngine, Building, HintsAssumption
<1>7. ASSUME NEW r \in Tasks, Build(r)
      PROVE  BuilderInv'
  BY <1>7, HintsAssumption DEF HintsInv, HintsTypeOK, BuilderInv, Build, GotoHint,
     NoEngine, Building, HintsAssumption
<1>8. CASE Flush
  BY <1>8, HintsAssumption DEF HintsInv, HintsTypeOK, BuilderInv, Flush, NoEngine, Building, HintsAssumption
<1>9. CASE Restart
  BY <1>9, HintsAssumption DEF HintsInv, HintsTypeOK, BuilderInv, Restart, NoEngine, Building, HintsAssumption
<1>10. CASE UNCHANGED hintsVars
  BY <1>10 DEF HintsInv, HintsTypeOK, BuilderInv, hintsVars
<1>. QED
  BY <1>1, <1>2, <1>3, <1>4, <1>5, <1>6, <1>7, <1>8, <1>9, <1>10
     DEF HintsNext, Thread

\* A list that is written was read first, or grew from one that was.
LEMMA KeptStep ==
  ASSUME HintsInv, [HintsNext]_hintsVars
  PROVE  KeptInv'
<1>1. ASSUME NEW r \in Tasks, AskHint(r)
      PROVE  KeptInv'
  BY <1>1, HintsAssumption DEF HintsInv, HintsTypeOK, KeptInv, AskHint, GotoHint,
     NoEngine, Building, HintsAssumption
<1>2. ASSUME NEW r \in Tasks, Initialize(r)
      PROVE  KeptInv'
  BY <1>2, HintsAssumption DEF HintsInv, HintsTypeOK, KeptInv, Initialize, GotoHint,
     NoEngine, Building, HintsAssumption
<1>3. ASSUME NEW r \in Tasks, Load(r)
      PROVE  KeptInv'
  BY <1>3, HintsAssumption DEF HintsInv, HintsTypeOK, KeptInv, Load, GotoHint,
     NoEngine, Building, HintsAssumption
<1>4. ASSUME NEW r \in Tasks, Remember(r)
      PROVE  KeptInv'
  BY <1>4, HintsAssumption DEF HintsInv, HintsTypeOK, KeptInv, Remember, GotoHint, Remembered,
     NoEngine, Building, HintsAssumption
<1>5. ASSUME NEW r \in Tasks, Copy(r)
      PROVE  KeptInv'
  BY <1>5, HintsAssumption DEF HintsInv, HintsTypeOK, KeptInv, Copy, GotoHint,
     NoEngine, Building, HintsAssumption
<1>6. ASSUME NEW r \in Tasks, Put(r)
      PROVE  KeptInv'
  BY <1>6, HintsAssumption DEF HintsInv, HintsTypeOK, KeptInv, Put, GotoHint, Remembered,
     NoEngine, Building, HintsAssumption
<1>7. ASSUME NEW r \in Tasks, Build(r)
      PROVE  KeptInv'
  BY <1>7, HintsAssumption DEF HintsInv, HintsTypeOK, KeptInv, Build, GotoHint,
     NoEngine, Building, HintsAssumption
<1>8. CASE Flush
  BY <1>8, HintsAssumption DEF HintsInv, HintsTypeOK, KeptInv, Flush, NoEngine, Building, HintsAssumption
<1>9. CASE Restart
  BY <1>9, HintsAssumption DEF HintsInv, HintsTypeOK, KeptInv, Restart, NoEngine, Building, HintsAssumption
<1>10. CASE UNCHANGED hintsVars
  BY <1>10 DEF HintsInv, HintsTypeOK, KeptInv, hintsVars
<1>. QED
  BY <1>1, <1>2, <1>3, <1>4, <1>5, <1>6, <1>7, <1>8, <1>9, <1>10
     DEF HintsNext, Thread

\* The three together hold in every reachable state.
THEOREM HintsInductive ==
  HintsSpec => []HintsInv
<1>1. ASSUME HintsInit PROVE HintsInv
  <2>1. HintsTypeOK
    <3>1. task \in [Tasks -> {"idle", "queued", "load", "remember", "copy", "put", "build", "over"}]
      BY <1>1 DEF HintsInit
    <3>2. kopiya \in [Tasks -> SUBSET Hosts]
      BY <1>1 DEF HintsInit
    <3>3. /\ holder \in Tasks \cup {Nil} /\ hinted \in (SUBSET Hosts) \cup {NoEngine}
          /\ unread \in BOOLEAN
      BY <1>1 DEF HintsInit
    <3>4. {hosty, prefs, disk, old} \subseteq SUBSET Hosts /\ life \in 0 .. LastLife
      BY <1>1, HintsAssumption DEF HintsInit, HintsAssumption
    <3>. QED
      BY <3>1, <3>2, <3>3, <3>4 DEF HintsTypeOK
  <2>2. BuilderInv /\ KeptInv
    BY <1>1, HintsAssumption DEF HintsInit, BuilderInv, KeptInv, Building, HintsAssumption
  <2>. QED
    BY <2>1, <2>2 DEF HintsInv
<1>2. HintsInv /\ [HintsNext]_hintsVars => HintsInv'
  BY HintsTypeStep, BuilderStep, KeptStep DEF HintsInv
<1>. QED
  BY <1>1, <1>2, PTL DEF HintsSpec

\* Threads, copies and files hold sets of hosts, whatever dies or fails in between.
THEOREM HintsTyped ==
  HintsSpec => []HintsTypeOK
<1>1. HintsInv => HintsTypeOK
  BY DEF HintsInv
<1>. QED
  BY <1>1, HintsInductive, PTL

\* The hosts an earlier process saved stay in the file, in every interleaving of
\* the threads that save their own and of the file that follows late, unless the
\* process could not read them.
THEOREM HintsOutliveProcesses ==
  HintsSpec => []OldHintsKept
<1>1. HintsInv => OldHintsKept
  BY DEF HintsInv, KeptInv, OldHintsKept
<1>. QED
  BY <1>1, HintsInductive, PTL

\* The engine gets the hint for the request that builds it and the saved ones.
THEOREM EngineHinted ==
  HintsSpec => FirstHinted
<1>1. ASSUME HintsInv, [HintsNext]_hintsVars
      PROVE  [ \A r \in Tasks :
                 hinted = NoEngine /\ hinted' # NoEngine /\ holder = r =>
                   /\ HostIzUrl[r] \in hinted' \cup {Nil}
                   /\ unread \/ old \subseteq hinted' ]_hintsVars
  <2>. SUFFICES ASSUME NEW r \in Tasks, hinted = NoEngine, hinted' # NoEngine,
                       holder = r
                PROVE  /\ HostIzUrl[r] \in hinted' \cup {Nil}
                       /\ unread \/ old \subseteq hinted'
    OBVIOUS
  <2>1. PICK u \in Tasks : Build(u)
    BY <1>1 DEF HintsNext, Thread, hintsVars, AskHint, Initialize, Load,
       Remember, Copy, Put, Flush, Restart
  <2>2. u = r /\ task[r] = "build"
    BY <1>1, <2>1 DEF HintsInv, BuilderInv, Build
  <2>3. hinted' = hosty
    BY <2>1 DEF Build
  <2>. QED
    BY <1>1, <2>2, <2>3 DEF HintsInv, BuilderInv, KeptInv, Building
<1>. QED
  BY <1>1, HintsInductive, PTL DEF HintsSpec, FirstHinted
=============================================================================
