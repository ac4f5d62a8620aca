---------------------------- MODULE AppleSession ----------------------------
(***************************************************************************)
(* Requests on iOS and macOS (shared/SimulatorPluginLibrary.mm): the Lua   *)
(* code runs on the main thread, which asks, cancels, changes the pins and *)
(* runs the blocks of the main queue; the delegate queue of a session runs *)
(* the callbacks of its tasks one after another and looks their state up   *)
(* by the address of the task object.                                      *)
(*                                                                         *)
(* NSURLSession is modelled from how this code uses it: a task lives from  *)
(* its creation until its didCompleteWithError, which comes exactly once;  *)
(* its address is free for a new task only then and when activeTasks has   *)
(* let go of it; tasks of one session share its connections.               *)
(***************************************************************************)
EXTENDS Naturals, Sequences

CONSTANTS
  Requests,
  Addresses,   \* of task objects
  LastNabor,   \* bound: how many times setPins is called
  None

ASSUME AppleAssumption == LastNabor \in Nat /\ None \notin Requests \cup Addresses

VARIABLES
  task,        \* "none", "going", how it "ended" for NSURLSession, "gone"
  address,     \* of the request's task
  sessiya,     \* the session of the task
  connection,  \* of a session: which set of pins its connection was checked with
  over,        \* history: which set the connection of the request was checked with
  asked,       \* history: the set in force when the request was made
  nabor,       \* g_Piny: 0 no pins, then the number of the set
  session,     \* the session for new tasks; sessions are numbered too
  activeTasks, \* requests in the dictionary by number
  zadachi,     \* by address: the request whose HTTP3Zadacha is stored
  protokol,    \* protokolZadachi, by address: the request whose protocol is stored
  pinOtkaz,    \* requests whose certificate was refused
  moved,       \* the progress event of a request: sent or not
  queue,       \* the main queue
  completed, failed,  \* totalCompleted, totalFailed
  heard        \* history: final events the listener was called with

taskVars == <<task, address, sessiya>>
pinVars == <<connection, over, asked, nabor, session>>
tables == <<activeTasks, zadachi, protokol, pinOtkaz>>
counters == <<completed, failed>>
vars == <<taskVars, pinVars, tables, moved, queue, counters, heard>>

Nabory == 0 .. LastNabor
Ends == {"answer", "error", "cancelled"}
Event == [request : Requests, kind : {"progress", "ended"}]

TypeOK ==
  /\ task \in [Requests -> {"none", "refused", "going", "gone"} \cup Ends]
  /\ address \in [Requests -> Addresses \cup {None}]
  /\ sessiya \in [Requests -> Nabory] /\ session \in Nabory /\ nabor \in Nabory
  /\ connection \in [Nabory -> Nabory \cup {None}]
  /\ over \in [Requests -> Nabory \cup {None}] /\ asked \in [Requests -> Nabory]
  /\ activeTasks \subseteq Requests /\ pinOtkaz \subseteq Requests
  /\ zadachi \in [Addresses -> Requests \cup {None}]
  /\ protokol \in [Addresses -> Requests \cup {None}]
  /\ moved \subseteq Requests
  /\ queue \in Seq(Event)
  /\ completed \in Nat /\ failed \in Nat
  /\ heard \in [Requests -> 0 .. 1]

Init ==
  /\ task = [r \in Requests |-> "none"] /\ address = [r \in Requests |-> None]
  /\ sessiya = [r \in Requests |-> 0] /\ session = 0 /\ nabor = 0
  /\ connection = [s \in Nabory |-> None]
  /\ over = [r \in Requests |-> None] /\ asked = [r \in Requests |-> 0]
  /\ activeTasks = {} /\ pinOtkaz = {} /\ moved = {} /\ queue = <<>>
  /\ zadachi = [a \in Addresses |-> None] /\ protokol = [a \in Addresses |-> None]
  /\ completed = 0 /\ failed = 0
  /\ heard = [r \in Requests |-> 0]

\* The session retains a task until its last callback, activeTasks until it
\* is removed there.
Retained(r) == task[r] \in {"going"} \cup Ends \/ r \in activeTasks

FreeAddresses == {a \in Addresses : \A r \in Requests : Retained(r) => address[r] # a}

Post(r, kind) == queue' = Append(queue, [request |-> r, kind |-> kind])

-----------------------------------------------------------------------------
(* Main thread                                                             *)

\* requestWithURL: a URL without a host is refused with -1.
RefuseUrl(r) ==
  /\ task[r] = "none"
  /\ task' = [task EXCEPT ![r] = "refused"]
  /\ UNCHANGED <<address, sessiya, pinVars, tables, moved, queue, counters, heard>>

\* Otherwise the task is made from the current session, entered in both tables
\* and resumed.
Request(r) ==
  /\ task[r] = "none"
  /\ \E a \in FreeAddresses :
       /\ address' = [address EXCEPT ![r] = a]
       /\ zadachi' = [zadachi EXCEPT ![a] = r]
  /\ task' = [task EXCEPT ![r] = "going"]
  /\ sessiya' = [sessiya EXCEPT ![r] = session]
  /\ asked' = [asked EXCEPT ![r] = nabor]
  /\ activeTasks' = activeTasks \cup {r}
  /\ UNCHANGED <<connection, over, nabor, session, protokol, pinOtkaz, moved, queue, counters,
                 heard>>

\* Mutation: cancel tells the listener itself.
CancelReports(r) ==
  /\ r \in activeTasks
  /\ task' = [task EXCEPT ![r] = IF @ = "going" THEN "cancelled" ELSE @]
  /\ activeTasks' = activeTasks \ {r} /\ Post(r, "ended")
  /\ UNCHANGED <<address, sessiya, pinVars, zadachi, protokol, pinOtkaz, moved, counters, heard>>

\* cancelRequest: [task cancel] has no effect on a task that has ended.  The
\* number leaves activeTasks, the rest is left to the last callback.
Cancel(r) ==
  /\ r \in activeTasks
  /\ task' = [task EXCEPT ![r] = IF @ = "going" THEN "cancelled" ELSE @]
  /\ activeTasks' = activeTasks \ {r}
  /\ UNCHANGED <<address, sessiya, pinVars, zadachi, protokol, pinOtkaz, moved, queue, counters,
                 heard>>

\* Mutation: new requests stay on the session of the old pins.
SetPinsKeeping ==
  /\ nabor < LastNabor
  /\ nabor' = nabor + 1
  /\ UNCHANGED <<taskVars, connection, over, asked, session, tables, moved, queue, counters,
                 heard>>

\* L_setPins and smenitSessiyu: the tasks of the old session run on.
SetPins ==
  /\ nabor < LastNabor
  /\ nabor' = nabor + 1 /\ session' = session + 1
  /\ UNCHANGED <<taskVars, connection, over, asked, tables, moved, queue, counters, heard>>

\* A block of OtpravitProgress or of didCompleteWithError, which also deletes
\* the listener's reference.
RunBlock ==
  /\ queue # <<>>
  /\ queue' = Tail(queue)
  /\ heard' = [heard EXCEPT ![Head(queue).request] =
                              @ + (IF Head(queue).kind = "ended" THEN 1 ELSE 0)]
  /\ UNCHANGED <<taskVars, pinVars, tables, moved, counters>>

-----------------------------------------------------------------------------
(* NSURLSession and its delegate                                           *)

\* Whose state a callback of r finds.
Zadacha(r) == zadachi[address[r]]

\* didReceiveChallenge: the certificate of a new connection is accepted under
\* the pins of now, or refused, and NSURLSession cancels the task.
Challenge(r) ==
  /\ task[r] = "going" /\ over[r] = None /\ connection[sessiya[r]] = None
  /\ \/ /\ connection' = [connection EXCEPT ![sessiya[r]] = nabor]
        /\ over' = [over EXCEPT ![r] = nabor]
        /\ UNCHANGED <<task, pinOtkaz>>
     \/ /\ nabor > 0
        /\ pinOtkaz' = IF Zadacha(r) = None THEN pinOtkaz ELSE pinOtkaz \cup {Zadacha(r)}
        /\ task' = [task EXCEPT ![r] = "cancelled"]
        /\ UNCHANGED <<connection, over>>
  /\ UNCHANGED <<address, sessiya, asked, nabor, session, activeTasks, zadachi, protokol, moved,
                 queue, counters, heard>>

\* A task takes the connection another one of its session has opened.
ReuseConnection(r) ==
  /\ task[r] = "going" /\ over[r] = None /\ connection[sessiya[r]] # None
  /\ over' = [over EXCEPT ![r] = connection[sessiya[r]]]
  /\ UNCHANGED <<taskVars, connection, asked, nabor, session, tables, moved, queue, counters,
                 heard>>

\* The server or the network closes the connection of a session.
CloseConnection(s) ==
  /\ connection[s] # None
  /\ connection' = [connection EXCEPT ![s] = None]
  /\ UNCHANGED <<taskVars, over, asked, nabor, session, tables, moved, queue, counters, heard>>

\* didReceiveResponse, didReceiveData, didSendBodyData: one progress event is
\* modelled; a cancelled task may still have a callback under way.
Progress(r) ==
  /\ task[r] \in {"going"} \cup Ends /\ over[r] # None /\ r \notin moved
  /\ Zadacha(r) # None
  /\ moved' = moved \cup {r} /\ Post(Zadacha(r), "progress")
  /\ UNCHANGED <<taskVars, pinVars, tables, counters, heard>>

\* The task ends by itself, at the latest when nothing has arrived for the
\* time-out of the request.
EndTask(r) ==
  /\ task[r] = "going"
  /\ \E end \in {"error"} \cup (IF over[r] = None THEN {} ELSE {"answer"}) :
       task' = [task EXCEPT ![r] = end]
  /\ UNCHANGED <<address, sessiya, pinVars, tables, moved, queue, counters, heard>>

\* didFinishCollectingMetrics precedes the last callback; the name of the
\* protocol may be missing, and nothing is stored.
Metrics(r) ==
  /\ task[r] \in Ends /\ over[r] # None /\ protokol[address[r]] = None
  /\ protokol' = [protokol EXCEPT ![address[r]] = r]
  /\ UNCHANGED <<taskVars, pinVars, activeTasks, zadachi, pinOtkaz, moved, queue, counters, heard>>

\* Mutation: the protocol stays under the address of the task.
CompleteKeepsProtocol(r) ==
  /\ task[r] \in Ends
  /\ task' = [task EXCEPT ![r] = "gone"]
  /\ IF Zadacha(r) = None
     THEN UNCHANGED <<activeTasks, zadachi, protokol, queue, counters>>
     ELSE /\ zadachi' = [zadachi EXCEPT ![address[r]] = None]
          /\ activeTasks' = activeTasks \ {Zadacha(r)}
          /\ IF task[r] = "answer" /\ Zadacha(r) \notin pinOtkaz
             THEN completed' = completed + 1 /\ UNCHANGED failed
             ELSE failed' = failed + 1 /\ UNCHANGED completed
          /\ Post(Zadacha(r), "ended") /\ UNCHANGED protokol
  /\ UNCHANGED <<address, sessiya, pinVars, pinOtkaz, moved, heard>>

\* Mutation: a cancelled request is looked for in activeTasks.
CompleteListed(r) ==
  /\ task[r] \in Ends
  /\ task' = [task EXCEPT ![r] = "gone"]
  /\ zadachi' = [zadachi EXCEPT ![address[r]] = None]
  /\ protokol' = [protokol EXCEPT ![address[r]] = None]
  /\ activeTasks' = activeTasks \ {r}
  /\ IF r \in activeTasks THEN Post(r, "ended") ELSE UNCHANGED queue
  /\ UNCHANGED <<address, sessiya, pinVars, pinOtkaz, moved, counters, heard>>

\* didCompleteWithError: the state leaves the tables under the lock, the end is
\* counted and sent to the main queue.
Complete(r) ==
  /\ task[r] \in Ends
  /\ task' = [task EXCEPT ![r] = "gone"]
  /\ protokol' = [protokol EXCEPT ![address[r]] = None]
  /\ IF Zadacha(r) = None
     THEN UNCHANGED <<activeTasks, zadachi, queue, counters>>
     ELSE /\ zadachi' = [zadachi EXCEPT ![address[r]] = None]
          /\ activeTasks' = activeTasks \ {Zadacha(r)}
          /\ IF task[r] = "answer" /\ Zadacha(r) \notin pinOtkaz
             THEN completed' = completed + 1 /\ UNCHANGED failed
             ELSE failed' = failed + 1 /\ UNCHANGED completed
          /\ Post(Zadacha(r), "ended")
  /\ UNCHANGED <<address, sessiya, pinVars, pinOtkaz, moved, heard>>

-----------------------------------------------------------------------------

MainThread == \/ \E r \in Requests : RefuseUrl(r) \/ Request(r) \/ Cancel(r)
              \/ SetPins \/ RunBlock

Delegate(r) ==
  \/ Challenge(r) \/ ReuseConnection(r) \/ Progress(r) \/ EndTask(r) \/ Metrics(r) \/ Complete(r)

Next ==
  \/ MainThread
  \/ \E r \in Requests : Delegate(r)
  \/ \E s \in Nabory : CloseConnection(s)

\* timeoutIntervalForRequest ends every task, the delegate's and the main
\* queue run.
Fairness ==
  /\ WF_vars(RunBlock)
  /\ \A r \in Requests : WF_vars(EndTask(r)) /\ WF_vars(Complete(r))

Spec == Init /\ [][Next]_vars /\ Fairness

-----------------------------------------------------------------------------
(* Properties                                                              *)

\* The address of a task is a sound key although cancel takes the task out of
\* activeTasks before it has ended: a callback finds its own state, and what is
\* stored under an address belongs to a task that lives there, so that no
\* request is told the protocol or the end of another.
KeysOwn ==
  /\ \A r \in Requests : task[r] \in {"going"} \cup Ends => Zadacha(r) = r
  /\ \A a \in Addresses : \A r \in {zadachi[a], protokol[a]} \ {None} :
       address[r] = a /\ task[r] \in {"going"} \cup Ends

\* Comment at 304-307: a request made after setPins does not travel over a
\* connection that was checked with an earlier set.
CheckedWithItsPins == \A r \in Requests : over[r] # None => over[r] >= asked[r]

\* Every request that was accepted, cancelled ones included, has its listener
\* told, whatever the network does, and leaves the tables.  ReadMe.md:372 has the
\* callback called "if the request was not cancelled"; cancelRequest (737-748) leaves
\* zadachi alone, so didCompleteWithError tells a cancelled one all the same.
EventuallyTold ==
  \A r \in Requests : task[r] = "going" ~> heard[r] = 1 /\ r \notin activeTasks

Fate(r) ==
  CASE heard[r] > 0 -> "told"
    [] heard[r] = 0 /\ task[r] \in {"none", "refused"} -> "idle"
    [] OTHER -> "open"

Report == INSTANCE OneReport WITH fate <- [r \in Requests |-> Fate(r)]

\* The listener is told once.
RefinesOneReport == Report!Spec
=============================================================================
