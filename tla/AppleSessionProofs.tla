------------------------- MODULE AppleSessionProofs -------------------------
(***************************************************************************)
(* Proofs about the Apple layer of module AppleSession, for any number of  *)
(* requests, of task addresses and of calls of setPins.                    *)
(*                                                                         *)
(* TableInv says what the two tables and activeTasks hold; with it the     *)
(* addresses are keys (KeysOwn).  PinInv compares the numbers of pin sets, *)
(* sessions and connections.  QueueInv follows the end of a request from   *)
(* the last callback over the main queue to the listener.                  *)
(***************************************************************************)
EXTENDS AppleSession, SequenceTheorems, TLAPS

Live(r) == task[r] \in {"going"} \cup Ends

\* A listed request is live and has an address, so nobody else gets the address.
TableInv ==
  /\ \A r \in activeTasks : Live(r)
  /\ \A r \in Requests : Live(r) => address[r] \in Addresses

\* Sessions and sets of pins are changed together, a session's connections are
\* checked with its own set or a later one.
PinInv ==
  /\ session = nabor
  /\ \A s \in Nabory : connection[s] # None => connection[s] >= s
  /\ \A r \in Requests :
       /\ sessiya[r] = asked[r] /\ sessiya[r] <= session
       /\ over[r] # None => over[r] >= sessiya[r]
       /\ task[r] = "none" => over[r] = None

EndedAt(i) == queue[i].kind = "ended"

\* The end of a request is on the main queue once at most, after the last
\* callback and before the listener has heard of it.
QueueInv ==
  /\ \A i \in 1 .. Len(queue) : EndedAt(i) =>
       task[queue[i].request] = "gone" /\ heard[queue[i].request] = 0
  /\ \A i, j \in 1 .. Len(queue) :
       EndedAt(i) /\ EndedAt(j) /\ queue[i].request = queue[j].request => i = j
  /\ \A r \in Requests : heard[r] > 0 => task[r] = "gone"

IInv == TypeOK /\ TableInv /\ KeysOwn /\ PinInv /\ QueueInv

\* What the main queue holds, and what is left of it when its first block has run.
LEMMA QueueFacts ==
  ASSUME TypeOK
  PROVE  /\ Len(queue) \in Nat
         /\ \A i \in 1 .. Len(queue) :
              queue[i] \in Event /\ queue[i].request \in Requests /\ queue[i].kind \in {"progress", "ended"}
         /\ queue # <<>> =>
              /\ 1 \in 1 .. Len(queue) /\ Head(queue) = queue[1]
              /\ Tail(queue) \in Seq(Event) /\ Len(Tail(queue)) = Len(queue) - 1
              /\ \A i \in 1 .. Len(Tail(queue)) : Tail(queue)[i] = queue[i + 1]
<1>1. queue \in Seq(Event)
  BY DEF TypeOK
<1>2. Len(queue) \in Nat /\ \A i \in 1 .. Len(queue) : queue[i] \in Event
  BY <1>1, ElementOfSeq, LenProperties
<1>3. ASSUME queue # <<>>
      PROVE  1 \in 1 .. Len(queue) /\ Head(queue) = queue[1]
  BY <1>1, <1>3, EmptySeq
<1>4. ASSUME queue # <<>>
      PROVE  /\ Tail(queue) \in Seq(Event) /\ Len(Tail(queue)) = Len(queue) - 1
             /\ \A i \in 1 .. Len(Tail(queue)) : Tail(queue)[i] = queue[i + 1]
  BY <1>1, <1>4, HeadTailProperties
<1>5. \A e \in Event : e.request \in Requests /\ e.kind \in {"progress", "ended"}
  BY DEF Event
<1>. QED
  BY <1>2, <1>3, <1>4, <1>5

\* The main queue after a block has been added.
LEMMA PostFacts ==
  ASSUME TypeOK, NEW e \in Event
  PROVE  /\ Append(queue, e) \in Seq(Event) /\ Len(Append(queue, e)) = Len(queue) + 1
         /\ Append(queue, e)[Len(queue) + 1] = e
         /\ \A i \in 1 .. Len(queue) : Append(queue, e)[i] = queue[i]
<1>1. queue \in Seq(Event)
  BY DEF TypeOK
<1>. QED
  BY <1>1

\* Every action keeps the variables in their types; a session has a number because
\* it changes with the pins, and a listener is told at most once.
LEMMA TypeStep ==
  ASSUME IInv, [Next]_vars
  PROVE  TypeOK'
<1>1. ASSUME NEW r \in Requests, RefuseUrl(r)
      PROVE  TypeOK'
  BY <1>1, AppleAssumption DEF IInv, TypeOK, TableInv, KeysOwn, PinInv, Live, Zadacha,
     Post, Nabory, Ends, RefuseUrl, taskVars, pinVars, tables, counters
<1>2. ASSUME NEW r \in Requests, Request(r)
      PROVE  TypeOK'
  <2>1. PICK a \in Addresses : /\ address' = [address EXCEPT ![r] = a]
                                /\ zadachi' = [zadachi EXCEPT ![a] = r]
    BY <1>2 DEF Request, FreeAddresses
  <2>2. address' \in [Requests -> Addresses \cup {None}] /\ zadachi' \in [Addresses -> Requests \cup {None}]
    BY <2>1 DEF IInv, TypeOK
  <2>3. task' \in [Requests -> {"none", "refused", "going", "gone"} \cup Ends]
        /\ sessiya' \in [Requests -> Nabory] /\ asked' \in [Requests -> Nabory]
    BY <1>2 DEF IInv, TypeOK, Request
  <2>4. activeTasks' \subseteq Requests
    BY <1>2 DEF IInv, TypeOK, Request
  <2>. QED
    BY <1>2, <2>2, <2>3, <2>4 DEF IInv, TypeOK, Request, counters
<1>3. ASSUME NEW r \in Requests, Cancel(r)
      PROVE  TypeOK'
  BY <1>3, AppleAssumption DEF IInv, TypeOK, TableInv, KeysOwn, PinInv, Live, Zadacha,
     Post, Nabory, Ends, Cancel, taskVars, pinVars, tables, counters
<1>4. CASE SetPins
  BY <1>4, AppleAssumption DEF IInv, TypeOK, TableInv, KeysOwn, PinInv, Live, Zadacha,
     Post, Nabory, Ends, SetPins, taskVars, pinVars, tables, counters
<1>5. CASE RunBlock
  <2>1. Head(queue) = queue[1] /\ queue[1].request \in Requests /\ Tail(queue) \in Seq(Event)
        /\ (queue[1].kind = "ended" => heard[queue[1].request] = 0)
    BY <1>5, QueueFacts DEF IInv, QueueInv, EndedAt, RunBlock
  <2>2. heard' \in [Requests -> 0 .. 1]
    BY <1>5, <2>1 DEF IInv, TypeOK, RunBlock
  <2>. QED
    BY <1>5, <2>1, <2>2 DEF IInv, TypeOK, RunBlock, taskVars, pinVars, tables, counters
<1>6. ASSUME NEW r \in Requests, Challenge(r)
      PROVE  TypeOK'
  <2>1. task' \in [Requests -> {"none", "refused", "going", "gone"} \cup Ends]
    BY <1>6 DEF IInv, TypeOK, Ends, Challenge
  <2>2. connection' \in [Nabory -> Nabory \cup {None}] /\ over' \in [Requests -> Nabory \cup {None}]
    BY <1>6 DEF IInv, TypeOK, Challenge
  <2>3. Zadacha(r) = r
    BY <1>6 DEF IInv, KeysOwn, Challenge
  <2>4. pinOtkaz' \subseteq Requests
    BY <1>6, <2>3, AppleAssumption DEF IInv, TypeOK, Challenge
  <2>. QED
    BY <1>6, <2>1, <2>2, <2>4 DEF IInv, TypeOK, Challenge, counters
<1>7. ASSUME NEW r \in Requests, ReuseConnection(r)
      PROVE  TypeOK'
  BY <1>7, AppleAssumption DEF IInv, TypeOK, TableInv, KeysOwn, PinInv, Live, Zadacha,
     Post, Nabory, Ends, ReuseConnection, taskVars, pinVars, tables, counters
<1>8. ASSUME NEW r \in Requests, Progress(r)
      PROVE  TypeOK'
  <2>1. Zadacha(r) = r /\ [request |-> r, kind |-> "progress"] \in Event
    BY <1>8 DEF IInv, KeysOwn, Progress, Event
  <2>2. queue' \in Seq(Event)
    BY <1>8, <2>1, PostFacts DEF IInv, Progress, Post
  <2>. QED
    BY <1>8, <2>2 DEF IInv, TypeOK, Progress, taskVars, pinVars, tables, counters
<1>9. ASSUME NEW r \in Requests, EndTask(r)
      PROVE  TypeOK'
  BY <1>9, AppleAssumption DEF IInv, TypeOK, TableInv, KeysOwn, PinInv, Live, Zadacha,
     Post, Nabory, Ends, EndTask, taskVars, pinVars, tables, counters
<1>10. ASSUME NEW r \in Requests, Metrics(r)
      PROVE  TypeOK'
  BY <1>10, AppleAssumption DEF IInv, TypeOK, TableInv, KeysOwn, PinInv, Live, Zadacha,
     Post, Nabory, Ends, Metrics, taskVars, pinVars, tables, counters
<1>11. ASSUME NEW r \in Requests, Complete(r)
      PROVE  TypeOK'
  <2>1. Zadacha(r) = r /\ [request |-> r, kind |-> "ended"] \in Event
    BY <1>11 DEF IInv, KeysOwn, Complete, Event
  <2>2. Zadacha(r) # None
    BY <2>1, AppleAssumption
  <2>3. queue' \in Seq(Event)
    BY <1>11, <2>1, <2>2, PostFacts DEF IInv, Complete, Post
  <2>4. task' \in [Requests -> {"none", "refused", "going", "gone"} \cup Ends]
    BY <1>11 DEF IInv, TypeOK, Complete
  <2>5. protokol' \in [Addresses -> Requests \cup {None}] /\ zadachi' \in [Addresses -> Requests \cup {None}]
    BY <1>11 DEF IInv, TypeOK, Complete
  <2>6. completed' \in Nat /\ failed' \in Nat /\ activeTasks' \subseteq Requests
    BY <1>11, <2>2 DEF IInv, TypeOK, Complete
  <2>. QED
    BY <1>11, <2>3, <2>4, <2>5, <2>6 DEF IInv, TypeOK, Complete, pinVars
<1>12. ASSUME NEW s \in Nabory, CloseConnection(s)
      PROVE  TypeOK'
  BY <1>12, AppleAssumption DEF IInv, TypeOK, TableInv, KeysOwn, PinInv, Live, Zadacha,
     Post, Nabory, Ends, CloseConnection, taskVars, pinVars, tables, counters
<1>13. CASE UNCHANGED vars
  BY <1>13 DEF TypeOK, IInv, vars, taskVars, pinVars, tables, counters
<1>. QED
  BY <1>1, <1>2, <1>3, <1>4, <1>5, <1>6, <1>7, <1>8, <1>9, <1>10, <1>11, <1>12, <1>13
     DEF Next, MainThread, Delegate

\* Every action keeps TableInv.
LEMMA TableStep ==
  ASSUME IInv, [Next]_vars
  PROVE  TableInv'
<1>1. ASSUME NEW r \in Requests, RefuseUrl(r)
      PROVE  TableInv'
  BY <1>1, AppleAssumption DEF IInv, TypeOK, TableInv, KeysOwn, Live, Zadacha, Ends,
     RefuseUrl, taskVars, pinVars, tables, counters
<1>2. ASSUME NEW r \in Requests, Request(r)
      PROVE  TableInv'
  <2>1. PICK a \in Addresses : address' = [address EXCEPT ![r] = a]
    BY <1>2 DEF Request, FreeAddresses
  <2>2. task' = [task EXCEPT ![r] = "going"] /\ activeTasks' = activeTasks \cup {r}
    BY <1>2 DEF Request
  <2>. QED
    BY <2>1, <2>2 DEF IInv, TypeOK, TableInv, Live
<1>3. ASSUME NEW r \in Requests, Cancel(r)
      PROVE  TableInv'
  BY <1>3, AppleAssumption DEF IInv, TypeOK, TableInv, KeysOwn, Live, Zadacha, Ends,
     Cancel, taskVars, pinVars, tables, counters
<1>4. CASE SetPins
  BY <1>4, AppleAssumption DEF IInv, TypeOK, TableInv, KeysOwn, Live, Zadacha, Ends,
     SetPins, taskVars, pinVars, tables, counters
<1>5. CASE RunBlock
  BY <1>5, AppleAssumption DEF IInv, TypeOK, TableInv, KeysOwn, Live, Zadacha, Ends,
     RunBlock, taskVars, pinVars, tables, counters
<1>6. ASSUME NEW r \in Requests, Challenge(r)
      PROVE  TableInv'
  BY <1>6, AppleAssumption DEF IInv, TypeOK, TableInv, KeysOwn, Live, Zadacha, Ends,
     Challenge, taskVars, pinVars, tables, counters
<1>7. ASSUME NEW r \in Requests, ReuseConnection(r)
      PROVE  TableInv'
  BY <1>7, AppleAssumption DEF IInv, TypeOK, TableInv, KeysOwn, Live, Zadacha, Ends,
     ReuseConnection, taskVars, pinVars, tables, counters
<1>8. ASSUME NEW r \in Requests, Progress(r)
      PROVE  TableInv'
  BY <1>8, AppleAssumption DEF IInv, TypeOK, TableInv, KeysOwn, Live, Zadacha, Ends,
     Progress, taskVars, pinVars, tables, counters
<1>9. ASSUME NEW r \in Requests, EndTask(r)
      PROVE  TableInv'
  BY <1>9, AppleAssumption DEF IInv, TypeOK, TableInv, KeysOwn, Live, Zadacha, Ends,
     EndTask, taskVars, pinVars, tables, counters
<1>10. ASSUME NEW r \in Requests, Metrics(r)
      PROVE  TableInv'
  BY <1>10, AppleAssumption DEF IInv, TypeOK, TableInv, KeysOwn, Live, Zadacha, Ends,
     Metrics, taskVars, pinVars, tables, counters
<1>11. ASSUME NEW r \in Requests, Complete(r)
      PROVE  TableInv'
  BY <1>11, AppleAssumption DEF IInv, TypeOK, TableInv, KeysOwn, Live, Zadacha, Ends,
     Complete, taskVars, pinVars, tables, counters
<1>12. ASSUME NEW s \in Nabory, CloseConnection(s)
      PROVE  TableInv'
  BY <1>12, AppleAssumption DEF IInv, TypeOK, TableInv, KeysOwn, Live, Zadacha, Ends,
     CloseConnection, taskVars, pinVars, tables, counters
<1>13. CASE UNCHANGED vars
  BY <1>13 DEF IInv, TableInv, Live, vars, taskVars, pinVars, tables, counters
<1>. QED
  BY <1>1, <1>2, <1>3, <1>4, <1>5, <1>6, <1>7, <1>8, <1>9, <1>10, <1>11, <1>12, <1>13
     DEF Next, MainThread, Delegate

\* Every action keeps KeysOwn: a new task gets an address under which nothing is stored.
LEMMA KeysStep ==
  ASSUME IInv, [Next]_vars
  PROVE  KeysOwn'
<1>1. ASSUME NEW r \in Requests, RefuseUrl(r)
      PROVE  KeysOwn'
  BY <1>1, AppleAssumption DEF IInv, TypeOK, TableInv, KeysOwn, Live, Zadacha, Ends,
     FreeAddresses, Retained, RefuseUrl, taskVars, pinVars, tables, counters
<1>2. ASSUME NEW r \in Requests, Request(r)
      PROVE  KeysOwn'
  BY <1>2, AppleAssumption DEF IInv, TypeOK, TableInv, KeysOwn, Live, Zadacha, Ends,
     FreeAddresses, Retained, Request, taskVars, pinVars, tables, counters
<1>3. ASSUME NEW r \in Requests, Cancel(r)
      PROVE  KeysOwn'
  BY <1>3, AppleAssumption DEF IInv, TypeOK, TableInv, KeysOwn, Live, Zadacha, Ends,
     FreeAddresses, Retained, Cancel, taskVars, pinVars, tables, counters
<1>4. CASE SetPins
  BY <1>4, AppleAssumption DEF IInv, TypeOK, TableInv, KeysOwn, Live, Zadacha, Ends,
     FreeAddresses, Retained, SetPins, taskVars, pinVars, tables, counters
<1>5. CASE RunBlock
  BY <1>5, AppleAssumption DEF IInv, TypeOK, TableInv, KeysOwn, Live, Zadacha, Ends,
     FreeAddresses, Retained, RunBlock, taskVars, pinVars, tables, counters
<1>6. ASSUME NEW r \in Requests, Challenge(r)
      PROVE  KeysOwn'
  BY <1>6, AppleAssumption DEF IInv, TypeOK, TableInv, KeysOwn, Live, Zadacha, Ends,
     FreeAddresses, Retained, Challenge, taskVars, pinVars, tables, counters
<1>7. ASSUME NEW r \in Requests, ReuseConnection(r)
      PROVE  KeysOwn'
  BY <1>7, AppleAssumption DEF IInv, TypeOK, TableInv, KeysOwn, Live, Zadacha, Ends,
     FreeAddresses, Retained, ReuseConnection, taskVars, pinVars, tables, counters
<1>8. ASSUME NEW r \in Requests, Progress(r)
      PROVE  KeysOwn'
  BY <1>8, AppleAssumption DEF IInv, TypeOK, TableInv, KeysOwn, Live, Zadacha, Ends,
     FreeAddresses, Retained, Progress, taskVars, pinVars, tables, counters
<1>9. ASSUME NEW r \in Requests, EndTask(r)
      PROVE  KeysOwn'
  BY <1>9, AppleAssumption DEF IInv, TypeOK, TableInv, KeysOwn, Live, Zadacha, Ends,
     FreeAddresses, Retained, EndTask, taskVars, pinVars, tables, counters
<1>10. ASSUME NEW r \in Requests, Metrics(r)
      PROVE  KeysOwn'
  BY <1>10, AppleAssumption DEF IInv, TypeOK, TableInv, KeysOwn, Live, Zadacha, Ends,
     FreeAddresses, Retained, Metrics, taskVars, pinVars, tables, counters
<1>11. ASSUME NEW r \in Requests, Complete(r)
      PROVE  KeysOwn'
  BY <1>11, AppleAssumption DEF IInv, TypeOK, TableInv, KeysOwn, Live, Zadacha, Ends,
     FreeAddresses, Retained, Complete, taskVars, pinVars, tables, counters
<1>12. ASSUME NEW s \in Nabory, CloseConnection(s)
      PROVE  KeysOwn'
  BY <1>12, AppleAssumption DEF IInv, TypeOK, TableInv, KeysOwn, Live, Zadacha, Ends,
     FreeAddresses, Retained, CloseConnection, taskVars, pinVars, tables, counters
<1>13. CASE UNCHANGED vars
  BY <1>13 DEF IInv, KeysOwn, Zadacha, vars, taskVars, pinVars, tables, counters
<1>. QED
  BY <1>1, <1>2, <1>3, <1>4, <1>5, <1>6, <1>7, <1>8, <1>9, <1>10, <1>11, <1>12, <1>13
     DEF Next, MainThread, Delegate

\* Every action keeps PinInv: only new connections are checked, with the set of now.
LEMMA PinStep ==
  ASSUME IInv, [Next]_vars
  PROVE  PinInv'
<1>1. ASSUME NEW r \in Requests, RefuseUrl(r)
      PROVE  PinInv'
  BY <1>1, AppleAssumption DEF IInv, TypeOK, PinInv, Nabory, Ends, RefuseUrl, taskVars,
     pinVars, tables, counters
<1>2. ASSUME NEW r \in Requests, Request(r)
      PROVE  PinInv'
  BY <1>2, AppleAssumption DEF IInv, TypeOK, PinInv, Nabory, Ends, Request, taskVars,
     pinVars, tables, counters
<1>3. ASSUME NEW r \in Requests, Cancel(r)
      PROVE  PinInv'
  BY <1>3, AppleAssumption DEF IInv, TypeOK, PinInv, Nabory, Ends, Cancel, taskVars,
     pinVars, tables, counters
<1>4. CASE SetPins
  BY <1>4, AppleAssumption DEF IInv, TypeOK, PinInv, Nabory, Ends, SetPins, taskVars,
     pinVars, tables, counters
<1>5. CASE RunBlock
  BY <1>5, AppleAssumption DEF IInv, TypeOK, PinInv, Nabory, Ends, RunBlock, taskVars,
     pinVars, tables, counters
<1>6. ASSUME NEW r \in Requests, Challenge(r)
      PROVE  PinInv'
  BY <1>6, AppleAssumption DEF IInv, TypeOK, PinInv, Nabory, Ends, Challenge, taskVars,
     pinVars, tables, counters
<1>7. ASSUME NEW r \in Requests, ReuseConnection(r)
      PROVE  PinInv'
  BY <1>7, AppleAssumption DEF IInv, TypeOK, PinInv, Nabory, Ends, ReuseConnection,
     taskVars, pinVars, tables, counters
<1>8. ASSUME NEW r \in Requests, Progress(r)
      PROVE  PinInv'
  BY <1>8, AppleAssumption DEF IInv, TypeOK, PinInv, Nabory, Ends, Progress, taskVars,
     pinVars, tables, counters
<1>9. ASSUME NEW r \in Requests, EndTask(r)
      PROVE  PinInv'
  BY <1>9, AppleAssumption DEF IInv, TypeOK, PinInv, Nabory, Ends, EndTask, taskVars,
     pinVars, tables, counters
<1>10. ASSUME NEW r \in Requests, Metrics(r)
      PROVE  PinInv'
  BY <1>10, AppleAssumption DEF IInv, TypeOK, PinInv, Nabory, Ends, Metrics, taskVars,
     pinVars, tables, counters
<1>11. ASSUME NEW r \in Requests, Complete(r)
      PROVE  PinInv'
  BY <1>11, AppleAssumption DEF IInv, TypeOK, PinInv, Nabory, Ends, Complete, taskVars,
     pinVars, tables, counters
<1>12. ASSUME NEW s \in Nabory, CloseConnection(s)
      PROVE  PinInv'
  BY <1>12, AppleAssumption DEF IInv, TypeOK, PinInv, Nabory, Ends, CloseConnection,
     taskVars, pinVars, tables, counters
<1>13. CASE UNCHANGED vars
  BY <1>13 DEF IInv, PinInv, vars, taskVars, pinVars, tables, counters
<1>. QED
  BY <1>1, <1>2, <1>3, <1>4, <1>5, <1>6, <1>7, <1>8, <1>9, <1>10, <1>11, <1>12, <1>13
     DEF Next, MainThread, Delegate

\* Every action keeps QueueInv: Complete posts the end of a task that was live, and
\* RunBlock takes it off the queue.
LEMMA QueueStep ==
  ASSUME IInv, [Next]_vars
  PROVE  QueueInv'
<1>1. ASSUME NEW r \in Requests, RefuseUrl(r)
      PROVE  QueueInv'
  <2>1. queue' = queue /\ heard' = heard
    BY <1>1 DEF RefuseUrl, taskVars, pinVars, tables, counters
  <2>2. \A u \in Requests : task[u] = "gone" => task'[u] = "gone"
    BY <1>1 DEF IInv, TypeOK, Ends, RefuseUrl, taskVars, pinVars, tables, counters
  <2>3. \A i \in 1 .. Len(queue) : queue[i].request \in Requests
    BY QueueFacts DEF IInv
  <2>. QED
    BY <2>1, <2>2, <2>3 DEF IInv, TypeOK, QueueInv, EndedAt
<1>2. ASSUME NEW r \in Requests, Request(r)
      PROVE  QueueInv'
  <2>1. queue' = queue /\ heard' = heard
    BY <1>2 DEF Request, taskVars, pinVars, tables, counters
  <2>2. \A u \in Requests : task[u] = "gone" => task'[u] = "gone"
    BY <1>2 DEF IInv, TypeOK, Ends, Request, taskVars, pinVars, tables, counters
  <2>3. \A i \in 1 .. Len(queue) : queue[i].request \in Requests
    BY QueueFacts DEF IInv
  <2>. QED
    BY <2>1, <2>2, <2>3 DEF IInv, TypeOK, QueueInv, EndedAt
<1>3. ASSUME NEW r \in Requests, Cancel(r)
      PROVE  QueueInv'
  <2>1. queue' = queue /\ heard' = heard
    BY <1>3 DEF Cancel, taskVars, pinVars, tables, counters
  <2>2. \A u \in Requests : task[u] = "gone" => task'[u] = "gone"
    BY <1>3 DEF IInv, TypeOK, Ends, Cancel, taskVars, pinVars, tables, counters
  <2>3. \A i \in 1 .. Len(queue) : queue[i].request \in Requests
    BY QueueFacts DEF IInv
  <2>. QED
    BY <2>1, <2>2, <2>3 DEF IInv, TypeOK, QueueInv, EndedAt
<1>4. CASE SetPins
  <2>1. queue' = queue /\ heard' = heard
    BY <1>4 DEF SetPins, taskVars, pinVars, tables, counters
  <2>2. \A u \in Requests : task[u] = "gone" => task'[u] = "gone"
    BY <1>4 DEF IInv, TypeOK, Ends, SetPins, taskVars, pinVars, tables, counters
  <2>3. \A i \in 1 .. Len(queue) : queue[i].request \in Requests
    BY QueueFacts DEF IInv
  <2>. QED
    BY <2>1, <2>2, <2>3 DEF IInv, TypeOK, QueueInv, EndedAt
<1>5. CASE RunBlock
  <2>1. Len(queue) \in Nat \ {0} /\ Len(queue') = Len(queue) - 1 /\ Head(queue) = queue[1]
        /\ \A i \in 1 .. Len(queue') : queue'[i] = queue[i + 1] /\ i + 1 \in 1 .. Len(queue)
    BY <1>5, QueueFacts DEF IInv, RunBlock
  <2>2. \A i \in 1 .. Len(queue) : queue[i].request \in Requests
    BY QueueFacts DEF IInv
  <2>3. task' = task
    BY <1>5 DEF RunBlock, taskVars
  <2>4. \A u \in Requests : heard'[u] # heard[u] => EndedAt(1) /\ u = queue[1].request
    BY <1>5, <2>1, <2>2 DEF IInv, TypeOK, RunBlock, EndedAt
  <2>5. \A i \in 1 .. Len(queue') : EndedAt(i)' =>
          /\ EndedAt(i + 1) /\ queue'[i].request = queue[i + 1].request
          /\ heard'[queue'[i].request] = heard[queue[i + 1].request]
    BY <2>1, <2>2, <2>4 DEF IInv, QueueInv, EndedAt
  <2>6. \A i \in 1 .. Len(queue') : EndedAt(i)' =>
          task'[queue'[i].request] = "gone" /\ heard'[queue'[i].request] = 0
    BY <2>1, <2>3, <2>5 DEF IInv, QueueInv
  <2>7. \A i, j \in 1 .. Len(queue') :
          EndedAt(i)' /\ EndedAt(j)' /\ queue'[i].request = queue'[j].request => i = j
    BY <2>1, <2>5 DEF IInv, QueueInv
  <2>8. \A u \in Requests : heard'[u] > 0 => task'[u] = "gone"
    BY <2>1, <2>2, <2>3, <2>4 DEF IInv, TypeOK, QueueInv
  <2>. QED
    BY <2>6, <2>7, <2>8 DEF QueueInv
<1>6. ASSUME NEW r \in Requests, Challenge(r)
      PROVE  QueueInv'
  <2>1. queue' = queue /\ heard' = heard
    BY <1>6 DEF Challenge, taskVars, pinVars, tables, counters
  <2>2. \A u \in Requests : task[u] = "gone" => task'[u] = "gone"
    BY <1>6 DEF IInv, TypeOK, Ends, Challenge, taskVars, pinVars, tables, counters
  <2>3. \A i \in 1 .. Len(queue) : queue[i].request \in Requests
    BY QueueFacts DEF IInv
  <2>. QED
    BY <2>1, <2>2, <2>3 DEF IInv, TypeOK, QueueInv, EndedAt
<1>7. ASSUME NEW r \in Requests, ReuseConnection(r)
      PROVE  QueueInv'
  <2>1. queue' = queue /\ heard' = heard
    BY <1>7 DEF ReuseConnection, taskVars, pinVars, tables, counters
  <2>2. \A u \in Requests : task[u] = "gone" => task'[u] = "gone"
    BY <1>7 DEF IInv, TypeOK, Ends, ReuseConnection, taskVars, pinVars, tables, counters
  <2>3. \A i \in 1 .. Len(queue) : queue[i].request \in Requests
    BY QueueFacts DEF IInv
  <2>. QED
    BY <2>1, <2>2, <2>3 DEF IInv, TypeOK, QueueInv, EndedAt
<1>8. ASSUME NEW r \in Requests, Progress(r)
      PROVE  QueueInv'
  <2>1. Zadacha(r) = r
    BY <1>8 DEF IInv, KeysOwn, Progress
  <2>2. queue' = Append(queue, [request |-> r, kind |-> "progress"]) /\ heard' = heard
    BY <1>8, <2>1, AppleAssumption DEF Progress, Post, taskVars, pinVars, tables, counters
  <2>3. Len(queue) \in Nat /\ Len(queue') = Len(queue) + 1
        /\ queue'[Len(queue) + 1] = [request |-> r, kind |-> "progress"]
        /\ \A i \in 1 .. Len(queue) : queue'[i] = queue[i] /\ queue[i].request \in Requests
    BY <2>2, QueueFacts, PostFacts DEF IInv, Event
  <2>4. \A u \in Requests : task[u] = "gone" => task'[u] = "gone"
    BY <1>8 DEF IInv, TypeOK, Progress, taskVars
  <2>5. \A i \in 1 .. Len(queue') : EndedAt(i)' => i \in 1 .. Len(queue) /\ EndedAt(i)
    BY <2>3 DEF EndedAt
  <2>6. \A i \in 1 .. Len(queue) : queue'[i] = queue[i]
    BY <2>3
  <2>. QED
    BY <2>2, <2>3, <2>4, <2>5, <2>6 DEF IInv, QueueInv, EndedAt
<1>9. ASSUME NEW r \in Requests, EndTask(r)
      PROVE  QueueInv'
  <2>1. queue' = queue /\ heard' = heard
    BY <1>9 DEF EndTask, taskVars, pinVars, tables, counters
  <2>2. \A u \in Requests : task[u] = "gone" => task'[u] = "gone"
    BY <1>9 DEF IInv, TypeOK, Ends, EndTask, taskVars, pinVars, tables, counters
  <2>3. \A i \in 1 .. Len(queue) : queue[i].request \in Requests
    BY QueueFacts DEF IInv
  <2>. QED
    BY <2>1, <2>2, <2>3 DEF IInv, TypeOK, QueueInv, EndedAt
<1>10. ASSUME NEW r \in Requests, Metrics(r)
      PROVE  QueueInv'
  <2>1. queue' = queue /\ heard' = heard
    BY <1>10 DEF Metrics, taskVars, pinVars, tables, counters
  <2>2. \A u \in Requests : task[u] = "gone" => task'[u] = "gone"
    BY <1>10 DEF IInv, TypeOK, Ends, Metrics, taskVars, pinVars, tables, counters
  <2>3. \A i \in 1 .. Len(queue) : queue[i].request \in Requests
    BY QueueFacts DEF IInv
  <2>. QED
    BY <2>1, <2>2, <2>3 DEF IInv, TypeOK, QueueInv, EndedAt
<1>11. ASSUME NEW r \in Requests, Complete(r)
      PROVE  QueueInv'
  <2>1. Zadacha(r) = r
    BY <1>11 DEF IInv, KeysOwn, Complete
  <2>2. queue' = Append(queue, [request |-> r, kind |-> "ended"]) /\ heard' = heard
    BY <1>11, <2>1, AppleAssumption DEF Complete, Post, taskVars, pinVars, tables, counters
  <2>3. Len(queue) \in Nat /\ Len(queue') = Len(queue) + 1
        /\ queue'[Len(queue) + 1] = [request |-> r, kind |-> "ended"]
        /\ \A i \in 1 .. Len(queue) : queue'[i] = queue[i] /\ queue[i].request \in Requests
    BY <2>2, QueueFacts, PostFacts DEF IInv, Event
  <2>4. \A u \in Requests : task[u] = "gone" => task'[u] = "gone"
    BY <1>11 DEF IInv, TypeOK, Complete, taskVars
  <2>5. task[r] # "gone" /\ task'[r] = "gone" /\ heard[r] = 0
    BY <1>11 DEF IInv, TypeOK, QueueInv, Ends, Complete
  <2>6. \A i \in 1 .. Len(queue) : EndedAt(i)' = EndedAt(i) /\ (EndedAt(i) => queue[i].request # r)
    BY <2>3, <2>5 DEF IInv, QueueInv, EndedAt
  <2>7. \A i \in 1 .. Len(queue') : i \in 1 .. Len(queue) \/ i = Len(queue) + 1
    BY <2>3
  <2>8. \A i \in 1 .. Len(queue') : EndedAt(i)' =>
          task'[queue'[i].request] = "gone" /\ heard'[queue'[i].request] = 0
    BY <2>2, <2>3, <2>4, <2>5, <2>6, <2>7 DEF IInv, QueueInv
  <2>9. \A i, j \in 1 .. Len(queue') :
          EndedAt(i)' /\ EndedAt(j)' /\ queue'[i].request = queue'[j].request => i = j
    BY <2>3, <2>6, <2>7 DEF IInv, QueueInv
  <2>. QED
    BY <2>2, <2>4, <2>8, <2>9 DEF IInv, TypeOK, QueueInv
<1>12. ASSUME NEW s \in Nabory, CloseConnection(s)
      PROVE  QueueInv'
  <2>1. queue' = queue /\ heard' = heard
    BY <1>12 DEF CloseConnection, taskVars, pinVars, tables, counters
  <2>2. \A u \in Requests : task[u] = "gone" => task'[u] = "gone"
    BY <1>12 DEF IInv, TypeOK, Ends, CloseConnection, taskVars, pinVars, tables, counters
  <2>3. \A i \in 1 .. Len(queue) : queue[i].request \in Requests
    BY QueueFacts DEF IInv
  <2>. QED
    BY <2>1, <2>2, <2>3 DEF IInv, TypeOK, QueueInv, EndedAt
<1>13. CASE UNCHANGED vars
  BY <1>13 DEF IInv, QueueInv, EndedAt, vars, taskVars, pinVars, tables, counters
<1>. QED
  BY <1>1, <1>2, <1>3, <1>4, <1>5, <1>6, <1>7, <1>8, <1>9, <1>10, <1>11, <1>12, <1>13
     DEF Next, MainThread, Delegate

\* The initial state.
LEMMA IInvInit == Init => IInv
BY AppleAssumption DEF Init, IInv, TypeOK, TableInv, KeysOwn, PinInv, QueueInv, EndedAt,
   Live, Zadacha,
   Nabory, Ends

\* The parts together.
LEMMA IInvStep == IInv /\ [Next]_vars => IInv'
<1>. SUFFICES ASSUME IInv, [Next]_vars PROVE IInv'
  OBVIOUS
<1>. QED
  BY TypeStep, TableStep, KeysStep, PinStep, QueueStep DEF IInv

\* Types, tables, keys, pins and queue, in every reachable state.
THEOREM InductiveInvariant == Spec => []IInv
BY IInvInit, IInvStep, PTL DEF Spec

\* The types of the variables: of heard, that a listener is told at most once.
THEOREM TypeCorrect == Spec => []TypeOK
<1>1. IInv => TypeOK
  BY DEF IInv
<1>. QED
  BY <1>1, InductiveInvariant, PTL

\* A callback finds its own state under the address of its task, however early
\* cancel has let the task go (743).
THEOREM AddressesAreKeys == Spec => []KeysOwn
<1>1. IInv => KeysOwn
  BY DEF IInv
<1>. QED
  BY <1>1, InductiveInvariant, PTL

\* No request travels over a connection checked with pins older than itself
\* (304-307), however often the pins change.
THEOREM Checked == Spec => []CheckedWithItsPins
<1>1. IInv => CheckedWithItsPins
  BY DEF IInv, PinInv, CheckedWithItsPins
<1>. QED
  BY <1>1, InductiveInvariant, PTL

\* A step opens a request, tells a listener, or is nothing to OneReport.
LEMMA ReportStep ==
  ASSUME IInv, [Next]_vars
  PROVE  [Report!Next]_Report!vars
<1>1. ASSUME NEW r \in Requests, RefuseUrl(r)
      PROVE  [Report!Next]_Report!vars
  <2>1. heard' = heard /\ \A u \in Requests : task'[u] \in {"none", "refused"} <=> task[u] \in {"none", "refused"}
    BY <1>1 DEF IInv, TypeOK, Ends, RefuseUrl, taskVars, pinVars, tables, counters
  <2>. QED
    BY <2>1 DEF Fate, Report!vars
<1>2. ASSUME NEW r \in Requests, Request(r)
      PROVE  [Report!Next]_Report!vars
  <2>1. heard' = heard /\ heard[r] = 0 /\ task[r] = "none" /\ task'[r] = "going"
        /\ \A u \in Requests \ {r} : task'[u] = task[u]
    BY <1>2 DEF IInv, TypeOK, QueueInv, Request
  <2>2. Fate(r) = "idle" /\ Fate(r)' = "open" /\ \A u \in Requests \ {r} : Fate(u)' = Fate(u)
    BY <2>1 DEF Fate
  <2>3. Report!Open(r)
    BY <2>1, <2>2 DEF Report!Open
  <2>. QED
    BY <2>3 DEF Report!Next
<1>3. ASSUME NEW r \in Requests, Cancel(r)
      PROVE  [Report!Next]_Report!vars
  <2>1. heard' = heard /\ \A u \in Requests : task'[u] \in {"none", "refused"} <=> task[u] \in {"none", "refused"}
    BY <1>3 DEF IInv, TypeOK, Ends, Cancel, taskVars, pinVars, tables, counters
  <2>. QED
    BY <2>1 DEF Fate, Report!vars
<1>4. CASE SetPins
  <2>1. heard' = heard /\ \A u \in Requests : task'[u] \in {"none", "refused"} <=> task[u] \in {"none", "refused"}
    BY <1>4 DEF IInv, TypeOK, Ends, SetPins, taskVars, pinVars, tables, counters
  <2>. QED
    BY <2>1 DEF Fate, Report!vars
<1>5. CASE RunBlock
  <2>1. /\ queue[1].request \in Requests /\ queue[1].kind \in {"progress", "ended"}
        /\ Head(queue) = queue[1] /\ 1 \in 1 .. Len(queue)
    BY <1>5, QueueFacts DEF IInv, RunBlock
  <2>2. task' = task
    BY <1>5 DEF RunBlock, taskVars
  <2>3. heard \in [Requests -> 0 .. 1]
    BY DEF IInv, TypeOK
  <2>4. CASE queue[1].kind = "progress"
    <3>1. heard' = [heard EXCEPT ![queue[1].request] = @ + 0]
      BY <1>5, <2>1, <2>4 DEF RunBlock
    <3>2. heard[queue[1].request] + 0 = heard[queue[1].request]
      BY <2>1, <2>3
    <3>3. heard' = heard
      BY <2>3, <3>1, <3>2
    <3>. QED
      BY <2>2, <3>3 DEF Fate, Report!vars
  <2>5. CASE queue[1].kind = "ended"
    <3>1. PICK u \in Requests : u = queue[1].request
      BY <2>1
    <3>2. heard[u] = 0 /\ task[u] = "gone"
      BY <2>1, <2>5, <3>1 DEF IInv, QueueInv, EndedAt
    <3>3. heard' = [heard EXCEPT ![u] = @ + 1]
      BY <1>5, <2>1, <2>5, <3>1 DEF RunBlock
    <3>4. heard'[u] = 1 /\ \A v \in Requests \ {u} : heard'[v] = heard[v]
      BY <2>3, <3>2, <3>3
    <3>5. Fate(u) = "open" /\ Fate(u)' = "told" /\ \A v \in Requests \ {u} : Fate(v)' = Fate(v)
      BY <2>2, <3>2, <3>4 DEF Fate
    <3>6. Report!Tell(u)
      BY <3>3, <3>5 DEF Report!Tell
    <3>. QED
      BY <3>6 DEF Report!Next
  <2>. QED
    BY <2>1, <2>4, <2>5
<1>6. ASSUME NEW r \in Requests, Challenge(r)
      PROVE  [Report!Next]_Report!vars
  <2>1. heard' = heard /\ \A u \in Requests : task'[u] \in {"none", "refused"} <=> task[u] \in {"none", "refused"}
    BY <1>6 DEF IInv, TypeOK, Ends, Challenge, taskVars, pinVars, tables, counters
  <2>. QED
    BY <2>1 DEF Fate, Report!vars
<1>7. ASSUME NEW r \in Requests, ReuseConnection(r)
      PROVE  [Report!Next]_Report!vars
  <2>1. heard' = heard /\ \A u \in Requests : task'[u] \in {"none", "refused"} <=> task[u] \in {"none", "refused"}
    BY <1>7 DEF IInv, TypeOK, Ends, ReuseConnection, taskVars, pinVars, tables, counters
  <2>. QED
    BY <2>1 DEF Fate, Report!vars
<1>8. ASSUME NEW r \in Requests, Progress(r)
      PROVE  [Report!Next]_Report!vars
  <2>1. heard' = heard /\ \A u \in Requests : task'[u] \in {"none", "refused"} <=> task[u] \in {"none", "refused"}
    BY <1>8 DEF IInv, TypeOK, Ends, Progress, taskVars, pinVars, tables, counters
  <2>. QED
    BY <2>1 DEF Fate, Report!vars
<1>9. ASSUME NEW r \in Requests, EndTask(r)
      PROVE  [Report!Next]_Report!vars
  <2>1. heard' = heard /\ \A u \in Requests : task'[u] \in {"none", "refused"} <=> task[u] \in {"none", "refused"}
    BY <1>9 DEF IInv, TypeOK, Ends, EndTask, taskVars, pinVars, tables, counters
  <2>. QED
    BY <2>1 DEF Fate, Report!vars
<1>10. ASSUME NEW r \in Requests, Metrics(r)
      PROVE  [Report!Next]_Report!vars
  <2>1. heard' = heard /\ \A u \in Requests : task'[u] \in {"none", "refused"} <=> task[u] \in {"none", "refused"}
    BY <1>10 DEF IInv, TypeOK, Ends, Metrics, taskVars, pinVars, tables, counters
  <2>. QED
    BY <2>1 DEF Fate, Report!vars
<1>11. ASSUME NEW r \in Requests, Complete(r)
      PROVE  [Report!Next]_Report!vars
  <2>1. heard' = heard /\ \A u \in Requests : task'[u] \in {"none", "refused"} <=> task[u] \in {"none", "refused"}
    BY <1>11 DEF IInv, TypeOK, Ends, Complete, taskVars, pinVars, tables, counters
  <2>. QED
    BY <2>1 DEF Fate, Report!vars
<1>12. ASSUME NEW s \in Nabory, CloseConnection(s)
      PROVE  [Report!Next]_Report!vars
  <2>1. heard' = heard /\ \A u \in Requests : task'[u] \in {"none", "refused"} <=> task[u] \in {"none", "refused"}
    BY <1>12 DEF IInv, TypeOK, Ends, CloseConnection, taskVars, pinVars, tables, counters
  <2>. QED
    BY <2>1 DEF Fate, Report!vars
<1>13. CASE UNCHANGED vars
  BY <1>13 DEF IInv, Fate, Report!vars, vars, taskVars, pinVars, tables, counters
<1>. QED
  BY <1>1, <1>2, <1>3, <1>4, <1>5, <1>6, <1>7, <1>8, <1>9, <1>10, <1>11, <1>12, <1>13
     DEF Next, MainThread, Delegate

\* The Apple layer implements OneReport: a listener is told the end once, and
\* never one of a request that was not accepted.
THEOREM Refinement == Spec => RefinesOneReport
<1>1. Init => Report!Init
  BY DEF Init, Report!Init, Fate
<1>. QED
  BY <1>1, ReportStep, InductiveInvariant, PTL DEF Spec, RefinesOneReport, Report!Spec
=============================================================================
