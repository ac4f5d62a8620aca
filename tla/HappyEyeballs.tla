--------------------------- MODULE HappyEyeballs ---------------------------
(***************************************************************************)
(* The race of one request in shared/SimulatorPluginLibrary.cpp (Windows). *)
(*                                                                         *)
(* initiateRequest starts an orchestrator thread; it starts the QUIC       *)
(* thread (Http3ThreadFunc) at once and a TCP thread (Http1ThreadFunc)     *)
(* when QUIC is silent for the connection window.  The QUIC thread itself  *)
(* may start a second TCP thread.  MsQuic runs the connection's callbacks  *)
(* on a thread of its own.  All of them share one RaceContext and touch it *)
(* with plain volatile reads and compare-and-swap, without a lock.         *)
(*                                                                         *)
(* A step is one access of shared memory.  Neighbouring accesses are one   *)
(* step only where no other thread can tell the difference; each such      *)
(* merge is noted where it is made.                                        *)
(***************************************************************************)
EXTENDS Naturals, Sequences

CONSTANTS
  Modes,   \* how Http3ThreadFunc may find its surroundings, see below
  Faults   \* the CreateThread calls that may fail: "http3", "http1"

ASSUME ModesAssumption == Modes \subseteq {"cold", "warm", "pinned", "unsupported"}
ASSUME FaultsAssumption == Faults \subseteq {"http3", "http1"}

VARIABLES
  pc,              \* control point of every thread
  errKind,         \* what a thread's RaceFinish(RACE_FAILURE) will report
  mode,            \* what Http3ThreadFunc found; "unknown" before it looked
  winnerAssigned,  \* RaceContext: 0 none, 1 QUIC, 2 TCP, 3 error
  quicFinished,    \* RaceContext: 0 in flight, 1 success, 2 failed
  quicSuccess,     \* RaceContext
  quicProgress,    \* RaceContext
  otpravitel,      \* RaceContext: 0 nobody, 1 QUIC, 2 TCP, 3 closed unsent
  refCount,        \* RaceContext: freed when it reaches 0
  quicDoneEvent,   \* RaceContext: manual-reset event, never reset
  state,           \* Http3State of the request
  conn,            \* Http3Conn the request waits on
  clock,           \* 0 in time, 1 timeout_ms over, 2 timeout_ms + 250 over
  sent,            \* history: threads that put the request on the wire
  results,         \* history: the AddResult calls for this request, in order
  stale            \* history: a callback touched a freed Http3State

raceVars == <<winnerAssigned, quicFinished, quicSuccess, quicProgress,
              otpravitel, refCount, quicDoneEvent>>
vars == <<pc, errKind, mode, raceVars, state, conn, clock, sent, results, stale>>

Tcp == {"tcpA", "tcpB"}          \* started by the orchestrator, by the QUIC thread
Quic == {"http3", "callback"}    \* the QUIC thread, MsQuic's worker thread
Threads == {"orchestrator"} \cup Quic \cup Tcp

\* RaceFinish(RACE_FAILURE) as a thread passes through it.
FailurePc == {"markFailure", "casFailure", "addError"}

OrchestratorPc == {"start", "window", "spawn", "release", "done"}
Http3Pc ==
  {"idle", "begin", "claim", "open", "send", "wait", "outcome", "sender", "close",
   "skip", "skipWait", "markSuccess", "casSuccess", "addSuccess", "closeStream",
   "detach", "free", "spawn", "signal", "release", "done"} \cup FailurePc
CallbackPc == {"idle", "progress", "claim", "open", "send", "shutdown", "complete"}
Http1Pc ==
  {"idle", "check", "prepare", "recheck", "claim", "send", "judge", "casTcp",
   "addTcp", "release", "done"} \cup FailurePc

PcOK ==
  /\ pc \in [Threads -> OrchestratorPc \cup Http3Pc \cup CallbackPc \cup Http1Pc]
  /\ pc["orchestrator"] \in OrchestratorPc
  /\ pc["http3"] \in Http3Pc /\ pc["callback"] \in CallbackPc
  /\ \A t \in Tcp : pc[t] \in Http1Pc

StateType ==
  [memory : {"none", "live", "freed"}, success : BOOLEAN, ustupil : BOOLEAN,
   done : BOOLEAN, stream : BOOLEAN]

ConnType ==
  [link : {"none", "handshake", "up", "down", "gone"}, waiter : BOOLEAN,
   pinOtkaz : BOOLEAN]

TypeOK ==
  /\ PcOK
  /\ errKind \in [Threads -> {"error", "pinfail"}]
  /\ mode \in Modes \cup {"unknown"}
  /\ winnerAssigned \in 0 .. 3 /\ otpravitel \in 0 .. 3
  /\ quicFinished \in 0 .. 2 /\ quicSuccess \in 0 .. 1 /\ quicProgress \in 0 .. 1
  /\ refCount \in 0 .. 4 /\ quicDoneEvent \in BOOLEAN
  /\ state \in StateType /\ conn \in ConnType
  /\ clock \in 0 .. 2
  /\ sent \subseteq Quic \cup Tcp
  /\ results \in Seq({"quic", "tcp", "error", "pinfail"})
  /\ stale \in BOOLEAN

\* initiateRequest: a zeroed RaceContext with one reference for the
\* orchestrator and one for the QUIC thread.
Init ==
  /\ pc = [t \in Threads |-> IF t = "orchestrator" THEN "start" ELSE "idle"]
  /\ errKind = [t \in Threads |-> "error"]
  /\ mode = "unknown"
  /\ winnerAssigned = 0 /\ otpravitel = 0
  /\ quicFinished = 0 /\ quicSuccess = 0 /\ quicProgress = 0
  /\ refCount = 2 /\ quicDoneEvent = FALSE
  /\ state = [memory |-> "none", success |-> FALSE, ustupil |-> FALSE,
              done |-> FALSE, stream |-> FALSE]
  /\ conn = [link |-> "none", waiter |-> FALSE, pinOtkaz |-> FALSE]
  /\ clock = 0 /\ sent = {} /\ results = <<>> /\ stale = FALSE

Goto(t, label) == pc' = [pc EXCEPT ![t] = label]

-----------------------------------------------------------------------------
(* Shared by the threads: ReleaseRaceContext and RaceFinish.               *)

\* The last reference frees the context; the thread does not touch it again.
ReleaseRaceContext(t) ==
  /\ pc[t] = "release"
  /\ refCount' = refCount - 1
  /\ Goto(t, "done")
  /\ UNCHANGED <<errKind, mode, winnerAssigned, quicFinished, quicSuccess,
                 quicProgress, otpravitel, quicDoneEvent, state, conn, clock,
                 sent, results, stale>>

\* Where a thread goes on after RaceFinish.
AfterFinish(t) ==
  IF t # "http3" THEN "release"
  ELSE IF mode = "unsupported" THEN "spawn"
  ELSE IF mode = "pinned" THEN "signal"
  ELSE "closeStream"

\* The two flags and the event: no thread reads one of them between the writes
\* and decides differently.
MarkFailure(t) ==
  /\ pc[t] = "markFailure"
  /\ quicSuccess' = 0 /\ quicFinished' = 2 /\ quicDoneEvent' = TRUE
  /\ Goto(t, "casFailure")
  /\ UNCHANGED <<errKind, mode, winnerAssigned, quicProgress, otpravitel,
                 refCount, state, conn, clock, sent, results, stale>>


\* Mutation: the verdict is written without comparing.
CasFailureUnchecked(t) ==
  /\ pc[t] = "casFailure"
  /\ winnerAssigned' = 3 /\ Goto(t, "addError")
  /\ UNCHANGED <<errKind, mode, quicFinished, quicSuccess, quicProgress,
                 otpravitel, refCount, quicDoneEvent, state, conn, clock,
                 sent, results, stale>>

CasFailure(t) ==
  /\ pc[t] = "casFailure"
  /\ IF winnerAssigned = 0
     THEN winnerAssigned' = 3 /\ Goto(t, "addError")
     ELSE UNCHANGED winnerAssigned /\ Goto(t, AfterFinish(t))
  /\ UNCHANGED <<errKind, mode, quicFinished, quicSuccess, quicProgress,
                 otpravitel, refCount, quicDoneEvent, state, conn, clock,
                 sent, results, stale>>

AddError(t) ==
  /\ pc[t] = "addError"
  /\ results' = Append(results, errKind[t])
  /\ Goto(t, AfterFinish(t))
  /\ UNCHANGED <<errKind, mode, raceVars, state, conn, clock, sent, stale>>

MarkSuccess ==
  /\ pc["http3"] = "markSuccess"
  /\ quicSuccess' = 1 /\ quicFinished' = 1 /\ quicDoneEvent' = TRUE
  /\ Goto("http3", "casSuccess")
  /\ UNCHANGED <<errKind, mode, winnerAssigned, quicProgress, otpravitel,
                 refCount, state, conn, clock, sent, results, stale>>

CasSuccess ==
  /\ pc["http3"] = "casSuccess"
  /\ IF winnerAssigned = 0
     THEN winnerAssigned' = 1 /\ Goto("http3", "addSuccess")
     ELSE UNCHANGED winnerAssigned /\ Goto("http3", "closeStream")
  /\ UNCHANGED <<errKind, mode, quicFinished, quicSuccess, quicProgress,
                 otpravitel, refCount, quicDoneEvent, state, conn, clock,
                 sent, results, stale>>

AddSuccess ==
  /\ pc["http3"] = "addSuccess"
  /\ results' = Append(results, "quic")
  /\ Goto("http3", "closeStream")
  /\ UNCHANGED <<errKind, mode, raceVars, state, conn, clock, sent, stale>>

-----------------------------------------------------------------------------
(* RaceAndRequestThreadFunc: the orchestrator.                             *)

\* A failed CreateThread is not looked at: the QUIC thread's reference stays.
StartHttp3 ==
  /\ pc["orchestrator"] = "start"
  /\ \/ pc' = [pc EXCEPT !["orchestrator"] = "window", !["http3"] = "begin"]
     \/ "http3" \in Faults /\ Goto("orchestrator", "window")
  /\ UNCHANGED <<errKind, mode, raceVars, state, conn, clock, sent, results, stale>>

\* Past the window (it may end at any moment, the event only ends it sooner)
\* the three fields are read one after another.  Each only ever leaves the
\* value the test asks for, so the test is as good as taken at one instant.
WindowOver ==
  /\ pc["orchestrator"] = "window"
  /\ IF quicSuccess = 0 /\ quicProgress = 0 /\ winnerAssigned = 0
     THEN Goto("orchestrator", "spawn")
     ELSE Goto("orchestrator", "release")
  /\ UNCHANGED <<errKind, mode, raceVars, state, conn, clock, sent, results, stale>>

\* The new thread's reference is taken before it exists and given back when
\* CreateThread fails.
StartHttp1 ==
  /\ pc["orchestrator"] = "spawn"
  /\ \/ /\ pc' = [pc EXCEPT !["orchestrator"] = "release", !["tcpA"] = "check"]
        /\ refCount' = refCount + 1
     \/ /\ "http1" \in Faults
        /\ Goto("orchestrator", "release")
        /\ UNCHANGED refCount
  /\ UNCHANGED <<errKind, mode, winnerAssigned, quicFinished, quicSuccess,
                 quicProgress, otpravitel, quicDoneEvent, state, conn, clock,
                 sent, results, stale>>

-----------------------------------------------------------------------------
(* Http3OtpravitZapros: taking the right to send and sending over QUIC.    *)
(* Called by the QUIC thread on a connection from the pool, and by the     *)
(* CONNECTED callback after a handshake.                                   *)

AfterSend(t) == IF t = "http3" THEN "wait" ELSE "idle"

\* The callback keeps the pointer it read before: by now the owner may have
\* freed the structure.  Its old contents are what the callback then sees.
Touch(t) ==
  stale' = IF t = "callback" /\ state.memory = "freed" THEN TRUE ELSE stale

ClaimQuic(t) ==
  /\ pc[t] = "claim"
  /\ IF otpravitel = 0
     THEN otpravitel' = 1 /\ Goto(t, "open") /\ UNCHANGED state
     ELSE /\ state' = [state EXCEPT !.ustupil = TRUE, !.done = TRUE]
          /\ Goto(t, AfterSend(t))
          /\ UNCHANGED otpravitel
  /\ Touch(t)
  /\ UNCHANGED <<errKind, mode, winnerAssigned, quicFinished, quicSuccess,
                 quicProgress, refCount, quicDoneEvent, conn, clock, sent, results>>

OpenStream(t) ==
  /\ pc[t] = "open"
  /\ \/ state' = [state EXCEPT !.stream = TRUE] /\ Goto(t, "send")
     \/ state' = [state EXCEPT !.done = TRUE] /\ Goto(t, AfterSend(t))
  /\ Touch(t)
  /\ UNCHANGED <<errKind, mode, raceVars, conn, clock, sent, results>>

\* A refused StreamSend is only logged.
SendStream(t) ==
  /\ pc[t] = "send"
  /\ sent' \in {sent, sent \cup {t}}
  /\ Goto(t, AfterSend(t))
  /\ Touch(t)
  /\ UNCHANGED <<errKind, mode, raceVars, state, conn, clock, results>>

-----------------------------------------------------------------------------
(* Http3ThreadFunc.                                                        *)

\* https is asked for, msquic is there and a pooled connection to the host is
\* free.  The connection may have died since PoolTake looked at it.
BeginWarm ==
  /\ pc["http3"] = "begin" /\ "warm" \in Modes
  /\ mode' = "warm"
  /\ state' = [state EXCEPT !.memory = "live"]
  /\ \E l \in {"up", "down"} : conn' = [conn EXCEPT !.link = l, !.waiter = TRUE]
  /\ quicProgress' = 1 /\ quicDoneEvent' = TRUE
  /\ Goto("http3", "claim")
  /\ UNCHANGED <<errKind, winnerAssigned, quicFinished, quicSuccess, otpravitel,
                 refCount, clock, sent, results, stale>>

\* No pooled connection: ConnectionOpen and ConnectionStart, either may fail.
BeginCold ==
  /\ pc["http3"] = "begin" /\ "cold" \in Modes
  /\ mode' = "cold"
  /\ state' = [state EXCEPT !.memory = "live"]
  /\ \/ /\ conn' = [conn EXCEPT !.link = "handshake", !.waiter = TRUE]
        /\ Goto("http3", "wait")
     \/ /\ conn' = [conn EXCEPT !.link = "gone", !.waiter = TRUE]
        /\ Goto("http3", "outcome")
  /\ UNCHANGED <<errKind, raceVars, clock, sent, results, stale>>

\* The host is pinned and msquic was loaded without the certificate event:
\* the request is left to TCP.
BeginPinned ==
  /\ pc["http3"] = "begin" /\ "pinned" \in Modes
  /\ mode' = "pinned"
  /\ quicSuccess' = 0 /\ quicProgress' = 1 /\ quicFinished' = 2
  /\ Goto("http3", "spawn")
  /\ UNCHANGED <<errKind, winnerAssigned, otpravitel, refCount, quicDoneEvent,
                 state, conn, clock, sent, results, stale>>

\* The URL is not https, or msquic.dll is missing: the failure is reported
\* first, the TCP thread is started after it.
BeginUnsupported ==
  /\ pc["http3"] = "begin" /\ "unsupported" \in Modes
  /\ mode' = "unsupported"
  /\ Goto("http3", "markFailure")
  /\ UNCHANGED <<errKind, raceVars, state, conn, clock, sent, results, stale>>


\* Mutation: the TCP thread is started without a reference of its own.
HandOffUncounted ==
  /\ pc' = [pc EXCEPT !["http3"] = IF mode = "pinned" THEN "signal" ELSE "release",
                      !["tcpB"] = "check"]
  /\ UNCHANGED refCount

HandOffStarted ==
  /\ pc' = [pc EXCEPT !["http3"] = IF mode = "pinned" THEN "signal" ELSE "release",
                      !["tcpB"] = "check"]
  /\ refCount' = refCount + 1


\* Mutation: the reference of a thread that was not created is not given back.
HandOffKept ==
  /\ "http1" \in Faults
  /\ Goto("http3", IF mode = "pinned" THEN "markFailure" ELSE "release")
  /\ refCount' = refCount + 1

HandOffFailed ==
  /\ "http1" \in Faults
  /\ Goto("http3", IF mode = "pinned" THEN "markFailure" ELSE "release")
  /\ UNCHANGED refCount

HandOff ==
  /\ pc["http3"] = "spawn"
  /\ HandOffStarted \/ HandOffFailed
  /\ UNCHANGED <<errKind, mode, winnerAssigned, quicFinished, quicSuccess,
                 quicProgress, otpravitel, quicDoneEvent, state, conn, clock,
                 sent, results, stale>>


\* Mutation: the early return of the pinned branch forgets its reference.
SignalUnreleased ==
  /\ pc["http3"] = "signal"
  /\ quicDoneEvent' = TRUE
  /\ Goto("http3", "done")
  /\ UNCHANGED <<errKind, mode, winnerAssigned, quicFinished, quicSuccess,
                 quicProgress, otpravitel, refCount, state, conn, clock,
                 sent, results, stale>>

SignalHandOff ==
  /\ pc["http3"] = "signal"
  /\ quicDoneEvent' = TRUE
  /\ Goto("http3", "release")
  /\ UNCHANGED <<errKind, mode, winnerAssigned, quicFinished, quicSuccess,
                 quicProgress, otpravitel, refCount, state, conn, clock,
                 sent, results, stale>>

\* The 50 ms polling loop ends on the request's event, on a decided race, or
\* when timeout_ms has been counted off.
WaitOver ==
  /\ pc["http3"] = "wait"
  /\ state.done \/ winnerAssigned \in {2, 3} \/ clock >= 1
  /\ Goto("http3", "outcome")
  /\ UNCHANGED <<errKind, mode, raceVars, state, conn, clock, sent, results, stale>>

ReadOutcome ==
  /\ pc["http3"] = "outcome"
  /\ Goto("http3", IF state.success THEN "markSuccess" ELSE "sender")
  /\ UNCHANGED <<errKind, mode, raceVars, state, conn, clock, sent, results, stale>>

\* What RaceFinish will report depends on the connection's pin verdict.
FailureKind == IF conn.pinOtkaz THEN "pinfail" ELSE "error"

ReadSender ==
  /\ pc["http3"] = "sender"
  /\ IF otpravitel = 1
     THEN /\ errKind' = [errKind EXCEPT !["http3"] = FailureKind]
          /\ Goto("http3", "markFailure")
     ELSE UNCHANGED errKind /\ Goto("http3", "close")
  /\ UNCHANGED <<mode, raceVars, state, conn, clock, sent, results, stale>>


\* Mutation: the right is closed by a plain write between the test and the use.
CloseRightUnchecked ==
  /\ pc["http3"] = "close"
  /\ otpravitel' = 3
  /\ errKind' = [errKind EXCEPT !["http3"] = FailureKind]
  /\ Goto("http3", "markFailure")
  /\ UNCHANGED <<mode, winnerAssigned, quicFinished, quicSuccess, quicProgress,
                 refCount, quicDoneEvent, state, conn, clock, sent, results, stale>>

\* Mutation: a failed handshake is reported although TCP is sending.
CloseRightReports ==
  /\ pc["http3"] = "close"
  /\ otpravitel' = IF otpravitel = 0 THEN 3 ELSE otpravitel
  /\ errKind' = [errKind EXCEPT !["http3"] = FailureKind]
  /\ Goto("http3", "markFailure")
  /\ UNCHANGED <<mode, winnerAssigned, quicFinished, quicSuccess, quicProgress,
                 refCount, quicDoneEvent, state, conn, clock, sent, results, stale>>

\* Nobody has sent: close the right, so that nobody will, and report.  The
\* right is gone: leave the answer to whoever holds it.
CloseRight ==
  /\ pc["http3"] = "close"
  /\ IF ~state.ustupil /\ otpravitel = 0
     THEN /\ otpravitel' = 3
          /\ errKind' = [errKind EXCEPT !["http3"] = FailureKind]
          /\ Goto("http3", "markFailure")
     ELSE UNCHANGED <<otpravitel, errKind>> /\ Goto("http3", "skip")
  /\ UNCHANGED <<mode, winnerAssigned, quicFinished, quicSuccess, quicProgress,
                 refCount, quicDoneEvent, state, conn, clock, sent, results, stale>>

Yield ==
  /\ pc["http3"] = "skip"
  /\ quicFinished' = 2 /\ quicDoneEvent' = TRUE
  /\ Goto("http3", "skipWait")
  /\ UNCHANGED <<errKind, mode, winnerAssigned, quicSuccess, quicProgress,
                 otpravitel, refCount, state, conn, clock, sent, results, stale>>


\* Mutation: the yielding thread relies on WinHTTP's own timeout.
YieldForever ==
  /\ pc["http3"] = "skipWait"
  /\ winnerAssigned # 0 /\ Goto("http3", "closeStream")
  /\ UNCHANGED <<errKind, mode, raceVars, state, conn, clock, sent, results, stale>>

\* The deadline is kept here and not by WinHTTP: "Request timeout".
YieldOver ==
  /\ pc["http3"] = "skipWait"
  /\ \/ winnerAssigned # 0 /\ Goto("http3", "closeStream")
     \/ winnerAssigned = 0 /\ clock = 2 /\ Goto("http3", "markFailure")
  /\ UNCHANGED <<errKind, mode, raceVars, state, conn, clock, sent, results, stale>>

\* StreamClose returns when no callback of the connection is running; a stream
\* whose handle is not stored yet is not closed.
CloseStream ==
  /\ pc["http3"] = "closeStream"
  /\ state.stream => pc["callback"] = "idle"
  /\ state' = [state EXCEPT !.stream = FALSE]
  /\ Goto("http3", "detach")
  /\ UNCHANGED <<errKind, mode, raceVars, conn, clock, sent, results, stale>>

\* ozhidayushchiy = NULL, then PoolReturn (module ConnPool).
Detach ==
  /\ pc["http3"] = "detach"
  /\ conn' = [conn EXCEPT !.waiter = FALSE]
  /\ Goto("http3", "free")
  /\ UNCHANGED <<errKind, mode, raceVars, state, clock, sent, results, stale>>

FreeState ==
  /\ pc["http3"] = "free"
  /\ state' = [state EXCEPT !.memory = "freed"]
  /\ Goto("http3", "release")
  /\ UNCHANGED <<errKind, mode, raceVars, conn, clock, sent, results, stale>>

-----------------------------------------------------------------------------
(* ConnectionCallback and RequestStreamCallback: MsQuic runs the callbacks *)
(* of one connection and of its streams one at a time.                     *)

\* CONNECTED reads ozhidayushchiy once, into pend.
Connected ==
  /\ pc["callback"] = "idle" /\ conn.link = "handshake"
  /\ conn' = [conn EXCEPT !.link = "up"]
  /\ Goto("callback", IF conn.waiter THEN "progress" ELSE "idle")
  /\ UNCHANGED <<errKind, mode, raceVars, state, clock, sent, results, stale>>

\* pend->race is read through pend; gotovo is set before the request is sent.
ConnectedProgress ==
  /\ pc["callback"] = "progress"
  /\ quicProgress' = 1 /\ quicDoneEvent' = TRUE
  /\ Goto("callback", "claim")
  /\ Touch("callback")
  /\ UNCHANGED <<errKind, mode, winnerAssigned, quicFinished, quicSuccess,
                 otpravitel, refCount, state, conn, clock, sent, results>>

\* PEER_CERTIFICATE_RECEIVED: no key of the chain is in the pin set.  The
\* handshake is refused, MsQuic goes on to shut the connection down.
CertificateRefused ==
  /\ pc["callback"] = "idle" /\ conn.link = "handshake"
  /\ conn' = [conn EXCEPT !.link = "down", !.pinOtkaz = TRUE]
  /\ Goto("callback", IF conn.waiter THEN "shutdown" ELSE "idle")
  /\ UNCHANGED <<errKind, mode, raceVars, state, clock, sent, results, stale>>

\* SHUTDOWN_INITIATED_BY_TRANSPORT / _BY_PEER, reading ozhidayushchiy.
ShutdownInitiated ==
  /\ pc["callback"] = "idle" /\ conn.link \in {"handshake", "up"}
  /\ conn' = [conn EXCEPT !.link = "down"]
  /\ Goto("callback", IF conn.waiter THEN "shutdown" ELSE "idle")
  /\ UNCHANGED <<errKind, mode, raceVars, state, clock, sent, results, stale>>

NotifyShutdown ==
  /\ pc["callback"] = "shutdown"
  /\ state' = [state EXCEPT !.done = TRUE]
  /\ Goto("callback", "idle")
  /\ Touch("callback")
  /\ UNCHANGED <<errKind, mode, raceVars, conn, clock, sent, results>>

\* SHUTDOWN_COMPLETE, reading ozhidayushchiy; nobody waits for what it writes.
ShutdownComplete ==
  /\ pc["callback"] = "idle" /\ conn.link = "down"
  /\ conn' = [conn EXCEPT !.link = "gone"]
  /\ Goto("callback", IF conn.waiter THEN "complete" ELSE "idle")
  /\ UNCHANGED <<errKind, mode, raceVars, state, clock, sent, results, stale>>

NotifyComplete ==
  /\ pc["callback"] = "complete"
  /\ Goto("callback", "idle")
  /\ Touch("callback")
  /\ UNCHANGED <<errKind, mode, raceVars, state, conn, clock, sent, results>>

\* RECEIVE with FIN, or PEER_SEND_SHUTDOWN: the response is complete.
StreamResponse ==
  /\ pc["callback"] = "idle" /\ state.stream /\ sent \cap Quic # {}
  /\ state' = [state EXCEPT !.success = TRUE, !.done = TRUE]
  /\ Touch("callback")
  /\ UNCHANGED <<pc, errKind, mode, raceVars, conn, clock, sent, results>>

\* SHUTDOWN_COMPLETE of the stream before a response.
StreamShutdown ==
  /\ pc["callback"] = "idle" /\ state.stream /\ ~state.success
  /\ state' = [state EXCEPT !.done = TRUE]
  /\ Touch("callback")
  /\ UNCHANGED <<pc, errKind, mode, raceVars, conn, clock, sent, results>>

-----------------------------------------------------------------------------
(* Http1ThreadFunc.                                                        *)

TcpCheck(t) ==
  /\ pc[t] = "check"
  /\ Goto(t, IF winnerAssigned # 0 THEN "release" ELSE "prepare")
  /\ UNCHANGED <<errKind, mode, raceVars, state, conn, clock, sent, results, stale>>

\* Parsing the URL, the session, WinHttpConnect, WinHttpOpenRequest and the
\* header buffer; each failure is reported at once.
TcpPrepare(t) ==
  /\ pc[t] = "prepare"
  /\ \E next \in {"recheck", "markFailure"} : Goto(t, next)
  /\ UNCHANGED <<errKind, mode, raceVars, state, conn, clock, sent, results, stale>>

TcpRecheck(t) ==
  /\ pc[t] = "recheck"
  /\ Goto(t, IF winnerAssigned # 0 THEN "release" ELSE "claim")
  /\ UNCHANGED <<errKind, mode, raceVars, state, conn, clock, sent, results, stale>>


\* Mutation: TCP sends as soon as it can, as it did before otpravitel.
TcpClaimUnchecked(t) ==
  /\ pc[t] = "claim"
  /\ otpravitel' = 2 /\ Goto(t, "send")
  /\ UNCHANGED <<errKind, mode, winnerAssigned, quicFinished, quicSuccess,
                 quicProgress, refCount, quicDoneEvent, state, conn, clock,
                 sent, results, stale>>

TcpClaim(t) ==
  /\ pc[t] = "claim"
  /\ IF otpravitel = 0
     THEN otpravitel' = 2 /\ Goto(t, "send")
     ELSE UNCHANGED otpravitel /\ Goto(t, "release")
  /\ UNCHANGED <<errKind, mode, winnerAssigned, quicFinished, quicSuccess,
                 quicProgress, refCount, quicDoneEvent, state, conn, clock,
                 sent, results, stale>>

\* WinHttpSendRequest and everything up to the last byte of the response.  A
\* failure may come before or after the request left; a refused pin, too (the
\* check after the response is the fallback for a callback that never came).
TcpSend(t) ==
  /\ pc[t] = "send"
  /\ \/ sent' = sent \cup {t} /\ Goto(t, "judge") /\ UNCHANGED errKind
     \/ /\ sent' \in {sent, sent \cup {t}}
        /\ \E e \in {"error", "pinfail"} : errKind' = [errKind EXCEPT ![t] = e]
        /\ Goto(t, "markFailure")
  /\ UNCHANGED <<mode, raceVars, state, conn, clock, results, stale>>

\* TCP holds its answer for up to 50 ms while QUIC is in flight: a delay that
\* may end at any moment, so it is not a step.  Then it looks who is ahead.
TcpJudge(t) ==
  /\ pc[t] = "judge"
  /\ Goto(t, IF quicSuccess = 1 \/ winnerAssigned = 1 THEN "release" ELSE "casTcp")
  /\ UNCHANGED <<errKind, mode, raceVars, state, conn, clock, sent, results, stale>>


\* Mutation: the winner is overwritten by a late TCP answer.
TcpCasUnchecked(t) ==
  /\ pc[t] = "casTcp"
  /\ winnerAssigned' = 2
  /\ Goto(t, IF winnerAssigned = 0 THEN "addTcp" ELSE "release")
  /\ UNCHANGED <<errKind, mode, quicFinished, quicSuccess, quicProgress,
                 otpravitel, refCount, quicDoneEvent, state, conn, clock,
                 sent, results, stale>>

TcpCas(t) ==
  /\ pc[t] = "casTcp"
  /\ IF winnerAssigned = 0
     THEN winnerAssigned' = 2 /\ Goto(t, "addTcp")
     ELSE UNCHANGED winnerAssigned /\ Goto(t, "release")
  /\ UNCHANGED <<errKind, mode, quicFinished, quicSuccess, quicProgress,
                 otpravitel, refCount, quicDoneEvent, state, conn, clock,
                 sent, results, stale>>

AddTcp(t) ==
  /\ pc[t] = "addTcp"
  /\ results' = Append(results, "tcp")
  /\ Goto(t, "release")
  /\ UNCHANGED <<errKind, mode, raceVars, state, conn, clock, sent, stale>>

-----------------------------------------------------------------------------

\* GetTickCount passes the request's deadlines.
Tick ==
  /\ clock < 2
  /\ clock' = clock + 1
  /\ UNCHANGED <<pc, errKind, mode, raceVars, state, conn, sent, results, stale>>

RaceFinish(t) == MarkFailure(t) \/ CasFailure(t) \/ AddError(t)

Orchestrator ==
  StartHttp3 \/ WindowOver \/ StartHttp1 \/ ReleaseRaceContext("orchestrator")

Http3OtpravitZapros(t) == ClaimQuic(t) \/ OpenStream(t) \/ SendStream(t)

Http3Thread ==
  \/ BeginWarm \/ BeginCold \/ BeginPinned \/ BeginUnsupported
  \/ HandOff \/ SignalHandOff
  \/ Http3OtpravitZapros("http3")
  \/ WaitOver \/ ReadOutcome \/ ReadSender \/ CloseRight
  \/ Yield \/ YieldOver
  \/ RaceFinish("http3") \/ MarkSuccess \/ CasSuccess \/ AddSuccess
  \/ CloseStream \/ Detach \/ FreeState
  \/ ReleaseRaceContext("http3")

\* What the worker thread does once a callback has been entered.
CallbackBody ==
  ConnectedProgress \/ Http3OtpravitZapros("callback") \/ NotifyShutdown \/ NotifyComplete

\* What the network decides.
NetworkEvent ==
  \/ Connected \/ CertificateRefused \/ ShutdownInitiated \/ ShutdownComplete
  \/ StreamResponse \/ StreamShutdown

Http1Local(t) ==
  \/ TcpCheck(t) \/ TcpPrepare(t) \/ TcpRecheck(t) \/ TcpClaim(t)
  \/ TcpJudge(t) \/ TcpCas(t) \/ AddTcp(t)
  \/ RaceFinish(t) \/ ReleaseRaceContext(t)

\* Every thread has finished with the race.
Finished ==
  /\ pc["orchestrator"] = "done"
  /\ pc["http3"] \in {"idle", "done"}
  /\ \A t \in Tcp : pc[t] \in {"idle", "done"}
  /\ UNCHANGED vars

Next ==
  \/ Orchestrator \/ Http3Thread \/ CallbackBody \/ NetworkEvent \/ Tick
  \/ \E t \in Tcp : Http1Local(t) \/ TcpSend(t)
  \/ Finished

Spec == Init /\ [][Next]_vars

\* Windows schedules every runnable thread and time passes.  The network owes
\* nothing, and WinHttpSendRequest may never return.
Scheduling ==
  /\ WF_vars(Orchestrator) /\ WF_vars(Http3Thread) /\ WF_vars(CallbackBody)
  /\ WF_vars(Tick)
  /\ \A t \in Tcp : WF_vars(Http1Local(t))

FairSpec == Spec /\ Scheduling
-----------------------------------------------------------------------------
(* Safety.                                                                 *)

\* The caller is told one outcome: no interleaving of the QUIC thread, both
\* TCP threads and their failure paths reaches AddResult a second time.
AtMostOneResult == Len(results) <= 1

Finish(t) == pc[t] \in {"done"} \/ (t \in Tcp /\ pc[t] = "idle")

\* The threads that still hold a reference.  The QUIC thread's is counted by
\* initiateRequest, before the thread exists.
Holds(t) == IF Finish(t) THEN 0 ELSE 1

\* refCount is exactly the number of threads that may still touch the race, so
\* it is freed by the last of them and by no one earlier.
RefCountExact ==
  refCount = Holds("orchestrator") + Holds("http3") + Holds("tcpA") + Holds("tcpB")

\* A thread is started once, by a thread that has not started it before.
SpawnInv ==
  /\ pc["orchestrator"] = "start" => pc["http3"] = "idle"
  /\ pc["orchestrator"] \in {"start", "window", "spawn"} => pc["tcpA"] = "idle"
  /\ pc["tcpB"] # "idle" => pc["http3"] \in {"signal", "release", "done"}

\* At most one thread of the process puts the request on the wire, whichever
\* of the three ways to send it comes first.
SingleSender == \A s, t \in sent : s = t

\* A successful outcome is the one of the path that sent the request and won
\* the race; a failure is reported only by the thread that closed the race.
ResultMatchesWinner ==
  \A i \in DOMAIN results :
    CASE results[i] = "quic" -> winnerAssigned = 1 /\ otpravitel = 1 /\ sent \cap Quic # {}
      [] results[i] = "tcp" -> winnerAssigned = 2 /\ otpravitel = 2 /\ sent \cap Tcp # {}
      [] OTHER -> winnerAssigned = 3

\* While TCP is sending, a QUIC thread that tried to serve the request reports no
\* failure of its own before the deadline with its reserve of 250 ms is over.
QuicLeavesAnswerToTcp ==
  [][pc["http3"] = "casFailure" /\ pc'["http3"] = "addError"
     /\ mode \in {"cold", "warm"} /\ otpravitel = 2 => clock = 2]_vars

\* The inductive invariant behind them.  Whoever is about to send holds the
\* right and nothing has been sent yet; whoever has an answer in hand got it
\* over the wire.
Sending(t) ==
  \/ t \in Quic /\ pc[t] \in {"open", "send"}
  \/ t \in Tcp /\ pc[t] = "send"

SenderInv ==
  /\ \A t \in Quic : Sending(t) => otpravitel = 1
  /\ \A t \in Tcp : Sending(t) => otpravitel = 2
  /\ \A t \in Quic \cup Tcp : Sending(t) => sent = {}
  /\ \A s, t \in Quic \cup Tcp : Sending(s) /\ Sending(t) => s = t
  /\ \A t \in sent : otpravitel = IF t \in Quic THEN 1 ELSE 2
  /\ SingleSender
  /\ state.success = TRUE => sent \cap Quic # {}
  /\ pc["http3"] \in {"markSuccess", "casSuccess", "addSuccess"} => sent \cap Quic # {}
  /\ \A t \in Tcp : pc[t] \in {"judge", "casTcp", "addTcp"} => t \in sent

\* Between the compare-and-swap that decides the race and the AddResult of its
\* winner nobody else can publish, and nothing has been published.
Publishing(t) == pc[t] \in {"addSuccess", "addTcp", "addError"}

AnswerInv ==
  /\ winnerAssigned = 0 => results = <<>>
  /\ \A t \in Threads : Publishing(t) => results = <<>>
  /\ \A s, t \in Threads : Publishing(s) /\ Publishing(t) => s = t
  /\ \A t \in Threads :
       /\ pc[t] = "addSuccess" => winnerAssigned = 1
       /\ pc[t] = "addTcp" => winnerAssigned = 2
       /\ pc[t] = "addError" => winnerAssigned = 3
  /\ \/ results = <<>>
     \/ results = <<"quic">> /\ winnerAssigned = 1 /\ sent \cap Quic # {}
     \/ results = <<"tcp">> /\ winnerAssigned = 2 /\ sent \cap Tcp # {}
     \/ results \in {<<"error">>, <<"pinfail">>} /\ winnerAssigned = 3

-----------------------------------------------------------------------------
(* Refinement.                                                             *)

Transmitted ==
  IF sent = {} THEN "none" ELSE IF sent \cap Quic # {} THEN "quic" ELSE "tcp"

Abstract == INSTANCE OneAnswer
              WITH owner <- otpravitel, wire <- Transmitted, answer <- results

\* The race implements the promise of OneAnswer: the right to send is taken
\* once, its owner alone transmits, and one outcome is delivered.
RefinesOneAnswer == Abstract!Spec

-----------------------------------------------------------------------------
(* Liveness.                                                               *)

\* The caller is told an outcome even if WinHTTP never returns: the QUIC thread
\* keeps the deadline.  It does not for a host it may not serve because of its
\* pins, and cannot if it was never started.
EventuallyAnswered ==
  mode \in {"cold", "warm", "unsupported"} ~> results # <<>>

\* Every reference is given back and the context is freed, unless WinHTTP never
\* returns or the QUIC thread, whose reference is already counted, could not be
\* started: nobody gives that one back.
EventuallyFreed ==
  \/ <>(refCount = 0)
  \/ <>[](\E t \in Tcp : pc[t] = "send")
  \/ <>[](pc["http3"] = "idle")

-----------------------------------------------------------------------------
(* What the comments claim and the code does not keep.                     *)

\* The cleanup order is said to be the only one under which a callback does not
\* touch freed memory: no callback ever does.
NoStaleCallback == ~stale
=============================================================================
