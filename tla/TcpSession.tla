----------------------------- MODULE TcpSession -----------------------------
(***************************************************************************)
(* The WinHTTP session shared by every TCP thread of                       *)
(* shared/SimulatorPluginLibrary.cpp: opened by the first one that needs   *)
(* it (GetGlobalWinHttpSession), closed when QUIC has won often enough in  *)
(* a row and no TCP thread is in flight (ZakrytSeansTcpEsliPora).          *)
(*                                                                         *)
(* g_hWinHttpSession and g_TcpVPolyote are read without g_CritSec by the   *)
(* TCP threads and under it by the closer, so the closer's test and its    *)
(* writes are two steps inside one critical section.  A session bears the  *)
(* name of the TCP thread that opened it.                                  *)
(***************************************************************************)
EXTENDS Naturals, FiniteSets

CONSTANTS
  TcpThreads,   \* runs of Http1ThreadFunc
  QuicWinners,  \* runs of RaceFinish(RACE_SUCCESS) that won the race
  Nobody,       \* no session, no holder of the lock
  Streak        \* POBED_QUIC_DLYA_ZAKRYTIYA_TCP

ASSUME SessionAssumption ==
  /\ Streak \in Nat \ {0}
  /\ IsFiniteSet(TcpThreads) /\ IsFiniteSet(QuicWinners)
  /\ TcpThreads \cap QuicWinners = {} /\ Nobody \notin TcpThreads \cup QuicWinners

VARIABLES
  place,     \* control point of every thread
  hSession,  \* the session a TCP thread got; the one a winner is closing
  session,   \* g_hWinHttpSession
  inFlight,  \* g_TcpVPolyote
  wins,      \* g_PobedQuicPodryad
  lock,      \* g_CritSec
  handle     \* WinHTTP: "none", "open" or "closed"

tcpVars == <<place, hSession, session, inFlight, wins, lock, handle>>

Threads == TcpThreads \cup QuicWinners
TcpPcs == {"begin", "look", "open", "return", "using", "leave", "done"}
QuicPcs == {"begin", "streak", "flight", "lock", "verify", "detach", "close", "done"}

TcpTypeOK ==
  /\ place \in [Threads -> TcpPcs \cup QuicPcs]
  /\ \A t \in TcpThreads : place[t] \in TcpPcs
  /\ \A q \in QuicWinners : place[q] \in QuicPcs
  /\ hSession \in [Threads -> TcpThreads \cup {Nobody}]
  /\ session \in TcpThreads \cup {Nobody}
  /\ inFlight \in 0 .. Cardinality(TcpThreads)
  /\ wins \in 0 .. Cardinality(QuicWinners)
  /\ lock \in QuicWinners \cup {Nobody}
  /\ handle \in [TcpThreads -> {"none", "open", "closed"}]

TcpInit ==
  /\ place = [t \in Threads |-> "begin"]
  /\ hSession = [t \in Threads |-> Nobody] /\ session = Nobody
  /\ inFlight = 0 /\ wins = 0 /\ lock = Nobody
  /\ handle = [t \in TcpThreads |-> "none"]

MoveTo(t, label) == place' = [place EXCEPT ![t] = label]

-----------------------------------------------------------------------------
(* Http1ThreadFunc                                                         *)

EnterTcp(t) ==
  /\ place[t] = "begin"
  /\ inFlight' = inFlight + 1
  /\ MoveTo(t, "look")
  /\ UNCHANGED <<hSession, session, wins, lock, handle>>

\* The race is decided, or the URL does not parse: no session is asked for.
SkipTcp(t) ==
  /\ place[t] = "look"
  /\ MoveTo(t, "leave")
  /\ UNCHANGED <<hSession, session, inFlight, wins, lock, handle>>

\* GetGlobalWinHttpSession before its lock.
LookSession(t) ==
  /\ place[t] = "look"
  /\ IF session = Nobody
     THEN MoveTo(t, "open") /\ UNCHANGED hSession
     ELSE MoveTo(t, "using") /\ hSession' = [hSession EXCEPT ![t] = session]
  /\ UNCHANGED <<session, inFlight, wins, lock, handle>>

\* Mutation: the session is not looked at again under the lock.
OpenUnchecked(t) ==
  /\ place[t] = "open" /\ lock = Nobody
  /\ session' = t /\ handle' = [handle EXCEPT ![t] = "open"]
  /\ MoveTo(t, "return")
  /\ UNCHANGED <<hSession, inFlight, wins, lock>>

\* Under the lock: WinHttpOpen, which may fail, if there is still no session.
OpenSession(t) ==
  /\ place[t] = "open" /\ lock = Nobody
  /\ \/ session = Nobody /\ session' = t /\ handle' = [handle EXCEPT ![t] = "open"]
     \/ UNCHANGED <<session, handle>>
  /\ MoveTo(t, "return")
  /\ UNCHANGED <<hSession, inFlight, wins, lock>>

\* The global is read once more after the lock.
ReturnSession(t) ==
  /\ place[t] = "return"
  /\ hSession' = [hSession EXCEPT ![t] = session]
  /\ MoveTo(t, IF session = Nobody THEN "leave" ELSE "using")
  /\ UNCHANGED <<session, inFlight, wins, lock, handle>>

\* The exchange ends.  A TCP answer that QUIC has not forestalled ends the
\* streak, whether or not it then wins the race.
FinishTcp(t) ==
  /\ place[t] = "using"
  /\ wins' \in {0, wins}
  /\ MoveTo(t, "leave")
  /\ UNCHANGED <<hSession, session, inFlight, lock, handle>>

LeaveTcp(t) ==
  /\ place[t] = "leave"
  /\ inFlight' = inFlight - 1
  /\ MoveTo(t, "done")
  /\ UNCHANGED <<hSession, session, wins, lock, handle>>

-----------------------------------------------------------------------------
(* RaceFinish(RACE_SUCCESS) and ZakrytSeansTcpEsliPora                     *)

CountWin(q) ==
  /\ place[q] = "begin"
  /\ wins' = wins + 1
  /\ MoveTo(q, "streak")
  /\ UNCHANGED <<hSession, session, inFlight, lock, handle>>

CheckStreak(q) ==
  /\ place[q] = "streak"
  /\ MoveTo(q, IF wins < Streak THEN "done" ELSE "flight")
  /\ UNCHANGED <<hSession, session, inFlight, wins, lock, handle>>

CheckFlight(q) ==
  /\ place[q] = "flight"
  /\ MoveTo(q, IF inFlight > 0 THEN "done" ELSE "lock")
  /\ UNCHANGED <<hSession, session, inFlight, wins, lock, handle>>

LockSession(q) ==
  /\ place[q] = "lock" /\ lock = Nobody
  /\ lock' = q /\ MoveTo(q, "verify")
  /\ UNCHANGED <<hSession, session, inFlight, wins, handle>>

\* Mutation: the threads in flight are not looked at again under the lock.
VerifyPresent(q) ==
  /\ place[q] = "verify"
  /\ IF session # Nobody
     THEN MoveTo(q, "detach") /\ UNCHANGED lock
     ELSE MoveTo(q, "done") /\ lock' = Nobody
  /\ UNCHANGED <<hSession, session, inFlight, wins, handle>>

VerifyQuiet(q) ==
  /\ place[q] = "verify"
  /\ IF session # Nobody /\ inFlight = 0
     THEN MoveTo(q, "detach") /\ UNCHANGED lock
     ELSE MoveTo(q, "done") /\ lock' = Nobody
  /\ UNCHANGED <<hSession, session, inFlight, wins, handle>>

DetachSession(q) ==
  /\ place[q] = "detach"
  /\ hSession' = [hSession EXCEPT ![q] = session]
  /\ session' = Nobody /\ lock' = Nobody
  /\ MoveTo(q, "close")
  /\ UNCHANGED <<inFlight, wins, handle>>

CloseSession(q) ==
  /\ place[q] = "close"
  /\ handle' = [handle EXCEPT ![hSession[q]] = "closed"]
  /\ MoveTo(q, "done")
  /\ UNCHANGED <<hSession, session, inFlight, wins, lock>>

TcpThread(t) ==
  \/ EnterTcp(t) \/ SkipTcp(t) \/ LookSession(t) \/ OpenSession(t) \/ ReturnSession(t)
  \/ FinishTcp(t) \/ LeaveTcp(t)

QuicWinner(q) ==
  \/ CountWin(q) \/ CheckStreak(q) \/ CheckFlight(q) \/ LockSession(q)
  \/ VerifyQuiet(q) \/ DetachSession(q) \/ CloseSession(q)

Finished == (\A t \in Threads : place[t] = "done") /\ UNCHANGED tcpVars

TcpNext ==
  \/ \E t \in TcpThreads : TcpThread(t)
  \/ \E q \in QuicWinners : QuicWinner(q)
  \/ Finished

TcpSpec == TcpInit /\ [][TcpNext]_tcpVars

-----------------------------------------------------------------------------
(* Properties                                                              *)

\* An open session is the shared one or on its way to be closed by exactly one
\* thread: two threads that open at once do not lose one of the two, and two
\* winners that close at once do not close the same one twice.
SessionAccounted ==
  \A h \in TcpThreads :
    LET closers == {q \in QuicWinners : place[q] = "close" /\ hSession[q] = h} IN
      Cardinality(closers) + (IF session = h THEN 1 ELSE 0)
        = (IF handle[h] = "open" THEN 1 ELSE 0)

\* A session that a TCP thread has seen under the lock is still there when it
\* reads the global once more without it: whoever wants to close it has counted
\* the thread by then.  Otherwise a good session would be reported as a failure.
SessionKeptForReader ==
  [][\A t \in TcpThreads :
       place[t] = "return" /\ session # Nobody => session' = session]_tcpVars
=============================================================================
