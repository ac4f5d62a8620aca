------------------------ MODULE HappyEyeballsProofs ------------------------
(***************************************************************************)
(* Proofs about the race of module HappyEyeballs, for every choice of the  *)
(* surroundings (Modes) and of the CreateThread calls that fail (Faults).  *)
(*                                                                         *)
(* RefCountExact and TypeOK are proved together: refCount stays in its     *)
(* type because it counts the threads that have not finished.  SenderInv   *)
(* and AnswerInv are inductive on top of TypeOK.  The step proofs have one *)
(* step per action, in the order of the specification.                     *)
(***************************************************************************)
EXTENDS HappyEyeballs, TLAPS

\* The threads by name: the set a thread variable ranges over is always spelled
\* out before a program counter is looked at.
LEMMA ThreadNames ==
  /\ Threads = {"orchestrator", "http3", "callback", "tcpA", "tcpB"}
  /\ Quic = {"http3", "callback"} /\ Tcp = {"tcpA", "tcpB"}
BY DEF Threads, Quic, Tcp


\* Every action keeps the variables in their types, once refCount is known to.
LEMMA TypeStep ==
  ASSUME TypeOK, refCount' \in 0 .. 4, [Next]_vars
  PROVE  TypeOK'
<1>1. CASE StartHttp3
  <2>1. PcOK'
    BY <1>1, ThreadNames DEF TypeOK, PcOK, OrchestratorPc, Http3Pc,
       CallbackPc, Http1Pc, FailurePc, StartHttp3, Goto
  <2>. QED
    BY <1>1, <2>1 DEF TypeOK, StartHttp3, raceVars
<1>2. CASE WindowOver
  <2>1. PcOK'
    BY <1>2, ThreadNames DEF TypeOK, PcOK, OrchestratorPc, Http3Pc,
       CallbackPc, Http1Pc, FailurePc, WindowOver, Goto
  <2>. QED
    BY <1>2, <2>1 DEF TypeOK, WindowOver, raceVars
<1>3. CASE StartHttp1
  <2>1. PcOK'
    BY <1>3, ThreadNames DEF TypeOK, PcOK, OrchestratorPc, Http3Pc,
       CallbackPc, Http1Pc, FailurePc, StartHttp1, Goto
  <2>. QED
    BY <1>3, <2>1 DEF TypeOK, StartHttp1, raceVars
<1>4. CASE BeginWarm
  <2>1. PcOK'
    BY <1>4, ThreadNames DEF TypeOK, PcOK, OrchestratorPc, Http3Pc,
       CallbackPc, Http1Pc, FailurePc, BeginWarm, Goto
  <2>2. state' \in StateType
    BY <1>4 DEF TypeOK, BeginWarm, StateType
  <2>3. conn' \in ConnType
    BY <1>4 DEF TypeOK, BeginWarm, ConnType
  <2>. QED
    BY <1>4, <2>1, <2>2, <2>3 DEF TypeOK, BeginWarm, raceVars
<1>5. CASE BeginCold
  <2>1. PcOK'
    BY <1>5, ThreadNames DEF TypeOK, PcOK, OrchestratorPc, Http3Pc,
       CallbackPc, Http1Pc, FailurePc, BeginCold, Goto
  <2>2. state' \in StateType
    BY <1>5 DEF TypeOK, BeginCold, StateType
  <2>3. conn' \in ConnType
    BY <1>5 DEF TypeOK, BeginCold, ConnType
  <2>. QED
    BY <1>5, <2>1, <2>2, <2>3 DEF TypeOK, BeginCold, raceVars
<1>6. CASE BeginPinned
  <2>1. PcOK'
    BY <1>6, ThreadNames DEF TypeOK, PcOK, OrchestratorPc, Http3Pc,
       CallbackPc, Http1Pc, FailurePc, BeginPinned, Goto
  <2>. QED
    BY <1>6, <2>1 DEF TypeOK, BeginPinned, raceVars
<1>7. CASE BeginUnsupported
  <2>1. PcOK'
    BY <1>7, ThreadNames DEF TypeOK, PcOK, OrchestratorPc, Http3Pc,
       CallbackPc, Http1Pc, FailurePc, BeginUnsupported, Goto
  <2>. QED
    BY <1>7, <2>1 DEF TypeOK, BeginUnsupported, raceVars
<1>8. CASE HandOff
  <2>1. PcOK'
    BY <1>8, ThreadNames DEF TypeOK, PcOK, OrchestratorPc, Http3Pc,
       CallbackPc, Http1Pc, FailurePc, HandOff, HandOffStarted, HandOffFailed,
       Goto
  <2>. QED
    BY <1>8, <2>1 DEF TypeOK, HandOff, raceVars
<1>9. CASE SignalHandOff
  <2>1. PcOK'
    BY <1>9, ThreadNames DEF TypeOK, PcOK, OrchestratorPc, Http3Pc,
       CallbackPc, Http1Pc, FailurePc, SignalHandOff, Goto
  <2>. QED
    BY <1>9, <2>1 DEF TypeOK, SignalHandOff, raceVars
<1>10. CASE WaitOver
  <2>1. PcOK'
    BY <1>10, ThreadNames DEF TypeOK, PcOK, OrchestratorPc, Http3Pc,
       CallbackPc, Http1Pc, FailurePc, WaitOver, Goto
  <2>. QED
    BY <1>10, <2>1 DEF TypeOK, WaitOver, raceVars
<1>11. CASE ReadOutcome
  <2>1. PcOK'
    BY <1>11, ThreadNames DEF TypeOK, PcOK, OrchestratorPc, Http3Pc,
       CallbackPc, Http1Pc, FailurePc, ReadOutcome, Goto
  <2>. QED
    BY <1>11, <2>1 DEF TypeOK, ReadOutcome, raceVars
<1>12. CASE ReadSender
  <2>1. PcOK'
    BY <1>12, ThreadNames DEF TypeOK, PcOK, OrchestratorPc, Http3Pc,
       CallbackPc, Http1Pc, FailurePc, ReadSender, Goto
  <2>2. errKind' \in [Threads -> {"error", "pinfail"}]
    BY <1>12, ThreadNames DEF TypeOK, ReadSender, FailureKind
  <2>. QED
    BY <1>12, <2>1, <2>2 DEF TypeOK, ReadSender, raceVars
<1>13. CASE CloseRight
  <2>1. PcOK'
    BY <1>13, ThreadNames DEF TypeOK, PcOK, OrchestratorPc, Http3Pc,
       CallbackPc, Http1Pc, FailurePc, CloseRight, Goto
  <2>2. errKind' \in [Threads -> {"error", "pinfail"}]
    BY <1>13, ThreadNames DEF TypeOK, CloseRight, FailureKind
  <2>3. otpravitel' \in 0 .. 3
    BY <1>13 DEF TypeOK, CloseRight
  <2>. QED
    BY <1>13, <2>1, <2>2, <2>3 DEF TypeOK, CloseRight, raceVars
<1>14. CASE Yield
  <2>1. PcOK'
    BY <1>14, ThreadNames DEF TypeOK, PcOK, OrchestratorPc, Http3Pc,
       CallbackPc, Http1Pc, FailurePc, Yield, Goto
  <2>. QED
    BY <1>14, <2>1 DEF TypeOK, Yield, raceVars
<1>15. CASE YieldOver
  <2>1. PcOK'
    BY <1>15, ThreadNames DEF TypeOK, PcOK, OrchestratorPc, Http3Pc,
       CallbackPc, Http1Pc, FailurePc, YieldOver, Goto
  <2>. QED
    BY <1>15, <2>1 DEF TypeOK, YieldOver, raceVars
<1>16. CASE MarkSuccess
  <2>1. PcOK'
    BY <1>16, ThreadNames DEF TypeOK, PcOK, OrchestratorPc, Http3Pc,
       CallbackPc, Http1Pc, FailurePc, MarkSuccess, Goto
  <2>. QED
    BY <1>16, <2>1 DEF TypeOK, MarkSuccess, raceVars
<1>17. CASE CasSuccess
  <2>1. PcOK'
    BY <1>17, ThreadNames DEF TypeOK, PcOK, OrchestratorPc, Http3Pc,
       CallbackPc, Http1Pc, FailurePc, CasSuccess, Goto
  <2>2. winnerAssigned' \in 0 .. 3
    BY <1>17 DEF TypeOK, CasSuccess
  <2>. QED
    BY <1>17, <2>1, <2>2 DEF TypeOK, CasSuccess, raceVars
<1>18. CASE AddSuccess
  <2>1. PcOK'
    BY <1>18, ThreadNames DEF TypeOK, PcOK, OrchestratorPc, Http3Pc,
       CallbackPc, Http1Pc, FailurePc, AddSuccess, Goto
  <2>2. results' \in Seq({"quic", "tcp", "error", "pinfail"})
    BY <1>18 DEF TypeOK, AddSuccess
  <2>. QED
    BY <1>18, <2>1, <2>2 DEF TypeOK, AddSuccess, raceVars
<1>19. CASE CloseStream
  <2>1. PcOK'
    BY <1>19, ThreadNames DEF TypeOK, PcOK, OrchestratorPc, Http3Pc,
       CallbackPc, Http1Pc, FailurePc, CloseStream, Goto
  <2>2. state' \in StateType
    BY <1>19 DEF TypeOK, CloseStream, StateType
  <2>. QED
    BY <1>19, <2>1, <2>2 DEF TypeOK, CloseStream, raceVars
<1>20. CASE Detach
  <2>1. PcOK'
    BY <1>20, ThreadNames DEF TypeOK, PcOK, OrchestratorPc, Http3Pc,
       CallbackPc, Http1Pc, FailurePc, Detach, Goto
  <2>2. conn' \in ConnType
    BY <1>20 DEF TypeOK, Detach, ConnType
  <2>. QED
    BY <1>20, <2>1, <2>2 DEF TypeOK, Detach, raceVars
<1>21. CASE FreeState
  <2>1. PcOK'
    BY <1>21, ThreadNames DEF TypeOK, PcOK, OrchestratorPc, Http3Pc,
       CallbackPc, Http1Pc, FailurePc, FreeState, Goto
  <2>2. state' \in StateType
    BY <1>21 DEF TypeOK, FreeState, StateType
  <2>. QED
    BY <1>21, <2>1, <2>2 DEF TypeOK, FreeState, raceVars
<1>22. CASE ConnectedProgress
  <2>1. PcOK'
    BY <1>22, ThreadNames DEF TypeOK, PcOK, OrchestratorPc, Http3Pc,
       CallbackPc, Http1Pc, FailurePc, ConnectedProgress, Goto
  <2>2. stale' \in BOOLEAN
    BY <1>22 DEF TypeOK, ConnectedProgress, Touch
  <2>. QED
    BY <1>22, <2>1, <2>2 DEF TypeOK, ConnectedProgress, raceVars
<1>23. CASE NotifyShutdown
  <2>1. PcOK'
    BY <1>23, ThreadNames DEF TypeOK, PcOK, OrchestratorPc, Http3Pc,
       CallbackPc, Http1Pc, FailurePc, NotifyShutdown, Goto
  <2>2. state' \in StateType
    BY <1>23 DEF TypeOK, NotifyShutdown, StateType
  <2>3. stale' \in BOOLEAN
    BY <1>23 DEF TypeOK, NotifyShutdown, Touch
  <2>. QED
    BY <1>23, <2>1, <2>2, <2>3 DEF TypeOK, NotifyShutdown, raceVars
<1>24. CASE NotifyComplete
  <2>1. PcOK'
    BY <1>24, ThreadNames DEF TypeOK, PcOK, OrchestratorPc, Http3Pc,
       CallbackPc, Http1Pc, FailurePc, NotifyComplete, Goto
  <2>2. stale' \in BOOLEAN
    BY <1>24 DEF TypeOK, NotifyComplete, Touch
  <2>. QED
    BY <1>24, <2>1, <2>2 DEF TypeOK, NotifyComplete, raceVars
<1>25. CASE Connected
  <2>1. PcOK'
    BY <1>25, ThreadNames DEF TypeOK, PcOK, OrchestratorPc, Http3Pc,
       CallbackPc, Http1Pc, FailurePc, Connected, Goto
  <2>2. conn' \in ConnType
    BY <1>25 DEF TypeOK, Connected, ConnType
  <2>. QED
    BY <1>25, <2>1, <2>2 DEF TypeOK, Connected, raceVars
<1>26. CASE CertificateRefused
  <2>1. PcOK'
    BY <1>26, ThreadNames DEF TypeOK, PcOK, OrchestratorPc, Http3Pc,
       CallbackPc, Http1Pc, FailurePc, CertificateRefused, Goto
  <2>2. conn' \in ConnType
    BY <1>26 DEF TypeOK, CertificateRefused, ConnType
  <2>. QED
    BY <1>26, <2>1, <2>2 DEF TypeOK, CertificateRefused, raceVars
<1>27. CASE ShutdownInitiated
  <2>1. PcOK'
    BY <1>27, ThreadNames DEF TypeOK, PcOK, OrchestratorPc, Http3Pc,
       CallbackPc, Http1Pc, FailurePc, ShutdownInitiated, Goto
  <2>2. conn' \in ConnType
    BY <1>27 DEF TypeOK, ShutdownInitiated, ConnType
  <2>. QED
    BY <1>27, <2>1, <2>2 DEF TypeOK, ShutdownInitiated, raceVars
<1>28. CASE ShutdownComplete
  <2>1. PcOK'
    BY <1>28, ThreadNames DEF TypeOK, PcOK, OrchestratorPc, Http3Pc,
       CallbackPc, Http1Pc, FailurePc, ShutdownComplete, Goto
  <2>2. conn' \in ConnType
    BY <1>28 DEF TypeOK, ShutdownComplete, ConnType
  <2>. QED
    BY <1>28, <2>1, <2>2 DEF TypeOK, ShutdownComplete, raceVars
<1>29. CASE StreamResponse
  <2>1. PcOK'
    BY <1>29 DEF TypeOK, StreamResponse, PcOK
  <2>2. state' \in StateType
    BY <1>29 DEF TypeOK, StreamResponse, StateType
  <2>3. stale' \in BOOLEAN
    BY <1>29 DEF TypeOK, StreamResponse, Touch
  <2>. QED
    BY <1>29, <2>1, <2>2, <2>3 DEF TypeOK, StreamResponse, raceVars
<1>30. CASE StreamShutdown
  <2>1. PcOK'
    BY <1>30 DEF TypeOK, StreamShutdown, PcOK
  <2>2. state' \in StateType
    BY <1>30 DEF TypeOK, StreamShutdown, StateType
  <2>3. stale' \in BOOLEAN
    BY <1>30 DEF TypeOK, StreamShutdown, Touch
  <2>. QED
    BY <1>30, <2>1, <2>2, <2>3 DEF TypeOK, StreamShutdown, raceVars
<1>31. CASE Tick
  <2>1. PcOK'
    BY <1>31 DEF TypeOK, Tick, PcOK
  <2>. QED
    BY <1>31, <2>1 DEF TypeOK, Tick, raceVars
<1>32. ASSUME NEW t \in Quic, ClaimQuic(t)
      PROVE  TypeOK'
  <2>1. PcOK'
    BY <1>32, ThreadNames DEF TypeOK, PcOK, OrchestratorPc, Http3Pc,
       CallbackPc, Http1Pc, FailurePc, ClaimQuic, AfterSend, Goto
  <2>2. state' \in StateType
    BY <1>32 DEF TypeOK, ClaimQuic, StateType
  <2>3. stale' \in BOOLEAN
    BY <1>32 DEF TypeOK, ClaimQuic, Touch
  <2>4. otpravitel' \in 0 .. 3
    BY <1>32 DEF TypeOK, ClaimQuic
  <2>. QED
    BY <1>32, <2>1, <2>2, <2>3, <2>4 DEF TypeOK, ClaimQuic, raceVars
<1>33. ASSUME NEW t \in Quic, OpenStream(t)
      PROVE  TypeOK'
  <2>1. PcOK'
    BY <1>33, ThreadNames DEF TypeOK, PcOK, OrchestratorPc, Http3Pc,
       CallbackPc, Http1Pc, FailurePc, OpenStream, AfterSend, Goto
  <2>2. state' \in StateType
    BY <1>33 DEF TypeOK, OpenStream, StateType
  <2>3. stale' \in BOOLEAN
    BY <1>33 DEF TypeOK, OpenStream, Touch
  <2>. QED
    BY <1>33, <2>1, <2>2, <2>3 DEF TypeOK, OpenStream, raceVars
<1>34. ASSUME NEW t \in Quic, SendStream(t)
      PROVE  TypeOK'
  <2>1. PcOK'
    BY <1>34, ThreadNames DEF TypeOK, PcOK, OrchestratorPc, Http3Pc,
       CallbackPc, Http1Pc, FailurePc, SendStream, AfterSend, Goto
  <2>2. sent' \in SUBSET (Quic \cup Tcp)
    BY <1>34, ThreadNames DEF TypeOK, SendStream
  <2>3. stale' \in BOOLEAN
    BY <1>34 DEF TypeOK, SendStream, Touch
  <2>. QED
    BY <1>34, <2>1, <2>2, <2>3 DEF TypeOK, SendStream, raceVars
<1>35. ASSUME NEW t \in Tcp \cup {"http3"}, MarkFailure(t)
      PROVE  TypeOK'
  <2>1. PcOK'
    BY <1>35, ThreadNames DEF TypeOK, PcOK, OrchestratorPc, Http3Pc,
       CallbackPc, Http1Pc, FailurePc, MarkFailure, Goto
  <2>. QED
    BY <1>35, <2>1 DEF TypeOK, MarkFailure, raceVars
<1>36. ASSUME NEW t \in Tcp \cup {"http3"}, CasFailure(t)
      PROVE  TypeOK'
  <2>1. PcOK'
    BY <1>36, ThreadNames DEF TypeOK, PcOK, OrchestratorPc, Http3Pc,
       CallbackPc, Http1Pc, FailurePc, CasFailure, AfterFinish, Goto
  <2>2. winnerAssigned' \in 0 .. 3
    BY <1>36 DEF TypeOK, CasFailure
  <2>. QED
    BY <1>36, <2>1, <2>2 DEF TypeOK, CasFailure, raceVars
<1>37. ASSUME NEW t \in Tcp \cup {"http3"}, AddError(t)
      PROVE  TypeOK'
  <2>1. PcOK'
    BY <1>37, ThreadNames DEF TypeOK, PcOK, OrchestratorPc, Http3Pc,
       CallbackPc, Http1Pc, FailurePc, AddError, AfterFinish, Goto
  <2>2. errKind[t] \in {"error", "pinfail"}
    BY ThreadNames DEF TypeOK
  <2>3. results' \in Seq({"quic", "tcp", "error", "pinfail"})
    BY <1>37, <2>2 DEF TypeOK, AddError
  <2>. QED
    BY <1>37, <2>1, <2>3 DEF TypeOK, AddError, raceVars
<1>38. ASSUME NEW t \in Tcp, TcpCheck(t)
      PROVE  TypeOK'
  <2>1. PcOK'
    BY <1>38, ThreadNames DEF TypeOK, PcOK, OrchestratorPc, Http3Pc,
       CallbackPc, Http1Pc, FailurePc, TcpCheck, Goto
  <2>. QED
    BY <1>38, <2>1 DEF TypeOK, TcpCheck, raceVars
<1>39. ASSUME NEW t \in Tcp, TcpPrepare(t)
      PROVE  TypeOK'
  <2>1. PcOK'
    BY <1>39, ThreadNames DEF TypeOK, PcOK, OrchestratorPc, Http3Pc,
       CallbackPc, Http1Pc, FailurePc, TcpPrepare, Goto
  <2>. QED
    BY <1>39, <2>1 DEF TypeOK, TcpPrepare, raceVars
<1>40. ASSUME NEW t \in Tcp, TcpRecheck(t)
      PROVE  TypeOK'
  <2>1. PcOK'
    BY <1>40, ThreadNames DEF TypeOK, PcOK, OrchestratorPc, Http3Pc,
       CallbackPc, Http1Pc, FailurePc, TcpRecheck, Goto
  <2>. QED
    BY <1>40, <2>1 DEF TypeOK, TcpRecheck, raceVars
<1>41. ASSUME NEW t \in Tcp, TcpClaim(t)
      PROVE  TypeOK'
  <2>1. PcOK'
    BY <1>41, ThreadNames DEF TypeOK, PcOK, OrchestratorPc, Http3Pc,
       CallbackPc, Http1Pc, FailurePc, TcpClaim, Goto
  <2>2. otpravitel' \in 0 .. 3
    BY <1>41 DEF TypeOK, TcpClaim
  <2>. QED
    BY <1>41, <2>1, <2>2 DEF TypeOK, TcpClaim, raceVars
<1>42. ASSUME NEW t \in Tcp, TcpSend(t)
      PROVE  TypeOK'
  <2>1. PcOK'
    BY <1>42, ThreadNames DEF TypeOK, PcOK, OrchestratorPc, Http3Pc,
       CallbackPc, Http1Pc, FailurePc, TcpSend, Goto
  <2>2. errKind' \in [Threads -> {"error", "pinfail"}]
    BY <1>42, ThreadNames DEF TypeOK, TcpSend
  <2>3. sent' \in SUBSET (Quic \cup Tcp)
    BY <1>42, ThreadNames DEF TypeOK, TcpSend
  <2>. QED
    BY <1>42, <2>1, <2>2, <2>3 DEF TypeOK, TcpSend, raceVars
<1>43. ASSUME NEW t \in Tcp, TcpJudge(t)
      PROVE  TypeOK'
  <2>1. PcOK'
    BY <1>43, ThreadNames DEF TypeOK, PcOK, OrchestratorPc, Http3Pc,
       CallbackPc, Http1Pc, FailurePc, TcpJudge, Goto
  <2>. QED
    BY <1>43, <2>1 DEF TypeOK, TcpJudge, raceVars
<1>44. ASSUME NEW t \in Tcp, TcpCas(t)
      PROVE  TypeOK'
  <2>1. PcOK'
    BY <1>44, ThreadNames DEF TypeOK, PcOK, OrchestratorPc, Http3Pc,
       CallbackPc, Http1Pc, FailurePc, TcpCas, Goto
  <2>2. winnerAssigned' \in 0 .. 3
    BY <1>44 DEF TypeOK, TcpCas
  <2>. QED
    BY <1>44, <2>1, <2>2 DEF TypeOK, TcpCas, raceVars
<1>45. ASSUME NEW t \in Tcp, AddTcp(t)
      PROVE  TypeOK'
  <2>1. PcOK'
    BY <1>45, ThreadNames DEF TypeOK, PcOK, OrchestratorPc, Http3Pc,
       CallbackPc, Http1Pc, FailurePc, AddTcp, Goto
  <2>2. results' \in Seq({"quic", "tcp", "error", "pinfail"})
    BY <1>45 DEF TypeOK, AddTcp
  <2>. QED
    BY <1>45, <2>1, <2>2 DEF TypeOK, AddTcp, raceVars
<1>46. ASSUME NEW t \in Tcp \cup {"http3", "orchestrator"}, ReleaseRaceContext(t)
      PROVE  TypeOK'
  <2>1. PcOK'
    BY <1>46, ThreadNames DEF TypeOK, PcOK, OrchestratorPc, Http3Pc,
       CallbackPc, Http1Pc, FailurePc, ReleaseRaceContext, Goto
  <2>. QED
    BY <1>46, <2>1 DEF TypeOK, ReleaseRaceContext, raceVars
<1>47. CASE UNCHANGED vars
  BY <1>47 DEF TypeOK, PcOK, vars, raceVars
<1>. QED
  BY <1>1, <1>2, <1>3, <1>4, <1>5, <1>6, <1>7, <1>8, <1>9, <1>10, <1>11,
     <1>12, <1>13, <1>14, <1>15, <1>16, <1>17, <1>18, <1>19, <1>20, <1>21,
     <1>22, <1>23, <1>24, <1>25, <1>26, <1>27, <1>28, <1>29, <1>30, <1>31,
     <1>32, <1>33, <1>34, <1>35, <1>36, <1>37, <1>38, <1>39, <1>40, <1>41,
     <1>42, <1>43, <1>44, <1>45, <1>46, <1>47, ThreadNames DEF
     Next, Orchestrator, Http3Thread, CallbackBody, NetworkEvent, Http1Local,
     RaceFinish, Http3OtpravitZapros, Finished

\* No thread is started twice.
LEMMA SpawnStep ==
  ASSUME TypeOK, SpawnInv, [Next]_vars
  PROVE  SpawnInv'
<1>1. CASE StartHttp3
  BY <1>1, ThreadNames DEF TypeOK, PcOK, SpawnInv, StartHttp3, Goto, raceVars
<1>2. CASE WindowOver
  BY <1>2, ThreadNames DEF TypeOK, PcOK, SpawnInv, WindowOver, Goto, raceVars
<1>3. CASE StartHttp1
  BY <1>3, ThreadNames DEF TypeOK, PcOK, SpawnInv, StartHttp1, Goto, raceVars
<1>4. CASE BeginWarm
  BY <1>4, ThreadNames DEF TypeOK, PcOK, SpawnInv, BeginWarm, Goto, raceVars
<1>5. CASE BeginCold
  BY <1>5, ThreadNames DEF TypeOK, PcOK, SpawnInv, BeginCold, Goto, raceVars
<1>6. CASE BeginPinned
  BY <1>6, ThreadNames DEF TypeOK, PcOK, SpawnInv, BeginPinned, Goto, raceVars
<1>7. CASE BeginUnsupported
  BY <1>7, ThreadNames DEF TypeOK, PcOK, SpawnInv, BeginUnsupported, Goto,
     raceVars
<1>8. CASE HandOff
  BY <1>8, ThreadNames DEF TypeOK, PcOK, SpawnInv, HandOff, HandOffStarted,
     HandOffFailed, Goto, raceVars
<1>9. CASE SignalHandOff
  BY <1>9, ThreadNames DEF TypeOK, PcOK, SpawnInv, SignalHandOff, Goto,
     raceVars
<1>10. CASE WaitOver
  BY <1>10, ThreadNames DEF TypeOK, PcOK, SpawnInv, WaitOver, Goto, raceVars
<1>11. CASE ReadOutcome
  BY <1>11, ThreadNames DEF TypeOK, PcOK, SpawnInv, ReadOutcome, Goto,
     raceVars
<1>12. CASE ReadSender
  BY <1>12, ThreadNames DEF TypeOK, PcOK, SpawnInv, ReadSender, FailureKind,
     Goto, raceVars
<1>13. CASE CloseRight
  BY <1>13, ThreadNames DEF TypeOK, PcOK, SpawnInv, CloseRight, FailureKind,
     Goto, raceVars
<1>14. CASE Yield
  BY <1>14, ThreadNames DEF TypeOK, PcOK, SpawnInv, Yield, Goto, raceVars
<1>15. CASE YieldOver
  BY <1>15, ThreadNames DEF TypeOK, PcOK, SpawnInv, YieldOver, Goto, raceVars
<1>16. CASE MarkSuccess
  BY <1>16, ThreadNames DEF TypeOK, PcOK, SpawnInv, MarkSuccess, Goto,
     raceVars
<1>17. CASE CasSuccess
  BY <1>17, ThreadNames DEF TypeOK, PcOK, SpawnInv, CasSuccess, Goto, raceVars
<1>18. CASE AddSuccess
  BY <1>18, ThreadNames DEF TypeOK, PcOK, SpawnInv, AddSuccess, Goto, raceVars
<1>19. CASE CloseStream
  BY <1>19, ThreadNames DEF TypeOK, PcOK, SpawnInv, CloseStream, Goto,
     raceVars
<1>20. CASE Detach
  BY <1>20, ThreadNames DEF TypeOK, PcOK, SpawnInv, Detach, Goto, raceVars
<1>21. CASE FreeState
  BY <1>21, ThreadNames DEF TypeOK, PcOK, SpawnInv, FreeState, Goto, raceVars
<1>22. CASE ConnectedProgress
  BY <1>22, ThreadNames DEF TypeOK, PcOK, SpawnInv, ConnectedProgress, Touch,
     Goto, raceVars
<1>23. CASE NotifyShutdown
  BY <1>23, ThreadNames DEF TypeOK, PcOK, SpawnInv, NotifyShutdown, Touch,
     Goto, raceVars
<1>24. CASE NotifyComplete
  BY <1>24, ThreadNames DEF TypeOK, PcOK, SpawnInv, NotifyComplete, Touch,
     Goto, raceVars
<1>25. CASE Connected
  BY <1>25, ThreadNames DEF TypeOK, PcOK, SpawnInv, Connected, Goto, raceVars
<1>26. CASE CertificateRefused
  BY <1>26, ThreadNames DEF TypeOK, PcOK, SpawnInv, CertificateRefused, Goto,
     raceVars
<1>27. CASE ShutdownInitiated
  BY <1>27, ThreadNames DEF TypeOK, PcOK, SpawnInv, ShutdownInitiated, Goto,
     raceVars
<1>28. CASE ShutdownComplete
  BY <1>28, ThreadNames DEF TypeOK, PcOK, SpawnInv, ShutdownComplete, Goto,
     raceVars
<1>29. CASE StreamResponse
  BY <1>29, ThreadNames DEF TypeOK, PcOK, SpawnInv, StreamResponse, Touch,
     raceVars
<1>30. CASE StreamShutdown
  BY <1>30, ThreadNames DEF TypeOK, PcOK, SpawnInv, StreamShutdown, Touch,
     raceVars
<1>31. CASE Tick
  BY <1>31, ThreadNames DEF TypeOK, PcOK, SpawnInv, Tick, raceVars
<1>32. ASSUME NEW t \in Quic, ClaimQuic(t)
      PROVE  SpawnInv'
  BY <1>32, ThreadNames DEF TypeOK, PcOK, SpawnInv, ClaimQuic, AfterSend,
     Touch, Goto, raceVars
<1>33. ASSUME NEW t \in Quic, OpenStream(t)
      PROVE  SpawnInv'
  BY <1>33, ThreadNames DEF TypeOK, PcOK, SpawnInv, OpenStream, AfterSend,
     Touch, Goto, raceVars
<1>34. ASSUME NEW t \in Quic, SendStream(t)
      PROVE  SpawnInv'
  BY <1>34, ThreadNames DEF TypeOK, PcOK, SpawnInv, SendStream, AfterSend,
     Touch, Goto, raceVars
<1>35. ASSUME NEW t \in Tcp \cup {"http3"}, MarkFailure(t)
      PROVE  SpawnInv'
  BY <1>35, ThreadNames DEF TypeOK, PcOK, SpawnInv, MarkFailure, Goto,
     raceVars
<1>36. ASSUME NEW t \in Tcp \cup {"http3"}, CasFailure(t)
      PROVE  SpawnInv'
  BY <1>36, ThreadNames DEF TypeOK, PcOK, SpawnInv, CasFailure, AfterFinish,
     Goto, raceVars
<1>37. ASSUME NEW t \in Tcp \cup {"http3"}, AddError(t)
      PROVE  SpawnInv'
  BY <1>37, ThreadNames DEF TypeOK, PcOK, SpawnInv, AddError, AfterFinish,
     Goto, raceVars
<1>38. ASSUME NEW t \in Tcp, TcpCheck(t)
      PROVE  SpawnInv'
  BY <1>38, ThreadNames DEF TypeOK, PcOK, SpawnInv, TcpCheck, Goto, raceVars
<1>39. ASSUME NEW t \in Tcp, TcpPrepare(t)
      PROVE  SpawnInv'
  BY <1>39, ThreadNames DEF TypeOK, PcOK, SpawnInv, TcpPrepare, Goto, raceVars
<1>40. ASSUME NEW t \in Tcp, TcpRecheck(t)
      PROVE  SpawnInv'
  BY <1>40, ThreadNames DEF TypeOK, PcOK, SpawnInv, TcpRecheck, Goto, raceVars
<1>41. ASSUME NEW t \in Tcp, TcpClaim(t)
      PROVE  SpawnInv'
  BY <1>41, ThreadNames DEF TypeOK, PcOK, SpawnInv, TcpClaim, Goto, raceVars
<1>42. ASSUME NEW t \in Tcp, TcpSend(t)
      PROVE  SpawnInv'
  BY <1>42, ThreadNames DEF TypeOK, PcOK, SpawnInv, TcpSend, Goto, raceVars
<1>43. ASSUME NEW t \in Tcp, TcpJudge(t)
      PROVE  SpawnInv'
  BY <1>43, ThreadNames DEF TypeOK, PcOK, SpawnInv, TcpJudge, Goto, raceVars
<1>44. ASSUME NEW t \in Tcp, TcpCas(t)
      PROVE  SpawnInv'
  BY <1>44, ThreadNames DEF TypeOK, PcOK, SpawnInv, TcpCas, Goto, raceVars
<1>45. ASSUME NEW t \in Tcp, AddTcp(t)
      PROVE  SpawnInv'
  BY <1>45, ThreadNames DEF TypeOK, PcOK, SpawnInv, AddTcp, Goto, raceVars
<1>46. ASSUME NEW t \in Tcp \cup {"http3", "orchestrator"}, ReleaseRaceContext(t)
      PROVE  SpawnInv'
  BY <1>46, ThreadNames DEF TypeOK, PcOK, SpawnInv, ReleaseRaceContext, Goto,
     raceVars
<1>47. CASE UNCHANGED vars
  BY <1>47 DEF TypeOK, PcOK, SpawnInv, vars, raceVars
<1>. QED
  BY <1>1, <1>2, <1>3, <1>4, <1>5, <1>6, <1>7, <1>8, <1>9, <1>10, <1>11,
     <1>12, <1>13, <1>14, <1>15, <1>16, <1>17, <1>18, <1>19, <1>20, <1>21,
     <1>22, <1>23, <1>24, <1>25, <1>26, <1>27, <1>28, <1>29, <1>30, <1>31,
     <1>32, <1>33, <1>34, <1>35, <1>36, <1>37, <1>38, <1>39, <1>40, <1>41,
     <1>42, <1>43, <1>44, <1>45, <1>46, <1>47, ThreadNames DEF
     Next, Orchestrator, Http3Thread, CallbackBody, NetworkEvent, Http1Local,
     RaceFinish, Http3OtpravitZapros, Finished

\* The count follows the threads that are started and that finish.
LEMMA RefCountStep ==
  ASSUME TypeOK, SpawnInv, RefCountExact, [Next]_vars
  PROVE  RefCountExact'
<1>1. CASE StartHttp3
  <2>1. pc["http3"] = "idle" /\ pc["orchestrator"] = "start"
    BY <1>1 DEF StartHttp3, SpawnInv
  <2>2. pc'["http3"] # "done" /\ pc'["orchestrator"] # "done"
    BY <1>1, <2>1, ThreadNames DEF TypeOK, PcOK, StartHttp3, Goto
  <2>3. \A t \in Tcp : pc'[t] = pc[t]
    BY <1>1, ThreadNames DEF TypeOK, PcOK, StartHttp3, Goto
  <2>. QED
    BY <1>1, <2>1, <2>2, <2>3, ThreadNames DEF RefCountExact, Holds, Finish,
       StartHttp3, raceVars
<1>2. CASE WindowOver
  BY <1>2, ThreadNames DEF TypeOK, PcOK, RefCountExact, Holds, Finish,
     WindowOver, Goto, raceVars
<1>3. CASE StartHttp1
  <2>1. CASE refCount' = refCount + 1
    <3>1. pc' = [pc EXCEPT !["orchestrator"] = "release", !["tcpA"] = "check"] /\ pc["tcpA"] = "idle"
      BY <1>3, <2>1, ThreadNames DEF TypeOK, PcOK, SpawnInv, StartHttp1, Goto
    <3>. QED
      BY <1>3, <2>1, <3>1, ThreadNames DEF TypeOK, PcOK, RefCountExact, Holds,
         Finish, StartHttp1, Goto
  <2>2. CASE refCount' = refCount
    BY <1>3, <2>2, ThreadNames DEF TypeOK, PcOK, RefCountExact, SpawnInv,
       Holds, Finish, StartHttp1, Goto
  <2>. QED
    BY <1>3, <2>1, <2>2 DEF StartHttp1, Goto
<1>4. CASE BeginWarm
  BY <1>4, ThreadNames DEF TypeOK, PcOK, RefCountExact, Holds, Finish,
     BeginWarm, Goto, raceVars
<1>5. CASE BeginCold
  BY <1>5, ThreadNames DEF TypeOK, PcOK, RefCountExact, Holds, Finish,
     BeginCold, Goto, raceVars
<1>6. CASE BeginPinned
  BY <1>6, ThreadNames DEF TypeOK, PcOK, RefCountExact, Holds, Finish,
     BeginPinned, Goto, raceVars
<1>7. CASE BeginUnsupported
  BY <1>7, ThreadNames DEF TypeOK, PcOK, RefCountExact, Holds, Finish,
     BeginUnsupported, Goto, raceVars
<1>8. CASE HandOff
  <2>1. CASE refCount' = refCount + 1
    <3>1. pc' = [pc EXCEPT !["http3"] = IF mode = "pinned" THEN "signal" ELSE "release", !["tcpB"] = "check"] /\ pc["tcpB"] = "idle"
      BY <1>8, <2>1, ThreadNames DEF TypeOK, PcOK, SpawnInv, HandOff,
         HandOffStarted, HandOffFailed, Goto
    <3>. QED
      BY <1>8, <2>1, <3>1, ThreadNames DEF TypeOK, PcOK, RefCountExact, Holds,
         Finish, HandOff, HandOffStarted, HandOffFailed, Goto
  <2>2. CASE refCount' = refCount
    BY <1>8, <2>2, ThreadNames DEF TypeOK, PcOK, RefCountExact, SpawnInv,
       Holds, Finish, HandOff, HandOffStarted, HandOffFailed, Goto
  <2>. QED
    BY <1>8, <2>1, <2>2 DEF HandOff, HandOffStarted, HandOffFailed, Goto
<1>9. CASE SignalHandOff
  BY <1>9, ThreadNames DEF TypeOK, PcOK, RefCountExact, Holds, Finish,
     SignalHandOff, Goto, raceVars
<1>10. CASE WaitOver
  BY <1>10, ThreadNames DEF TypeOK, PcOK, RefCountExact, Holds, Finish,
     WaitOver, Goto, raceVars
<1>11. CASE ReadOutcome
  BY <1>11, ThreadNames DEF TypeOK, PcOK, RefCountExact, Holds, Finish,
     ReadOutcome, Goto, raceVars
<1>12. CASE ReadSender
  BY <1>12, ThreadNames DEF TypeOK, PcOK, RefCountExact, Holds, Finish,
     ReadSender, FailureKind, Goto, raceVars
<1>13. CASE CloseRight
  BY <1>13, ThreadNames DEF TypeOK, PcOK, RefCountExact, Holds, Finish,
     CloseRight, FailureKind, Goto, raceVars
<1>14. CASE Yield
  BY <1>14, ThreadNames DEF TypeOK, PcOK, RefCountExact, Holds, Finish, Yield,
     Goto, raceVars
<1>15. CASE YieldOver
  BY <1>15, ThreadNames DEF TypeOK, PcOK, RefCountExact, Holds, Finish,
     YieldOver, Goto, raceVars
<1>16. CASE MarkSuccess
  BY <1>16, ThreadNames DEF TypeOK, PcOK, RefCountExact, Holds, Finish,
     MarkSuccess, Goto, raceVars
<1>17. CASE CasSuccess
  BY <1>17, ThreadNames DEF TypeOK, PcOK, RefCountExact, Holds, Finish,
     CasSuccess, Goto, raceVars
<1>18. CASE AddSuccess
  BY <1>18, ThreadNames DEF TypeOK, PcOK, RefCountExact, Holds, Finish,
     AddSuccess, Goto, raceVars
<1>19. CASE CloseStream
  BY <1>19, ThreadNames DEF TypeOK, PcOK, RefCountExact, Holds, Finish,
     CloseStream, Goto, raceVars
<1>20. CASE Detach
  BY <1>20, ThreadNames DEF TypeOK, PcOK, RefCountExact, Holds, Finish,
     Detach, Goto, raceVars
<1>21. CASE FreeState
  BY <1>21, ThreadNames DEF TypeOK, PcOK, RefCountExact, Holds, Finish,
     FreeState, Goto, raceVars
<1>22. CASE ConnectedProgress
  BY <1>22, ThreadNames DEF TypeOK, PcOK, RefCountExact, Holds, Finish,
     ConnectedProgress, Touch, Goto, raceVars
<1>23. CASE NotifyShutdown
  BY <1>23, ThreadNames DEF TypeOK, PcOK, RefCountExact, Holds, Finish,
     NotifyShutdown, Touch, Goto, raceVars
<1>24. CASE NotifyComplete
  BY <1>24, ThreadNames DEF TypeOK, PcOK, RefCountExact, Holds, Finish,
     NotifyComplete, Touch, Goto, raceVars
<1>25. CASE Connected
  BY <1>25, ThreadNames DEF TypeOK, PcOK, RefCountExact, Holds, Finish,
     Connected, Goto, raceVars
<1>26. CASE CertificateRefused
  BY <1>26, ThreadNames DEF TypeOK, PcOK, RefCountExact, Holds, Finish,
     CertificateRefused, Goto, raceVars
<1>27. CASE ShutdownInitiated
  BY <1>27, ThreadNames DEF TypeOK, PcOK, RefCountExact, Holds, Finish,
     ShutdownInitiated, Goto, raceVars
<1>28. CASE ShutdownComplete
  BY <1>28, ThreadNames DEF TypeOK, PcOK, RefCountExact, Holds, Finish,
     ShutdownComplete, Goto, raceVars
<1>29. CASE StreamResponse
  BY <1>29, ThreadNames DEF TypeOK, PcOK, RefCountExact, Holds, Finish,
     StreamResponse, Touch, raceVars
<1>30. CASE StreamShutdown
  BY <1>30, ThreadNames DEF TypeOK, PcOK, RefCountExact, Holds, Finish,
     StreamShutdown, Touch, raceVars
<1>31. CASE Tick
  BY <1>31, ThreadNames DEF TypeOK, PcOK, RefCountExact, Holds, Finish, Tick,
     raceVars
<1>32. ASSUME NEW t \in Quic, ClaimQuic(t)
      PROVE  RefCountExact'
  BY <1>32, ThreadNames DEF TypeOK, PcOK, RefCountExact, Holds, Finish,
     ClaimQuic, AfterSend, Touch, Goto, raceVars
<1>33. ASSUME NEW t \in Quic, OpenStream(t)
      PROVE  RefCountExact'
  BY <1>33, ThreadNames DEF TypeOK, PcOK, RefCountExact, Holds, Finish,
     OpenStream, AfterSend, Touch, Goto, raceVars
<1>34. ASSUME NEW t \in Quic, SendStream(t)
      PROVE  RefCountExact'
  BY <1>34, ThreadNames DEF TypeOK, PcOK, RefCountExact, Holds, Finish,
     SendStream, AfterSend, Touch, Goto, raceVars
<1>35. ASSUME NEW t \in Tcp \cup {"http3"}, MarkFailure(t)
      PROVE  RefCountExact'
  BY <1>35, ThreadNames DEF TypeOK, PcOK, RefCountExact, Holds, Finish,
     MarkFailure, Goto, raceVars
<1>36. ASSUME NEW t \in Tcp \cup {"http3"}, CasFailure(t)
      PROVE  RefCountExact'
  BY <1>36, ThreadNames DEF TypeOK, PcOK, RefCountExact, Holds, Finish,
     CasFailure, AfterFinish, Goto, raceVars
<1>37. ASSUME NEW t \in Tcp \cup {"http3"}, AddError(t)
      PROVE  RefCountExact'
  BY <1>37, ThreadNames DEF TypeOK, PcOK, RefCountExact, Holds, Finish,
     AddError, AfterFinish, Goto, raceVars
<1>38. ASSUME NEW t \in Tcp, TcpCheck(t)
      PROVE  RefCountExact'
  BY <1>38, ThreadNames DEF TypeOK, PcOK, RefCountExact, Holds, Finish,
     TcpCheck, Goto, raceVars
<1>39. ASSUME NEW t \in Tcp, TcpPrepare(t)
      PROVE  RefCountExact'
  BY <1>39, ThreadNames DEF TypeOK, PcOK, RefCountExact, Holds, Finish,
     TcpPrepare, Goto, raceVars
<1>40. ASSUME NEW t \in Tcp, TcpRecheck(t)
      PROVE  RefCountExact'
  BY <1>40, ThreadNames DEF TypeOK, PcOK, RefCountExact, Holds, Finish,
     TcpRecheck, Goto, raceVars
<1>41. ASSUME NEW t \in Tcp, TcpClaim(t)
      PROVE  RefCountExact'
  BY <1>41, ThreadNames DEF TypeOK, PcOK, RefCountExact, Holds, Finish,
     TcpClaim, Goto, raceVars
<1>42. ASSUME NEW t \in Tcp, TcpSend(t)
      PROVE  RefCountExact'
  BY <1>42, ThreadNames DEF TypeOK, PcOK, RefCountExact, Holds, Finish,
     TcpSend, Goto, raceVars
<1>43. ASSUME NEW t \in Tcp, TcpJudge(t)
      PROVE  RefCountExact'
  BY <1>43, ThreadNames DEF TypeOK, PcOK, RefCountExact, Holds, Finish,
     TcpJudge, Goto, raceVars
<1>44. ASSUME NEW t \in Tcp, TcpCas(t)
      PROVE  RefCountExact'
  BY <1>44, ThreadNames DEF TypeOK, PcOK, RefCountExact, Holds, Finish,
     TcpCas, Goto, raceVars
<1>45. ASSUME NEW t \in Tcp, AddTcp(t)
      PROVE  RefCountExact'
  BY <1>45, ThreadNames DEF TypeOK, PcOK, RefCountExact, Holds, Finish,
     AddTcp, Goto, raceVars
<1>46. ASSUME NEW t \in Tcp \cup {"http3", "orchestrator"}, ReleaseRaceContext(t)
      PROVE  RefCountExact'
  BY <1>46, ThreadNames DEF TypeOK, PcOK, RefCountExact, Holds, Finish,
     ReleaseRaceContext, Goto, raceVars
<1>47. CASE UNCHANGED vars
  BY <1>47 DEF TypeOK, PcOK, RefCountExact, Holds, Finish, vars, raceVars
<1>. QED
  BY <1>1, <1>2, <1>3, <1>4, <1>5, <1>6, <1>7, <1>8, <1>9, <1>10, <1>11,
     <1>12, <1>13, <1>14, <1>15, <1>16, <1>17, <1>18, <1>19, <1>20, <1>21,
     <1>22, <1>23, <1>24, <1>25, <1>26, <1>27, <1>28, <1>29, <1>30, <1>31,
     <1>32, <1>33, <1>34, <1>35, <1>36, <1>37, <1>38, <1>39, <1>40, <1>41,
     <1>42, <1>43, <1>44, <1>45, <1>46, <1>47, ThreadNames DEF
     Next, Orchestrator, Http3Thread, CallbackBody, NetworkEvent, Http1Local,
     RaceFinish, Http3OtpravitZapros, Finished

\* The right to send and what has been sent.
LEMMA SenderStep ==
  ASSUME TypeOK, SenderInv, [Next]_vars
  PROVE  SenderInv'
<1>1. CASE StartHttp3
  BY <1>1, ThreadNames DEF TypeOK, PcOK, SenderInv, SingleSender, Sending,
     StartHttp3, Goto, raceVars
<1>2. CASE WindowOver
  BY <1>2, ThreadNames DEF TypeOK, PcOK, SenderInv, SingleSender, Sending,
     WindowOver, Goto, raceVars
<1>3. CASE StartHttp1
  BY <1>3, ThreadNames DEF TypeOK, PcOK, SenderInv, SingleSender, Sending,
     StartHttp1, Goto, raceVars
<1>4. CASE BeginWarm
  BY <1>4, ThreadNames DEF TypeOK, PcOK, SenderInv, SingleSender, Sending,
     BeginWarm, Goto, raceVars
<1>5. CASE BeginCold
  BY <1>5, ThreadNames DEF TypeOK, PcOK, SenderInv, SingleSender, Sending,
     BeginCold, Goto, raceVars
<1>6. CASE BeginPinned
  BY <1>6, ThreadNames DEF TypeOK, PcOK, SenderInv, SingleSender, Sending,
     BeginPinned, Goto, raceVars
<1>7. CASE BeginUnsupported
  BY <1>7, ThreadNames DEF TypeOK, PcOK, SenderInv, SingleSender, Sending,
     BeginUnsupported, Goto, raceVars
<1>8. CASE HandOff
  BY <1>8, ThreadNames DEF TypeOK, PcOK, SenderInv, SingleSender, Sending,
     HandOff, HandOffStarted, HandOffFailed, Goto, raceVars
<1>9. CASE SignalHandOff
  BY <1>9, ThreadNames DEF TypeOK, PcOK, SenderInv, SingleSender, Sending,
     SignalHandOff, Goto, raceVars
<1>10. CASE WaitOver
  BY <1>10, ThreadNames DEF TypeOK, PcOK, SenderInv, SingleSender, Sending,
     WaitOver, Goto, raceVars
<1>11. CASE ReadOutcome
  BY <1>11, ThreadNames DEF TypeOK, PcOK, SenderInv, SingleSender, Sending,
     ReadOutcome, Goto, raceVars
<1>12. CASE ReadSender
  BY <1>12, ThreadNames DEF TypeOK, PcOK, SenderInv, SingleSender, Sending,
     ReadSender, FailureKind, Goto, raceVars
<1>13. CASE CloseRight
  BY <1>13, ThreadNames DEF TypeOK, PcOK, SenderInv, SingleSender, Sending,
     CloseRight, FailureKind, Goto, raceVars
<1>14. CASE Yield
  BY <1>14, ThreadNames DEF TypeOK, PcOK, SenderInv, SingleSender, Sending,
     Yield, Goto, raceVars
<1>15. CASE YieldOver
  BY <1>15, ThreadNames DEF TypeOK, PcOK, SenderInv, SingleSender, Sending,
     YieldOver, Goto, raceVars
<1>16. CASE MarkSuccess
  BY <1>16, ThreadNames DEF TypeOK, PcOK, SenderInv, SingleSender, Sending,
     MarkSuccess, Goto, raceVars
<1>17. CASE CasSuccess
  BY <1>17, ThreadNames DEF TypeOK, PcOK, SenderInv, SingleSender, Sending,
     CasSuccess, Goto, raceVars
<1>18. CASE AddSuccess
  BY <1>18, ThreadNames DEF TypeOK, PcOK, SenderInv, SingleSender, Sending,
     AddSuccess, Goto, raceVars
<1>19. CASE CloseStream
  BY <1>19, ThreadNames DEF TypeOK, PcOK, SenderInv, SingleSender, Sending,
     CloseStream, Goto, raceVars
<1>20. CASE Detach
  BY <1>20, ThreadNames DEF TypeOK, PcOK, SenderInv, SingleSender, Sending,
     Detach, Goto, raceVars
<1>21. CASE FreeState
  BY <1>21, ThreadNames DEF TypeOK, PcOK, SenderInv, SingleSender, Sending,
     FreeState, Goto, raceVars
<1>22. CASE ConnectedProgress
  BY <1>22, ThreadNames DEF TypeOK, PcOK, SenderInv, SingleSender, Sending,
     ConnectedProgress, Touch, Goto, raceVars
<1>23. CASE NotifyShutdown
  BY <1>23, ThreadNames DEF TypeOK, PcOK, SenderInv, SingleSender, Sending,
     NotifyShutdown, Touch, Goto, raceVars
<1>24. CASE NotifyComplete
  BY <1>24, ThreadNames DEF TypeOK, PcOK, SenderInv, SingleSender, Sending,
     NotifyComplete, Touch, Goto, raceVars
<1>25. CASE Connected
  BY <1>25, ThreadNames DEF TypeOK, PcOK, SenderInv, SingleSender, Sending,
     Connected, Goto, raceVars
<1>26. CASE CertificateRefused
  BY <1>26, ThreadNames DEF TypeOK, PcOK, SenderInv, SingleSender, Sending,
     CertificateRefused, Goto, raceVars
<1>27. CASE ShutdownInitiated
  BY <1>27, ThreadNames DEF TypeOK, PcOK, SenderInv, SingleSender, Sending,
     ShutdownInitiated, Goto, raceVars
<1>28. CASE ShutdownComplete
  BY <1>28, ThreadNames DEF TypeOK, PcOK, SenderInv, SingleSender, Sending,
     ShutdownComplete, Goto, raceVars
<1>29. CASE StreamResponse
  BY <1>29, ThreadNames DEF TypeOK, PcOK, SenderInv, SingleSender, Sending,
     StreamResponse, Touch, raceVars
<1>30. CASE StreamShutdown
  BY <1>30, ThreadNames DEF TypeOK, PcOK, SenderInv, SingleSender, Sending,
     StreamShutdown, Touch, raceVars
<1>31. CASE Tick
  BY <1>31, ThreadNames DEF TypeOK, PcOK, SenderInv, SingleSender, Sending,
     Tick, raceVars
<1>32. ASSUME NEW t \in Quic, ClaimQuic(t)
      PROVE  SenderInv'
  <2>0. state'.success = state.success
    BY <1>32 DEF TypeOK, StateType, ClaimQuic
  <2>1. CASE otpravitel = 0
    <3>1. sent = {} /\ \A s \in Quic \cup Tcp : ~Sending(s)
      BY <2>1 DEF SenderInv, TypeOK
    <3>2. \A s \in Quic \cup Tcp : Sending(s)' => s = t
      BY <1>32, <3>1, ThreadNames DEF TypeOK, PcOK, Sending, ClaimQuic, Goto,
         AfterSend
    <3>. QED
      BY <1>32, <2>1, <2>0, <3>1, <3>2, ThreadNames DEF TypeOK, PcOK, SenderInv,
         SingleSender, Sending, ClaimQuic, Goto, raceVars, AfterSend
  <2>2. CASE otpravitel # 0
    BY <1>32, <2>0, <2>2, ThreadNames DEF TypeOK, PcOK, SenderInv, SingleSender,
       Sending, ClaimQuic, Goto, raceVars, AfterSend
  <2>. QED
    BY <2>1, <2>2
<1>33. ASSUME NEW t \in Quic, OpenStream(t)
      PROVE  SenderInv'
  <2>1. state'.success = state.success
    BY <1>33 DEF TypeOK, StateType, OpenStream
  <2>2. \A s \in Quic \cup Tcp : Sending(s)' => Sending(s)
    BY <1>33, ThreadNames DEF TypeOK, PcOK, Sending, OpenStream, AfterSend, Goto
  <2>3. pc'["http3"] \in {"markSuccess", "casSuccess", "addSuccess"} => pc["http3"] = pc'["http3"]
    BY <1>33, ThreadNames DEF TypeOK, PcOK, OpenStream, AfterSend, Goto
  <2>4. \A s \in Tcp : pc'[s] = pc[s]
    BY <1>33, ThreadNames DEF TypeOK, PcOK, OpenStream, AfterSend, Goto
  <2>. QED
    BY <1>33, <2>1, <2>2, <2>3, <2>4 DEF SenderInv, SingleSender, OpenStream,
       raceVars
<1>34. ASSUME NEW t \in Quic, SendStream(t)
      PROVE  SenderInv'
  BY <1>34, ThreadNames DEF TypeOK, PcOK, SenderInv, SingleSender, Sending,
     SendStream, AfterSend, Touch, Goto, raceVars
<1>35. ASSUME NEW t \in Tcp \cup {"http3"}, MarkFailure(t)
      PROVE  SenderInv'
  BY <1>35, ThreadNames DEF TypeOK, PcOK, SenderInv, SingleSender, Sending,
     MarkFailure, Goto, raceVars
<1>36. ASSUME NEW t \in Tcp \cup {"http3"}, CasFailure(t)
      PROVE  SenderInv'
  BY <1>36, ThreadNames DEF TypeOK, PcOK, SenderInv, SingleSender, Sending,
     CasFailure, AfterFinish, Goto, raceVars
<1>37. ASSUME NEW t \in Tcp \cup {"http3"}, AddError(t)
      PROVE  SenderInv'
  BY <1>37, ThreadNames DEF TypeOK, PcOK, SenderInv, SingleSender, Sending,
     AddError, AfterFinish, Goto, raceVars
<1>38. ASSUME NEW t \in Tcp, TcpCheck(t)
      PROVE  SenderInv'
  BY <1>38, ThreadNames DEF TypeOK, PcOK, SenderInv, SingleSender, Sending,
     TcpCheck, Goto, raceVars
<1>39. ASSUME NEW t \in Tcp, TcpPrepare(t)
      PROVE  SenderInv'
  BY <1>39, ThreadNames DEF TypeOK, PcOK, SenderInv, SingleSender, Sending,
     TcpPrepare, Goto, raceVars
<1>40. ASSUME NEW t \in Tcp, TcpRecheck(t)
      PROVE  SenderInv'
  BY <1>40, ThreadNames DEF TypeOK, PcOK, SenderInv, SingleSender, Sending,
     TcpRecheck, Goto, raceVars
<1>41. ASSUME NEW t \in Tcp, TcpClaim(t)
      PROVE  SenderInv'
  <2>1. CASE otpravitel = 0
    <3>1. sent = {} /\ \A s \in Quic \cup Tcp : ~Sending(s)
      BY <2>1 DEF SenderInv, TypeOK
    <3>2. \A s \in Quic \cup Tcp : Sending(s)' => s = t
      BY <1>41, <3>1, ThreadNames DEF TypeOK, PcOK, Sending, TcpClaim, Goto
    <3>. QED
      BY <1>41, <2>1, <3>1, <3>2, ThreadNames DEF TypeOK, PcOK, SenderInv,
         SingleSender, Sending, TcpClaim, Goto, raceVars
  <2>2. CASE otpravitel # 0
    BY <1>41, <2>2, ThreadNames DEF TypeOK, PcOK, SenderInv, SingleSender,
       Sending, TcpClaim, Goto, raceVars
  <2>. QED
    BY <2>1, <2>2
<1>42. ASSUME NEW t \in Tcp, TcpSend(t)
      PROVE  SenderInv'
  BY <1>42, ThreadNames DEF TypeOK, PcOK, SenderInv, SingleSender, Sending,
     TcpSend, Goto, raceVars
<1>43. ASSUME NEW t \in Tcp, TcpJudge(t)
      PROVE  SenderInv'
  BY <1>43, ThreadNames DEF TypeOK, PcOK, SenderInv, SingleSender, Sending,
     TcpJudge, Goto, raceVars
<1>44. ASSUME NEW t \in Tcp, TcpCas(t)
      PROVE  SenderInv'
  BY <1>44, ThreadNames DEF TypeOK, PcOK, SenderInv, SingleSender, Sending,
     TcpCas, Goto, raceVars
<1>45. ASSUME NEW t \in Tcp, AddTcp(t)
      PROVE  SenderInv'
  BY <1>45, ThreadNames DEF TypeOK, PcOK, SenderInv, SingleSender, Sending,
     AddTcp, Goto, raceVars
<1>46. ASSUME NEW t \in Tcp \cup {"http3", "orchestrator"}, ReleaseRaceContext(t)
      PROVE  SenderInv'
  BY <1>46, ThreadNames DEF TypeOK, PcOK, SenderInv, SingleSender, Sending,
     ReleaseRaceContext, Goto, raceVars
<1>47. CASE UNCHANGED vars
  BY <1>47 DEF TypeOK, PcOK, SenderInv, SingleSender, Sending, vars, raceVars
<1>. QED
  BY <1>1, <1>2, <1>3, <1>4, <1>5, <1>6, <1>7, <1>8, <1>9, <1>10, <1>11,
     <1>12, <1>13, <1>14, <1>15, <1>16, <1>17, <1>18, <1>19, <1>20, <1>21,
     <1>22, <1>23, <1>24, <1>25, <1>26, <1>27, <1>28, <1>29, <1>30, <1>31,
     <1>32, <1>33, <1>34, <1>35, <1>36, <1>37, <1>38, <1>39, <1>40, <1>41,
     <1>42, <1>43, <1>44, <1>45, <1>46, <1>47, ThreadNames DEF
     Next, Orchestrator, Http3Thread, CallbackBody, NetworkEvent, Http1Local,
     RaceFinish, Http3OtpravitZapros, Finished

\* The verdict and its publication.
LEMMA AnswerStep ==
  ASSUME TypeOK, SenderInv, AnswerInv, [Next]_vars
  PROVE  AnswerInv'
<1>1. CASE StartHttp3
  BY <1>1, ThreadNames DEF TypeOK, PcOK, SenderInv, AnswerInv, Publishing,
     StartHttp3, Goto, raceVars
<1>2. CASE WindowOver
  BY <1>2, ThreadNames DEF TypeOK, PcOK, SenderInv, AnswerInv, Publishing,
     WindowOver, Goto, raceVars
<1>3. CASE StartHttp1
  BY <1>3, ThreadNames DEF TypeOK, PcOK, SenderInv, AnswerInv, Publishing,
     StartHttp1, Goto, raceVars
<1>4. CASE BeginWarm
  BY <1>4, ThreadNames DEF TypeOK, PcOK, SenderInv, AnswerInv, Publishing,
     BeginWarm, Goto, raceVars
<1>5. CASE BeginCold
  BY <1>5, ThreadNames DEF TypeOK, PcOK, SenderInv, AnswerInv, Publishing,
     BeginCold, Goto, raceVars
<1>6. CASE BeginPinned
  BY <1>6, ThreadNames DEF TypeOK, PcOK, SenderInv, AnswerInv, Publishing,
     BeginPinned, Goto, raceVars
<1>7. CASE BeginUnsupported
  BY <1>7, ThreadNames DEF TypeOK, PcOK, SenderInv, AnswerInv, Publishing,
     BeginUnsupported, Goto, raceVars
<1>8. CASE HandOff
  BY <1>8, ThreadNames DEF TypeOK, PcOK, SenderInv, AnswerInv, Publishing,
     HandOff, HandOffStarted, HandOffFailed, Goto, raceVars
<1>9. CASE SignalHandOff
  BY <1>9, ThreadNames DEF TypeOK, PcOK, SenderInv, AnswerInv, Publishing,
     SignalHandOff, Goto, raceVars
<1>10. CASE WaitOver
  BY <1>10, ThreadNames DEF TypeOK, PcOK, SenderInv, AnswerInv, Publishing,
     WaitOver, Goto, raceVars
<1>11. CASE ReadOutcome
  BY <1>11, ThreadNames DEF TypeOK, PcOK, SenderInv, AnswerInv, Publishing,
     ReadOutcome, Goto, raceVars
<1>12. CASE ReadSender
  BY <1>12, ThreadNames DEF TypeOK, PcOK, SenderInv, AnswerInv, Publishing,
     ReadSender, FailureKind, Goto, raceVars
<1>13. CASE CloseRight
  BY <1>13, ThreadNames DEF TypeOK, PcOK, SenderInv, AnswerInv, Publishing,
     CloseRight, FailureKind, Goto, raceVars
<1>14. CASE Yield
  BY <1>14, ThreadNames DEF TypeOK, PcOK, SenderInv, AnswerInv, Publishing,
     Yield, Goto, raceVars
<1>15. CASE YieldOver
  BY <1>15, ThreadNames DEF TypeOK, PcOK, SenderInv, AnswerInv, Publishing,
     YieldOver, Goto, raceVars
<1>16. CASE MarkSuccess
  BY <1>16, ThreadNames DEF TypeOK, PcOK, SenderInv, AnswerInv, Publishing,
     MarkSuccess, Goto, raceVars
<1>17. CASE CasSuccess
  BY <1>17, ThreadNames DEF TypeOK, PcOK, SenderInv, AnswerInv, Publishing,
     CasSuccess, Goto, raceVars
<1>18. CASE AddSuccess
  BY <1>18, ThreadNames DEF TypeOK, PcOK, SenderInv, AnswerInv, Publishing,
     AddSuccess, Goto, raceVars
<1>19. CASE CloseStream
  BY <1>19, ThreadNames DEF TypeOK, PcOK, SenderInv, AnswerInv, Publishing,
     CloseStream, Goto, raceVars
<1>20. CASE Detach
  BY <1>20, ThreadNames DEF TypeOK, PcOK, SenderInv, AnswerInv, Publishing,
     Detach, Goto, raceVars
<1>21. CASE FreeState
  BY <1>21, ThreadNames DEF TypeOK, PcOK, SenderInv, AnswerInv, Publishing,
     FreeState, Goto, raceVars
<1>22. CASE ConnectedProgress
  BY <1>22, ThreadNames DEF TypeOK, PcOK, SenderInv, AnswerInv, Publishing,
     ConnectedProgress, Touch, Goto, raceVars
<1>23. CASE NotifyShutdown
  BY <1>23, ThreadNames DEF TypeOK, PcOK, SenderInv, AnswerInv, Publishing,
     NotifyShutdown, Touch, Goto, raceVars
<1>24. CASE NotifyComplete
  BY <1>24, ThreadNames DEF TypeOK, PcOK, SenderInv, AnswerInv, Publishing,
     NotifyComplete, Touch, Goto, raceVars
<1>25. CASE Connected
  BY <1>25, ThreadNames DEF TypeOK, PcOK, SenderInv, AnswerInv, Publishing,
     Connected, Goto, raceVars
<1>26. CASE CertificateRefused
  BY <1>26, ThreadNames DEF TypeOK, PcOK, SenderInv, AnswerInv, Publishing,
     CertificateRefused, Goto, raceVars
<1>27. CASE ShutdownInitiated
  BY <1>27, ThreadNames DEF TypeOK, PcOK, SenderInv, AnswerInv, Publishing,
     ShutdownInitiated, Goto, raceVars
<1>28. CASE ShutdownComplete
  BY <1>28, ThreadNames DEF TypeOK, PcOK, SenderInv, AnswerInv, Publishing,
     ShutdownComplete, Goto, raceVars
<1>29. CASE StreamResponse
  BY <1>29, ThreadNames DEF TypeOK, PcOK, SenderInv, AnswerInv, Publishing,
     StreamResponse, Touch, raceVars
<1>30. CASE StreamShutdown
  BY <1>30, ThreadNames DEF TypeOK, PcOK, SenderInv, AnswerInv, Publishing,
     StreamShutdown, Touch, raceVars
<1>31. CASE Tick
  BY <1>31, ThreadNames DEF TypeOK, PcOK, SenderInv, AnswerInv, Publishing,
     Tick, raceVars
<1>32. ASSUME NEW t \in Quic, ClaimQuic(t)
      PROVE  AnswerInv'
  BY <1>32, ThreadNames DEF TypeOK, PcOK, SenderInv, AnswerInv, Publishing,
     ClaimQuic, AfterSend, Touch, Goto, raceVars
<1>33. ASSUME NEW t \in Quic, OpenStream(t)
      PROVE  AnswerInv'
  BY <1>33, ThreadNames DEF TypeOK, PcOK, SenderInv, AnswerInv, Publishing,
     OpenStream, AfterSend, Touch, Goto, raceVars
<1>34. ASSUME NEW t \in Quic, SendStream(t)
      PROVE  AnswerInv'
  BY <1>34, ThreadNames DEF TypeOK, PcOK, SenderInv, AnswerInv, Publishing,
     SendStream, AfterSend, Touch, Goto, raceVars
<1>35. ASSUME NEW t \in Tcp \cup {"http3"}, MarkFailure(t)
      PROVE  AnswerInv'
  BY <1>35, ThreadNames DEF TypeOK, PcOK, SenderInv, AnswerInv, Publishing,
     MarkFailure, Goto, raceVars
<1>36. ASSUME NEW t \in Tcp \cup {"http3"}, CasFailure(t)
      PROVE  AnswerInv'
  BY <1>36, ThreadNames DEF TypeOK, PcOK, SenderInv, AnswerInv, Publishing,
     CasFailure, AfterFinish, Goto, raceVars
<1>37. ASSUME NEW t \in Tcp \cup {"http3"}, AddError(t)
      PROVE  AnswerInv'
  <2>1. results = <<>> /\ winnerAssigned = 3
    BY <1>37, ThreadNames DEF AnswerInv, Publishing, AddError
  <2>2. results' = <<errKind[t]>> /\ errKind[t] \in {"error", "pinfail"}
    BY <1>37, <2>1, ThreadNames DEF TypeOK, AddError
  <2>3. \A s \in Threads : ~Publishing(s)'
    BY <1>37, ThreadNames DEF TypeOK, PcOK, AnswerInv, Publishing, AddError,
       Goto, AfterFinish
  <2>. QED
    BY <1>37, <2>1, <2>2, <2>3, ThreadNames DEF AnswerInv, Publishing, AddError,
       raceVars
<1>38. ASSUME NEW t \in Tcp, TcpCheck(t)
      PROVE  AnswerInv'
  BY <1>38, ThreadNames DEF TypeOK, PcOK, SenderInv, AnswerInv, Publishing,
     TcpCheck, Goto, raceVars
<1>39. ASSUME NEW t \in Tcp, TcpPrepare(t)
      PROVE  AnswerInv'
  BY <1>39, ThreadNames DEF TypeOK, PcOK, SenderInv, AnswerInv, Publishing,
     TcpPrepare, Goto, raceVars
<1>40. ASSUME NEW t \in Tcp, TcpRecheck(t)
      PROVE  AnswerInv'
  BY <1>40, ThreadNames DEF TypeOK, PcOK, SenderInv, AnswerInv, Publishing,
     TcpRecheck, Goto, raceVars
<1>41. ASSUME NEW t \in Tcp, TcpClaim(t)
      PROVE  AnswerInv'
  BY <1>41, ThreadNames DEF TypeOK, PcOK, SenderInv, AnswerInv, Publishing,
     TcpClaim, Goto, raceVars
<1>42. ASSUME NEW t \in Tcp, TcpSend(t)
      PROVE  AnswerInv'
  BY <1>42, ThreadNames DEF TypeOK, PcOK, SenderInv, AnswerInv, Publishing,
     TcpSend, Goto, raceVars
<1>43. ASSUME NEW t \in Tcp, TcpJudge(t)
      PROVE  AnswerInv'
  BY <1>43, ThreadNames DEF TypeOK, PcOK, SenderInv, AnswerInv, Publishing,
     TcpJudge, Goto, raceVars
<1>44. ASSUME NEW t \in Tcp, TcpCas(t)
      PROVE  AnswerInv'
  BY <1>44, ThreadNames DEF TypeOK, PcOK, SenderInv, AnswerInv, Publishing,
     TcpCas, Goto, raceVars
<1>45. ASSUME NEW t \in Tcp, AddTcp(t)
      PROVE  AnswerInv'
  <2>1. results = <<>> /\ winnerAssigned = 2
    BY <1>45, ThreadNames DEF AnswerInv, Publishing, AddTcp
  <2>2. results' = <<"tcp">> /\ t \in sent
    BY <1>45, <2>1, ThreadNames DEF SenderInv, AddTcp
  <2>3. \A s \in Threads : ~Publishing(s)'
    BY <1>45, ThreadNames DEF TypeOK, PcOK, AnswerInv, Publishing, AddTcp, Goto
  <2>. QED
    BY <1>45, <2>1, <2>2, <2>3, ThreadNames DEF AnswerInv, Publishing, AddTcp,
       raceVars
<1>46. ASSUME NEW t \in Tcp \cup {"http3", "orchestrator"}, ReleaseRaceContext(t)
      PROVE  AnswerInv'
  BY <1>46, ThreadNames DEF TypeOK, PcOK, SenderInv, AnswerInv, Publishing,
     ReleaseRaceContext, Goto, raceVars
<1>47. CASE UNCHANGED vars
  BY <1>47 DEF TypeOK, PcOK, SenderInv, AnswerInv, Publishing, vars, raceVars
<1>. QED
  BY <1>1, <1>2, <1>3, <1>4, <1>5, <1>6, <1>7, <1>8, <1>9, <1>10, <1>11,
     <1>12, <1>13, <1>14, <1>15, <1>16, <1>17, <1>18, <1>19, <1>20, <1>21,
     <1>22, <1>23, <1>24, <1>25, <1>26, <1>27, <1>28, <1>29, <1>30, <1>31,
     <1>32, <1>33, <1>34, <1>35, <1>36, <1>37, <1>38, <1>39, <1>40, <1>41,
     <1>42, <1>43, <1>44, <1>45, <1>46, <1>47, ThreadNames DEF
     Next, Orchestrator, Http3Thread, CallbackBody, NetworkEvent, Http1Local,
     RaceFinish, Http3OtpravitZapros, Finished


-----------------------------------------------------------------------------

\* Everything the steps above rest on, as one inductive invariant.
IInv == TypeOK /\ SpawnInv /\ RefCountExact /\ SenderInv /\ AnswerInv

LEMMA IInvInit == Init => IInv
<1>. SUFFICES ASSUME Init PROVE IInv
  OBVIOUS
<1>1. PcOK
  BY ThreadNames DEF Init, PcOK, OrchestratorPc, Http3Pc, CallbackPc, Http1Pc
<1>2. state \in StateType /\ conn \in ConnType
  BY DEF Init, StateType, ConnType
<1>3. errKind \in [Threads -> {"error", "pinfail"}]
  BY DEF Init
<1>4. TypeOK
  <2>1. sent \subseteq Quic \cup Tcp /\ results \in Seq({"quic", "tcp", "error", "pinfail"})
    BY DEF Init
  <2>2. mode \in Modes \cup {"unknown"} /\ quicDoneEvent \in BOOLEAN /\ stale \in BOOLEAN
    BY DEF Init
  <2>3. /\ winnerAssigned \in 0 .. 3 /\ otpravitel \in 0 .. 3
        /\ quicFinished \in 0 .. 2 /\ quicSuccess \in 0 .. 1 /\ quicProgress \in 0 .. 1
        /\ refCount \in 0 .. 4 /\ clock \in 0 .. 2
    BY DEF Init
  <2>. QED
    BY <1>1, <1>2, <1>3, <2>1, <2>2, <2>3 DEF TypeOK
<1>5. SpawnInv /\ RefCountExact
  BY ThreadNames DEF Init, SpawnInv, RefCountExact, Holds, Finish
<1>6. SenderInv
  BY ThreadNames DEF Init, SenderInv, SingleSender, Sending
<1>7. AnswerInv
  BY ThreadNames DEF Init, AnswerInv, Publishing
<1>. QED
  BY <1>4, <1>5, <1>6, <1>7 DEF IInv

\* The count first, its range from the count, and the rest from the types.
LEMMA IInvStep == IInv /\ [Next]_vars => IInv'
<1>. SUFFICES ASSUME IInv, [Next]_vars PROVE IInv'
  OBVIOUS
<1>1. SpawnInv' /\ RefCountExact'
  BY SpawnStep, RefCountStep DEF IInv
<1>2. refCount' \in 0 .. 4
  BY <1>1 DEF RefCountExact, Holds
<1>3. TypeOK'
  BY <1>2, TypeStep DEF IInv
<1>4. SenderInv' /\ AnswerInv'
  BY SenderStep, AnswerStep DEF IInv
<1>. QED
  BY <1>1, <1>3, <1>4 DEF IInv

\* The conjunction is an invariant of every behaviour.
THEOREM InductiveInvariant == Spec => []IInv
BY IInvInit, IInvStep, PTL DEF Spec

\* No thread leaves its control points and the reference count stays between
\* zero and the four threads that can share a race.
THEOREM TypeCorrect == Spec => []TypeOK
BY InductiveInvariant, PTL DEF IInv

\* The race context is freed by the last of its threads: while any of them has
\* not finished, the count is not zero.
THEOREM RefCountCorrect == Spec => []RefCountExact
BY InductiveInvariant, PTL DEF IInv

\* One transport of the process sends the request, in every interleaving.
THEOREM OneSender == Spec => []SingleSender
<1>1. IInv => SingleSender
  BY DEF IInv, SenderInv
<1>. QED
  BY <1>1, InductiveInvariant, PTL

\* AddResult is called once at most, whatever fails.
THEOREM OneResult == Spec => []AtMostOneResult
<1>1. IInv => AtMostOneResult
  BY DEF IInv, AnswerInv, AtMostOneResult
<1>. QED
  BY <1>1, InductiveInvariant, PTL

\* The published outcome belongs to the path that won and that sent.
THEOREM WinnerPublishes == Spec => []ResultMatchesWinner
<1>1. ASSUME IInv PROVE ResultMatchesWinner
  <2>. SUFFICES ASSUME NEW i \in DOMAIN results
                PROVE  CASE results[i] = "quic" -> winnerAssigned = 1 /\ otpravitel = 1 /\ sent \cap Quic # {}
                         [] results[i] = "tcp" -> winnerAssigned = 2 /\ otpravitel = 2 /\ sent \cap Tcp # {}
                         [] OTHER -> winnerAssigned = 3
    BY DEF ResultMatchesWinner
  <2>1. sent \cap Quic # {} => otpravitel = 1
    BY <1>1 DEF IInv, SenderInv
  <2>2. sent \cap Tcp # {} => otpravitel = 2
    BY <1>1, ThreadNames DEF IInv, SenderInv
  <2>3. CASE results = <<"quic">> /\ winnerAssigned = 1 /\ sent \cap Quic # {}
    BY <2>1, <2>3
  <2>4. CASE results = <<"tcp">> /\ winnerAssigned = 2 /\ sent \cap Tcp # {}
    BY <2>2, <2>4
  <2>5. CASE results \in {<<"error">>, <<"pinfail">>} /\ winnerAssigned = 3
    BY <2>5
  <2>. QED
    BY <1>1, <2>3, <2>4, <2>5 DEF IInv, AnswerInv
<1>. QED
  BY <1>1, InductiveInvariant, PTL

-----------------------------------------------------------------------------

\* A QUIC thread that tried to serve the request and is about to report a failure
\* sent the request itself, or closed the right to send, or waited for the deadline
\* with its reserve.  The first two stay so: the right is taken once.
ReportInv ==
  pc["http3"] \in {"markFailure", "casFailure"} /\ mode \in {"cold", "warm"} =>
    otpravitel \in {1, 3} \/ clock = 2

\* Every other thread leaves the right alone once it is taken, and the clock does
\* not go back.
LEMMA ReportStep ==
  ASSUME TypeOK, ReportInv, [Next]_vars
  PROVE  ReportInv'
<1>1. CASE StartHttp3
  BY <1>1, ThreadNames DEF TypeOK, PcOK, ReportInv, StartHttp3, Goto, raceVars
<1>2. CASE WindowOver
  BY <1>2, ThreadNames DEF TypeOK, PcOK, ReportInv, WindowOver, Goto, raceVars
<1>3. CASE StartHttp1
  BY <1>3, ThreadNames DEF TypeOK, PcOK, ReportInv, StartHttp1, Goto, raceVars
<1>4. CASE BeginWarm
  BY <1>4, ThreadNames DEF TypeOK, PcOK, ReportInv, BeginWarm, Goto, raceVars
<1>5. CASE BeginCold
  BY <1>5, ThreadNames DEF TypeOK, PcOK, ReportInv, BeginCold, Goto, raceVars
<1>6. CASE BeginPinned
  BY <1>6, ThreadNames DEF TypeOK, PcOK, ReportInv, BeginPinned, Goto, raceVars
<1>7. CASE BeginUnsupported
  BY <1>7, ThreadNames DEF TypeOK, PcOK, ReportInv, BeginUnsupported, Goto,
     raceVars
<1>8. CASE HandOff
  BY <1>8, ThreadNames DEF TypeOK, PcOK, ReportInv, HandOff, HandOffStarted,
     HandOffFailed, Goto, raceVars
<1>9. CASE SignalHandOff
  BY <1>9, ThreadNames DEF TypeOK, PcOK, ReportInv, SignalHandOff, Goto,
     raceVars
<1>10. CASE WaitOver
  BY <1>10, ThreadNames DEF TypeOK, PcOK, ReportInv, WaitOver, Goto, raceVars
<1>11. CASE ReadOutcome
  BY <1>11, ThreadNames DEF TypeOK, PcOK, ReportInv, ReadOutcome, Goto,
     raceVars
<1>12. CASE ReadSender
  BY <1>12, ThreadNames DEF TypeOK, PcOK, ReportInv, ReadSender, FailureKind,
     Goto, raceVars
<1>13. CASE CloseRight
  BY <1>13, ThreadNames DEF TypeOK, PcOK, ReportInv, CloseRight, FailureKind,
     Goto, raceVars
<1>14. CASE Yield
  BY <1>14, ThreadNames DEF TypeOK, PcOK, ReportInv, Yield, Goto, raceVars
<1>15. CASE YieldOver
  BY <1>15, ThreadNames DEF TypeOK, PcOK, ReportInv, YieldOver, Goto, raceVars
<1>16. CASE MarkSuccess
  BY <1>16, ThreadNames DEF TypeOK, PcOK, ReportInv, MarkSuccess, Goto,
     raceVars
<1>17. CASE CasSuccess
  BY <1>17, ThreadNames DEF TypeOK, PcOK, ReportInv, CasSuccess, Goto, raceVars
<1>18. CASE AddSuccess
  BY <1>18, ThreadNames DEF TypeOK, PcOK, ReportInv, AddSuccess, Goto, raceVars
<1>19. CASE CloseStream
  BY <1>19, ThreadNames DEF TypeOK, PcOK, ReportInv, CloseStream, Goto,
     raceVars
<1>20. CASE Detach
  BY <1>20, ThreadNames DEF TypeOK, PcOK, ReportInv, Detach, Goto, raceVars
<1>21. CASE FreeState
  BY <1>21, ThreadNames DEF TypeOK, PcOK, ReportInv, FreeState, Goto, raceVars
<1>22. CASE ConnectedProgress
  BY <1>22, ThreadNames DEF TypeOK, PcOK, ReportInv, ConnectedProgress, Touch,
     Goto, raceVars
<1>23. CASE NotifyShutdown
  BY <1>23, ThreadNames DEF TypeOK, PcOK, ReportInv, NotifyShutdown, Touch,
     Goto, raceVars
<1>24. CASE NotifyComplete
  BY <1>24, ThreadNames DEF TypeOK, PcOK, ReportInv, NotifyComplete, Touch,
     Goto, raceVars
<1>25. CASE Connected
  BY <1>25, ThreadNames DEF TypeOK, PcOK, ReportInv, Connected, Goto, raceVars
<1>26. CASE CertificateRefused
  BY <1>26, ThreadNames DEF TypeOK, PcOK, ReportInv, CertificateRefused, Goto,
     raceVars
<1>27. CASE ShutdownInitiated
  BY <1>27, ThreadNames DEF TypeOK, PcOK, ReportInv, ShutdownInitiated, Goto,
     raceVars
<1>28. CASE ShutdownComplete
  BY <1>28, ThreadNames DEF TypeOK, PcOK, ReportInv, ShutdownComplete, Goto,
     raceVars
<1>29. CASE StreamResponse
  BY <1>29, ThreadNames DEF TypeOK, PcOK, ReportInv, StreamResponse, Touch,
     raceVars
<1>30. CASE StreamShutdown
  BY <1>30, ThreadNames DEF TypeOK, PcOK, ReportInv, StreamShutdown, Touch,
     raceVars
<1>31. CASE Tick
  BY <1>31, ThreadNames DEF TypeOK, PcOK, ReportInv, Tick, raceVars
<1>32. ASSUME NEW t \in Quic, ClaimQuic(t)
      PROVE  ReportInv'
  BY <1>32, ThreadNames DEF TypeOK, PcOK, ReportInv, ClaimQuic, AfterSend,
     Touch, Goto, raceVars
<1>33. ASSUME NEW t \in Quic, OpenStream(t)
      PROVE  ReportInv'
  BY <1>33, ThreadNames DEF TypeOK, PcOK, ReportInv, OpenStream, AfterSend,
     Touch, Goto, raceVars
<1>34. ASSUME NEW t \in Quic, SendStream(t)
      PROVE  ReportInv'
  BY <1>34, ThreadNames DEF TypeOK, PcOK, ReportInv, SendStream, AfterSend,
     Touch, Goto, raceVars
<1>35. ASSUME NEW t \in Tcp \cup {"http3"}, MarkFailure(t)
      PROVE  ReportInv'
  BY <1>35, ThreadNames DEF TypeOK, PcOK, ReportInv, MarkFailure, Goto,
     raceVars
<1>36. ASSUME NEW t \in Tcp \cup {"http3"}, CasFailure(t)
      PROVE  ReportInv'
  BY <1>36, ThreadNames DEF TypeOK, PcOK, ReportInv, CasFailure, AfterFinish,
     Goto, raceVars
<1>37. ASSUME NEW t \in Tcp \cup {"http3"}, AddError(t)
      PROVE  ReportInv'
  BY <1>37, ThreadNames DEF TypeOK, PcOK, ReportInv, AddError, AfterFinish,
     Goto, raceVars
<1>38. ASSUME NEW t \in Tcp, TcpCheck(t)
      PROVE  ReportInv'
  BY <1>38, ThreadNames DEF TypeOK, PcOK, ReportInv, TcpCheck, Goto, raceVars
<1>39. ASSUME NEW t \in Tcp, TcpPrepare(t)
      PROVE  ReportInv'
  BY <1>39, ThreadNames DEF TypeOK, PcOK, ReportInv, TcpPrepare, Goto, raceVars
<1>40. ASSUME NEW t \in Tcp, TcpRecheck(t)
      PROVE  ReportInv'
  BY <1>40, ThreadNames DEF TypeOK, PcOK, ReportInv, TcpRecheck, Goto, raceVars
<1>41. ASSUME NEW t \in Tcp, TcpClaim(t)
      PROVE  ReportInv'
  BY <1>41, ThreadNames DEF TypeOK, PcOK, ReportInv, TcpClaim, Goto, raceVars
<1>42. ASSUME NEW t \in Tcp, TcpSend(t)
      PROVE  ReportInv'
  BY <1>42, ThreadNames DEF TypeOK, PcOK, ReportInv, TcpSend, Goto, raceVars
<1>43. ASSUME NEW t \in Tcp, TcpJudge(t)
      PROVE  ReportInv'
  BY <1>43, ThreadNames DEF TypeOK, PcOK, ReportInv, TcpJudge, Goto, raceVars
<1>44. ASSUME NEW t \in Tcp, TcpCas(t)
      PROVE  ReportInv'
  BY <1>44, ThreadNames DEF TypeOK, PcOK, ReportInv, TcpCas, Goto, raceVars
<1>45. ASSUME NEW t \in Tcp, AddTcp(t)
      PROVE  ReportInv'
  BY <1>45, ThreadNames DEF TypeOK, PcOK, ReportInv, AddTcp, Goto, raceVars
<1>46. ASSUME NEW t \in Tcp \cup {"http3", "orchestrator"}, ReleaseRaceContext(t)
      PROVE  ReportInv'
  BY <1>46, ThreadNames DEF TypeOK, PcOK, ReportInv, ReleaseRaceContext, Goto,
     raceVars
<1>47. CASE UNCHANGED vars
  BY <1>47 DEF TypeOK, PcOK, ReportInv, vars, raceVars
<1>. QED
  BY <1>1, <1>2, <1>3, <1>4, <1>5, <1>6, <1>7, <1>8, <1>9, <1>10, <1>11,
     <1>12, <1>13, <1>14, <1>15, <1>16, <1>17, <1>18, <1>19, <1>20, <1>21,
     <1>22, <1>23, <1>24, <1>25, <1>26, <1>27, <1>28, <1>29, <1>30, <1>31,
     <1>32, <1>33, <1>34, <1>35, <1>36, <1>37, <1>38, <1>39, <1>40, <1>41,
     <1>42, <1>43, <1>44, <1>45, <1>46, <1>47, ThreadNames DEF
     Next, Orchestrator, Http3Thread, CallbackBody, NetworkEvent, Http1Local,
     RaceFinish, Http3OtpravitZapros, Finished

\* While TCP is sending, the QUIC thread does not answer for it before the deadline
\* with its reserve of 250 ms is over.
THEOREM QuicYields == Spec => QuicLeavesAnswerToTcp
<1>1. Init => ReportInv
  BY ThreadNames DEF Init, ReportInv
<1>2. ASSUME ReportInv PROVE pc["http3"] = "casFailure" /\ pc'["http3"] = "addError"
                             /\ mode \in {"cold", "warm"} /\ otpravitel = 2 => clock = 2
  BY <1>2 DEF ReportInv
<1>. QED
  BY <1>1, <1>2, ReportStep, TypeCorrect, PTL DEF Spec, QuicLeavesAnswerToTcp

-----------------------------------------------------------------------------

\* Only four kinds of step are visible in the abstract machine: taking or
\* closing the right, sending, and the three publications.
LEMMA RefinementStep ==
  ASSUME IInv, [Next]_vars
  PROVE  [Abstract!Next]_Abstract!vars
<1>1. CASE StartHttp3
  BY <1>1 DEF Transmitted, StartHttp3, raceVars, Abstract!vars
<1>2. CASE WindowOver
  BY <1>2 DEF Transmitted, WindowOver, raceVars, Abstract!vars
<1>3. CASE StartHttp1
  BY <1>3 DEF Transmitted, StartHttp1, raceVars, Abstract!vars
<1>4. CASE BeginWarm
  BY <1>4 DEF Transmitted, BeginWarm, raceVars, Abstract!vars
<1>5. CASE BeginCold
  BY <1>5 DEF Transmitted, BeginCold, raceVars, Abstract!vars
<1>6. CASE BeginPinned
  BY <1>6 DEF Transmitted, BeginPinned, raceVars, Abstract!vars
<1>7. CASE BeginUnsupported
  BY <1>7 DEF Transmitted, BeginUnsupported, raceVars, Abstract!vars
<1>8. CASE HandOff
  BY <1>8 DEF Transmitted, HandOff, HandOffStarted, HandOffFailed, raceVars,
     Abstract!vars
<1>9. CASE SignalHandOff
  BY <1>9 DEF Transmitted, SignalHandOff, raceVars, Abstract!vars
<1>10. CASE WaitOver
  BY <1>10 DEF Transmitted, WaitOver, raceVars, Abstract!vars
<1>11. CASE ReadOutcome
  BY <1>11 DEF Transmitted, ReadOutcome, raceVars, Abstract!vars
<1>12. CASE ReadSender
  BY <1>12 DEF Transmitted, ReadSender, raceVars, Abstract!vars
<1>13. CASE CloseRight
  BY <1>13, ThreadNames DEF IInv, TypeOK, Transmitted, CloseRight, raceVars,
     Abstract!Next, Abstract!Claim, Abstract!Transmit, Abstract!Succeed,
     Abstract!Fail, Abstract!vars, Abstract!Protocol
<1>14. CASE Yield
  BY <1>14 DEF Transmitted, Yield, raceVars, Abstract!vars
<1>15. CASE YieldOver
  BY <1>15 DEF Transmitted, YieldOver, raceVars, Abstract!vars
<1>16. CASE MarkSuccess
  BY <1>16 DEF Transmitted, MarkSuccess, raceVars, Abstract!vars
<1>17. CASE CasSuccess
  BY <1>17 DEF Transmitted, CasSuccess, raceVars, Abstract!vars
<1>18. CASE AddSuccess
  <2>1. results = <<>> /\ Transmitted = "quic"
    BY <1>18, ThreadNames DEF IInv, TypeOK, AnswerInv, Publishing, SenderInv,
       Transmitted, AddSuccess
  <2>2. results' = <<"quic">> /\ UNCHANGED <<otpravitel, sent>>
    BY <1>18, <2>1 DEF AddSuccess, raceVars
  <2>. QED
    BY <2>1, <2>2 DEF Abstract!Next, Abstract!Succeed, Transmitted
<1>19. CASE CloseStream
  BY <1>19 DEF Transmitted, CloseStream, raceVars, Abstract!vars
<1>20. CASE Detach
  BY <1>20 DEF Transmitted, Detach, raceVars, Abstract!vars
<1>21. CASE FreeState
  BY <1>21 DEF Transmitted, FreeState, raceVars, Abstract!vars
<1>22. CASE ConnectedProgress
  BY <1>22 DEF Transmitted, ConnectedProgress, raceVars, Abstract!vars
<1>23. CASE NotifyShutdown
  BY <1>23 DEF Transmitted, NotifyShutdown, raceVars, Abstract!vars
<1>24. CASE NotifyComplete
  BY <1>24 DEF Transmitted, NotifyComplete, raceVars, Abstract!vars
<1>25. CASE Connected
  BY <1>25 DEF Transmitted, Connected, raceVars, Abstract!vars
<1>26. CASE CertificateRefused
  BY <1>26 DEF Transmitted, CertificateRefused, raceVars, Abstract!vars
<1>27. CASE ShutdownInitiated
  BY <1>27 DEF Transmitted, ShutdownInitiated, raceVars, Abstract!vars
<1>28. CASE ShutdownComplete
  BY <1>28 DEF Transmitted, ShutdownComplete, raceVars, Abstract!vars
<1>29. CASE StreamResponse
  BY <1>29 DEF Transmitted, StreamResponse, raceVars, Abstract!vars
<1>30. CASE StreamShutdown
  BY <1>30 DEF Transmitted, StreamShutdown, raceVars, Abstract!vars
<1>31. CASE Tick
  BY <1>31 DEF Transmitted, Tick, raceVars, Abstract!vars
<1>32. ASSUME NEW t \in Quic, ClaimQuic(t)
      PROVE  [Abstract!Next]_Abstract!vars
  BY <1>32, ThreadNames DEF IInv, TypeOK, Transmitted, ClaimQuic, raceVars,
     Abstract!Next, Abstract!Claim, Abstract!Transmit, Abstract!Succeed,
     Abstract!Fail, Abstract!vars, Abstract!Protocol
<1>33. ASSUME NEW t \in Quic, OpenStream(t)
      PROVE  [Abstract!Next]_Abstract!vars
  BY <1>33 DEF Transmitted, OpenStream, raceVars, Abstract!vars
<1>34. ASSUME NEW t \in Quic, SendStream(t)
      PROVE  [Abstract!Next]_Abstract!vars
  <2>1. CASE sent' = sent
    BY <1>34, <2>1 DEF Transmitted, SendStream, raceVars, Abstract!vars
  <2>2. CASE sent' = sent \cup {t}
    <3>1. otpravitel = 1 /\ sent = {}
      BY <1>34, ThreadNames DEF IInv, SenderInv, Sending, SendStream
    <3>2. Transmitted = "none" /\ Transmitted' = "quic"
      BY <2>2, <3>1, ThreadNames DEF Transmitted
    <3>3. UNCHANGED <<otpravitel, results>>
      BY <1>34 DEF SendStream, raceVars
    <3>. QED
      BY <3>1, <3>2, <3>3 DEF Abstract!Next, Abstract!Transmit,
         Abstract!Protocol
  <2>. QED
    BY <1>34, <2>1, <2>2 DEF SendStream
<1>35. ASSUME NEW t \in Tcp \cup {"http3"}, MarkFailure(t)
      PROVE  [Abstract!Next]_Abstract!vars
  BY <1>35 DEF Transmitted, MarkFailure, raceVars, Abstract!vars
<1>36. ASSUME NEW t \in Tcp \cup {"http3"}, CasFailure(t)
      PROVE  [Abstract!Next]_Abstract!vars
  BY <1>36 DEF Transmitted, CasFailure, raceVars, Abstract!vars
<1>37. ASSUME NEW t \in Tcp \cup {"http3"}, AddError(t)
      PROVE  [Abstract!Next]_Abstract!vars
  <2>1. results = <<>> /\ errKind[t] \in {"error", "pinfail"}
    BY <1>37, ThreadNames DEF IInv, TypeOK, AnswerInv, Publishing, SenderInv,
       Transmitted, AddError
  <2>2. results' = <<errKind[t]>> /\ UNCHANGED <<otpravitel, sent>>
    BY <1>37, <2>1 DEF AddError, raceVars
  <2>. QED
    BY <2>1, <2>2 DEF Abstract!Next, Abstract!Fail, Transmitted
<1>38. ASSUME NEW t \in Tcp, TcpCheck(t)
      PROVE  [Abstract!Next]_Abstract!vars
  BY <1>38 DEF Transmitted, TcpCheck, raceVars, Abstract!vars
<1>39. ASSUME NEW t \in Tcp, TcpPrepare(t)
      PROVE  [Abstract!Next]_Abstract!vars
  BY <1>39 DEF Transmitted, TcpPrepare, raceVars, Abstract!vars
<1>40. ASSUME NEW t \in Tcp, TcpRecheck(t)
      PROVE  [Abstract!Next]_Abstract!vars
  BY <1>40 DEF Transmitted, TcpRecheck, raceVars, Abstract!vars
<1>41. ASSUME NEW t \in Tcp, TcpClaim(t)
      PROVE  [Abstract!Next]_Abstract!vars
  BY <1>41, ThreadNames DEF IInv, TypeOK, Transmitted, TcpClaim, raceVars,
     Abstract!Next, Abstract!Claim, Abstract!Transmit, Abstract!Succeed,
     Abstract!Fail, Abstract!vars, Abstract!Protocol
<1>42. ASSUME NEW t \in Tcp, TcpSend(t)
      PROVE  [Abstract!Next]_Abstract!vars
  <2>1. CASE sent' = sent
    BY <1>42, <2>1 DEF Transmitted, TcpSend, raceVars, Abstract!vars
  <2>2. CASE sent' = sent \cup {t}
    <3>1. otpravitel = 2 /\ sent = {}
      BY <1>42, ThreadNames DEF IInv, SenderInv, Sending, TcpSend
    <3>2. Transmitted = "none" /\ Transmitted' = "tcp"
      BY <2>2, <3>1, ThreadNames DEF Transmitted
    <3>3. UNCHANGED <<otpravitel, results>>
      BY <1>42 DEF TcpSend, raceVars
    <3>. QED
      BY <3>1, <3>2, <3>3 DEF Abstract!Next, Abstract!Transmit,
         Abstract!Protocol
  <2>. QED
    BY <1>42, <2>1, <2>2 DEF TcpSend
<1>43. ASSUME NEW t \in Tcp, TcpJudge(t)
      PROVE  [Abstract!Next]_Abstract!vars
  BY <1>43 DEF Transmitted, TcpJudge, raceVars, Abstract!vars
<1>44. ASSUME NEW t \in Tcp, TcpCas(t)
      PROVE  [Abstract!Next]_Abstract!vars
  BY <1>44 DEF Transmitted, TcpCas, raceVars, Abstract!vars
<1>45. ASSUME NEW t \in Tcp, AddTcp(t)
      PROVE  [Abstract!Next]_Abstract!vars
  <2>1. results = <<>> /\ Transmitted = "tcp"
    BY <1>45, ThreadNames DEF IInv, TypeOK, AnswerInv, Publishing, SenderInv,
       Transmitted, AddTcp
  <2>2. results' = <<"tcp">> /\ UNCHANGED <<otpravitel, sent>>
    BY <1>45, <2>1 DEF AddTcp, raceVars
  <2>. QED
    BY <2>1, <2>2 DEF Abstract!Next, Abstract!Succeed, Transmitted
<1>46. ASSUME NEW t \in Tcp \cup {"http3", "orchestrator"}, ReleaseRaceContext(t)
      PROVE  [Abstract!Next]_Abstract!vars
  BY <1>46 DEF Transmitted, ReleaseRaceContext, raceVars, Abstract!vars
<1>47. CASE UNCHANGED vars
  BY <1>47 DEF Transmitted, vars, raceVars, Abstract!vars
<1>. QED
  BY <1>1, <1>2, <1>3, <1>4, <1>5, <1>6, <1>7, <1>8, <1>9, <1>10, <1>11,
     <1>12, <1>13, <1>14, <1>15, <1>16, <1>17, <1>18, <1>19, <1>20, <1>21,
     <1>22, <1>23, <1>24, <1>25, <1>26, <1>27, <1>28, <1>29, <1>30, <1>31,
     <1>32, <1>33, <1>34, <1>35, <1>36, <1>37, <1>38, <1>39, <1>40, <1>41,
     <1>42, <1>43, <1>44, <1>45, <1>46, <1>47, ThreadNames DEF
     Next, Orchestrator, Http3Thread, CallbackBody, NetworkEvent, Http1Local,
     RaceFinish, Http3OtpravitZapros, Finished

\* The race implements OneAnswer.
THEOREM Refinement == Spec => RefinesOneAnswer
<1>1. Init => Abstract!Init
  BY DEF Init, Abstract!Init, Transmitted
<1>. QED
  BY <1>1, RefinementStep, InductiveInvariant, PTL DEF Spec, RefinesOneAnswer, Abstract!Spec

=============================================================================
