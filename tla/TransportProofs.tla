--------------------------- MODULE TransportProofs ---------------------------
(***************************************************************************)
(* Proofs about what the requests of Windows share before they can send:   *)
(* modules QuicStart and TcpSession, which share no state.                 *)
(*                                                                         *)
(* QuicStart, for any number of requests, hosts and calls of setPins: what *)
(* a request travels over was judged by pins that are not older than the   *)
(* request, and the first window of the race follows the handshakes        *)
(* measured.                                                               *)
(*                                                                         *)
(* CritInv: MsQuic is opened and its credential loaded once, by the holder *)
(* of g_CritSec.  PinInv: the number of the set, the generation and the    *)
(* flag follow each other in the order setPins writes them.  ConnInv: once *)
(* the credential asks for the certificate, every connection in use or in  *)
(* the pool was judged by a set at least as new as its generation.         *)
(* TableInv: a host has one slot of the table of handshakes, and its mean  *)
(* lies between two of the handshakes measured since.                      *)
(*                                                                         *)
(* TcpSession, for any number of TCP threads and of QUIC wins and any      *)
(* length of the streak: an open session is the shared one or has one      *)
(* closer.                                                                 *)
(*                                                                         *)
(* CountInv ties the two counters to the threads, which bounds them and    *)
(* makes the closer's second look (inFlight = 0) say something about the   *)
(* threads; LockInv is mutual exclusion of the closers; SharedInv follows  *)
(* every open session from the global to the thread that closes it.        *)
(***************************************************************************)
EXTENDS QuicStart, TcpSession, FiniteSetTheorems, WellFoundedInduction, TLAPS

Inside == {"opening", "cred", "plain", "mark", "leave"}

\* The thread inside g_CritSec, what it finds and what it leaves.
CritInv ==
  /\ \A t \in Requests : pc[t] \in Inside <=> crit = t
  /\ msquic[3] = 1 => msquic[1] = 1 /\ msquic[2] = 1
  /\ msquic[3] = 0 => cred = "none" /\ ~bezPrivyazki
  /\ \A t \in Requests :
       /\ pc[t] \in {"cred", "plain", "mark"} => msquic[3] = 1 /\ ~bezPrivyazki
       /\ pc[t] \in {"cred", "plain"} => cred = "none"
       /\ pc[t] = "mark" => cred # "pinned"
  /\ bezPrivyazki => cred # "pinned"

\* What setPins has written of a set when the next thing is still to be written.
PinInv ==
  /\ setter.at \in {"idle", "store"} => pokolenie = piny.nabor
  /\ setter.at = "store" => piny.nabor < LastNabor
  /\ pokolenie <= piny.nabor
  /\ setter.at \in {"est", "bump"} => piny.hosty = setter.hosty
  /\ ~pinyEst /\ setter.at # "est" => piny.hosty = {}
  /\ begun \in [Requests -> Nat]
  /\ \A t \in Requests :
       /\ begun[t] <= pokolenie
       /\ pc[t] # "idle" /\ (~pinyEst \/ host[t] \notin piny.hosty) => uncovered[t]

Connections == [host : Hosts \cup {None}, pokolenie : Nat, seen : Int]
Judged(c) == c.seen >= c.pokolenie

\* What threads and connections are worth once the credential is loaded.
ConnInv ==
  /\ conn \in [Requests -> Connections] /\ pool \subseteq Connections
  /\ uncovered \in [Requests -> BOOLEAN] /\ early \in [Requests -> BOOLEAN]
  /\ cred = "none" => pool = {} /\ \A t \in Requests : pc[t] \notin {"certificate", "shake", "sent", "done"}
  /\ cred = "pinned" => \A c \in pool : Judged(c)
  /\ \A t \in Requests :
       /\ pc[t] \in {"start", "certificate"} => conn[t].pokolenie <= piny.nabor
       /\ pc[t] \in {"shake", "sent", "done"} /\ cred = "pinned" =>
            Judged(conn[t]) /\ conn[t].seen >= begun[t]
       /\ pc[t] \in {"reach", "take", "open", "start", "certificate", "shake", "sent", "done"} =>
            early[t] \/ uncovered[t] \/ cred = "pinned"

IInv == TypeOK /\ CritInv /\ PinInv /\ ConnInv

\* Every action keeps the types; what another thread has opened is not opened again.
LEMMA TypeStep ==
  ASSUME IInv, [Next]_vars
  PROVE  TypeOK'
<1>1. ASSUME NEW h \in Hosts, NEW t \in Requests, Begin(t, h)
      PROVE  TypeOK'
  BY <1>1, StartAssumption DEF IInv, TypeOK, CritInv, PinInv, Inside, Places, CritFree,
     Begin, Goto, loadVars, pinVars, history
<1>2. ASSUME NEW hosty \in Nabory, SetPins(hosty)
      PROVE  TypeOK'
  BY <1>2, StartAssumption DEF IInv, TypeOK, CritInv, PinInv, Inside, Places, CritFree,
     SetPins, Goto, loadVars, pinVars, history
<1>3. CASE StorePins
  BY <1>3, StartAssumption DEF IInv, TypeOK, CritInv, PinInv, Inside, Places, CritFree,
     StorePins, Store, Goto, loadVars, pinVars, history
<1>4. CASE MarkPins
  BY <1>4, StartAssumption DEF IInv, TypeOK, CritInv, PinInv, Inside, Places, CritFree,
     MarkPins, Goto, loadVars, pinVars, history
<1>5. CASE BumpPins
  BY <1>5, StartAssumption DEF IInv, TypeOK, CritInv, PinInv, Inside, Places, CritFree,
     BumpPins, Goto, loadVars, pinVars, history
<1>6. ASSUME NEW t \in Requests, Look(t)
      PROVE  TypeOK'
  BY <1>6, StartAssumption DEF IInv, TypeOK, CritInv, PinInv, Inside, Places, CritFree,
     Look, Goto, loadVars, pinVars, history
<1>7. ASSUME NEW t \in Requests, Enter(t)
      PROVE  TypeOK'
  BY <1>7, StartAssumption DEF IInv, TypeOK, CritInv, PinInv, Inside, Places, CritFree,
     Enter, Goto, loadVars, pinVars, history
<1>8. ASSUME NEW t \in Requests, OpenMsQuic(t)
      PROVE  TypeOK'
  BY <1>8, StartAssumption DEF IInv, TypeOK, CritInv, PinInv, Inside, Places, CritFree,
     OpenMsQuic, Goto, loadVars, pinVars, history
<1>9. ASSUME NEW t \in Requests, LoadCredential(t)
      PROVE  TypeOK'
  BY <1>9, StartAssumption DEF IInv, TypeOK, CritInv, PinInv, Inside, Places, CritFree,
     LoadCredential, Goto, loadVars, pinVars, history
<1>10. ASSUME NEW t \in Requests, LoadPlain(t)
      PROVE  TypeOK'
  BY <1>10, StartAssumption DEF IInv, TypeOK, CritInv, PinInv, Inside, Places, CritFree,
     LoadPlain, Goto, loadVars, pinVars, history
<1>11. ASSUME NEW t \in Requests, MarkBezPrivyazki(t)
      PROVE  TypeOK'
  BY <1>11, StartAssumption DEF IInv, TypeOK, CritInv, PinInv, Inside, Places, CritFree,
     MarkBezPrivyazki, Goto, loadVars, pinVars, history
<1>12. ASSUME NEW t \in Requests, Leave(t)
      PROVE  TypeOK'
  BY <1>12, StartAssumption DEF IInv, TypeOK, CritInv, PinInv, Inside, Places, CritFree,
     Leave, Goto, loadVars, pinVars, history
<1>13. ASSUME NEW t \in Requests, LookAtFlag(t)
      PROVE  TypeOK'
  BY <1>13, StartAssumption DEF IInv, TypeOK, CritInv, PinInv, Inside, Places, CritFree,
     LookAtFlag, Goto, loadVars, pinVars, history
<1>14. ASSUME NEW t \in Requests, LookUpPins(t)
      PROVE  TypeOK'
  BY <1>14, StartAssumption DEF IInv, TypeOK, CritInv, PinInv, Inside, Places, CritFree,
     LookUpPins, Goto, loadVars, pinVars, history
<1>15. ASSUME NEW t \in Requests, Reach(t)
      PROVE  TypeOK'
  BY <1>15, StartAssumption DEF IInv, TypeOK, CritInv, PinInv, Inside, Places, CritFree,
     Reach, Goto, loadVars, pinVars, history
<1>16. ASSUME NEW t \in Requests, PoolTake(t)
      PROVE  TypeOK'
  BY <1>16, StartAssumption DEF IInv, TypeOK, CritInv, PinInv, Inside, Places, CritFree,
     PoolTake, Goto, loadVars, pinVars, history
<1>17. ASSUME NEW t \in Requests, OpenConnection(t)
      PROVE  TypeOK'
  BY <1>17, StartAssumption DEF IInv, TypeOK, CritInv, PinInv, Inside, Places, CritFree,
     OpenConnection, Goto, loadVars, pinVars, history
<1>18. ASSUME NEW t \in Requests, StartConnection(t)
      PROVE  TypeOK'
  BY <1>18, StartAssumption DEF IInv, TypeOK, CritInv, PinInv, Inside, Places, CritFree,
     StartConnection, Goto, loadVars, pinVars, history
<1>19. ASSUME NEW t \in Requests, CertificateReceived(t)
      PROVE  TypeOK'
  BY <1>19, StartAssumption DEF IInv, TypeOK, CritInv, PinInv, Inside, Places, CritFree,
     CertificateReceived, Goto, loadVars, pinVars, history
<1>20. ASSUME NEW t \in Requests, HandshakeFails(t)
      PROVE  TypeOK'
  BY <1>20, StartAssumption DEF IInv, TypeOK, CritInv, PinInv, Inside, Places, CritFree,
     HandshakeFails, Goto, loadVars, pinVars, history
<1>21. ASSUME NEW t \in Requests, PoolReturn(t)
      PROVE  TypeOK'
  BY <1>21, StartAssumption DEF IInv, TypeOK, CritInv, PinInv, Inside, Places, CritFree,
     PoolReturn, Goto, loadVars, pinVars, history
<1>22. ASSUME NEW t \in Requests, NEW ms \in Samples, Connected(t, ms)
      PROVE  TypeOK'
  BY <1>22, StartAssumption DEF IInv, TypeOK, CritInv, PinInv, Inside, Places, CritFree,
     Connected, Goto, loadVars, pinVars, history
<1>23. CASE UNCHANGED vars
  BY <1>23 DEF IInv, TypeOK, vars, loadVars, pinVars, history
<1>. QED
  BY <1>1, <1>2, <1>3, <1>4, <1>5, <1>6, <1>7, <1>8, <1>9, <1>10, <1>11, <1>12, <1>13,
     <1>14, <1>15, <1>16, <1>17, <1>18, <1>19, <1>20, <1>21, <1>22, <1>23
     DEF Next

\* Every action keeps CritInv.
LEMMA CritStep ==
  ASSUME IInv, [Next]_vars
  PROVE  CritInv'
<1>1. ASSUME NEW h \in Hosts, NEW t \in Requests, Begin(t, h)
      PROVE  CritInv'
  BY <1>1, StartAssumption DEF IInv, TypeOK, CritInv, Inside, Places, CritFree, Begin,
     Goto, loadVars, pinVars, history
<1>2. ASSUME NEW hosty \in Nabory, SetPins(hosty)
      PROVE  CritInv'
  BY <1>2, StartAssumption DEF IInv, TypeOK, CritInv, Inside, Places, CritFree, SetPins,
     Goto, loadVars, pinVars, history
<1>3. CASE StorePins
  BY <1>3, StartAssumption DEF IInv, TypeOK, CritInv, Inside, Places, CritFree, StorePins,
     Store, Goto, loadVars, pinVars, history
<1>4. CASE MarkPins
  BY <1>4, StartAssumption DEF IInv, TypeOK, CritInv, Inside, Places, CritFree, MarkPins,
     Goto, loadVars, pinVars, history
<1>5. CASE BumpPins
  BY <1>5, StartAssumption DEF IInv, TypeOK, CritInv, Inside, Places, CritFree, BumpPins,
     Goto, loadVars, pinVars, history
<1>6. ASSUME NEW t \in Requests, Look(t)
      PROVE  CritInv'
  BY <1>6, StartAssumption DEF IInv, TypeOK, CritInv, Inside, Places, CritFree, Look, Goto,
     loadVars, pinVars, history
<1>7. ASSUME NEW t \in Requests, Enter(t)
      PROVE  CritInv'
  BY <1>7, StartAssumption DEF IInv, TypeOK, CritInv, Inside, Places, CritFree, Enter,
     Goto, loadVars, pinVars, history
<1>8. ASSUME NEW t \in Requests, OpenMsQuic(t)
      PROVE  CritInv'
  BY <1>8, StartAssumption DEF IInv, TypeOK, CritInv, Inside, Places, CritFree, OpenMsQuic,
     Goto, loadVars, pinVars, history
<1>9. ASSUME NEW t \in Requests, LoadCredential(t)
      PROVE  CritInv'
  BY <1>9, StartAssumption DEF IInv, TypeOK, CritInv, Inside, Places, CritFree,
     LoadCredential, Goto, loadVars, pinVars, history
<1>10. ASSUME NEW t \in Requests, LoadPlain(t)
      PROVE  CritInv'
  BY <1>10, StartAssumption DEF IInv, TypeOK, CritInv, Inside, Places, CritFree, LoadPlain,
     Goto, loadVars, pinVars, history
<1>11. ASSUME NEW t \in Requests, MarkBezPrivyazki(t)
      PROVE  CritInv'
  BY <1>11, StartAssumption DEF IInv, TypeOK, CritInv, Inside, Places, CritFree,
     MarkBezPrivyazki, Goto, loadVars, pinVars, history
<1>12. ASSUME NEW t \in Requests, Leave(t)
      PROVE  CritInv'
  BY <1>12, StartAssumption DEF IInv, TypeOK, CritInv, Inside, Places, CritFree, Leave,
     Goto, loadVars, pinVars, history
<1>13. ASSUME NEW t \in Requests, LookAtFlag(t)
      PROVE  CritInv'
  BY <1>13, StartAssumption DEF IInv, TypeOK, CritInv, Inside, Places, CritFree,
     LookAtFlag, Goto, loadVars, pinVars, history
<1>14. ASSUME NEW t \in Requests, LookUpPins(t)
      PROVE  CritInv'
  BY <1>14, StartAssumption DEF IInv, TypeOK, CritInv, Inside, Places, CritFree,
     LookUpPins, Goto, loadVars, pinVars, history
<1>15. ASSUME NEW t \in Requests, Reach(t)
      PROVE  CritInv'
  BY <1>15, StartAssumption DEF IInv, TypeOK, CritInv, Inside, Places, CritFree, Reach,
     Goto, loadVars, pinVars, history
<1>16. ASSUME NEW t \in Requests, PoolTake(t)
      PROVE  CritInv'
  BY <1>16, StartAssumption DEF IInv, TypeOK, CritInv, Inside, Places, CritFree, PoolTake,
     Goto, loadVars, pinVars, history
<1>17. ASSUME NEW t \in Requests, OpenConnection(t)
      PROVE  CritInv'
  BY <1>17, StartAssumption DEF IInv, TypeOK, CritInv, Inside, Places, CritFree,
     OpenConnection, Goto, loadVars, pinVars, history
<1>18. ASSUME NEW t \in Requests, StartConnection(t)
      PROVE  CritInv'
  BY <1>18, StartAssumption DEF IInv, TypeOK, CritInv, Inside, Places, CritFree,
     StartConnection, Goto, loadVars, pinVars, history
<1>19. ASSUME NEW t \in Requests, CertificateReceived(t)
      PROVE  CritInv'
  BY <1>19, StartAssumption DEF IInv, TypeOK, CritInv, Inside, Places, CritFree,
     CertificateReceived, Goto, loadVars, pinVars, history
<1>20. ASSUME NEW t \in Requests, HandshakeFails(t)
      PROVE  CritInv'
  BY <1>20, StartAssumption DEF IInv, TypeOK, CritInv, Inside, Places, CritFree,
     HandshakeFails, Goto, loadVars, pinVars, history
<1>21. ASSUME NEW t \in Requests, PoolReturn(t)
      PROVE  CritInv'
  BY <1>21, StartAssumption DEF IInv, TypeOK, CritInv, Inside, Places, CritFree,
     PoolReturn, Goto, loadVars, pinVars, history
<1>22. ASSUME NEW t \in Requests, NEW ms \in Samples, Connected(t, ms)
      PROVE  CritInv'
  BY <1>22, StartAssumption DEF IInv, TypeOK, CritInv, Inside, Places, CritFree, Connected,
     Goto, loadVars, pinVars, history
<1>23. CASE UNCHANGED vars
  BY <1>23 DEF IInv, CritInv, vars, loadVars, pinVars, history
<1>. QED
  BY <1>1, <1>2, <1>3, <1>4, <1>5, <1>6, <1>7, <1>8, <1>9, <1>10, <1>11, <1>12, <1>13,
     <1>14, <1>15, <1>16, <1>17, <1>18, <1>19, <1>20, <1>21, <1>22, <1>23
     DEF Next

\* Every action keeps PinInv.
LEMMA PinStep ==
  ASSUME IInv, [Next]_vars
  PROVE  PinInv'
<1>1. ASSUME NEW h \in Hosts, NEW t \in Requests, Begin(t, h)
      PROVE  PinInv'
  <2>1. UNCHANGED pinVars
    BY <1>1 DEF Begin
  <2>2. /\ pc' = [pc EXCEPT ![t] = "look"] /\ host' = [host EXCEPT ![t] = h]
        /\ begun' = [begun EXCEPT ![t] = piny.nabor]
        /\ uncovered' = [uncovered EXCEPT ![t] = h \notin piny.hosty]
        /\ setter.at = "idle"
    BY <1>1 DEF Begin, Goto
  <2>3. piny.nabor \in Nat /\ piny.nabor = pokolenie /\ (~pinyEst => h \notin piny.hosty)
    BY <2>2, StartAssumption DEF IInv, TypeOK, PinInv
  <2>4. ASSUME NEW u \in Requests
        PROVE  /\ begun'[u] <= pokolenie'
               /\ pc'[u] # "idle" /\ (~pinyEst' \/ host'[u] \notin piny'.hosty) => uncovered'[u]
    <3>1. CASE u = t
      <4>1. begun'[t] = piny.nabor
        BY <2>2 DEF IInv, PinInv
      <4>2. host'[t] = h /\ (h \notin piny.hosty => uncovered'[t])
        BY <2>2 DEF IInv, TypeOK, PinInv, ConnInv
      <4>. QED
        <5>1. begun'[u] <= pokolenie'
          BY <2>1, <2>3, <3>1, <4>1 DEF pinVars
        <5>2. ~pinyEst' \/ host'[u] \notin piny'.hosty => uncovered'[u]
          BY <2>1, <2>3, <3>1, <4>2 DEF pinVars
        <5>. QED
          BY <5>1, <5>2
    <3>2. CASE u # t
      <4>1. begun'[u] = begun[u] /\ uncovered'[u] = uncovered[u] /\ pc'[u] = pc[u] /\ host'[u] = host[u]
        BY <2>2, <3>2 DEF IInv, TypeOK, PinInv, ConnInv
      <4>. QED
        BY <2>1, <4>1 DEF IInv, PinInv, pinVars
    <3>. QED
      BY <3>1, <3>2
  <2>5. begun' \in [Requests -> Nat]
    BY <2>2, <2>3 DEF IInv, PinInv
  <2>. QED
    BY <2>1, <2>4, <2>5 DEF IInv, PinInv, pinVars
<1>2. ASSUME NEW hosty \in Nabory, SetPins(hosty)
      PROVE  PinInv'
  BY <1>2, StartAssumption DEF IInv, TypeOK, PinInv, CritInv, ConnInv, Inside, CritFree,
     SetPins, Goto, loadVars, pinVars, history
<1>3. CASE StorePins
  BY <1>3, StartAssumption DEF IInv, TypeOK, PinInv, CritInv, ConnInv, Inside, CritFree,
     StorePins, Store, Goto, loadVars, pinVars, history
<1>4. CASE MarkPins
  BY <1>4, StartAssumption DEF IInv, TypeOK, PinInv, CritInv, ConnInv, Inside, CritFree,
     MarkPins, Goto, loadVars, pinVars, history
<1>5. CASE BumpPins
  BY <1>5, StartAssumption DEF IInv, TypeOK, PinInv, CritInv, ConnInv, Inside, CritFree,
     BumpPins, Goto, loadVars, pinVars, history
<1>6. ASSUME NEW t \in Requests, Look(t)
      PROVE  PinInv'
  BY <1>6, StartAssumption DEF IInv, TypeOK, PinInv, CritInv, ConnInv, Inside, CritFree,
     Look, Goto, loadVars, pinVars, history
<1>7. ASSUME NEW t \in Requests, Enter(t)
      PROVE  PinInv'
  BY <1>7, StartAssumption DEF IInv, TypeOK, PinInv, CritInv, ConnInv, Inside, CritFree,
     Enter, Goto, loadVars, pinVars, history
<1>8. ASSUME NEW t \in Requests, OpenMsQuic(t)
      PROVE  PinInv'
  BY <1>8, StartAssumption DEF IInv, TypeOK, PinInv, CritInv, ConnInv, Inside, CritFree,
     OpenMsQuic, Goto, loadVars, pinVars, history
<1>9. ASSUME NEW t \in Requests, LoadCredential(t)
      PROVE  PinInv'
  BY <1>9, StartAssumption DEF IInv, TypeOK, PinInv, CritInv, ConnInv, Inside, CritFree,
     LoadCredential, Goto, loadVars, pinVars, history
<1>10. ASSUME NEW t \in Requests, LoadPlain(t)
      PROVE  PinInv'
  BY <1>10, StartAssumption DEF IInv, TypeOK, PinInv, CritInv, ConnInv, Inside, CritFree,
     LoadPlain, Goto, loadVars, pinVars, history
<1>11. ASSUME NEW t \in Requests, MarkBezPrivyazki(t)
      PROVE  PinInv'
  BY <1>11, StartAssumption DEF IInv, TypeOK, PinInv, CritInv, ConnInv, Inside, CritFree,
     MarkBezPrivyazki, Goto, loadVars, pinVars, history
<1>12. ASSUME NEW t \in Requests, Leave(t)
      PROVE  PinInv'
  BY <1>12, StartAssumption DEF IInv, TypeOK, PinInv, CritInv, ConnInv, Inside, CritFree,
     Leave, Goto, loadVars, pinVars, history
<1>13. ASSUME NEW t \in Requests, LookAtFlag(t)
      PROVE  PinInv'
  BY <1>13, StartAssumption DEF IInv, TypeOK, PinInv, CritInv, ConnInv, Inside, CritFree,
     LookAtFlag, Goto, loadVars, pinVars, history
<1>14. ASSUME NEW t \in Requests, LookUpPins(t)
      PROVE  PinInv'
  BY <1>14, StartAssumption DEF IInv, TypeOK, PinInv, CritInv, ConnInv, Inside, CritFree,
     LookUpPins, Goto, loadVars, pinVars, history
<1>15. ASSUME NEW t \in Requests, Reach(t)
      PROVE  PinInv'
  BY <1>15, StartAssumption DEF IInv, TypeOK, PinInv, CritInv, ConnInv, Inside, CritFree,
     Reach, Goto, loadVars, pinVars, history
<1>16. ASSUME NEW t \in Requests, PoolTake(t)
      PROVE  PinInv'
  BY <1>16, StartAssumption DEF IInv, TypeOK, PinInv, CritInv, ConnInv, Inside, CritFree,
     PoolTake, Goto, loadVars, pinVars, history
<1>17. ASSUME NEW t \in Requests, OpenConnection(t)
      PROVE  PinInv'
  BY <1>17, StartAssumption DEF IInv, TypeOK, PinInv, CritInv, ConnInv, Inside, CritFree,
     OpenConnection, Goto, loadVars, pinVars, history
<1>18. ASSUME NEW t \in Requests, StartConnection(t)
      PROVE  PinInv'
  BY <1>18, StartAssumption DEF IInv, TypeOK, PinInv, CritInv, ConnInv, Inside, CritFree,
     StartConnection, Goto, loadVars, pinVars, history
<1>19. ASSUME NEW t \in Requests, CertificateReceived(t)
      PROVE  PinInv'
  BY <1>19, StartAssumption DEF IInv, TypeOK, PinInv, CritInv, ConnInv, Inside, CritFree,
     CertificateReceived, Goto, loadVars, pinVars, history
<1>20. ASSUME NEW t \in Requests, HandshakeFails(t)
      PROVE  PinInv'
  BY <1>20, StartAssumption DEF IInv, TypeOK, PinInv, CritInv, ConnInv, Inside, CritFree,
     HandshakeFails, Goto, loadVars, pinVars, history
<1>21. ASSUME NEW t \in Requests, PoolReturn(t)
      PROVE  PinInv'
  BY <1>21, StartAssumption DEF IInv, TypeOK, PinInv, CritInv, ConnInv, Inside, CritFree,
     PoolReturn, Goto, loadVars, pinVars, history
<1>22. ASSUME NEW t \in Requests, NEW ms \in Samples, Connected(t, ms)
      PROVE  PinInv'
  BY <1>22, StartAssumption DEF IInv, TypeOK, PinInv, CritInv, ConnInv, Inside, CritFree,
     Connected, Goto, loadVars, pinVars, history
<1>23. CASE UNCHANGED vars
  BY <1>23 DEF IInv, PinInv, vars, loadVars, pinVars, history
<1>. QED
  BY <1>1, <1>2, <1>3, <1>4, <1>5, <1>6, <1>7, <1>8, <1>9, <1>10, <1>11, <1>12, <1>13,
     <1>14, <1>15, <1>16, <1>17, <1>18, <1>19, <1>20, <1>21, <1>22, <1>23
     DEF Next

\* Every action keeps ConnInv.
LEMMA ConnStep ==
  ASSUME IInv, [Next]_vars
  PROVE  ConnInv'
<1>1. ASSUME NEW h \in Hosts, NEW t \in Requests, Begin(t, h)
      PROVE  ConnInv'
  BY <1>1, StartAssumption DEF IInv, TypeOK, CritInv, PinInv, ConnInv, Inside, Connections,
     Judged, Pinned, Ready, NoConn, Begin, Goto, loadVars, pinVars, history
<1>2. ASSUME NEW hosty \in Nabory, SetPins(hosty)
      PROVE  ConnInv'
  BY <1>2, StartAssumption DEF IInv, TypeOK, CritInv, PinInv, ConnInv, Inside, Connections,
     Judged, Pinned, Ready, NoConn, SetPins, Goto, loadVars, pinVars, history
<1>3. CASE StorePins
  BY <1>3, StartAssumption DEF IInv, TypeOK, CritInv, PinInv, ConnInv, Inside, Connections,
     Judged, Pinned, Ready, NoConn, StorePins, Store, Goto, loadVars, pinVars, history
<1>4. CASE MarkPins
  BY <1>4, StartAssumption DEF IInv, TypeOK, CritInv, PinInv, ConnInv, Inside, Connections,
     Judged, Pinned, Ready, NoConn, MarkPins, Goto, loadVars, pinVars, history
<1>5. CASE BumpPins
  BY <1>5, StartAssumption DEF IInv, TypeOK, CritInv, PinInv, ConnInv, Inside, Connections,
     Judged, Pinned, Ready, NoConn, BumpPins, Goto, loadVars, pinVars, history
<1>6. ASSUME NEW t \in Requests, Look(t)
      PROVE  ConnInv'
  BY <1>6, StartAssumption DEF IInv, TypeOK, CritInv, PinInv, ConnInv, Inside, Connections,
     Judged, Pinned, Ready, NoConn, Look, Goto, loadVars, pinVars, history
<1>7. ASSUME NEW t \in Requests, Enter(t)
      PROVE  ConnInv'
  BY <1>7, StartAssumption DEF IInv, TypeOK, CritInv, PinInv, ConnInv, Inside, Connections,
     Judged, Pinned, Ready, NoConn, Enter, Goto, loadVars, pinVars, history
<1>8. ASSUME NEW t \in Requests, OpenMsQuic(t)
      PROVE  ConnInv'
  BY <1>8, StartAssumption DEF IInv, TypeOK, CritInv, PinInv, ConnInv, Inside, Connections,
     Judged, Pinned, Ready, NoConn, OpenMsQuic, Goto, loadVars, pinVars, history
<1>9. ASSUME NEW t \in Requests, LoadCredential(t)
      PROVE  ConnInv'
  BY <1>9, StartAssumption DEF IInv, TypeOK, CritInv, PinInv, ConnInv, Inside, Connections,
     Judged, Pinned, Ready, NoConn, LoadCredential, Goto, loadVars, pinVars, history
<1>10. ASSUME NEW t \in Requests, LoadPlain(t)
      PROVE  ConnInv'
  BY <1>10, StartAssumption DEF IInv, TypeOK, CritInv, PinInv, ConnInv, Inside,
     Connections, Judged, Pinned, Ready, NoConn, LoadPlain, Goto, loadVars, pinVars, history
<1>11. ASSUME NEW t \in Requests, MarkBezPrivyazki(t)
      PROVE  ConnInv'
  BY <1>11, StartAssumption DEF IInv, TypeOK, CritInv, PinInv, ConnInv, Inside,
     Connections, Judged, Pinned, Ready, NoConn, MarkBezPrivyazki, Goto, loadVars, pinVars,
     history
<1>12. ASSUME NEW t \in Requests, Leave(t)
      PROVE  ConnInv'
  BY <1>12, StartAssumption DEF IInv, TypeOK, CritInv, PinInv, ConnInv, Inside,
     Connections, Judged, Pinned, Ready, NoConn, Leave, Goto, loadVars, pinVars, history
<1>13. ASSUME NEW t \in Requests, LookAtFlag(t)
      PROVE  ConnInv'
  BY <1>13, StartAssumption DEF IInv, TypeOK, CritInv, PinInv, ConnInv, Inside,
     Connections, Judged, Pinned, Ready, NoConn, LookAtFlag, Goto, loadVars, pinVars,
     history
<1>14. ASSUME NEW t \in Requests, LookUpPins(t)
      PROVE  ConnInv'
  BY <1>14, StartAssumption DEF IInv, TypeOK, CritInv, PinInv, ConnInv, Inside,
     Connections, Judged, Pinned, Ready, NoConn, LookUpPins, Goto, loadVars, pinVars,
     history
<1>15. ASSUME NEW t \in Requests, Reach(t)
      PROVE  ConnInv'
  BY <1>15, StartAssumption DEF IInv, TypeOK, CritInv, PinInv, ConnInv, Inside,
     Connections, Judged, Pinned, Ready, NoConn, Reach, Goto, loadVars, pinVars, history
<1>16. ASSUME NEW t \in Requests, PoolTake(t)
      PROVE  ConnInv'
  BY <1>16, StartAssumption DEF IInv, TypeOK, CritInv, PinInv, ConnInv, Inside,
     Connections, Judged, Pinned, Ready, NoConn, PoolTake, Goto, loadVars, pinVars, history
<1>17. ASSUME NEW t \in Requests, OpenConnection(t)
      PROVE  ConnInv'
  BY <1>17, StartAssumption DEF IInv, TypeOK, CritInv, PinInv, ConnInv, Inside,
     Connections, Judged, Pinned, Ready, NoConn, OpenConnection, Goto, loadVars, pinVars,
     history
<1>18. ASSUME NEW t \in Requests, StartConnection(t)
      PROVE  ConnInv'
  BY <1>18, StartAssumption DEF IInv, TypeOK, CritInv, PinInv, ConnInv, Inside,
     Connections, Judged, Pinned, Ready, NoConn, StartConnection, Goto, loadVars, pinVars,
     history
<1>19. ASSUME NEW t \in Requests, CertificateReceived(t)
      PROVE  ConnInv'
  <2>1. pc[t] = "certificate" /\ UNCHANGED <<cred, pinVars, pool, history>>
    BY <1>19 DEF CertificateReceived, loadVars
  <2>2. cred # "none"
    BY <2>1 DEF IInv, ConnInv
  <2>3. CASE conn' = [conn EXCEPT ![t].seen = piny.nabor] /\ Goto(t, "shake")
    <3>1. conn'[t].seen = piny.nabor /\ conn'[t].pokolenie = conn[t].pokolenie
          /\ \A u \in Requests \ {t} : conn'[u] = conn[u]
      BY <2>3 DEF IInv, ConnInv, Connections
    <3>2. pc'[t] = "shake" /\ \A u \in Requests \ {t} : pc'[u] = pc[u]
      BY <2>3 DEF IInv, TypeOK, Goto
    <3>3. conn' \in [Requests -> Connections]
      BY <2>3 DEF IInv, TypeOK, ConnInv, Connections
    <3>4. piny.nabor >= conn[t].pokolenie /\ piny.nabor >= begun[t]
      BY <2>1 DEF IInv, TypeOK, PinInv, ConnInv, Connections
    <3>5. Judged(conn[t])' /\ conn'[t].seen >= begun'[t]
      BY <2>1, <3>1, <3>4 DEF Judged, history
    <3>6. \A u \in Requests \ {t} : Judged(conn[u])' = Judged(conn[u])
      BY <3>1 DEF Judged
    <3>. QED
      BY <2>1, <2>2, <3>1, <3>2, <3>3, <3>5, <3>6 DEF IInv, ConnInv, pinVars, history,
         Judged
  <2>4. CASE Goto(t, "refused") /\ UNCHANGED conn
    BY <2>1, <2>4 DEF IInv, TypeOK, ConnInv, pinVars, history, Judged, Goto
  <2>. QED
    BY <1>19, <2>3, <2>4 DEF CertificateReceived
<1>20. ASSUME NEW t \in Requests, HandshakeFails(t)
      PROVE  ConnInv'
  BY <1>20, StartAssumption DEF IInv, TypeOK, CritInv, PinInv, ConnInv, Inside,
     Connections, Judged, Pinned, Ready, NoConn, HandshakeFails, Goto, loadVars, pinVars,
     history
<1>21. ASSUME NEW t \in Requests, PoolReturn(t)
      PROVE  ConnInv'
  BY <1>21, StartAssumption DEF IInv, TypeOK, CritInv, PinInv, ConnInv, Inside,
     Connections, Judged, Pinned, Ready, NoConn, PoolReturn, Goto, loadVars, pinVars,
     history
<1>22. ASSUME NEW t \in Requests, NEW ms \in Samples, Connected(t, ms)
      PROVE  ConnInv'
  BY <1>22, StartAssumption DEF IInv, TypeOK, CritInv, PinInv, ConnInv, Inside,
     Connections, Judged, Pinned, Ready, NoConn, Connected, Goto, loadVars, pinVars, history
<1>23. CASE UNCHANGED vars
  BY <1>23 DEF IInv, ConnInv, Connections, Judged, vars, loadVars, pinVars, history
<1>. QED
  BY <1>1, <1>2, <1>3, <1>4, <1>5, <1>6, <1>7, <1>8, <1>9, <1>10, <1>11, <1>12, <1>13,
     <1>14, <1>15, <1>16, <1>17, <1>18, <1>19, <1>20, <1>21, <1>22, <1>23
     DEF Next

\* The initial state.
LEMMA IInvInit == Init => IInv
<1>. SUFFICES ASSUME Init PROVE IInv
  OBVIOUS
<1>1. msquic \in [1 .. 3 -> 0 .. 1] /\ msquic[3] = 0
  BY DEF Init
<1>2. TypeOK
  <2>1. piny \in [nabor : 0 .. LastNabor, hosty : SUBSET Hosts] /\ pokolenie \in 0 .. LastNabor
    BY StartAssumption DEF Init
  <2>2. setter \in [at : {"idle", "store", "est", "bump"}, hosty : SUBSET Hosts]
    BY DEF Init
  <2>3. pc \in [Requests -> Places] /\ host \in [Requests -> Hosts \cup {None}]
    BY DEF Init, Places
  <2>4. \A t \in Requests : pc[t] = "idle"
    BY DEF Init
  <2>. QED
    BY <1>1, <2>1, <2>2, <2>3, <2>4 DEF Init, TypeOK
<1>3. CritInv
  BY <1>1, StartAssumption DEF Init, CritInv, Inside
<1>4. PinInv
  BY StartAssumption DEF Init, PinInv
<1>5. ConnInv
  BY DEF Init, ConnInv, Connections, Judged, NoConn
<1>. QED
  BY <1>2, <1>3, <1>4, <1>5 DEF IInv

\* The parts together.
LEMMA IInvStep == IInv /\ [Next]_vars => IInv'
<1>. SUFFICES ASSUME IInv, [Next]_vars PROVE IInv'
  OBVIOUS
<1>. QED
  BY TypeStep, CritStep, PinStep, ConnStep DEF IInv

\* Types, loading, pins and connections, in every reachable state.
THEOREM InductiveInvariant == Spec => []IInv
BY IInvInit, IInvStep, PTL DEF Spec

\* MsQuic, its registration and its configuration are opened once at most, and one
\* thread at a time is inside g_CritSec, however many requests start at once.
THEOREM OpenedOnce == Spec => []TypeOK
<1>1. IInv => TypeOK
  BY DEF IInv
<1>. QED
  BY <1>1, InductiveInvariant, PTL

\* No request goes out over a connection judged by pins older than the request,
\* with the two exceptions SentAsPinned names.
THEOREM SentUnderItsPins == Spec => []SentAsPinned
<1>1. IInv => SentAsPinned
  BY DEF IInv, ConnInv, SentAsPinned
<1>. QED
  BY <1>1, InductiveInvariant, PTL

-----------------------------------------------------------------------------

\* Every set of naturals has a least element: < is well-founded on them.
LEMMA LeastNatural ==
  ASSUME NEW S \in SUBSET Nat, S # {}
  PROVE  \E x \in S : \A y \in S : x <= y
<1>. DEFINE R == {p \in Nat \X Nat : p[1] < p[2]}
<1>1. IsWellFoundedOn(R, Nat)
  BY NatLessThanWellFounded, Zenon DEF OpToRel
<1>. HIDE DEF R
<1>2. S \subseteq Nat
  OBVIOUS
<1>3. PICK x \in S : \A y \in S : ~(<<y, x>> \in R)
  BY <1>1, <1>2, WFMin, Zenon
<1>4. ASSUME NEW y \in S PROVE x <= y
  <2>1. ~(y < x)
    BY <1>3 DEF R
  <2>. QED
    BY <2>1
<1>. QED
  BY <1>4

\* What Min and Max choose, where there is something to choose.
LEMMA MinOfNaturals ==
  ASSUME NEW S \in SUBSET Nat, S # {}
  PROVE  Min(S) \in S /\ \A y \in S : Min(S) <= y
BY LeastNatural DEF Min

LEMMA MaxOfNaturals ==
  ASSUME NEW S \in SUBSET Nat, NEW m \in S, \A y \in S : y <= m
  PROVE  Max(S) = m
<1>1. \A y \in S : m >= y
  OBVIOUS
<1>2. Max(S) \in S /\ \A y \in S : Max(S) >= y
  BY <1>1 DEF Max
<1>3. Max(S) \in Nat /\ m \in Nat /\ Max(S) >= m /\ Max(S) <= m
  BY <1>2
<1>. QED
  BY <1>3

\* A weighted mean of two numbers lies between any bounds of both.
LEMMA MeanBetween ==
  ASSUME NEW a \in Nat, NEW b \in Nat, NEW lo \in Nat, NEW hi \in Nat,
         lo <= a, a <= hi, lo <= b, b <= hi
  PROVE  (3 * a + b) \div 4 \in lo .. hi
OBVIOUS

\* What is remembered of a host: one slot, whose mean lies between the least and
\* the greatest of the handshakes measured since the slot is the host's.
Slots(h) == {i \in 1 .. Zamerov : zamery[i].host = h}

MeanInv(h) ==
  \A i \in Slots(h) : \E lo, hi \in spread[h] :
    /\ \A y \in spread[h] : lo <= y /\ y <= hi
    /\ lo <= zamery[i].srednee /\ zamery[i].srednee <= hi

TableInv ==
  /\ zamery \in [1 .. Zamerov -> [host : Hosts \cup {None}, srednee : Nat]]
  /\ spread \in [Hosts -> SUBSET Nat]
  /\ \A t \in Requests : pc[t] # "idle" => host[t] \in Hosts
  /\ \A h \in Hosts : \A i, j \in Slots(h) : i = j
  /\ \A h \in Hosts : Slots(h) = {} <=> spread[h] = {}
  /\ \A h \in Hosts : MeanInv(h)

\* The slot a handshake is written to, and what the others keep.
LEMMA Remembered ==
  ASSUME TableInv, NEW h \in Hosts, NEW ms \in Nat, ZapomnitRukopozhatie(h, ms)
  PROVE  \E s \in 1 .. Zamerov :
           /\ \/ zamery[s].host = h /\ zamery' = [zamery EXCEPT ![s].srednee = (3 * @ + ms) \div 4]
              \/ Slots(h) = {} /\ zamery' = [zamery EXCEPT ![s] = [host |-> h, srednee |-> ms]]
<1>. DEFINE known == {i \in 1 .. Zamerov : zamery[i].host = h}
            free == {i \in 1 .. Zamerov : zamery[i].host = None}
<1>1. known \subseteq 1 .. Zamerov /\ free \subseteq 1 .. Zamerov
      /\ known \in SUBSET Nat /\ free \in SUBSET Nat
  BY StartAssumption
<1>2. known = Slots(h)
  BY DEF Slots
<1>3. zamery' = IF known # {}
                THEN [zamery EXCEPT ![Min(known)].srednee = (3 * @ + ms) \div 4]
                ELSE [zamery EXCEPT ![IF free = {} THEN 1 ELSE Min(free)] = [host |-> h, srednee |-> ms]]
  BY DEF ZapomnitRukopozhatie
<1>4. CASE known # {}
  <2>1. Min(known) \in known
    BY <1>1, <1>4, MinOfNaturals
  <2>. QED
    BY <1>3, <1>4, <2>1
<1>5. CASE known = {}
  <2>1. free # {} => Min(free) \in free
    BY <1>1, MinOfNaturals
  <2>. DEFINE s == IF free = {} THEN 1 ELSE Min(free)
  <2>2. s \in 1 .. Zamerov
    BY <1>1, <2>1, StartAssumption
  <2>3. zamery' = [zamery EXCEPT ![s] = [host |-> h, srednee |-> ms]]
    BY <1>3, <1>5
  <2>. QED
    BY <1>2, <1>5, <2>2, <2>3
<1>. QED
  BY <1>4, <1>5

\* A handshake that is remembered: its slot is the host's, the mean moves towards
\* the new measurement or starts with it, and what is forgotten is forgotten whole.
LEMMA TableConnected ==
  ASSUME IInv, TableInv, NEW t \in Requests, NEW ms \in Samples, Connected(t, ms)
  PROVE  TableInv'
<1>a. PICK h \in Hosts : h = host[t]
  BY DEF TableInv, Connected
<1>1. h \in Hosts /\ h # None /\ ms \in Nat
  BY StartAssumption
<1>2. ZapomnitRukopozhatie(h, ms)
  BY <1>a DEF Connected
<1>3. spread' = [g \in Hosts |->
                   IF \A i \in 1 .. Zamerov : zamery'[i].host # g THEN {}
                   ELSE IF g = h THEN spread[g] \cup {ms} ELSE spread[g]]
  BY <1>a DEF Connected
<1>4. PICK s \in 1 .. Zamerov :
           \/ zamery[s].host = h /\ zamery' = [zamery EXCEPT ![s].srednee = (3 * @ + ms) \div 4]
           \/ Slots(h) = {} /\ zamery' = [zamery EXCEPT ![s] = [host |-> h, srednee |-> ms]]
  BY <1>1, <1>2, Remembered
<1>5. zamery \in [1 .. Zamerov -> [host : Hosts \cup {None}, srednee : Nat]]
  BY DEF TableInv
<1>6. zamery[s].srednee \in Nat
  BY <1>5
<1>7. zamery'[s].host = h /\ zamery'[s].srednee \in Nat
      /\ \A i \in 1 .. Zamerov : i # s => zamery'[i] = zamery[i]
  <2>1. CASE zamery[s].host = h /\ zamery' = [zamery EXCEPT ![s].srednee = (3 * @ + ms) \div 4]
    <3>1. (3 * zamery[s].srednee + ms) \div 4 \in Nat
      BY <1>1, <1>6
    <3>. QED
      BY <1>5, <2>1, <3>1
  <2>2. CASE Slots(h) = {} /\ zamery' = [zamery EXCEPT ![s] = [host |-> h, srednee |-> ms]]
    BY <1>1, <1>5, <2>2
  <2>. QED
    BY <1>4, <2>1, <2>2
<1>8. zamery' \in [1 .. Zamerov -> [host : Hosts \cup {None}, srednee : Nat]]
  BY <1>1, <1>4, <1>5, <1>6
<1>9. spread' \in [Hosts -> SUBSET Nat]
  BY <1>1, <1>3 DEF TableInv
<1>10. \A u \in Requests : pc'[u] # "idle" => host'[u] \in Hosts
  BY DEF IInv, TypeOK, TableInv, Connected, Goto
<1>11. Slots(h) \subseteq {s} /\ Slots(h)' = {s}
  <2>1. CASE zamery[s].host = h
    <3>1. Slots(h) = {s}
      BY <1>1, <2>1 DEF TableInv, Slots
    <3>. QED
      BY <1>7, <3>1 DEF Slots
  <2>2. CASE Slots(h) = {}
    BY <1>7, <2>2 DEF Slots
  <2>. QED
    BY <1>4, <2>1, <2>2
<1>12. \A g \in Hosts \ {h} : Slots(g)' = Slots(g) \ {s}
  BY <1>7 DEF Slots
<1>13. \A g \in Hosts : \A i, j \in Slots(g)' : i = j
  BY <1>11, <1>12 DEF TableInv
<1>14. \A g \in Hosts : spread'[g] = IF Slots(g)' = {} THEN {}
                                     ELSE IF g = h THEN spread[g] \cup {ms} ELSE spread[g]
  BY <1>3 DEF Slots
<1>15. ASSUME NEW g \in Hosts PROVE Slots(g)' = {} <=> spread'[g] = {}
  <2>1. CASE g = h
    BY <1>11, <1>14, <2>1
  <2>2. CASE g # h
    <3>1. Slots(g)' # {} => Slots(g) # {}
      BY <1>12, <2>2
    <3>2. Slots(g) # {} => spread[g] # {}
      BY DEF TableInv
    <3>. QED
      BY <1>14, <2>2, <3>1, <3>2
  <2>. QED
    BY <2>1, <2>2
<1>16. ASSUME NEW g \in Hosts PROVE MeanInv(g)'
  <2>1. CASE g # h
    <3>. SUFFICES ASSUME NEW i \in Slots(g)'
                  PROVE  \E lo, hi \in spread'[g] :
                           /\ \A y \in spread'[g] : lo <= y /\ y <= hi
                           /\ lo <= zamery'[i].srednee /\ zamery'[i].srednee <= hi
      BY DEF MeanInv
    <3>1. i \in Slots(g) /\ i # s /\ zamery'[i] = zamery[i]
      BY <1>7, <1>12, <2>1 DEF Slots
    <3>2. spread'[g] = spread[g]
      BY <1>14, <2>1
    <3>. QED
      BY <3>1, <3>2 DEF TableInv, MeanInv
  <2>2. CASE g = h /\ Slots(h) = {}
    <3>1. spread[h] = {} /\ spread'[h] = {ms}
      BY <1>1, <1>11, <1>14, <2>2 DEF TableInv
    <3>2. zamery'[s].srednee = ms
      <4>1. zamery[s].host # h
        BY <2>2 DEF Slots
      <4>2. zamery' = [zamery EXCEPT ![s] = [host |-> h, srednee |-> ms]]
        BY <1>4, <4>1
      <4>. QED
        BY <1>5, <4>2
    <3>. QED
      BY <1>1, <1>11, <2>2, <3>1, <3>2 DEF MeanInv
  <2>3. CASE g = h /\ Slots(h) # {}
    <3>1. s \in Slots(h)
      BY <1>11, <2>3
    <3>2. PICK lo, hi \in spread[h] :
            /\ \A y \in spread[h] : lo <= y /\ y <= hi
            /\ lo <= zamery[s].srednee /\ zamery[s].srednee <= hi
      BY <1>1, <3>1 DEF TableInv, MeanInv
    <3>3. zamery'[s].srednee = (3 * zamery[s].srednee + ms) \div 4
      BY <1>4, <1>5, <3>1
    <3>4. spread[h] \in SUBSET Nat /\ spread'[h] = spread[h] \cup {ms}
      BY <1>1, <1>11, <1>14 DEF TableInv
    <3>. DEFINE low == IF ms < lo THEN ms ELSE lo
                high == IF ms > hi THEN ms ELSE hi
    <3>5. /\ low \in spread'[h] /\ high \in spread'[h] /\ low \in Nat /\ high \in Nat
          /\ low <= ms /\ ms <= high
          /\ low <= zamery[s].srednee /\ zamery[s].srednee <= high
          /\ \A y \in spread'[h] : low <= y /\ y <= high
      BY <1>1, <1>6, <3>2, <3>4
    <3>. HIDE DEF low, high
    <3>6. zamery'[s].srednee \in low .. high
      BY <1>1, <1>6, <3>3, <3>5, MeanBetween
    <3>7. low <= zamery'[s].srednee /\ zamery'[s].srednee <= high
      BY <3>5, <3>6
    <3>. QED
      BY <1>11, <2>3, <3>5, <3>7 DEF MeanInv
  <2>. QED
    BY <2>1, <2>2, <2>3
<1>. QED
  BY <1>8, <1>9, <1>10, <1>13, <1>15, <1>16 DEF TableInv

\* The other actions leave the table alone; a request has a host before it runs.
LEMMA TableStep ==
  ASSUME IInv, TableInv, [Next]_vars
  PROVE  TableInv'
<1>1. ASSUME UNCHANGED <<zamery, spread>>, \A t \in Requests : pc'[t] # "idle" => host'[t] \in Hosts
      PROVE  TableInv'
  <2>1. \A h \in Hosts : Slots(h)' = Slots(h) /\ MeanInv(h)' = MeanInv(h)
    BY <1>1 DEF Slots, MeanInv
  <2>. QED
    BY <1>1, <2>1 DEF TableInv
<1>2. ASSUME NEW h \in Hosts, NEW t \in Requests, Begin(t, h)
      PROVE  TableInv'
  BY <1>1, <1>2 DEF IInv, TypeOK, TableInv, Begin, Goto, loadVars, pinVars, history
<1>3. ASSUME NEW hosty \in Nabory, SetPins(hosty)
      PROVE  TableInv'
  BY <1>1, <1>3 DEF IInv, TypeOK, TableInv, SetPins, Goto, loadVars, pinVars, history
<1>4. CASE StorePins
  BY <1>1, <1>4 DEF IInv, TypeOK, TableInv, StorePins, Goto, loadVars, pinVars, history
<1>5. CASE MarkPins
  BY <1>1, <1>5 DEF IInv, TypeOK, TableInv, MarkPins, Goto, loadVars, pinVars, history
<1>6. CASE BumpPins
  BY <1>1, <1>6 DEF IInv, TypeOK, TableInv, BumpPins, Goto, loadVars, pinVars, history
<1>7. ASSUME NEW t \in Requests, Look(t)
      PROVE  TableInv'
  BY <1>1, <1>7 DEF IInv, TypeOK, TableInv, Look, Goto, loadVars, pinVars, history
<1>8. ASSUME NEW t \in Requests, Enter(t)
      PROVE  TableInv'
  BY <1>1, <1>8 DEF IInv, TypeOK, TableInv, Enter, Goto, loadVars, pinVars, history
<1>9. ASSUME NEW t \in Requests, OpenMsQuic(t)
      PROVE  TableInv'
  BY <1>1, <1>9 DEF IInv, TypeOK, TableInv, OpenMsQuic, Goto, loadVars, pinVars, history
<1>10. ASSUME NEW t \in Requests, LoadCredential(t)
      PROVE  TableInv'
  BY <1>1, <1>10 DEF IInv, TypeOK, TableInv, LoadCredential, Goto, loadVars, pinVars, history
<1>11. ASSUME NEW t \in Requests, LoadPlain(t)
      PROVE  TableInv'
  BY <1>1, <1>11 DEF IInv, TypeOK, TableInv, LoadPlain, Goto, loadVars, pinVars, history
<1>12. ASSUME NEW t \in Requests, MarkBezPrivyazki(t)
      PROVE  TableInv'
  BY <1>1, <1>12 DEF IInv, TypeOK, TableInv, MarkBezPrivyazki, Goto, loadVars, pinVars, history
<1>13. ASSUME NEW t \in Requests, Leave(t)
      PROVE  TableInv'
  BY <1>1, <1>13 DEF IInv, TypeOK, TableInv, Leave, Goto, loadVars, pinVars, history
<1>14. ASSUME NEW t \in Requests, LookAtFlag(t)
      PROVE  TableInv'
  BY <1>1, <1>14 DEF IInv, TypeOK, TableInv, LookAtFlag, Goto, loadVars, pinVars, history
<1>15. ASSUME NEW t \in Requests, LookUpPins(t)
      PROVE  TableInv'
  BY <1>1, <1>15 DEF IInv, TypeOK, TableInv, LookUpPins, Goto, loadVars, pinVars, history
<1>16. ASSUME NEW t \in Requests, Reach(t)
      PROVE  TableInv'
  BY <1>1, <1>16 DEF IInv, TypeOK, TableInv, Reach, Goto, loadVars, pinVars, history
<1>17. ASSUME NEW t \in Requests, PoolTake(t)
      PROVE  TableInv'
  BY <1>1, <1>17 DEF IInv, TypeOK, TableInv, PoolTake, Goto, loadVars, pinVars, history
<1>18. ASSUME NEW t \in Requests, OpenConnection(t)
      PROVE  TableInv'
  BY <1>1, <1>18 DEF IInv, TypeOK, TableInv, OpenConnection, Goto, loadVars, pinVars, history
<1>19. ASSUME NEW t \in Requests, StartConnection(t)
      PROVE  TableInv'
  BY <1>1, <1>19 DEF IInv, TypeOK, TableInv, StartConnection, Goto, loadVars, pinVars, history
<1>20. ASSUME NEW t \in Requests, CertificateReceived(t)
      PROVE  TableInv'
  BY <1>1, <1>20 DEF IInv, TypeOK, TableInv, CertificateReceived, Goto, loadVars, pinVars, history
<1>21. ASSUME NEW t \in Requests, HandshakeFails(t)
      PROVE  TableInv'
  BY <1>1, <1>21 DEF IInv, TypeOK, TableInv, HandshakeFails, Goto, loadVars, pinVars, history
<1>22. ASSUME NEW t \in Requests, PoolReturn(t)
      PROVE  TableInv'
  BY <1>1, <1>22 DEF IInv, TypeOK, TableInv, PoolReturn, Goto, loadVars, pinVars, history
<1>23. ASSUME NEW t \in Requests, NEW ms \in Samples, Connected(t, ms)
      PROVE  TableInv'
  BY <1>23, TableConnected
<1>24. CASE UNCHANGED vars
  BY <1>1, <1>24 DEF TableInv, vars, loadVars, pinVars, history
<1>. QED
  BY <1>2, <1>3, <1>4, <1>5, <1>6, <1>7, <1>8, <1>9, <1>10, <1>11, <1>12, <1>13, <1>14, <1>15, <1>16,
       <1>17, <1>18, <1>19, <1>20, <1>21, <1>22, <1>23, <1>24
     DEF Next

\* What the invariant says of the window.
LEMMA TableWindow ==
  ASSUME TableInv
  PROVE  WindowMeasured
<1>. SUFFICES ASSUME NEW h \in Hosts
              PROVE  /\ Cardinality({i \in 1 .. Zamerov : zamery[i].host = h}) <= 1
                     /\ OknoSoedineniya(h) \in OknoMin .. OknoMax
                     /\ spread[h] # {} => \E i \in 1 .. Zamerov :
                          zamery[i].host = h /\ zamery[i].srednee \in Min(spread[h]) .. Max(spread[h])
                     /\ spread[h] = {} => OknoSoedineniya(h) = OknoMax
  BY DEF WindowMeasured
<1>. DEFINE known == {i \in 1 .. Zamerov : zamery[i].host = h}
<1>1. known = Slots(h) /\ known \in SUBSET Nat
  BY DEF Slots
<1>2. Cardinality(known) <= 1
  <2>1. CASE known = {}
    BY <2>1, FS_EmptySet
  <2>2. CASE known # {}
    <3>1. PICK i \in known : TRUE
      BY <2>2
    <3>2. known = {i}
      BY <1>1, <3>1 DEF TableInv
    <3>3. Cardinality({i}) = 1
      BY FS_Singleton
    <3>. QED
      BY <3>2, <3>3
  <2>. QED
    BY <2>1, <2>2
<1>3. known # {} => Min(known) \in known
  BY <1>1, MinOfNaturals
<1>4. known # {} => zamery[Min(known)].srednee * Zapas \in Int
  BY <1>3, StartAssumption DEF TableInv
<1>. DEFINE okno == IF known = {} THEN OknoMax ELSE zamery[Min(known)].srednee * Zapas
<1>5. okno \in Int
  BY <1>4, StartAssumption
<1>6. OknoSoedineniya(h) = IF okno < OknoMin THEN OknoMin ELSE IF okno > OknoMax THEN OknoMax ELSE okno
  BY DEF OknoSoedineniya
<1>7. spread[h] = {} => okno = OknoMax
  BY <1>1 DEF TableInv
<1>. HIDE DEF okno
<1>8. OknoSoedineniya(h) \in OknoMin .. OknoMax /\ (spread[h] = {} => OknoSoedineniya(h) = OknoMax)
  BY <1>5, <1>6, <1>7, StartAssumption
<1>9. ASSUME spread[h] # {}
      PROVE  \E i \in 1 .. Zamerov :
               zamery[i].host = h /\ zamery[i].srednee \in Min(spread[h]) .. Max(spread[h])
  <2>1. PICK i \in known : TRUE
    BY <1>1, <1>9 DEF TableInv
  <2>2. PICK lo, hi \in spread[h] :
          /\ \A y \in spread[h] : lo <= y /\ y <= hi
          /\ lo <= zamery[i].srednee /\ zamery[i].srednee <= hi
    BY <1>1, <2>1 DEF TableInv, MeanInv
  <2>3. spread[h] \in SUBSET Nat /\ zamery[i].srednee \in Nat
    BY <2>1 DEF TableInv
  <2>4. Max(spread[h]) = hi
    BY <2>2, <2>3, MaxOfNaturals
  <2>5. Min(spread[h]) \in spread[h] /\ Min(spread[h]) <= lo
    BY <1>9, <2>2, <2>3, MinOfNaturals
  <2>6. Min(spread[h]) <= zamery[i].srednee
    BY <2>2, <2>3, <2>5
  <2>. QED
    BY <2>1, <2>2, <2>3, <2>4, <2>5, <2>6
<1>. QED
  BY <1>2, <1>8, <1>9

\* A host is remembered once, its mean stays among the handshakes measured since,
\* and the first window of the race never leaves its bounds, however many hosts
\* displace each other from the table.
THEOREM WindowFollowsHandshakes == Spec => []WindowMeasured
<1>1. Init => TableInv
  BY StartAssumption DEF Init, TableInv, Slots, MeanInv
<1>2. IInv /\ TableInv /\ [Next]_vars => TableInv'
  BY TableStep
<1>3. TableInv => WindowMeasured
  BY TableWindow
<1>. QED
  BY <1>1, <1>2, <1>3, InductiveInvariant, PTL DEF Spec

-----------------------------------------------------------------------------
(* The session of WinHTTP.                                                 *)

Present == {t \in TcpThreads : place[t] \notin {"begin", "done"}}
Winning == {q \in QuicWinners : place[q] # "begin"}

\* The counters: TCP threads in flight are exactly counted, wins are not overcounted.
CountInv ==
  /\ inFlight = Cardinality(Present)
  /\ wins <= Cardinality(Winning)

\* The lock is held by the winner that verifies or detaches; once it has found
\* no thread in flight, none is about to read the global again.
LockInv ==
  \A q \in QuicWinners :
    /\ lock = q <=> place[q] \in {"verify", "detach"}
    /\ place[q] = "detach" => session # Nobody /\ \A t \in TcpThreads : place[t] # "return"

Closing(q, h) == place[q] = "close" /\ hSession[q] = h

\* An open session is the shared one or has one closer, a thread that has not
\* opened yet has no session.
SharedInv ==
  /\ session # Nobody => handle[session] = "open"
  /\ \A q \in QuicWinners : place[q] = "close" =>
       hSession[q] \in TcpThreads /\ hSession[q] # session /\ handle[hSession[q]] = "open"
  /\ \A p, q \in QuicWinners : \A h \in TcpThreads : Closing(p, h) /\ Closing(q, h) => p = q
  /\ \A h \in TcpThreads : handle[h] = "open" => session = h \/ \E q \in QuicWinners : Closing(q, h)
  /\ \A t \in TcpThreads : place[t] \in {"begin", "look", "open"} => handle[t] = "none"

TcpInv == TcpTypeOK /\ CountInv /\ LockInv /\ SharedInv

\* The parties of the session: no thread is both, and neither is Nobody.
LEMMA Parties ==
  /\ Threads = TcpThreads \cup QuicWinners
  /\ \A t \in TcpThreads : t \in Threads /\ t \notin QuicWinners /\ t # Nobody
  /\ \A q \in QuicWinners : q \in Threads /\ q \notin TcpThreads /\ q # Nobody
BY SessionAssumption DEF Threads

\* Present and Winning are finite, and no larger than the sets they come from.
LEMMA Bounded ==
  /\ IsFiniteSet(Present) /\ Cardinality(Present) \in 0 .. Cardinality(TcpThreads)
  /\ IsFiniteSet(Winning) /\ Cardinality(Winning) \in 0 .. Cardinality(QuicWinners)
<1>1. Present \in SUBSET TcpThreads /\ Winning \in SUBSET QuicWinners
  BY DEF Present, Winning
<1>2. IsFiniteSet(Present) /\ Cardinality(Present) <= Cardinality(TcpThreads)
  BY <1>1, FS_Subset, SessionAssumption
<1>3. IsFiniteSet(Winning) /\ Cardinality(Winning) <= Cardinality(QuicWinners)
  BY <1>1, FS_Subset, SessionAssumption
<1>4. Cardinality(Present) \in Nat /\ Cardinality(Winning) \in Nat
  BY <1>2, <1>3, FS_CardinalityType
<1>5. Cardinality(TcpThreads) \in Nat /\ Cardinality(QuicWinners) \in Nat
  BY FS_CardinalityType, SessionAssumption
<1>. QED
  BY <1>2, <1>3, <1>4, <1>5

\* Every action keeps the counters equal to what they count.
LEMMA CountStep ==
  ASSUME TcpTypeOK, CountInv, [TcpNext]_tcpVars
  PROVE  CountInv'
<1>1. ASSUME NEW t \in TcpThreads, EnterTcp(t)
      PROVE  CountInv'
  <2>1. Present' = Present \cup {t} /\ t \notin Present
    BY <1>1, Parties DEF TcpTypeOK, Present, EnterTcp, MoveTo
  <2>2. Winning' = Winning
    BY <1>1, Parties DEF TcpTypeOK, Winning, EnterTcp, MoveTo
  <2>3. Cardinality(Present') = Cardinality(Present) + 1
    BY <2>1, Bounded, FS_AddElement
  <2>. QED
    BY <1>1, <2>2, <2>3 DEF CountInv, EnterTcp
<1>2. ASSUME NEW t \in TcpThreads, SkipTcp(t)
      PROVE  CountInv'
  <2>1. Present' = Present
    BY <1>2, Parties DEF TcpTypeOK, Present, SkipTcp, MoveTo
  <2>2. Winning' = Winning
    BY <1>2, Parties DEF TcpTypeOK, Winning, SkipTcp, MoveTo
  <2>. QED
    BY <1>2, <2>1, <2>2, Bounded DEF TcpTypeOK, CountInv, SkipTcp
<1>3. ASSUME NEW t \in TcpThreads, LookSession(t)
      PROVE  CountInv'
  <2>1. Present' = Present
    BY <1>3, Parties DEF TcpTypeOK, Present, LookSession, MoveTo
  <2>2. Winning' = Winning
    BY <1>3, Parties DEF TcpTypeOK, Winning, LookSession, MoveTo
  <2>. QED
    BY <1>3, <2>1, <2>2, Bounded DEF TcpTypeOK, CountInv, LookSession
<1>4. ASSUME NEW t \in TcpThreads, OpenSession(t)
      PROVE  CountInv'
  <2>1. Present' = Present
    BY <1>4, Parties DEF TcpTypeOK, Present, OpenSession, MoveTo
  <2>2. Winning' = Winning
    BY <1>4, Parties DEF TcpTypeOK, Winning, OpenSession, MoveTo
  <2>. QED
    BY <1>4, <2>1, <2>2, Bounded DEF TcpTypeOK, CountInv, OpenSession
<1>5. ASSUME NEW t \in TcpThreads, ReturnSession(t)
      PROVE  CountInv'
  <2>1. Present' = Present
    BY <1>5, Parties DEF TcpTypeOK, Present, ReturnSession, MoveTo
  <2>2. Winning' = Winning
    BY <1>5, Parties DEF TcpTypeOK, Winning, ReturnSession, MoveTo
  <2>. QED
    BY <1>5, <2>1, <2>2, Bounded DEF TcpTypeOK, CountInv, ReturnSession
<1>6. ASSUME NEW t \in TcpThreads, FinishTcp(t)
      PROVE  CountInv'
  <2>1. Present' = Present
    BY <1>6, Parties DEF TcpTypeOK, Present, FinishTcp, MoveTo
  <2>2. Winning' = Winning
    BY <1>6, Parties DEF TcpTypeOK, Winning, FinishTcp, MoveTo
  <2>. QED
    BY <1>6, <2>1, <2>2, Bounded DEF TcpTypeOK, CountInv, FinishTcp
<1>7. ASSUME NEW t \in TcpThreads, LeaveTcp(t)
      PROVE  CountInv'
  <2>1. Present' = Present \ {t} /\ t \in Present
    BY <1>7, Parties DEF TcpTypeOK, Present, LeaveTcp, MoveTo
  <2>2. Winning' = Winning
    BY <1>7, Parties DEF TcpTypeOK, Winning, LeaveTcp, MoveTo
  <2>3. Cardinality(Present') = Cardinality(Present) - 1
    BY <2>1, Bounded, FS_RemoveElement
  <2>. QED
    BY <1>7, <2>2, <2>3 DEF CountInv, LeaveTcp
<1>8. ASSUME NEW q \in QuicWinners, CountWin(q)
      PROVE  CountInv'
  <2>1. Present' = Present
    BY <1>8, Parties DEF TcpTypeOK, Present, CountWin, MoveTo
  <2>2. Winning' = Winning \cup {q} /\ q \notin Winning
    BY <1>8, Parties DEF TcpTypeOK, Winning, CountWin, MoveTo
  <2>3. Cardinality(Winning') = Cardinality(Winning) + 1
    BY <2>2, Bounded, FS_AddElement
  <2>. QED
    BY <1>8, <2>1, <2>3, Bounded DEF TcpTypeOK, CountInv, CountWin
<1>9. ASSUME NEW q \in QuicWinners, CheckStreak(q)
      PROVE  CountInv'
  <2>1. Present' = Present
    BY <1>9, Parties DEF TcpTypeOK, Present, CheckStreak, MoveTo
  <2>2. Winning' = Winning
    BY <1>9, Parties DEF TcpTypeOK, Winning, CheckStreak, MoveTo
  <2>. QED
    BY <1>9, <2>1, <2>2, Bounded DEF TcpTypeOK, CountInv, CheckStreak
<1>10. ASSUME NEW q \in QuicWinners, CheckFlight(q)
      PROVE  CountInv'
  <2>1. Present' = Present
    BY <1>10, Parties DEF TcpTypeOK, Present, CheckFlight, MoveTo
  <2>2. Winning' = Winning
    BY <1>10, Parties DEF TcpTypeOK, Winning, CheckFlight, MoveTo
  <2>. QED
    BY <1>10, <2>1, <2>2, Bounded DEF TcpTypeOK, CountInv, CheckFlight
<1>11. ASSUME NEW q \in QuicWinners, LockSession(q)
      PROVE  CountInv'
  <2>1. Present' = Present
    BY <1>11, Parties DEF TcpTypeOK, Present, LockSession, MoveTo
  <2>2. Winning' = Winning
    BY <1>11, Parties DEF TcpTypeOK, Winning, LockSession, MoveTo
  <2>. QED
    BY <1>11, <2>1, <2>2, Bounded DEF TcpTypeOK, CountInv, LockSession
<1>12. ASSUME NEW q \in QuicWinners, VerifyQuiet(q)
      PROVE  CountInv'
  <2>1. Present' = Present
    BY <1>12, Parties DEF TcpTypeOK, Present, VerifyQuiet, MoveTo
  <2>2. Winning' = Winning
    BY <1>12, Parties DEF TcpTypeOK, Winning, VerifyQuiet, MoveTo
  <2>. QED
    BY <1>12, <2>1, <2>2, Bounded DEF TcpTypeOK, CountInv, VerifyQuiet
<1>13. ASSUME NEW q \in QuicWinners, DetachSession(q)
      PROVE  CountInv'
  <2>1. Present' = Present
    BY <1>13, Parties DEF TcpTypeOK, Present, DetachSession, MoveTo
  <2>2. Winning' = Winning
    BY <1>13, Parties DEF TcpTypeOK, Winning, DetachSession, MoveTo
  <2>. QED
    BY <1>13, <2>1, <2>2, Bounded DEF TcpTypeOK, CountInv, DetachSession
<1>14. ASSUME NEW q \in QuicWinners, CloseSession(q)
      PROVE  CountInv'
  <2>1. Present' = Present
    BY <1>14, Parties DEF TcpTypeOK, Present, CloseSession, MoveTo
  <2>2. Winning' = Winning
    BY <1>14, Parties DEF TcpTypeOK, Winning, CloseSession, MoveTo
  <2>. QED
    BY <1>14, <2>1, <2>2, Bounded DEF TcpTypeOK, CountInv, CloseSession
<1>15. CASE UNCHANGED tcpVars
  BY <1>15 DEF CountInv, Present, Winning, tcpVars
<1>. QED
  BY <1>1, <1>2, <1>3, <1>4, <1>5, <1>6, <1>7, <1>8, <1>9, <1>10, <1>11, <1>12, <1>13,
     <1>14, <1>15
     DEF TcpNext, TcpThread, QuicWinner, Finished

\* The counters stay in their types because of what they count.
LEMMA CountTypes ==
  ASSUME CountInv, wins \in Nat
  PROVE  inFlight \in 0 .. Cardinality(TcpThreads) /\ wins \in 0 .. Cardinality(QuicWinners)
BY Bounded, SessionAssumption, FS_CardinalityType DEF CountInv

\* Every action keeps the variables in their types, once the counters are known to.
LEMMA TcpTypeStep ==
  ASSUME TcpTypeOK, inFlight' \in 0 .. Cardinality(TcpThreads),
         wins' \in Nat => wins' \in 0 .. Cardinality(QuicWinners), [TcpNext]_tcpVars
  PROVE  TcpTypeOK'
<1>1. ASSUME NEW t \in TcpThreads, EnterTcp(t)
      PROVE  TcpTypeOK'
  <2>1. place' \in [Threads -> TcpPcs \cup QuicPcs] /\ \A u \in Threads \ {t} : place'[u] = place[u]
    BY <1>1, Parties DEF TcpTypeOK, EnterTcp, MoveTo, TcpPcs, QuicPcs
  <2>2. place'[t] \in TcpPcs
    BY <1>1, Parties DEF TcpTypeOK, EnterTcp, MoveTo, TcpPcs, QuicPcs
  <2>3. wins' \in Nat
    BY <1>1 DEF TcpTypeOK, EnterTcp
  <2>. QED
    BY <1>1, <2>1, <2>2, <2>3, Parties DEF TcpTypeOK, EnterTcp
<1>2. ASSUME NEW t \in TcpThreads, SkipTcp(t)
      PROVE  TcpTypeOK'
  <2>1. place' \in [Threads -> TcpPcs \cup QuicPcs] /\ \A u \in Threads \ {t} : place'[u] = place[u]
    BY <1>2, Parties DEF TcpTypeOK, SkipTcp, MoveTo, TcpPcs, QuicPcs
  <2>2. place'[t] \in TcpPcs
    BY <1>2, Parties DEF TcpTypeOK, SkipTcp, MoveTo, TcpPcs, QuicPcs
  <2>3. wins' \in Nat
    BY <1>2 DEF TcpTypeOK, SkipTcp
  <2>. QED
    BY <1>2, <2>1, <2>2, <2>3, Parties DEF TcpTypeOK, SkipTcp
<1>3. ASSUME NEW t \in TcpThreads, LookSession(t)
      PROVE  TcpTypeOK'
  <2>1. place' \in [Threads -> TcpPcs \cup QuicPcs] /\ \A u \in Threads \ {t} : place'[u] = place[u]
    BY <1>3, Parties DEF TcpTypeOK, LookSession, MoveTo, TcpPcs, QuicPcs
  <2>2. place'[t] \in TcpPcs
    BY <1>3, Parties DEF TcpTypeOK, LookSession, MoveTo, TcpPcs, QuicPcs
  <2>3. wins' \in Nat
    BY <1>3 DEF TcpTypeOK, LookSession
  <2>. QED
    BY <1>3, <2>1, <2>2, <2>3, Parties DEF TcpTypeOK, LookSession
<1>4. ASSUME NEW t \in TcpThreads, OpenSession(t)
      PROVE  TcpTypeOK'
  <2>1. place' \in [Threads -> TcpPcs \cup QuicPcs] /\ \A u \in Threads \ {t} : place'[u] = place[u]
    BY <1>4, Parties DEF TcpTypeOK, OpenSession, MoveTo, TcpPcs, QuicPcs
  <2>2. place'[t] \in TcpPcs
    BY <1>4, Parties DEF TcpTypeOK, OpenSession, MoveTo, TcpPcs, QuicPcs
  <2>3. wins' \in Nat
    BY <1>4 DEF TcpTypeOK, OpenSession
  <2>. QED
    BY <1>4, <2>1, <2>2, <2>3, Parties DEF TcpTypeOK, OpenSession
<1>5. ASSUME NEW t \in TcpThreads, ReturnSession(t)
      PROVE  TcpTypeOK'
  <2>1. place' \in [Threads -> TcpPcs \cup QuicPcs] /\ \A u \in Threads \ {t} : place'[u] = place[u]
    BY <1>5, Parties DEF TcpTypeOK, ReturnSession, MoveTo, TcpPcs, QuicPcs
  <2>2. place'[t] \in TcpPcs
    BY <1>5, Parties DEF TcpTypeOK, ReturnSession, MoveTo, TcpPcs, QuicPcs
  <2>3. wins' \in Nat
    BY <1>5 DEF TcpTypeOK, ReturnSession
  <2>. QED
    BY <1>5, <2>1, <2>2, <2>3, Parties DEF TcpTypeOK, ReturnSession
<1>6. ASSUME NEW t \in TcpThreads, FinishTcp(t)
      PROVE  TcpTypeOK'
  <2>1. place' \in [Threads -> TcpPcs \cup QuicPcs] /\ \A u \in Threads \ {t} : place'[u] = place[u]
    BY <1>6, Parties DEF TcpTypeOK, FinishTcp, MoveTo, TcpPcs, QuicPcs
  <2>2. place'[t] \in TcpPcs
    BY <1>6, Parties DEF TcpTypeOK, FinishTcp, MoveTo, TcpPcs, QuicPcs
  <2>3. wins' \in Nat
    BY <1>6 DEF TcpTypeOK, FinishTcp
  <2>. QED
    BY <1>6, <2>1, <2>2, <2>3, Parties DEF TcpTypeOK, FinishTcp
<1>7. ASSUME NEW t \in TcpThreads, LeaveTcp(t)
      PROVE  TcpTypeOK'
  <2>1. place' \in [Threads -> TcpPcs \cup QuicPcs] /\ \A u \in Threads \ {t} : place'[u] = place[u]
    BY <1>7, Parties DEF TcpTypeOK, LeaveTcp, MoveTo, TcpPcs, QuicPcs
  <2>2. place'[t] \in TcpPcs
    BY <1>7, Parties DEF TcpTypeOK, LeaveTcp, MoveTo, TcpPcs, QuicPcs
  <2>3. wins' \in Nat
    BY <1>7 DEF TcpTypeOK, LeaveTcp
  <2>. QED
    BY <1>7, <2>1, <2>2, <2>3, Parties DEF TcpTypeOK, LeaveTcp
<1>8. ASSUME NEW q \in QuicWinners, CountWin(q)
      PROVE  TcpTypeOK'
  <2>1. place' \in [Threads -> TcpPcs \cup QuicPcs] /\ \A u \in Threads \ {q} : place'[u] = place[u]
    BY <1>8, Parties DEF TcpTypeOK, CountWin, MoveTo, TcpPcs, QuicPcs
  <2>2. place'[q] \in QuicPcs
    BY <1>8, Parties DEF TcpTypeOK, CountWin, MoveTo, TcpPcs, QuicPcs
  <2>3. wins' \in Nat
    BY <1>8 DEF TcpTypeOK, CountWin
  <2>. QED
    BY <1>8, <2>1, <2>2, <2>3, Parties DEF TcpTypeOK, CountWin
<1>9. ASSUME NEW q \in QuicWinners, CheckStreak(q)
      PROVE  TcpTypeOK'
  <2>1. place' \in [Threads -> TcpPcs \cup QuicPcs] /\ \A u \in Threads \ {q} : place'[u] = place[u]
    BY <1>9, Parties DEF TcpTypeOK, CheckStreak, MoveTo, TcpPcs, QuicPcs
  <2>2. place'[q] \in QuicPcs
    BY <1>9, Parties DEF TcpTypeOK, CheckStreak, MoveTo, TcpPcs, QuicPcs
  <2>3. wins' \in Nat
    BY <1>9 DEF TcpTypeOK, CheckStreak
  <2>. QED
    BY <1>9, <2>1, <2>2, <2>3, Parties DEF TcpTypeOK, CheckStreak
<1>10. ASSUME NEW q \in QuicWinners, CheckFlight(q)
      PROVE  TcpTypeOK'
  <2>1. place' \in [Threads -> TcpPcs \cup QuicPcs] /\ \A u \in Threads \ {q} : place'[u] = place[u]
    BY <1>10, Parties DEF TcpTypeOK, CheckFlight, MoveTo, TcpPcs, QuicPcs
  <2>2. place'[q] \in QuicPcs
    BY <1>10, Parties DEF TcpTypeOK, CheckFlight, MoveTo, TcpPcs, QuicPcs
  <2>3. wins' \in Nat
    BY <1>10 DEF TcpTypeOK, CheckFlight
  <2>. QED
    BY <1>10, <2>1, <2>2, <2>3, Parties DEF TcpTypeOK, CheckFlight
<1>11. ASSUME NEW q \in QuicWinners, LockSession(q)
      PROVE  TcpTypeOK'
  <2>1. place' \in [Threads -> TcpPcs \cup QuicPcs] /\ \A u \in Threads \ {q} : place'[u] = place[u]
    BY <1>11, Parties DEF TcpTypeOK, LockSession, MoveTo, TcpPcs, QuicPcs
  <2>2. place'[q] \in QuicPcs
    BY <1>11, Parties DEF TcpTypeOK, LockSession, MoveTo, TcpPcs, QuicPcs
  <2>3. wins' \in Nat
    BY <1>11 DEF TcpTypeOK, LockSession
  <2>. QED
    BY <1>11, <2>1, <2>2, <2>3, Parties DEF TcpTypeOK, LockSession
<1>12. ASSUME NEW q \in QuicWinners, VerifyQuiet(q)
      PROVE  TcpTypeOK'
  <2>1. place' \in [Threads -> TcpPcs \cup QuicPcs] /\ \A u \in Threads \ {q} : place'[u] = place[u]
    BY <1>12, Parties DEF TcpTypeOK, VerifyQuiet, MoveTo, TcpPcs, QuicPcs
  <2>2. place'[q] \in QuicPcs
    BY <1>12, Parties DEF TcpTypeOK, VerifyQuiet, MoveTo, TcpPcs, QuicPcs
  <2>3. wins' \in Nat
    BY <1>12 DEF TcpTypeOK, VerifyQuiet
  <2>. QED
    BY <1>12, <2>1, <2>2, <2>3, Parties DEF TcpTypeOK, VerifyQuiet
<1>13. ASSUME NEW q \in QuicWinners, DetachSession(q)
      PROVE  TcpTypeOK'
  <2>1. place' \in [Threads -> TcpPcs \cup QuicPcs] /\ \A u \in Threads \ {q} : place'[u] = place[u]
    BY <1>13, Parties DEF TcpTypeOK, DetachSession, MoveTo, TcpPcs, QuicPcs
  <2>2. place'[q] \in QuicPcs
    BY <1>13, Parties DEF TcpTypeOK, DetachSession, MoveTo, TcpPcs, QuicPcs
  <2>3. wins' \in Nat
    BY <1>13 DEF TcpTypeOK, DetachSession
  <2>. QED
    BY <1>13, <2>1, <2>2, <2>3, Parties DEF TcpTypeOK, DetachSession
<1>14. ASSUME NEW q \in QuicWinners, CloseSession(q)
      PROVE  TcpTypeOK'
  <2>1. place' \in [Threads -> TcpPcs \cup QuicPcs] /\ \A u \in Threads \ {q} : place'[u] = place[u]
    BY <1>14, Parties DEF TcpTypeOK, CloseSession, MoveTo, TcpPcs, QuicPcs
  <2>2. place'[q] \in QuicPcs
    BY <1>14, Parties DEF TcpTypeOK, CloseSession, MoveTo, TcpPcs, QuicPcs
  <2>3. wins' \in Nat
    BY <1>14 DEF TcpTypeOK, CloseSession
  <2>. QED
    BY <1>14, <2>1, <2>2, <2>3, Parties DEF TcpTypeOK, CloseSession
<1>15. CASE UNCHANGED tcpVars
  BY <1>15 DEF TcpTypeOK, tcpVars
<1>. QED
  BY <1>1, <1>2, <1>3, <1>4, <1>5, <1>6, <1>7, <1>8, <1>9, <1>10, <1>11, <1>12, <1>13,
     <1>14, <1>15
     DEF TcpNext, TcpThread, QuicWinner, Finished

\* Every action keeps LockInv: nobody opens a session while a closer holds the lock.
LEMMA LockStep ==
  ASSUME TcpTypeOK, CountInv, LockInv, [TcpNext]_tcpVars
  PROVE  LockInv'
<1>1. ASSUME NEW t \in TcpThreads, EnterTcp(t)
      PROVE  LockInv'
  BY <1>1, Parties DEF TcpTypeOK, LockInv, EnterTcp, MoveTo
<1>2. ASSUME NEW t \in TcpThreads, SkipTcp(t)
      PROVE  LockInv'
  BY <1>2, Parties DEF TcpTypeOK, LockInv, SkipTcp, MoveTo
<1>3. ASSUME NEW t \in TcpThreads, LookSession(t)
      PROVE  LockInv'
  BY <1>3, Parties DEF TcpTypeOK, LockInv, LookSession, MoveTo
<1>4. ASSUME NEW t \in TcpThreads, OpenSession(t)
      PROVE  LockInv'
  BY <1>4, Parties DEF TcpTypeOK, LockInv, OpenSession, MoveTo
<1>5. ASSUME NEW t \in TcpThreads, ReturnSession(t)
      PROVE  LockInv'
  BY <1>5, Parties DEF TcpTypeOK, LockInv, ReturnSession, MoveTo
<1>6. ASSUME NEW t \in TcpThreads, FinishTcp(t)
      PROVE  LockInv'
  BY <1>6, Parties DEF TcpTypeOK, LockInv, FinishTcp, MoveTo
<1>7. ASSUME NEW t \in TcpThreads, LeaveTcp(t)
      PROVE  LockInv'
  BY <1>7, Parties DEF TcpTypeOK, LockInv, LeaveTcp, MoveTo
<1>8. ASSUME NEW q \in QuicWinners, CountWin(q)
      PROVE  LockInv'
  BY <1>8, Parties DEF TcpTypeOK, LockInv, CountWin, MoveTo
<1>9. ASSUME NEW q \in QuicWinners, CheckStreak(q)
      PROVE  LockInv'
  BY <1>9, Parties DEF TcpTypeOK, LockInv, CheckStreak, MoveTo
<1>10. ASSUME NEW q \in QuicWinners, CheckFlight(q)
      PROVE  LockInv'
  BY <1>10, Parties DEF TcpTypeOK, LockInv, CheckFlight, MoveTo
<1>11. ASSUME NEW q \in QuicWinners, LockSession(q)
      PROVE  LockInv'
  BY <1>11, Parties DEF TcpTypeOK, LockInv, LockSession, MoveTo
<1>12. ASSUME NEW q \in QuicWinners, VerifyQuiet(q)
      PROVE  LockInv'
  <2>1. CASE session # Nobody /\ inFlight = 0
    <3>1. Present = {}
      BY <2>1, Bounded, FS_EmptySet DEF CountInv
    <3>. QED
      BY <1>12, <2>1, <3>1, Parties DEF TcpTypeOK, LockInv, Present, VerifyQuiet, MoveTo
  <2>2. CASE ~(session # Nobody /\ inFlight = 0)
    BY <1>12, <2>2, Parties DEF TcpTypeOK, LockInv, VerifyQuiet, MoveTo
  <2>. QED
    BY <2>1, <2>2
<1>13. ASSUME NEW q \in QuicWinners, DetachSession(q)
      PROVE  LockInv'
  BY <1>13, Parties DEF TcpTypeOK, LockInv, DetachSession, MoveTo
<1>14. ASSUME NEW q \in QuicWinners, CloseSession(q)
      PROVE  LockInv'
  BY <1>14, Parties DEF TcpTypeOK, LockInv, CloseSession, MoveTo
<1>15. CASE UNCHANGED tcpVars
  BY <1>15 DEF LockInv, tcpVars
<1>. QED
  BY <1>1, <1>2, <1>3, <1>4, <1>5, <1>6, <1>7, <1>8, <1>9, <1>10, <1>11, <1>12, <1>13,
     <1>14, <1>15
     DEF TcpNext, TcpThread, QuicWinner, Finished

\* Every action keeps SharedInv: opening gives the session a name of its own,
\* detaching hands it to its closer, closing ends it.
LEMMA SharedStep ==
  ASSUME TcpTypeOK, LockInv, SharedInv, [TcpNext]_tcpVars
  PROVE  SharedInv'
<1>1. ASSUME NEW t \in TcpThreads, EnterTcp(t)
      PROVE  SharedInv'
  BY <1>1, Parties DEF TcpTypeOK, LockInv, SharedInv, Closing, EnterTcp, MoveTo
<1>2. ASSUME NEW t \in TcpThreads, SkipTcp(t)
      PROVE  SharedInv'
  BY <1>2, Parties DEF TcpTypeOK, LockInv, SharedInv, Closing, SkipTcp, MoveTo
<1>3. ASSUME NEW t \in TcpThreads, LookSession(t)
      PROVE  SharedInv'
  BY <1>3, Parties DEF TcpTypeOK, LockInv, SharedInv, Closing, LookSession, MoveTo
<1>4. ASSUME NEW t \in TcpThreads, OpenSession(t)
      PROVE  SharedInv'
  BY <1>4, Parties DEF TcpTypeOK, LockInv, SharedInv, Closing, OpenSession, MoveTo
<1>5. ASSUME NEW t \in TcpThreads, ReturnSession(t)
      PROVE  SharedInv'
  BY <1>5, Parties DEF TcpTypeOK, LockInv, SharedInv, Closing, ReturnSession, MoveTo
<1>6. ASSUME NEW t \in TcpThreads, FinishTcp(t)
      PROVE  SharedInv'
  BY <1>6, Parties DEF TcpTypeOK, LockInv, SharedInv, Closing, FinishTcp, MoveTo
<1>7. ASSUME NEW t \in TcpThreads, LeaveTcp(t)
      PROVE  SharedInv'
  BY <1>7, Parties DEF TcpTypeOK, LockInv, SharedInv, Closing, LeaveTcp, MoveTo
<1>8. ASSUME NEW q \in QuicWinners, CountWin(q)
      PROVE  SharedInv'
  BY <1>8, Parties DEF TcpTypeOK, LockInv, SharedInv, Closing, CountWin, MoveTo
<1>9. ASSUME NEW q \in QuicWinners, CheckStreak(q)
      PROVE  SharedInv'
  BY <1>9, Parties DEF TcpTypeOK, LockInv, SharedInv, Closing, CheckStreak, MoveTo
<1>10. ASSUME NEW q \in QuicWinners, CheckFlight(q)
      PROVE  SharedInv'
  BY <1>10, Parties DEF TcpTypeOK, LockInv, SharedInv, Closing, CheckFlight, MoveTo
<1>11. ASSUME NEW q \in QuicWinners, LockSession(q)
      PROVE  SharedInv'
  BY <1>11, Parties DEF TcpTypeOK, LockInv, SharedInv, Closing, LockSession, MoveTo
<1>12. ASSUME NEW q \in QuicWinners, VerifyQuiet(q)
      PROVE  SharedInv'
  BY <1>12, Parties DEF TcpTypeOK, LockInv, SharedInv, Closing, VerifyQuiet, MoveTo
<1>13. ASSUME NEW q \in QuicWinners, DetachSession(q)
      PROVE  SharedInv'
  BY <1>13, Parties DEF TcpTypeOK, LockInv, SharedInv, Closing, DetachSession, MoveTo
<1>14. ASSUME NEW q \in QuicWinners, CloseSession(q)
      PROVE  SharedInv'
  BY <1>14, Parties DEF TcpTypeOK, LockInv, SharedInv, Closing, CloseSession, MoveTo
<1>15. CASE UNCHANGED tcpVars
  BY <1>15 DEF SharedInv, Closing, tcpVars
<1>. QED
  BY <1>1, <1>2, <1>3, <1>4, <1>5, <1>6, <1>7, <1>8, <1>9, <1>10, <1>11, <1>12, <1>13,
     <1>14, <1>15
     DEF TcpNext, TcpThread, QuicWinner, Finished

\* The initial state.
LEMMA TcpIInvInit == TcpInit => TcpInv
<1>. SUFFICES ASSUME TcpInit PROVE TcpInv
  OBVIOUS
<1>1. Present = {} /\ Winning = {}
  BY Parties DEF TcpInit, Present, Winning
<1>2. CountInv
  BY <1>1, FS_EmptySet DEF TcpInit, CountInv
<1>3. TcpTypeOK
  BY <1>2, CountTypes, Parties DEF TcpInit, TcpTypeOK, TcpPcs, QuicPcs
<1>. QED
  BY <1>2, <1>3, Parties DEF TcpInv, TcpInit, LockInv, SharedInv, Closing

\* The parts together.
LEMMA TcpIInvStep == TcpInv /\ [TcpNext]_tcpVars => TcpInv'
<1>. SUFFICES ASSUME TcpInv, [TcpNext]_tcpVars PROVE TcpInv'
  OBVIOUS
<1>1. CountInv'
  BY CountStep DEF TcpInv
<1>2. inFlight' \in 0 .. Cardinality(TcpThreads)
      /\ (wins' \in Nat => wins' \in 0 .. Cardinality(QuicWinners))
  <2>1. Cardinality(Present') \in 0 .. Cardinality(TcpThreads)
        /\ Cardinality(Winning') \in 0 .. Cardinality(QuicWinners)
    <3>1. Present' \in SUBSET TcpThreads /\ Winning' \in SUBSET QuicWinners
      BY DEF Present, Winning
    <3>. QED
      BY <3>1, FS_Subset, FS_CardinalityType, SessionAssumption
  <2>. QED
    BY <1>1, <2>1, SessionAssumption, FS_CardinalityType DEF CountInv
<1>3. TcpTypeOK'
  BY <1>2, TcpTypeStep DEF TcpInv
<1>. QED
  BY <1>1, <1>3, LockStep, SharedStep DEF TcpInv

\* Types, counters, lock and sessions, in every reachable state.
THEOREM TcpInductive == TcpSpec => []TcpInv
BY TcpIInvInit, TcpIInvStep, PTL DEF TcpSpec

\* The types of the variables, for any number of threads.
THEOREM TcpTypeCorrect == TcpSpec => []TcpTypeOK
<1>1. TcpInv => TcpTypeOK
  BY DEF TcpInv
<1>. QED
  BY <1>1, TcpInductive, PTL

\* What the shares of a session add up to.
LEMMA OneCloser == ASSUME TcpInv PROVE SessionAccounted
<1>. SUFFICES ASSUME NEW h \in TcpThreads,
                     NEW closers,
                     closers = {q \in QuicWinners : place[q] = "close" /\ hSession[q] = h}
              PROVE  Cardinality(closers) + (IF session = h THEN 1 ELSE 0)
                       = (IF handle[h] = "open" THEN 1 ELSE 0)
  BY DEF SessionAccounted
<1>1. CASE closers = {}
  <2>1. Cardinality(closers) = 0
    BY <1>1, FS_EmptySet
  <2>2. handle[h] = "open" <=> session = h
    BY <1>1, Parties DEF TcpInv, TcpTypeOK, SharedInv, Closing
  <2>. QED
    BY <2>1, <2>2
<1>2. ASSUME NEW q \in closers PROVE Cardinality(closers) = 1 /\ session # h /\ handle[h] = "open"
  <2>1. closers = {q}
    BY <1>2 DEF TcpInv, SharedInv, Closing
  <2>2. session # h /\ handle[h] = "open"
    BY <1>2 DEF TcpInv, SharedInv
  <2>. QED
    BY <2>1, <2>2, FS_Singleton
<1>. QED
  BY <1>1, <1>2

\* Every open session is the shared one or has exactly one closer, whoever opens
\* and closes at the same time (2061, 2082).
THEOREM Accounted == TcpSpec => []SessionAccounted
BY OneCloser, TcpInductive, PTL

\* Only OpenSession and DetachSession write the global, and neither may then.
LEMMA KeptStep ==
  ASSUME TcpInv, [TcpNext]_tcpVars, NEW t \in TcpThreads, place[t] = "return", session # Nobody
  PROVE  session' = session
<1>1. ASSUME NEW u \in TcpThreads, OpenSession(u) PROVE session' = session
  BY <1>1 DEF OpenSession
<1>2. ASSUME NEW q \in QuicWinners, DetachSession(q) PROVE session' = session
  BY <1>2 DEF TcpInv, LockInv, DetachSession
<1>. QED
  BY <1>1, <1>2 DEF TcpNext, TcpThread, QuicWinner, Finished, tcpVars, EnterTcp, SkipTcp,
     LookSession,
     ReturnSession, FinishTcp, LeaveTcp, CountWin, CheckStreak, CheckFlight, LockSession,
     VerifyQuiet, CloseSession

\* What the lock and the counter do guarantee: between the open under the lock and
\* the read of the global after it (2069) nobody takes the session away.
THEOREM KeptForReader == TcpSpec => SessionKeptForReader
<1>1. TcpInv /\ [TcpNext]_tcpVars
        => [\A t \in TcpThreads : place[t] = "return" /\ session # Nobody => session' = session]_tcpVars
  BY KeptStep
<1>. QED
  BY <1>1, TcpInductive, PTL DEF TcpSpec, SessionKeptForReader
=============================================================================
