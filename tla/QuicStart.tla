------------------------------ MODULE QuicStart ------------------------------
(***************************************************************************)
(* How the QUIC path of a request gets its connection in                   *)
(* shared/SimulatorPluginLibrary.cpp, and what the requests share on the   *)
(* way: MsQuic, opened by the first of them under g_CritSec and looked at  *)
(* without it by the others; the set of pinned keys, which Lua replaces at *)
(* any time and which decides whether a request may go by QUIC, how its    *)
(* handshake is judged and which warm connections still count; and the     *)
(* measured handshakes, from which the race takes its first window.        *)
(*                                                                         *)
(* A step is a stretch of code between two accesses to what the threads    *)
(* share.  The pool itself is ConnPool's; here a connection in it is what  *)
(* the pins know of it.  MsQuic (external) may fail to load or to open.    *)
(***************************************************************************)
EXTENDS Integers, Sequences, FiniteSets, FiniteSetsExt

CONSTANTS
  Requests,    \* threads of Http3ThreadFunc
  Hosts,
  Nabory,      \* bound: the host lists setPins is called with
  LastNabor,   \* bound: calls of setPins
  Samples,     \* bound: how long a handshake may take, ms
  OknoMin,     \* OKNO_SOED_MIN_MS
  OknoMax,     \* OKNO_SOED_MAX_MS
  Zapas,       \* OKNO_SOED_ZAPAS
  Zamerov,     \* ZAMEROV_HOSTOV, the hosts remembered
  None

ASSUME StartAssumption ==
  /\ None \notin Requests /\ None \notin Hosts
  /\ Nabory \subseteq SUBSET Hosts /\ LastNabor \in Nat /\ Zapas \in Nat /\ Zamerov \in Nat \ {0}
  /\ Samples \subseteq Nat /\ OknoMin \in Nat /\ OknoMax \in Nat /\ OknoMin <= OknoMax

VARIABLES
  crit,        \* who is inside g_CritSec
  msquic,      \* api, registration, configuration: how many of each were opened
  cred,        \* credential of the configuration: "none", "plain", "pinned"
  bezPrivyazki,\* g_QuicBezPrivyazki
  piny,        \* g_Piny: which call of setPins stored it, the hosts it names
  pinyEst,     \* g_PinyEst
  pokolenie,   \* g_PinyPokolenie
  setter,      \* where setPins is, and the set it was called with
  host,        \* the host of every request
  pc,          \* where every thread is
  conn,        \* its connection: generation, the set its key was checked with
  pool,        \* the idle connections of g_Pool
  zamery,      \* g_Zamery
  begun,       \* history: the last set when the request was made
  early,       \* history: the thread looked at g_QuicBezPrivyazki before it was settled
  uncovered,   \* history: a set in force since the request was made leaves its host free
  spread       \* history: least and most measured of a remembered host

pinVars == <<piny, pinyEst, pokolenie, setter>>
loadVars == <<crit, msquic, cred, bezPrivyazki>>
history == <<begun, early, uncovered>>
vars == <<loadVars, pinVars, host, pc, conn, pool, zamery, history, spread>>

NoConn == [host |-> None, pokolenie |-> 0, seen |-> 0]

Ready == \A i \in 1 .. 3 : msquic[i] > 0
Goto(t, to) == pc' = [pc EXCEPT ![t] = to]
CritFree == crit = None

Init ==
  /\ crit = None /\ msquic = <<0, 0, 0>> /\ cred = "none" /\ bezPrivyazki = FALSE
  /\ piny = [nabor |-> 0, hosty |-> {}] /\ pinyEst = FALSE /\ pokolenie = 0
  /\ setter = [at |-> "idle", hosty |-> {}]
  /\ host = [t \in Requests |-> None] /\ pc = [t \in Requests |-> "idle"]
  /\ conn = [t \in Requests |-> NoConn] /\ pool = {}
  /\ zamery = [i \in 1 .. Zamerov |-> [host |-> None, srednee |-> 0]]
  /\ begun = [t \in Requests |-> 0]
  /\ early = [t \in Requests |-> FALSE]
  /\ uncovered = [t \in Requests |-> FALSE]
  /\ spread = [h \in Hosts |-> {}]

-----------------------------------------------------------------------------
(* Lua: a request is made, a set of pins replaced (one thread does both).  *)

Begin(t, h) ==
  /\ pc[t] = "idle" /\ setter.at = "idle"
  /\ host' = [host EXCEPT ![t] = h]
  /\ Goto(t, "look")
  /\ begun' = [begun EXCEPT ![t] = piny.nabor]
  /\ uncovered' = [uncovered EXCEPT ![t] = h \notin piny.hosty]
  /\ UNCHANGED <<loadVars, pinVars, conn, pool, zamery, early, spread>>

SetPins(hosty) ==
  /\ setter.at = "idle" /\ piny.nabor < LastNabor
  /\ setter' = [at |-> "store", hosty |-> hosty]
  /\ UNCHANGED <<host, loadVars, piny, pinyEst, pokolenie, pc, conn, pool, zamery, history, spread>>

Store ==
  /\ piny' = [nabor |-> piny.nabor + 1, hosty |-> setter.hosty]
  /\ uncovered' = [t \in Requests |-> uncovered[t] \/ host[t] \notin setter.hosty]

StorePins ==
  /\ setter.at = "store" /\ CritFree
  /\ Store
  /\ setter' = [setter EXCEPT !.at = "est"]
  /\ UNCHANGED <<host, loadVars, pinyEst, pokolenie, pc, conn, pool, zamery, begun, early, spread>>

MarkPins ==
  /\ setter.at = "est"
  /\ pinyEst' = (pinyEst \/ setter.hosty # {})
  /\ setter' = [setter EXCEPT !.at = "bump"]
  /\ UNCHANGED <<host, loadVars, piny, pokolenie, pc, conn, pool, zamery, history, spread>>

BumpPins ==
  /\ setter.at = "bump"
  /\ pokolenie' = piny.nabor
  /\ setter' = [setter EXCEPT !.at = "idle"]
  /\ UNCHANGED <<host, loadVars, piny, pinyEst, pc, conn, pool, zamery, history, spread>>

-----------------------------------------------------------------------------
(* GetGlobalMsQuicApi. *)

Look(t) ==
  /\ pc[t] = "look"
  /\ Goto(t, IF Ready THEN "flag" ELSE "enter")
  /\ UNCHANGED <<host, loadVars, pinVars, conn, pool, zamery, history, spread>>

Enter(t) ==
  /\ pc[t] = "enter" /\ CritFree
  /\ crit' = t
  /\ Goto(t, "opening")
  /\ UNCHANGED <<host, msquic, cred, bezPrivyazki, pinVars, conn, pool, zamery, history, spread>>

\* Mutation: what another thread opened is opened again.
OpenWithoutLooking(t) ==
  /\ pc[t] = "opening"
  /\ \E upTo \in 0 .. 3 :
       /\ msquic' = [i \in 1 .. 3 |-> msquic[i] + (IF i <= upTo THEN 1 ELSE 0)]
       /\ Goto(t, IF msquic[3] = 0 /\ msquic'[3] > 0 THEN "cred" ELSE "leave")
  /\ UNCHANGED <<host, crit, cred, bezPrivyazki, pinVars, conn, pool, zamery, history, spread>>

\* Each of the three is opened if it is not open yet and the one before it is;
\* the others see them only when all are open.
OpenMsQuic(t) ==
  /\ pc[t] = "opening"
  /\ \E upTo \in 0 .. 3 :
       /\ msquic' = [i \in 1 .. 3 |-> msquic[i] + (IF i <= upTo /\ msquic[i] = 0 THEN 1 ELSE 0)]
       /\ Goto(t, IF msquic[3] = 0 /\ msquic'[3] > 0 THEN "cred" ELSE "leave")
  /\ UNCHANGED <<host, crit, cred, bezPrivyazki, pinVars, conn, pool, zamery, history, spread>>

\* With a set of pins the credential asks for the certificate event; a version
\* of msquic that refuses it, or no set, leaves the plain one.
LoadCredential(t) ==
  /\ pc[t] = "cred"
  /\ \/ /\ pinyEst
        /\ cred' = "pinned"
        /\ Goto(t, "leave")
     \/ /\ UNCHANGED cred
        /\ Goto(t, "plain")
  /\ UNCHANGED <<host, crit, msquic, bezPrivyazki, pinVars, conn, pool, zamery, history, spread>>

LoadPlain(t) ==
  /\ pc[t] = "plain"
  /\ cred' \in {"plain", "none"}  \* the result is not looked at
  /\ Goto(t, "mark")
  /\ UNCHANGED <<host, crit, msquic, bezPrivyazki, pinVars, conn, pool, zamery, history, spread>>

MarkBezPrivyazki(t) ==
  /\ pc[t] = "mark"
  /\ bezPrivyazki' = TRUE
  /\ Goto(t, "leave")
  /\ UNCHANGED <<host, crit, msquic, cred, pinVars, conn, pool, zamery, history, spread>>

Leave(t) ==
  /\ pc[t] = "leave"
  /\ crit' = None
  /\ Goto(t, "flag")
  /\ UNCHANGED <<host, msquic, cred, bezPrivyazki, pinVars, conn, pool, zamery, history, spread>>

-----------------------------------------------------------------------------
(* Http3ThreadFunc up to the point where the request may be sent. *)

Pinned(t) == pinyEst /\ host[t] \in piny.hosty  \* PinyDlyaHosta

LookAtFlag(t) ==
  /\ pc[t] = "flag"
  /\ Goto(t, IF msquic[1] > 0 /\ bezPrivyazki THEN "lookup" ELSE "reach")
  /\ early' = [early EXCEPT ![t] = cred # "pinned" /\ ~bezPrivyazki]
  /\ UNCHANGED <<host, loadVars, pinVars, conn, pool, zamery, begun, uncovered, spread>>

\* A pinned host without the certificate event: TCP sends, and checks the key.
LookUpPins(t) ==
  /\ pc[t] = "lookup" /\ (pinyEst => CritFree)
  /\ Goto(t, IF Pinned(t) THEN "tcp" ELSE "reach")
  /\ UNCHANGED <<host, loadVars, pinVars, conn, pool, zamery, history, spread>>

Reach(t) ==
  /\ pc[t] = "reach"
  /\ Goto(t, IF Ready THEN "take" ELSE "unavailable")
  /\ UNCHANGED <<host, loadVars, pinVars, conn, pool, zamery, history, spread>>

\* Mutation: the generation of a warm connection is not compared.
PoolTakeAny(t) ==
  LET mine == {c \in pool : c.host = host[t]}
  IN /\ pc[t] = "take"
     /\ IF mine = {}
        THEN Goto(t, "open") /\ UNCHANGED <<pool, conn>>
        ELSE \E c \in mine :
               /\ pool' = pool \ {c}
               /\ conn' = [conn EXCEPT ![t] = c]
               /\ Goto(t, "sent")
     /\ UNCHANGED <<host, loadVars, pinVars, zamery, history, spread>>

\* A warm connection of the same generation is handed over as it is; the
\* others of an older generation are closed.
PoolTake(t) ==
  LET fresh == {c \in pool : c.pokolenie = pokolenie}
      mine == {c \in fresh : c.host = host[t]}
  IN /\ pc[t] = "take"
     /\ IF mine = {}
        THEN pool' = fresh /\ Goto(t, "open") /\ UNCHANGED conn
        ELSE \E c \in mine :
               /\ pool' = fresh \ {c}
               /\ conn' = [conn EXCEPT ![t] = c]
               /\ Goto(t, "sent")
     /\ UNCHANGED <<host, loadVars, pinVars, zamery, history, spread>>

OpenConnection(t) ==
  /\ pc[t] = "open"
  /\ conn' = [conn EXCEPT ![t] = [host |-> host[t], pokolenie |-> pokolenie, seen |-> -1]]
  /\ Goto(t, "start")
  /\ UNCHANGED <<host, loadVars, pinVars, pool, zamery, history, spread>>

\* ConnectionStart refuses a configuration without credential (external).
StartConnection(t) ==
  /\ pc[t] = "start"
  /\ Goto(t, CASE cred = "none" -> "failed" [] cred = "plain" -> "shake" [] cred = "pinned" -> "certificate")
  /\ UNCHANGED <<host, loadVars, pinVars, conn, pool, zamery, history, spread>>

\* PEER_CERTIFICATE_RECEIVED: the key is judged by the set stored now.
CertificateReceived(t) ==
  /\ pc[t] = "certificate" /\ (pinyEst => CritFree)
  /\ \/ conn' = [conn EXCEPT ![t].seen = piny.nabor] /\ Goto(t, "shake")
     \/ Pinned(t) /\ Goto(t, "refused") /\ UNCHANGED conn
  /\ UNCHANGED <<host, loadVars, pinVars, pool, zamery, history, spread>>

\* Mutation: a new host goes on with the mean it displaces.
ZapomnitInPlace(h, ms) ==
  LET known == {i \in 1 .. Zamerov : zamery[i].host \in {h, None}}
      slot == IF known = {} THEN 1 ELSE Min(known)
  IN zamery' = [zamery EXCEPT ![slot] =
                  [host |-> h, srednee |-> IF @.host = None THEN ms ELSE (3 * @.srednee + ms) \div 4]]

ZapomnitRukopozhatie(h, ms) ==
  LET known == {i \in 1 .. Zamerov : zamery[i].host = h}
      free == {i \in 1 .. Zamerov : zamery[i].host = None}
  IN zamery' = IF known # {}
               THEN [zamery EXCEPT ![Min(known)].srednee = (3 * @ + ms) \div 4]
               ELSE [zamery EXCEPT ![IF free = {} THEN 1 ELSE Min(free)] = [host |-> h, srednee |-> ms]]

Connected(t, ms) ==
  /\ pc[t] = "shake"
  /\ ZapomnitRukopozhatie(host[t], ms)
  /\ spread' = [h \in Hosts |->
                  IF \A i \in 1 .. Zamerov : zamery'[i].host # h THEN {}
                  ELSE IF h = host[t] THEN spread[h] \cup {ms} ELSE spread[h]]
  /\ Goto(t, "sent")
  /\ UNCHANGED <<host, loadVars, pinVars, conn, pool, history>>

HandshakeFails(t) ==
  /\ pc[t] = "shake"
  /\ Goto(t, "failed")
  /\ UNCHANGED <<host, loadVars, pinVars, conn, pool, zamery, history, spread>>

PoolReturn(t) ==
  /\ pc[t] = "sent"
  /\ pool' = pool \cup {conn[t]}
  /\ Goto(t, "done")
  /\ UNCHANGED <<host, loadVars, pinVars, conn, zamery, history, spread>>

OknoSoedineniya(h) ==
  LET known == {i \in 1 .. Zamerov : zamery[i].host = h}
      okno == IF known = {} THEN OknoMax ELSE zamery[Min(known)].srednee * Zapas
  IN IF okno < OknoMin THEN OknoMin ELSE IF okno > OknoMax THEN OknoMax ELSE okno

Next ==
  \/ \E hosty \in Nabory : SetPins(hosty)
  \/ StorePins \/ MarkPins \/ BumpPins
  \/ \E t \in Requests :
       \/ \E h \in Hosts : Begin(t, h)
       \/ Look(t) \/ Enter(t)
       \/ OpenMsQuic(t) \/ LoadCredential(t) \/ LoadPlain(t) \/ MarkBezPrivyazki(t) \/ Leave(t)
       \/ LookAtFlag(t) \/ LookUpPins(t) \/ Reach(t) \/ PoolTake(t)
       \/ OpenConnection(t) \/ StartConnection(t) \/ CertificateReceived(t)
       \/ HandshakeFails(t) \/ PoolReturn(t)
       \/ \E ms \in Samples : Connected(t, ms)

Spec == Init /\ [][Next]_vars

-----------------------------------------------------------------------------
Places == {"idle", "look", "enter", "opening", "cred", "plain",
           "mark", "leave", "flag", "lookup", "reach", "take", "open", "start", "certificate",
           "shake", "sent", "done", "tcp", "unavailable", "failed", "refused"}

\* Types; MsQuic, its registration and its configuration are opened once however
\* many threads find them missing, and only the holder of g_CritSec is inside.
TypeOK ==
  /\ crit \in Requests \cup {None} /\ cred \in {"none", "plain", "pinned"}
  /\ msquic \in [1 .. 3 -> 0 .. 1]
  /\ bezPrivyazki \in BOOLEAN /\ pinyEst \in BOOLEAN
  /\ piny \in [nabor : 0 .. LastNabor, hosty : SUBSET Hosts] /\ pokolenie \in 0 .. LastNabor
  /\ setter \in [at : {"idle", "store", "est", "bump"}, hosty : SUBSET Hosts]
  /\ pc \in [Requests -> Places] /\ host \in [Requests -> Hosts \cup {None}]
  /\ \A t \in Requests : pc[t] \in {"opening", "cred", "plain", "mark", "leave"} => crit = t

\* A request sent over QUIC goes over a connection whose key was checked with the
\* set that was in force when Lua made the request, or with a later one, unless
\* some set since then leaves the host free, or the thread looked at
\* g_QuicBezPrivyazki before any thread had finished loading the credential.
SentAsPinned ==
  \A t \in Requests : pc[t] \in {"sent", "done"} =>
    \/ conn[t].seen >= begun[t]
    \/ uncovered[t]
    \/ early[t]

\* The table of handshakes remembers a host once, its mean lies between the
\* least and the most measured since, and so does the window it gives, within
\* the bounds of 150 and 700 ms.
WindowMeasured ==
  \A h \in Hosts :
    /\ Cardinality({i \in 1 .. Zamerov : zamery[i].host = h}) <= 1
    /\ OknoSoedineniya(h) \in OknoMin .. OknoMax
    /\ spread[h] # {} => \E i \in 1 .. Zamerov :
         zamery[i].host = h /\ zamery[i].srednee \in Min(spread[h]) .. Max(spread[h])
    /\ spread[h] = {} => OknoSoedineniya(h) = OknoMax
=============================================================================
