------------------------------ MODULE QuicHints ------------------------------
(***************************************************************************)
(* The hosts Android's Cronet is told to try over QUIC first               *)
(* (sHostyPodskazki in LuaLoaderInternal.java): collected in memory, saved *)
(* in SharedPreferences, read back when the engine of the next process is  *)
(* built.  Threads of sExecutor run one request each; the first of them to *)
(* enter initializeCronet builds the engine, and every one remembers its   *)
(* host.  SharedPreferences is external: apply() changes what the process  *)
(* sees at once and the file later, and a process may die between the two. *)
(***************************************************************************)
EXTENDS Naturals

CONSTANTS
  Tasks,
  Hosts,
  HostIzUrl,  \* of each request, Nil when its URL has none
  Faults,     \* those of "read" and "write" of the preferences that may fail
  LastLife,   \* bound: how many processes follow each other
  Nil

ASSUME HintsAssumption ==
  /\ HostIzUrl \in [Tasks -> Hosts \cup {Nil}]
  /\ Nil \notin Tasks \cup Hosts
  /\ LastLife \in Nat

VARIABLES
  task,     \* of the request's thread
  holder,   \* the thread inside initializeCronet
  hosty,    \* sHostyPodskazki
  kopiya,   \* the copy each thread is about to save
  hinted,   \* the hosts hinted to the engine, {Nil} while there is no engine
  prefs,    \* the set under KLYUCH_HOSTY as this process sees it
  disk,     \* the same in the file
  life,     \* processes so far
  old,      \* history: what the file held when the process started
  unread    \* history: the preferences could not be read

hintsVars == <<task, holder, hosty, kopiya, hinted, prefs, disk, life, old, unread>>

NoEngine == {Nil}

HintsTypeOK ==
  /\ task \in [Tasks -> {"idle", "queued", "load", "remember", "copy", "put", "build", "over"}]
  /\ holder \in Tasks \cup {Nil}
  /\ kopiya \in [Tasks -> SUBSET Hosts]
  /\ hinted \in (SUBSET Hosts) \cup {NoEngine}
  /\ {hosty, prefs, disk, old} \subseteq SUBSET Hosts
  /\ life \in 0 .. LastLife /\ unread \in BOOLEAN

HintsInit ==
  /\ task = [r \in Tasks |-> "idle"] /\ holder = Nil
  /\ hosty = {} /\ kopiya = [r \in Tasks |-> {}] /\ hinted = NoEngine
  /\ prefs = {} /\ disk = {} /\ life = 0 /\ old = {} /\ unread = FALSE

GotoHint(r, label) == task' = [task EXCEPT ![r] = label]

-----------------------------------------------------------------------------
(* The task of a request on sExecutor                                      *)

\* InitiateRequestWrapper.invoke gives the request a thread.
AskHint(r) ==
  /\ task[r] = "idle" /\ GotoHint(r, "queued")
  /\ UNCHANGED <<holder, hosty, kopiya, hinted, prefs, disk, life, old, unread>>

\* initializeCronet: the engine is there, or this thread is to build it, or there
\* is no provider (or was none a moment ago).
Initialize(r) ==
  /\ task[r] = "queued" /\ holder = Nil
  /\ \/ hinted # NoEngine /\ GotoHint(r, "remember") /\ UNCHANGED holder
     \/ hinted = NoEngine /\ GotoHint(r, "load") /\ holder' = r
     \/ hinted = NoEngine /\ GotoHint(r, "over") /\ UNCHANGED holder
  /\ UNCHANGED <<hosty, kopiya, hinted, prefs, disk, life, old, unread>>

\* Mutation: the host is remembered before the saved ones are read, in a process
\* whose list is still empty, and the saved ones are never read.
LoadSkipped(r) ==
  /\ task[r] = "load" /\ GotoHint(r, "remember")
  /\ UNCHANGED <<holder, hosty, kopiya, hinted, prefs, disk, life, old, unread>>

\* The hosts of the process before.
Load(r) ==
  /\ task[r] = "load" /\ GotoHint(r, "remember")
  /\ \/ hosty' = hosty \cup prefs /\ UNCHANGED unread
     \/ "read" \in Faults /\ unread' = TRUE /\ UNCHANGED hosty
  /\ UNCHANGED <<holder, kopiya, hinted, prefs, disk, life, old>>

-----------------------------------------------------------------------------
(* zapomnitHost, called by the thread that builds the engine and again by  *)
(* every thread that has one                                               *)

Remembered(r) == IF holder = r THEN "build" ELSE "over"

\* Mutation: the thread that builds the engine leaves its host to the call after it.
RememberLate(r) ==
  /\ task[r] = "remember"
  /\ IF holder = r \/ HostIzUrl[r] \in hosty \cup {Nil}
     THEN GotoHint(r, Remembered(r)) /\ UNCHANGED hosty
     ELSE GotoHint(r, "copy") /\ hosty' = hosty \cup {HostIzUrl[r]}
  /\ UNCHANGED <<holder, kopiya, hinted, prefs, disk, life, old, unread>>

\* Mutation: a URL without a host is remembered too.
RememberNone(r) ==
  /\ task[r] = "remember"
  /\ IF HostIzUrl[r] \in hosty
     THEN GotoHint(r, Remembered(r)) /\ UNCHANGED hosty
     ELSE GotoHint(r, "copy") /\ hosty' = hosty \cup {HostIzUrl[r]}
  /\ UNCHANGED <<holder, kopiya, hinted, prefs, disk, life, old, unread>>

\* The set is synchronized, so that looking and adding are one step.
Remember(r) ==
  /\ task[r] = "remember"
  /\ IF HostIzUrl[r] \in hosty \cup {Nil}
     THEN GotoHint(r, Remembered(r)) /\ UNCHANGED hosty
     ELSE GotoHint(r, "copy") /\ hosty' = hosty \cup {HostIzUrl[r]}
  /\ UNCHANGED <<holder, kopiya, hinted, prefs, disk, life, old, unread>>

Copy(r) ==
  /\ task[r] = "copy" /\ GotoHint(r, "put")
  /\ kopiya' = [kopiya EXCEPT ![r] = hosty]
  /\ UNCHANGED <<holder, hosty, hinted, prefs, disk, life, old, unread>>

\* putStringSet and apply(), outside the lock; an exception is logged.
Put(r) ==
  /\ task[r] = "put" /\ GotoHint(r, Remembered(r))
  /\ \/ prefs' = kopiya[r]
     \/ "write" \in Faults /\ UNCHANGED prefs
  /\ UNCHANGED <<holder, hosty, kopiya, hinted, disk, life, old, unread>>

\* The hints and build(): then the request goes on, or it fell back.
Build(r) ==
  /\ task[r] = "build" /\ holder' = Nil
  /\ \/ hinted' = hosty /\ GotoHint(r, "remember")
     \/ GotoHint(r, "over") /\ UNCHANGED hinted
  /\ UNCHANGED <<hosty, kopiya, prefs, disk, life, old, unread>>

-----------------------------------------------------------------------------
(* External: the file, and the process                                     *)

Flush ==
  /\ disk # prefs /\ disk' = prefs
  /\ UNCHANGED <<task, holder, hosty, kopiya, hinted, prefs, life, old, unread>>

\* The process dies at any moment; the next one sees the file.
Restart ==
  /\ life < LastLife /\ life' = life + 1
  /\ task' = [r \in Tasks |-> "idle"] /\ holder' = Nil
  /\ hosty' = {} /\ kopiya' = [r \in Tasks |-> {}] /\ hinted' = NoEngine
  /\ prefs' = disk /\ old' = disk /\ unread' = FALSE /\ UNCHANGED disk

Thread(r) ==
  AskHint(r) \/ Initialize(r) \/ Load(r) \/ Remember(r) \/ Copy(r) \/ Put(r) \/ Build(r)

HintsNext == (\E r \in Tasks : Thread(r)) \/ Flush \/ Restart

HintsSpec == HintsInit /\ [][HintsNext]_hintsVars

-----------------------------------------------------------------------------
(* Properties                                                              *)

\* What an earlier process saved is never lost: however the threads of this one
\* overtake each other, whenever it dies and whatever fails, each set it writes
\* has the hosts the file held at its start (335-345).  The exception is a process
\* that could not read them (343) and then saves its own.
OldHintsKept == unread \/ old \subseteq disk

\* The engine is built with the hint for the host of the very request that builds
\* it (108-109, 345), and, when they could be read, with those of earlier processes.
FirstHinted ==
  [][ \A r \in Tasks :
        hinted = NoEngine /\ hinted' # NoEngine /\ holder = r =>
          /\ HostIzUrl[r] \in hinted' \cup {Nil}
          /\ unread \/ old \subseteq hinted' ]_hintsVars
=============================================================================
