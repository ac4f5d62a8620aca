# Verification of the HTTP/3 plugin for Solar2D

The plugin gives Lua applications one call, `http3.request`, that sends an HTTP
request over HTTP/3 when it can and over HTTP/1.1 when it cannot. This directory
holds TLA+ models of the program, the TLC runs that check them and the proofs
that TLAPS checks. Line numbers refer to `shared/SimulatorPluginLibrary.cpp` (the
Windows layer) unless another file is named.

## 1. The system

| Part | State | Operations | Who touches it |
|---|---|---|---|
| **Race of one request** | `RaceContext` (554), `Http3State` (1211), events | `RaceAndRequestThreadFunc`, `Http3ThreadFunc`, `Http1ThreadFunc`, `RaceFinish`, `ReleaseRaceContext`, the MsQuic callbacks | an orchestrator thread, a QUIC thread, up to two TCP threads, MsQuic's worker; no lock, only volatile fields and compare-and-swap |
| **Pool of QUIC connections** | `g_Pool` (`HTTP3_POOL_SIZE`, eight slots), the fields of every `Http3Conn` (1273) | `PoolTake`, `PoolReturn`, `PoolCloseConn` | the QUIC threads of all requests; `g_PoolLock` guards the slots, not the fields; the callbacks write `gotovo` and `mertvo` without it |
| **WinHTTP session** | `g_hWinHttpSession`, `g_TcpVPolyote`, `g_PobedQuicPodryad` | `GetGlobalWinHttpSession`, `ZakrytSeansTcpEsliPora` | all TCP threads; every QUIC win may close it |
| **Result store and native Lua API** | result list, buffer of cancelled identifiers, ring of progress counters, task counters | `AddResult`, `Progress*`, `initiateRequest`, `checkRequest`, `cancelRequest`, `collectGarbage`, `checkProgress`, `getMemoryStats` | the Lua thread and all worker threads, under `g_CritSec` |
| **MsQuic loading, pins, connection window** | the four globals of `GetGlobalMsQuicApi` (1729), `g_Piny` and its generation (2959), `g_Zamery` (1342) | `GetGlobalMsQuicApi`, `setPins`, `ZapomnitRukopozhatie`, `OknoSoedineniya` | looked at without the lock and filled under it; Lua replaces the pins, callbacks check them |
| **HTTP/3 exchange** | buffers of one stream | `ParseUrl` (459), the header encoder, the frame parser (754-1209), `Http3OtpravitZapros`, `RequestStreamCallback` | the sender and the stream callback of one request |
| **Lua wrapper** | `activeListeners`, counters of a request | `lua/plugin_http3.lua`: `request`, `cancel`, `pumpEvents`, `collectGarbage` | the Lua thread polls `checkRequest` on every frame and repeats a failed request with `network.request` |
| **Android** | map of active requests, engine, pins, counters, hosts remembered for QUIC | `LuaLoaderInternal.java`: start of Cronet, callbacks, watchdog, `cancel`, `setPins` | the executor, Cronet's network thread, the watchdog and the Lua thread |
| **Apple** | `activeTasks`, `zadachi`, the session | `shared/SimulatorPluginLibrary.mm`: `requestWithURL`, `cancelRequest`, `setPins`, the delegate | the delegate queue, the main queue |
| Older Apple copy, prebuilt plugins, headers, demos, tools | none of the system's | none | section 6 |

**How they interact.** Lua calls `initiateRequest`, which counts the task, takes a
progress slot and starts the orchestrator. This starts the QUIC thread at once
and a TCP thread when the connection window is over and QUIC has shown no
progress. The QUIC thread takes a connection from the pool or makes one, waits
for the callbacks, decides its outcome, publishes it, returns the connection and
frees its state. Before sending, a path must obtain `otpravitel` (0 to 1 QUIC, 0 to 2
TCP, 0 to 3 nobody); before publishing, it must win `winnerAssigned`. The winner
calls `AddResult`; Lua fetches the result with `checkRequest`. Android and Apple replace
everything below the wrapper by Cronet and by `NSURLSession`, which call the listener
themselves.

**What is hard.** Everything in the race is decided by unlocked reads and swaps of
words that belong together; callbacks keep pointers into memory another thread frees;
`PoolReturn` writes a connection's fields outside the lock that
`PoolTake` holds; the TCP session may be closed by whoever wins at the moment
somebody starts to use it; cancellation, garbage collection and progress race
with the threads that publish. Pins change while connections checked with the old ones
are being opened, used and kept. The wrapper's deadline, the watchdog on Android and the
caller's cancel race the answer. The network may be silent for ever, and
`WinHttpSendRequest` is known not to keep its own timeout (comment at 1962).
`PROJECT.json` lists each hazard at its line with the properties about it.

## 2. The modules

| Module | Models | Lines |
|---|---|---|
| `OneAnswer` | abstract: what the race of one request promises | none |
| `HappyEyeballs` | the race of one request; implements `OneAnswer` | 554-752, 1459-1723, 1810-2050, 2093-2476 |
| `ConnPool`, `ConnPoolMC` | the pool under concurrent requests; symmetry for TLC | 1265-1457 and its callers |
| `TcpSession` | the shared WinHTTP session | 724-739, 2056-2127, 2375-2381 |
| `ResultStore` | results, cancellations, progress, counters | 222-434, 2485-2661, 2666-2946 |
| `QuicStart`, `QuicStartMC` | MsQuic opened once, pins against loading, pool and handshakes, connection window | 1342-1413, 1600-1660, 1729-1870, 2959-3040, `shared/piny.h` |
| `Http3Wire`, `Http3WireMC` | the bytes of one exchange, both directions | 459-552, 754-1209, 1459-1676, 2495-2624 |
| `OneReport` | abstract: what a transport promises to a listener | none |
| `LuaWrapper` | the wrapper over `ResultStore`; implements `OneReport` | `lua/plugin_http3.lua` 138-516 |
| `CronetRequest` | a request on Android; implements `OneReport` | `LuaLoaderInternal.java` |
| `QuicHints`, `QuicHintsMC` | the hosts Android remembers for QUIC; values for TLC | `LuaLoaderInternal.java` 97-117, 249-268, 274-401, 587-600 |
| `AppleSession` | a request on iOS and macOS; implements `OneReport` | `shared/SimulatorPluginLibrary.mm` |
| `HappyEyeballsProofs`, `ConnPoolProofs`, `ResultStoreProofs`, `LuaWrapperProofs`, `AppleSessionProofs` | theorems about the module of that name | |
| `CronetRequestProofs` | theorems about `CronetRequest` and `QuicHints` | |
| `TransportProofs` | theorems about `QuicStart` and `TcpSession` | |
| `Http3WireProofs` | theorems about `Http3Wire` | |

**How they fit.** `LuaWrapper` contains `ResultStore` as an instance, so its requests live
in the real lists, with their overflow. The others meet through what one tells the next by a few values: a request in
`ResultStore` publishes once, which is what `HappyEyeballs` shows
(`AtMostOneResult`, `EventuallyAnswered`); the pool in `HappyEyeballs` is a choice
between a warm and a cold start and in `QuicStart` a set of idle connections, which is what
`ConnPool` gives (`OneRequestPerConn`, `EvictsOnlyWorn`); the connection window in `HappyEyeballs` may end
at any moment, which covers every value `QuicStart` computes.

### HappyEyeballs

`pc` has one control point per thread; the shared variables bear the names of the fields of
`RaceContext`. A step is one access to shared memory. Accesses are merged
only where no other thread can tell, and each merge is noted: `RaceFinish` is three
steps (flags and event; the swap; `AddResult`), the QUIC thread's final decision four (`ReadOutcome`,
`ReadSender`, `CloseRight`, `Yield`), a connection callback reads the waiting
request in one step and uses it in the next.

`mode` is what `Http3ThreadFunc` finds: `warm` (a connection from the pool),
`cold`, `pinned` (host with pins but no certificate event, 1828), `unsupported`
(no `https`, or no MsQuic; 1816, 1852). `Faults` says which `CreateThread` calls
may fail. `clock` stands for the two deadlines of a request: 0 in time, 1
`timeout_ms` over, 2 the reserve of 250 ms over as well.
A freed `Http3State` may be read with any value; a write to it is lost; `stale`
remembers that it happened. `sent` and `results` are history variables.

### ConnPool

One thread per request, from `PoolTake` to the end of `PoolReturn`. Every slot
that is looked at and every field `PoolReturn` touches is a step, because the
fields are shared without the lock. `PoolTake` gives up the lock to close a worn
connection (1420) and takes it again. A read of a freed connection returns
anything, a write is lost. The clock is `GetTickCount`
modulo `Word`, and differences are unsigned. `PoolAssumption` has `Word > LastTick`: the
counter itself does not wrap, the only differences that do are the negative ones.
`Mortal` lets MsQuic shut a connection down at any moment.

### TcpSession

TCP threads (`EnterTcp` to `LeaveTcp`) and QUIC wins (`CountWin` to `CloseSession`).
The first look at the session (2059) is a step without the lock, the second one
with it, and the `return` (2069) reads the global once more. A session bears the name
of the thread that opened it, so `handle` shows what became of each.

### ResultStore

Each function holds `g_CritSec` throughout and is one step; `initiateRequest` takes it
twice and starts the threads afterwards, so it is three. `known`, `delivered`,
`silenced` (cancelled before delivery), `forgotten` (cancellations overwritten or
cleared) and `moved` (bytes transferred) are history variables. The payload of a
result is its kind, an answer or an error. `checkProgress` and `getMemoryStats` only
read and are not actions.

### QuicStart

A thread of `Http3ThreadFunc` from `begin` to the moment its request is on a
connection. `msquic` counts what was opened, `cred` is the credential of the
configuration, `piny` the set in force. `setPins` is the three writes it makes; a handshake
takes its time in `Samples`, is checked with the set in force then, and lands in the table `zamery`. `begun`, `early` and
`uncovered` are history variables that say what a request may rely on.

### Http3Wire

A text is a sequence of bytes. One request is encoded at once (`Http3OtpravitZapros`
runs in one callback), its reply arrives in chunks, each a step. The server is
external: `Frames` and `Served` decode what was sent by RFC 9114 and RFC 9204,
`Stream` encodes its reply, so that a mistake on our side is not repeated by the
other. `Http3WireMC` states the examples those documents publish as assumptions of
the model, which TLC evaluates. The reader of field lines is modelled with the
seven-bit length of a literal name that the code has (1146-1147).

`AsyncRequestContext` is what `initiateRequest` keeps of a caller's texts (2495-2624): each up to its
first NUL, of the URL 1023 bytes, scheme included, and of the method 15, without a word about the rest
(`UrlCap`, `MethodCap`); the headers text and the body have buffers of their own size. `ParseUrl` cuts once more,
a host at 255 bytes and a path at 1023 (`HostCap`, `PathCap`).

`success` and `failed` are two flags. The stream ends with its SHUTDOWN_COMPLETE (`over`), which sets `failed`
unless it was a success; a request that yields to TCP or finds no stream is failed without being sent
(`NothingSent`, 1526-1535 and 1603-1608); and the shutdown of the connection, or TCP's victory, sets `failed` at
any time and whatever `success` is (`ConnectionShutdown`, 1662-1676, 1929-1931), so that both may be set.

Two named assumptions say which exchanges the theorems speak of, and TLC evaluates them for the exchanges of
its run. `RequestAssumption`: the texts of a request are bytes, and the sizes computed for what is kept of it fit an
`int`, as the code's do. `ReplyAssumption`: a reply is any list of frames; a HEADERS frame holds any lines of
RFC 9204, with indices into the static table and texts as they are or in the Huffman code; a value of `:status`
fits the 64 bytes the code reads it into; types and lengths of frames fit an `int`; and the stream may end any
number of bytes early. `WireAssumption` says that the sizes are numbers.

`WellSpelt` is no assumption but the precondition of `RequestDelivered`, beside which `WireRequests` holds requests of
every other kind: the URL is a scheme, a host without `/` or `:`, a decimal port or none, and a path that begins
with `/` or is empty; the URL, its host, its path and the method are shorter than the buffers they are copied to; the
name of a header is not empty and has no colon, and its text no CR, which would end it in the headers text
(1096-1104); there is no NUL in any of them; and the method and the agent fit the fixed part of the header buffer,
512 bytes in the code (1550), beside 69: two before the lines, twelve for each of the first five, and `:method`.

### LuaWrapper

One Lua thread. A pass over the listeners (`PumpEvents`) takes a snapshot; every
listener is a step that looks at its result, reports progress or gives up. The
application acts between two passes or inside a callback (`calling`). `late` says
that a request has waited for longer than `maxWaitMs`; `network` holds requests handed to
`network.request`, whose answer is external and comes in the end.

`globals` says which of `Runtime` and `network` exist. Solar2D has both. In a plain interpreter, the CLI mode that
`pumpEvents` (499-516) and `test_app/test_runner.lua` are for, they may be missing, and the wrapper tests for them:
without `network` a failed transport is repeated nowhere and its listener is never called (212, 413), and without
`Runtime` `cancel` leaves the polling listener registered (442). The constant `Hosts` chooses.

### CronetRequest

The start on the executor (engine, builder, `start()`), Cronet's outcome, the two
halves of the last callback (verdict under the lock, tasks to Lua), the watchdog in two
steps, `cancel` in two steps (flag and `UrlRequest.cancel()`). `tasks` is the queue of
Corona's runtime tasks. Cronet is external: it ignores a cancel before `start()` and after it has
decided an outcome, and calls one of three last callbacks once. `engine` and
`building` hold the pins given to the one engine of the process. They are given host by host (325-327): an exception
at one host leaves those before it in the builder and skips line 328, which takes away the exemption of
locally installed roots (`bypass`); a set whose date has passed (322) is not given at all. `gap` remembers which
of the two happened.

### QuicHints

Threads of the executor add their host to `sHostyPodskazki`, copy the set and save the
copy; the one that builds the engine reads the saved set first, all in the steps of the code. `prefs` is what
the process sees of `SharedPreferences`, `disk` the file, which follows later (`Flush`). `Restart` ends the process
at any step; the next one starts from the file. `old` remembers what that was. Which host a URL has is a constant;
`None` is a URL without one. The module is apart from `CronetRequest`, with which it shares the
order of `initializeCronet` and nothing a request's end depends on.

### AppleSession

Requests, cancel and `setPins` on the main thread, callbacks on the delegate queue,
blocks on the main queue. An address of a task object is reused as soon as the task has ended and nobody lists it.
Sessions and sets of pins are numbered, `connection` says which set the
connection of a session was checked with.

## 3. The runs

| Run | Asks | Size |
|---|---|---|
| `Race` | all properties of the race, with liveness and the refinement of `OneAnswer` | 134 thousand states |
| `PoolShared` | the pool under overlapping requests, deaths, ageing and new pins | 3.75 million (with symmetry) |
| `TcpSessionKept` | what the counter and the second look at it guarantee | 57 thousand |
| `StoreSafety` | the store with every buffer small enough to overflow | 1.3 million |
| `QuicStart` | opening, pins and window with two requests and two calls of `setPins` | 824 thousand |
| `Http3Wire` | 330 requests, 21 replies cut into chunks in every way | 4271 |
| `LuaWrapper` | the wrapper over the store, in Solar2D and without it: silence after cancel, one report, an end | 564 thousand |
| `CronetRequest` | Android: releases, cancellation, pins, one report, an end | 934 thousand |
| `QuicHints` | Android: remembered hosts across processes that die | 16 thousand |
| `AppleSession` | Apple: addresses as keys, pins, one report, an end | 176 thousand |
| `RaceStale`, `PoolCloseBusy` | claims of comments or of a test tool that the code does not keep | counterexamples |

**Why the bounds are enough.**

* `Race` has none: one request has five threads at most and the state space is complete.
* `PoolShared` has two slots and three requests, two of them in the pool at a time:
  the pool is full when a connection comes back, and one connection can be closed,
  taken and returned by different requests. The same run with all three in the pool at once
  (11.6 million states) passes too and is left out for its length. Two ticks are a
  connection younger and older than `IdleMs`; a negative age is as enormous as the code's. The wrap of the counter
  itself, after 49 days, is outside the model and the proofs.
* `TcpSessionKept` has two TCP threads (two openers, or one user and one newcomer) and
  three winners with a streak of two: one that does not reach the streak and two that try to close.
* `StoreSafety` has three requests for two slots, two results and two
  cancellations, so that each buffer overflows, and one portion per transfer, which
  tells a slot that counts from one that does not. `LuaWrapper` has two requests for
  one of each, one of them with progress events, in an interpreter with both globals and in one with neither; with `network` alone
  it passes too and is left out for its length.
* `QuicStart` has two requests (one that opens and one that looks; one that leaves a connection and one that takes
  it), two calls of `setPins` with sets that name the host or not, one remembered host for two, and two
  handshake times that give different windows.
* `Http3Wire` has every combination of port, path, method and body, names and values at the
  edges of the length prefixes (5 and 7 bits; 63 and 64 for frames), header lists that outgrow the reserve,
  replies that end inside a frame, and chunks of 1, 2, 5 and 40 bytes, which cut inside and between frames. 217 of the
  requests are well spelt, one of them as long as the URL's buffer allows; the others have a path or a method that is cut, or a NUL.
  `UrlCap` is 144, `MethodCap` 8, `HostCap` 8 and `PathCap` 130. `BaseRoom` is 76, in place of 512, the
  least that `WellSpelt` allows a method of four letters; smaller buffers are the business of `EncoderKeepsRoom`,
  which tries every one.
* `CronetRequest` has a request with progress and one without, and one set of pins besides none, of two
  hosts, so that a builder may throw at the second; `AppleSession` two requests
  for two addresses and one change of pins, so that an address is reused and a session replaced.
* `QuicHints` has two hosts and a request without one, so that copies of different age meet, and three processes, so
  that one finds a file its predecessor wrote and leaves one to its successor; each access to the
  preferences may fail.

**Deadlock** is checked in `Race`, `PoolShared`, `TcpSessionKept`, `StoreSafety`
and the counterexamples of the first two. A thread that never gets the pool lock or the critical
section would show as one; where everything may be done, `Finished` stutters;
`StoreSafety` needs no such step, Lua can always act. In `QuicStart`, `Http3Wire`, `LuaWrapper`,
`CronetRequest`, `QuicHints` and `AppleSession` the number of requests is bounded and the system stops when all of them are
over; that they do get over is `EventuallyHeard`, `EventuallyEnded` and `EventuallyTold`.

**Fairness.** `Race` assumes weak fairness of every thread's own steps and of the
clock: Windows schedules runnable threads and time passes. It assumes nothing of
the network, of the callbacks that only the network causes, or of
`WinHttpSendRequest`, which may never return. `EventuallyAnswered` holds all the same,
because the QUIC thread keeps the deadline, for every request but one of a host
that is pinned and has no certificate event: there the TCP thread is alone.
`EventuallyFreed` names its two exceptions: a TCP thread for ever inside WinHTTP,
and a QUIC thread that could not be created, whose reference nobody gives back
(2415 and the comment at 2632).
`LuaWrapper` assumes that Solar2D goes on to run the listeners of `enterFrame`, that
callbacks return, that time passes and that `network.request` answers (`SF`: the answer
may be held up by a pass again and again, not for ever). It assumes nothing of
the native answer: the wrapper's own deadline is there for that.
`CronetRequest` assumes that the executor, the watchdog's scheduler and the Lua thread run what is
queued and that Cronet calls its last callback once it has an outcome; an outcome
itself may never come, which is why the watchdog matters, and `EventuallyEnded` names the one case where it does
not help. `AppleSession` assumes that `NSURLSession` ends every task (its own timeout) and that
both queues run. The other runs state safety only.

**One report.** `OneReport` is what the three platforms should share: a listener hears of
the end of its request once, or never because the request was dropped. `LuaWrapper`, `CronetRequest`
and `AppleSession` implement it. They differ in what *cancelled* means: under the
wrapper on Windows a cancelled listener is silent in Solar2D (`CancelSilences`, but for a request
already with `network.request`) and not without `Runtime`; on Android it is silent when Cronet was stopped in time (`CancelHonoured`); on
Apple it is told, with the error of a cancelled task (`EventuallyTold`).

**What the properties rest on.** Every property of a passing run has a mutant of
the code in the module (marked `Mutation:`), listed in `PROJECT.json`, that breaks it.

**Disagreements found.** Each of the first two is a run with one property, and its
counterexample is a trace of the code.

* `RaceStale`: `StreamClose` waits for the stream's callbacks, but the
  connection's callback may have read `ozhidayushchiy` before line 2031 and goes on to
  use the request after line 2045.
* `PoolCloseBusy`: between `zanyat = 0` (1442) and the test of `mertvo` (1443) another
  request can take the connection.

Others, met while modelling, are in the models without a run of their own:

* A TCP thread that fails early (2114, 2123, ...) publishes without closing the right to
  send; QUIC then connects and sends (comment at 1951-1953).
* The error of an unsupported request is published (1817) before the TCP thread that should
  serve it is created, so that thread finds the race decided and does nothing (comment at 1818).
* `PoolTake` reads the clock (1414) before it obtains the lock; a connection returned meanwhile is
  younger than that reading and its unsigned age enormous (1419). `EvictsOnlyWorn` names the case.
* A worn connection can be evicted and closed by another request's `PoolTake` (1420) as soon as its returner has
  cleared `zanyat` (1442); the returner then reads and closes it again (1443, 1448, 1456), or puts it back into the
  pool (1454). `NoConnLost` speaks of live connections only.
* The check under the lock (2082) does not stop a TCP thread that looks at the session
  without it (2059); such a thread can be handed a session that is being closed (comment at 2097).
* `FreeAllResults` clears the cancellations of requests in flight (2932), whose results are
  then kept although nobody will fetch them (comment at 362). `DeliveredOnce` names the case.
* A literal field name is read with a length of seven bits, where the wire format gives it three (1146-1147), and the lines after it
  are read out of step. `ReplyExact` claims the status only where no such name occurs.
* `ReadMe.md` 372 says in its example of `cancel` that the callback is called unless the request was cancelled. On Apple it is
  called (`shared/SimulatorPluginLibrary.mm` 737-748; `EventuallyTold` says so); so is that of a request with `network.request`;
  and where there is no `Runtime`, `cancel` leaves the polling listener registered, which tells an overdue request "Request Timeout"
  (`lua/plugin_http3.lua` 442, 386-394; `CancelSilences` speaks of Solar2D).
* `initiateRequest` cuts a URL at 1023 bytes and a method at 15 (2504-2509, 2518-2545), and the headers at a NUL, and
  sends another request than was asked for; for body and headers the comments at 527-537 call such silence a
  mistake of the past. `RequestDelivered` claims what fits.
* The comment at `shared/SimulatorPluginLibrary.mm` 232-235 has a task stay in `activeTasks` until its
  end; `cancelRequest` takes it out early (743). `KeysOwn` shows that the address stays a sound key all the same.
* Only `onCanceled` looks at `otmenenVyzyvayushchim`: a request cancelled before `start()` has returned, or after
  Cronet has decided on a failure, is handed to `network.request` although `cancel()` said true
  (`LuaLoaderInternal.java` 685-692, 959; comment at 123-129). `CancelHonoured` claims silence for
  the requests Cronet did stop.
* `zapomnitHost` copies the list under its lock and saves the copy after it (`LuaLoaderInternal.java` 257-261). Of two
  threads with new hosts the one with the older copy may save last; the other host is then in the list but
  not in the file, and is not saved again unless a third host comes (comment at 107-108: every host is remembered).
  `OldHintsKept` claims what does hold, for the hosts of earlier processes.
* A builder that throws at one host leaves Android's engine with a part of the pins and with the exemption of
  local roots, for the life of the process (`LuaLoaderInternal.java` 325-331; the log says that the pins are not
  applied). `PinsInEngine` names the case.
* When QUIC's own callback takes the right between lines 1954 and 1955, the QUIC thread
  logs that TCP is sending and waits for its deadline. A slot taken for a request whose
  thread cannot be created is never freed (`ProgressExact` names it). The slot
  overwritten on overflow is the next in turn, not the oldest request's (comment at
  290). Nothing but a later request ever closes an idle connection (comment at
  2012). The deadline of the request is not kept for a pinned host.

## 4. The proofs

TLC shows a property for the instance of a run; the theorems show it for every value of the
constants. They rest on the named assumptions of the modules alone, most of which say that bounds
are numbers and that `None` is not a thread.

| Module | Theorems | For any |
|---|---|---|
| `HappyEyeballsProofs` | `TypeCorrect`, `RefCountCorrect`, `OneSender`, `OneResult`, `WinnerPublishes`, `QuicYields`, `Refinement` (of `OneAnswer`) | modes and faults |
| `ConnPoolProofs` | `TypeCorrect`, `OneOwner`, `NothingLost`, `WornEvicted` | number of requests, sites, slots; clock, pins |
| `TransportProofs`, the session | `TcpTypeCorrect`, `Accounted`, `KeptForReader` | finite number of TCP threads and winners, streak |
| `ResultStoreProofs` | `TypeCorrect`, `Counted`, `Delivered`, `Progressing` | number of requests, sizes of the three buffers |
| `TransportProofs`, the start | `OpenedOnce`, `SentUnderItsPins`, `WindowFollowsHandshakes` | requests, hosts, calls of `setPins`; handshakes, size of the table |
| `Http3WireProofs`, the formats | `VarintRoundTrip`, `QpackIntRoundTrip`, `HuffmanRoundTrip`, `FieldsRoundTrip`, `BlockRoundTrip`, `StreamFrames` | numbers, texts, field lines, frames, and the bytes around them |
| `Http3WireProofs`, the exchange | `RequestsDelivered`, `RoomKept`, `ReplyAsSent`, `EncoderFits`, `WireTyped` | requests, replies, chunks, growth of the buffer |
| `LuaWrapperProofs` | `Silenced`, `Refinement` (of `OneReport`), `StoreBelow` | number of requests, sizes of the native buffers |
| `CronetRequestProofs` | `TypeCorrect`, `LastReleases`, `Honoured`, `PinsReachEngine`, `Refinement` (of `OneReport`); `HintsTyped`, `HintsOutliveProcesses`, `EngineHinted` | requests, sets of pins; hosts, processes |
| `AppleSessionProofs` | `TypeCorrect`, `AddressesAreKeys`, `Checked`, `Refinement` (of `OneReport`) | requests, addresses, calls of `setPins` |

Each module proves `InductiveInvariant`, that is `Spec => []IInv`, from one lemma per part of
`IInv`, with one step per action, and reads its other theorems off it. The session, the hints and the exchange have
invariants of their own, `TcpInv`, `HintsInv`, `ReplyInv`, `SentInv` and `RequestInv`. None of the
properties is inductive by itself; what had to be added is the argument:

* **Race.** `SpawnInv`: a thread is started once, so starting one takes nobody's place in
  the count. `SenderInv`: whoever is about to send holds `otpravitel` and nothing
  has been sent yet; whoever has an answer in hand got it over the wire. `AnswerInv`: between the
  swap that decides the race and the `AddResult` of its winner nothing is
  published and nobody else can publish. `Refinement` maps `otpravitel`, the
  transport in `sent` and `results` to the variables of `OneAnswer`.
* **Pool.** `PlaceInv` says what a thread holds at each control point, and so
  makes the critical section of `PoolTake` one. `KnownInv` keeps a connection that has not been
  made out of sight. `OwnerInv` ties the flag `zanyat` to the one thread that owns the
  connection: the flag is set under the lock and cleared without it, and what saves
  the pool is that only the owner clears it. `IdleInv` follows an idle
  connection from hand to hand, through the window of `PoolCloseBusy` too. `WornInv` keeps what the scan saw
  until the lock is given up.
* **Session.** `CountInv` ties `inFlight` to the threads, so that the closer's look at zero says
  something about them; `LockInv` is mutual exclusion; `SharedInv` follows a session from the global to its closer.
* **Store.** `KnownInv` and `CountInv` say which identifiers are in use; `SlotInv` follows the
  ring through overwriting; `ListInv` and `OnceInv` say that a result is in the list once and only of a
  request that has published and was not delivered, and that a cancellation neither forgotten
  nor served is in the buffer. Lemmas on sequences (`WithoutEntry`, `Unlinks`, `Pushes`) carry the lists.
* **Start.** `CritInv` orders the writes of the four globals; `PinInv` the three writes of
  `setPins`; `ConnInv` says that once the credential asks for the certificate, every
  connection was judged by a set at least as new as its generation. `TableInv` says that a host has one slot
  of the table, and that the mean in it lies between two handshakes measured since the slot was given to it, though each new
  mean is computed from the last one with a division that rounds down.
* **Formats.** What is written is read back wherever it lies in the bytes (`LiesAt`), whatever comes before and
  after. A reader that goes from place to place, over letters, field lines or frames, is a chain (`Chained`): each step moves on, so the
  list it makes exists and is the only one. Existence and uniqueness of a function defined by recursion come from one
  lemma (`Recursion`), proved by contradiction from a least number where it fails. For the Huffman code it takes that no code of the table is a
  prefix of another and that the padding is none.
* **Exchange.** `ReplyInv`: what has been collected is the beginning of the reply's stream, and what has been parsed is
  the whole of it, once. With `StreamFrames` and `BlockRoundTrip` this is `ReplyAsSent`. `Reserved`: no line of a
  request is longer than `QPACK_ZAPAS` of its texts, because an `int` takes at most six bytes behind any prefix and an index of the static
  table two; so the encoder, which stops at a line whose reserve does not fit, stays within its
  buffer. `SentInv` and `ReplyInv` give the types.
* **Request.** `RequestInv`: what was sent stays what `Http3OtpravitZapros` made of the request. A request that
  is well spelt is kept as it is by `AsyncRequestContext` (`ContextIs`). From the caller to the server a
  text is put together and taken apart twice. `UrlParsed`: the client finds in the URL the host, port and path it was spelt from, the
  port back from its digits (`AtoiOfText`). `UserPairsAre`: the encoder's loop finds in the headers text the headers it was made of,
  in order, because it goes from line to line of the text (`PairReads`). `ReadsAs(bytes, field)`: the server reads these
  bytes as this field wherever they lie; it holds of the three forms of a line (`IndexedReads`, `NameRefReads`,
  `LiteralReads`), and so the server reads a block of such lines as their fields (`FieldsRoundTrip`). `EncoderWrites`: whatever its room,
  the encoder writes the first lines, each of them whole; `RoomForAll`: the room the client makes is enough for all of
  them, the separators of a header (four bytes, counted five times over) paying for its twelve. So the server reads in `Asked`'s
  order all of `Asked` from the two buffers, and from a smaller block its beginning.
* **Wrapper.** `NumberInv` says that everything the wrapper knows of bears an identifier already
  given out. `ReachInv` says who may still call a listener (the map, the snapshot of a pass, the
  callback that is running, `network.request`) and that a listener nobody can reach was told
  or dropped. `StoreBelow` shows that each step is a call of `ResultStore` or leaves it alone, so
  the theorems of `ResultStoreProofs` hold under the wrapper.
* **Android.** `StageInv` orders what executor, Cronet and last callback did; `MonitorInv` follows the pins through
  the class monitor into the engine; `QueueInv` follows the end of a request, sent once, over the tasks
  of the Lua thread to the listener and the deletion of its reference. For the hints, `BuilderInv` says that only the
  holder of the monitor builds, while there is no engine, and that its own host is already in the set; `KeptInv` that
  the file, the preferences, the set once the saved hosts were read, and each copy on its way hold the hosts the process began with.
* **Apple.** `TableInv` says what the tables and `activeTasks` hold, which makes
  addresses keys; `PinInv` compares the numbers of sets, sessions and connections; `QueueInv` follows the end
  of a request from the last callback over the main queue to the listener.

**Only proved.** `TcpTypeOK` of `TcpSession`, `TypeOK` of `ResultStore` and `CronetRequest`: with a theorem for every
instance no run repeats it. The round trips of the formats, `StreamFrames` and `EncoderFits`
are about every number, text, list and room; the run meets them for its own requests and replies, and
`Http3WireMC` for the examples the RFCs publish.

**Only model-checked.** Liveness under fairness (`EventuallyAnswered`, `EventuallyFreed`, `EventuallyHeard`,
`EventuallyEnded`, `EventuallyTold`), which is out of the prover's reach. They are
the only properties that no theorem of the table states.

Induction with an operator as its parameter is beyond the installed provers. A theorem about every text is
proved without it: a set of counterexamples that is not empty has a least number (`LeastNatural`, from
`WellFoundedInduction`), which the step of the argument refutes.

## 5. Plan

Done, in this order: the race and its proofs, the pool, the session, the store, the wrapper,
Android and its hints, Apple, loading and pins, the wire, and the proofs about pool, session, store, start,
wrapper, Android and Apple; then the window and the hints, the formats of the wire, the reply and the encoder's room; last, the request as the server reads it.

Left: file transfers of the wrapper (`download`, `upload`).

## 6. Not modelled

Listed with reasons under "components" in `PROJECT.json`.

* Wrapper: `download` and `upload`, which read or write a file before or after a request; `setPins`, which passes
  its argument on; finding the native library.
* Android: redirects, which Cronet follows by itself; `collectGarbage` and `getMemoryStats`, which change nothing.
* Pins: SHA-256, base64 and the walk over the DER of a certificate (`shared/piny.h`). They are pure
  computations over long byte strings; the models use what they decide.
* Pins on Windows and Apple: that the date of a set passes while the program runs. On Android the date counts when the
  engine is built.
* Wire: the SETTINGS on the control stream, lengths of 2^31 and more, most symbols of the Huffman
  table (the code's table is data; a few symbols exercise the coder).
* Everywhere: failure of `HeapAlloc` and `CreateEvent` (the code does not check for the former), logging.
* Not part of the running program: the older copy of the sources under `Apple/shared`, which no
  build file compiles; prebuilt plugins; three copies of the headers of msquic, Lua and Corona; demo applications and
  log analysers.

The share of lines the models stand for looks small beside the repository, because some 18 000 of its
23 500 lines of C and C++ are those vendored headers and that older copy. Of the 3067 lines of
`shared/SimulatorPluginLibrary.cpp` most are modelled, and the Lua, Java and Objective-C sources have models
of their own.
