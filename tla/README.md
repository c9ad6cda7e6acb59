# A TLA+ model of Sirikata's core library

Sirikata (`src/libcore`, `src/liboh`, `src/libspace`, `src/cppoh`, `src/space`)
is a platform for virtual worlds. Nearly all the logic that is the program's
own is in `libcore`; this project models its network stack, its events, its
transfers and caches, and two of its utilities. Paths below are relative to
`src/libcore/src/` unless they begin with `src/`.

Contents: [the system](#the-system) · [modules](#modules-and-the-code-they-model) ·
[runs](#runs) · [fairness](#fairness) · [proofs](#proofs) ·
[what the code does that its comments do not say](#disagreements-between-code-and-comments) ·
[not modelled](#not-modelled) · [plan](#plan)

## The system

### Network (`network/`)

A *stream* (`TCPStream`) is an ordered or unordered packet channel. Streams are
multiplexed over one connection (`MultiplexedSocket`), which is a set of TCP
sockets (three, `TCPStream.cpp:141`), each with a send path
(`ASIOSocketWrapper`) and a receive path (`ASIOReadBuffer`). The connecting end
sets up the sockets (`ASIOConnectAndHandshake`), the listening end puts the
accepted sockets together (`TCPStreamListener`, `ASIOStreamBuilder`).

| Component | State | Operations | What is hard |
|---|---|---|---|
| `ASIOSocketWrapper` | `mSendingStatus` (one atomic word), `mSendQueue`, `mBuffer` | `rawSend` by any thread; `retryQueuedSend`, `finishAsyncSend`; the completion handlers of the reactor | exclusion without a lock: who may call `async_send`, who looks at the queue after the last one has stopped looking |
| batches (`sendToWire`, `sendLargeChunkItem`, `sendLargeDequeItem`, `sendStaticBuffer`) | the deque, the offset of its first chunk, `mBuffer` | three handlers that call each other | partial sends, chunks cut by the end of the buffer, sizes at its boundary |
| `TCPStream` | `mSendStatus` (one atomic word) | `send`, `close`, `closeSendStatus` by any thread and the reactor | no data after the Close; every `close` returns although the flag may be added up to three times |
| `Stream::StreamID` (uint30) | – | `serialize`, `unserialize` | one, two or four bytes; a field cut in the middle |
| `ASIOReadBuffer` | `mBuffer`, `mNewChunk` | two read modes and the switch between them | packets split anywhere; the low water mark |
| `MultiplexedSocket` | `mCallbacks`, `mCallbackRegistration`, `mFreeStreamIDs`, `mOneSidedClosingStreams`, `mAckedClosingStreams`, phase, `mNewRequests` | `addCallbacks`, `closeStream`, `sendBytes`, `receiveFullChunk`, `connectedCallback`, `connectionFailedCallback` | control packets on every socket against data on one; ids used again; callbacks registered by users and committed by the reactor; requests queued before the connection is up |
| `ASIOConnectAndHandshake` | `mFinishedCheckCount`, `mFirstReceivedHeader` | resolve, connect (each address in turn), send and check the headers | one outcome out of several sockets that fail or succeed independently |
| `ASIOStreamBuilder`, `TCPStreamListener` | `sIncompleteStreams`, `sStaleUUIDs` | accept, read the header, complete a connection | headers of several clients interleaved, headers that disagree |

Interaction: user threads call `TCPStream`, which calls `MultiplexedSocket`,
which picks a socket and calls `rawSend`. One reactor thread per end runs every
asio handler, and calls the users' callbacks. Threads meet in the two atomic
words, in `mSendQueue` (a mutex-protected queue) and in the state guarded by
`sConnectingMutex`; everything else belongs to the reactor.

### Events (`task/`)

| Component | State | Operations | What is hard |
|---|---|---|---|
| `EventManager` | `mListeners` (by primary and secondary id, three orders each), `mRemoveById`, the queues `mUnprocessed` and `mListenerRequests`, `mPendingEvents`, `mCleanup` | `subscribe`, `subscribeId`, `unsubscribe`, `fire` by any thread; `temporary_processEventQueue` and `sleep_processEventQueue` by the event thread; the destructor | the count against the queue; requests against events; listeners that remove themselves while they are called and are unsubscribed as well; a destructor that waits without a predicate |

Any thread only pushes to the queues; the event thread owns the tables.

### Transfer (`transfer/`)

| Component | State | Operations | What is hard |
|---|---|---|---|
| `Range`, `RangeList`, `SparseData` | lists of ranges | `isContainedBy`, `addToList`, `contains` | gaps, adjacent and open-ended ranges |
| `CacheMap`, `LRUPolicy` | the map, the list `mLeastUsed`, `mFreeSpace` | find, insert, update, erase, alloc | accounting when entries grow, and eviction of the entry being changed |
| `MemoryCacheLayer`, `DiskCacheLayer` | a cache map each; the disk layer's request queue, worker thread and `.part`, `.ranges` and complete files | `getData`, `populateCache`, `purgeFromCache`, the worker's file operations, `unserialize` at start | a crash between two file operations; a look-up that is out of date when the worker reads |
| `HTTPRequest` | the state of each request, the curl thread, the table of server properties | `go`, `abort`, the callbacks of curl, `curlLoop` | `abort()` against the end of a transfer; a retry after 417; a wake-up of `select` |
| `NetworkCacheLayer` | `mActiveTransfers`, `cleanup` | `getData`, `httpCallback`, the destructor | a retry at the next service against the destructor |
| `EventTransferManager` | `mActiveTransfers`, `mPendingCleanup`, `mCleanup` | `download`, `downloadByHash`, `upload`, their callbacks, `cleanup` | downloads joined with running ones; names after data; `cleanup()` against the last callback |

`EventTransferManager` looks names up (`NameLookupManager`), asks the chain of
cache layers for data and fires events; the chain is memory, disk, network;
`NetworkCacheLayer` uses `HTTPDownloadHandler` and `HTTPRequest`.

### Utilities (`util/`)

`LockFreeQueue` (a linked list changed by compare-and-swap, with a pool of
nodes and a `fork` that takes the whole list) and `Provider` (a vector of
listeners with a map of positions, changed while it is walked). `ThreadSafeQueue`
is one critical section per operation and appears as that in the modules that
use one. Everything else is under [not modelled](#not-modelled).

## Modules and the code they model

Each module names its source file at the top; `PROJECT.json` maps each
definition to its lines. One action is one atomic step of the code: an
operation on an atomic word, a critical section, a system call of the disk
worker, or a handler up to the next point where another thread can intervene.
Operators whose comment begins with "Mutant" are plausible bugs, used to check
that each property would notice one.

**ASIOSocketWrapper** – `network/ASIOSocketWrapper.cpp`, the torch.
`mSendingStatus` is the word of the code with its real flags (`1<<29`, `1<<30`).
`RawSend` (the increment), `CommitSender`, `PushChunk` and `LeaveRawSend` are
`rawSend`; `Volunteer`, `StandBack`, `RereadStatus`, `TakeTorch` the loop of
`retryQueuedSend`; `SwapQueue`, `ReleaseTorch`, `PromiseSend` and `SendToWire`
what both it and `finishAsyncSend` do next; `SendCompleted`, `SendFailed` and
`FinishAsyncSend` the handlers. A batch is sent chunk by chunk here; `Order` is
the chunks in the order in which they will be on the wire, `HandedOver` those
that ought to be there, and `seen` a history variable for the order in real time.

**WireBatch** – the same file, the bytes of one batch. A byte is the pair of its
chunk and its position. `op` is the outstanding `async_send` with the arguments
its handler is bound to; each handler takes any number of the bytes offered.

**Uint30**, **ASIOReadBuffer** – the encoding of integers, and the cutting of
packets out of the stream of bytes. `Radix` is 128 in the code; a smaller one
brings the boundaries of one, two and four bytes within reach. Header bytes are
really encoded and decoded; payload bytes are numbered above all header bytes.

**TCPWire** – the composition of the two: the bytes a `WireBatch` puts on the
wire are what an `ASIOReadBuffer` reads.

**TCPStream** – `TCPStream::send` and `closeSendStatus`. `EnterSend`,
`SendBytes`, `LeaveSend` for a sender; `ReadStatus`, `AddClosing`,
`WaitForSenders`, `Announce` for a closer.

**StreamLifecycle** – both ends of a connected `MultiplexedSocket`. `ms[e]` holds
the members of the class, `chan` the sockets (reliable and ordered each, not
among each other). `CloneFrom`, `Send`, `CloseSendStatus`, `Unregister` and
`AnnounceClose` are the user's calls, the broadcast of control packets one socket
at a time; `Receive`, `EraseCallback` and `ReactorBroadcast` are
`receiveFullChunk` with `shutDownClosedStream`. Each packet carries the
incarnation of its stream as a ghost, so that two streams with one id can be
told apart.

**ASIOConnectAndHandshake** – the connecting end, with the part of
`MultiplexedSocket` that changes the phase: `CommitStart`, `CommitDrain`,
`CommitLock`, `CommitFlush` are `CommitCallbacks`; `SendBytes`, `SendBytesLocked`
and `SendBytesNow` the user's `sendBytes` with its test, its test under the lock,
and its send. The read of an uninitialised header buffer is a choice over its
contents.

**ASIOStreamBuilder** – the listening end. `CopyHeader` and `NumConnections` are
the two decimal digits by which the number of sockets travels; `EntryOf`,
`Discard`, `Complete` and `Collect` are the cases of `buildStream`.

**EventManager** – `subscribe`, `alloc` and `subscribeId`, `unsubscribe`, and
`PushEvent`, `CountEvent`, `NotifyThread` for the steps of `fire`; `LoopTop` to
`EndRound` are the event thread, which takes the events, then the requests,
applies them (`ApplyRequest` with `doSubscribeId`, `doUnsubscribe`) and calls the
listeners of one order at a time (`CallOrder`), with every answer a listener can
give. A listener is also called a last time, without an event, by an
`unsubscribe` with `notifyListener`; while it is called it may fire
(`ListenerCalled`, `ListenerFires`), and its `fire` notifies whoever waits on the
condition variable that is in place (`NotifyDestructor`). `DestroyBegin`,
`DestroyNotify`, `WakeSpuriously`, `DestroyEnd` are the destructor, whose wait has
no predicate; `misled` remembers what woke it, if not the thread. A destructor
that has returned while the thread runs is the end of a behaviour (`LeftBehind`):
what the thread does with the freed memory is undefined. `useCV` chooses whether
the thread sleeps or polls. A list of listeners of one order is a set, since the
order inside it decides nothing.

**Range**, **CacheMap** – the operations on lists of ranges, and on a cache map
with its LRU policy, as operators on lists and records.

**TransferCaches** – the memory layer over the disk layer over a network that
answers with the bytes asked for, or fails. A client's request is a record
that moves down (`getData`, `getDataFromDisk`, `readDataFromDisk`, `Download`)
and up (`populateDisk`, `AnswerDownload`). `WorkerCheck` to `WorkerUnlinkRanges`
are the worker's write, one system call each; `WorkerLookup`, `WorkerRead` its
read. `Restart` is a crash followed by `unserialize`. `disk` survives it,
everything else does not.

**HTTPRequest** – `go`, `Abort` and `AbortTakesCallback`, the callbacks of curl
(`gotHeader`, `write`, `read`), `initCurlHandle` with its early return for an
empty range (`Empty`, `RangeHeader`, `InitCallsBack`), and `curlLoop` (`Select`,
`Retry`, `FreeHandle`, `CopyCallback`, `ResetCallback`). libcurl and the servers
are external: `ServerAnswers`, `BodyArrives`, `ExpectationFails`,
`TransferBreaks`. Constants say which servers know ranges, dislike Expect, may
answer 417 to anything (`StubbornServers`) or may never answer (`SilentServers`).
**NetworkCacheLayer** – composes it with the layer that tries one service after
the other, with an upload, and with the destructor. `TestCleanup` is the unlocked
test of `cleanup` in `doFetch`, and a step of its own; `CreateDownload` follows
with what was seen. `GoThrows` is the `logic_error` of `go()`; in the curl thread
nobody catches it and the process ends (`Terminated`). `late` are the downloads
made after the destructor has collected the requests, `early` those that a retry
with an empty range has answered before its end.

**EventTransferManager** – `download` and `downloadByHash`, the look-up of a name
at one service after the other, the joining of downloads
(`downloadNameLookupSuccess`), `downloadFinished`; the two chains of an `upload`;
`cleanup`; and as much of the event system as decides who hears which event.
`download` counts the call; `lookupHash`, a step later, goes through the pointer
that `cleanup` may have set to NULL meanwhile. A URI that names a file by its hash
is the last resort of a look-up (`hashedDownload`). A null pointer or an exception
that nobody catches ends the program (`Crashed`): a call that `cleanup` has
overtaken, an upload without a registry, a service without a handler, a name that
is no hash.

**LockFreeQueue** – one action per access to shared memory: `allocate` and
`release` of the pool, `push`, `pop`, `fork` and an iterator walked to its end.
Two ghosts say when an item may be lost: `overtaken`, a `fork()` took the tail
that a `push()` had read, and `recycled`, a compare-and-swap succeeded although
the node had been through the pool. **FifoQueue** is
the abstract queue it is compared with, through the refinement mapping
`queue <- Ahead` (what the consumer would find in the nodes), `popped <-` what it
has got.

**Provider** – `notify`, `ListenerReturns`, `addListener` (which tells the new
listener the last value, a call like any other), `ProviderAddListener` (which
registers it once that call has returned), `removeListener`. `frames` is the stack
of calls of listeners inside each other; `late` are the listeners whose
`addListener` was overtaken by a notification. The code does not test whether a
listener is registered already; the map has one position for each, and the model
takes callers to register a listener once at a time.

**MCSend**, **MCLifecycle**, **MCBuilder**, **MCEvents**, **MCCaches**,
**MCNetwork**, **MCTransfer**, **MCQueue** – constants for TLC.
**ASIOSocketWrapperProofs**, **TCPStreamProofs**,
**StreamLifecycleProofs**, **ASIOConnectAndHandshakeProofs**,
**EventManagerProofs**, **NetworkCacheLayerProofs**,
**EventTransferManagerProofs**, **ProviderProofs** – [proofs](#proofs).
TCPStreamProofs holds the proof about ASIOStreamBuilder too.

How the modules build on each other: TCPWire justifies that ASIOSocketWrapper
moves whole chunks; TCPStream's `NoDataAfterClose` and `ClosedMeansQuiet` that
StreamLifecycle treats a send as one step which precedes the Close;
ASIOSocketWrapper's `ChunksInOrder` and TCPWire's `PacketsExact` that a socket is
a FIFO of packets in StreamLifecycle; EventManager's `ListenersUpToDate` and
`EventsProcessed` that EventTransferManager may take events in rounds, after the
subscriptions made before them; NetworkCacheLayer's `GetDataAnswered` that the
network in TransferCaches answers, as long as no server hangs.

## Runs

All runs pass; each is one question about one part of the system.

| Run | Instance | Checks |
|---|---|---|
| MCSend | 3 senders with 2, 1 and 1 chunks, sends may fail; 110,000 states | `OneTorch` (never two sends at once); `QueuedChunkHasKeeper` (no lost wake-up); `ChunksInOrder` (nothing lost, repeated or overtaken, within a thread and between threads in real time); `SentUnlessLivelock` |
| MCWire | up to 3 packets, send buffer 6, receive buffer 7 with mark 6, radix 4, ids of 1 and 4 bytes, lengths of 1 and 2, payloads 0 and 3; 166,000 states | `PacketsExact` (the receiver cuts out what was sent), `PacketsArrive` (all of it) |
| MCStream | 2 senders with 2 sends each, 3 closers; 34,000 states | `NoDataAfterClose`, `CloseReturns` |
| MCLifecycle | 2 sockets, 2 streams on one id, the connector opens and closes, both send; 540,000 states | `CompleteBeforeDisconnect`, `OrderedInOrder`, `NoMixup` (no packet reaches another stream), `ClosedIdRecovered` |
| MCHandshake | 2 sockets, 2 addresses, all kinds of failures, 1 user with 2 requests, 1 clone, 1 early packet; 120,000 states | `RequestsInOrder`, `HandshakeOutcomeOnce` (one outcome, and success only with agreeing headers), `EveryStreamTold`, `RequestsSent` |
| MCBuilder | 3 clients, one of which announces different numbers, one refused; 109,000 states | `ConnectionsWhole`, `HonestServed` |
| MCEvents | a listener for a primary id and one with an id for a full id, 3 events of which one is fired by a listener, every answer, an unsubscription with `notifyListener`, spurious wake-ups, with and without a condition variable; 501,000 states | `RemoveMapInSync`, `ListenersUpToDate` (who subscribed before an event hears it, who left before does not), `DestructorIsLast`, `EventsProcessed`, `DestructorReturns` |
| MCCaches | 2 clients, 4 requests, 2 files of 3 bytes in caches of 3, a purge, a crash; 2,450,000 states | `DiskSurvivesCrash` (what a start would read is what was downloaded), `DeliveredTrue` (right bytes), `PolicyAgrees` (LRU list and free space) |
| MCNetwork | a download at 2 servers, of which the second has no ranges, refuses Expect, may go on answering 417 and may be silent, and an upload to that one; 4 ranges, one of them empty; the destructor; 344,000 states | `AnsweredOnce`, `TransfersTrue`, `GetDataAnswered`, `DestructorReturns` |
| MCTransfer | eight scenarios: two downloads and `cleanup`; three overlapping downloads; a URI that names no file; two uploads of one file; two uploads under one name; an upload without one of the registries, or without a handler; 2 services; 257,000 states | `NameAfterData`, `LayersAlive`, `DownloadsAnswered`, `CleanupReturnsUnlessMissed` |
| MCQueue | five programs: 3 pushes beside 4 pops; 2 pushes beside 2 forks; two threads that push beside 3 pops, with nodes in the pool; two threads that push beside a fork; push, pop and fork in three threads; 632,000 states | `FifoUnlessMistaken` (implements FifoQueue), `NoneMissed`, `CallsReturn` |
| MCProvider | 4 listeners, 2 values, 3 notifications, calls up to 3 deep, 5 changes; 2,348,000 states | `IndexInSync`, `NotifiedOnce` (those there all along, none twice, none added meanwhile), `NoStaleListener` |

Why the bounds are enough for the cases meant:

- *MCSend.* A chosen sender, a queued one and a volunteer can exist at once, two
  volunteers can meet while the third thread or the reactor holds the torch, and
  a thread can overtake its own earlier chunk. The theorems remove the bound
  for the safety properties.
- *MCWire.* Packets of 2, 6 and 9 bytes: chunks smaller than the send buffer,
  equal to it, larger, and cut by its end; packets that fit the receive buffer
  and ones that do not; every split of the bytes into sends and reads.
- *MCStream.* Three closers is what the code allows for (`3*SendStatusClosing`);
  the theorems cover any number of senders.
- *MCLifecycle.* Two sockets let data and control packets overtake each other;
  two streams let an id be used again while packets of the first may be under
  way. The first stream carries two packets one way and one the other.
- *MCHandshake.* Two sockets can differ in outcome and header; two requests of
  one user can straddle the change of phase.
- *MCEvents.* Two orders and both kinds of subscription; an event fired before,
  between and after the requests; a listener removed by its answer and by
  `unsubscribe` in either order, which fires when it is told so.
- *MCCaches.* Neither cache holds both files, so every population may evict; the
  first file comes in two ends with a gap and as a whole; the crash falls between
  any two file operations, and what it leaves is read by the requests after it.
- *MCNetwork.* A first and a second service, with and without ranges; ranges at
  the start, at the end, empty, and the whole file; a retry after 417 with and
  without an Expect header; an exception in the curl thread; a download made
  before, while and after the destructor collects them.
- *MCTransfer.* The calls of a scenario are made in every order. No scenario has
  both `cleanup` and an upload: they share no state but the events.
- *MCQueue.* A node can go through the pool and out again between a read and the
  compare-and-swap of another thread, both in the pool (two threads that push and
  one that pops) and at the tail; a pop waits while a fork holds the head, a push
  helps another. The node bound is never the reason why a program stops.
- *MCProvider.* A walk of four inside two other calls, walks or additions, with
  enough changes for a listener to leave, be replaced by the last one, and come
  back.

`CHECK_DEADLOCK FALSE` stands where the programs of the instance end (all calls
made, everything destroyed, or a bound reached).

## Fairness

Only liveness properties use it; MCLifecycle, MCCaches and MCProvider check
safety alone and assume none. No thread is obliged to *begin* a call (except in
MCQueue, whose programs are fixed), and nothing is obliged to fail.

- The reactor is weakly fair: the io service runs handlers as long as its thread
  is in `run()`, and an `async_` operation completes, with or without an error.
- A thread inside `rawSend`, `send`, `closeSendStatus`, `sendBytes`, `fire`,
  `subscribe` or an operation of LockFreeQueue is weakly fair: it holds no lock
  another thread can keep for ever, and the operating system schedules it.
  Volunteers may still keep colliding (see below), so `SentUnlessLivelock`
  excepts that case.
- The event thread, the curl thread, the callbacks of the layers below the
  transfer manager and the destructors go on with what they have begun (weak
  fairness). A transfer from a server that is not in `SilentServers` is *strongly*
  fair: curl comes to each of its transfers again and again, between turns for
  others, and the server answers or its connection breaks. Nothing is assumed of
  the silent servers: curl is given a time-out for the connection and none for
  the transfer (`HTTPRequest.cpp:296-297`). `GetDataAnswered` and
  `DestructorReturns` therefore except a download that hangs for ever (`Hangs`),
  the first as long as no destructor aborts it, the second only if it was made
  too late to be aborted.
- The look-ups below the transfer manager answer. The code has no time-out for
  them (`NameLookupManager.hpp:104`), so `DownloadsAnswered` and
  `CleanupReturnsUnlessMissed` say what the manager does when they do.

## Proofs

TLAPS proves 21 of the 25 invariants the runs check, for every value of the
constants that satisfies the named assumptions: any number of senders, users,
sockets, clients, listeners, events, requests, files and services. Each proof has
the same plan: an inductive invariant, one lemma per action that keeps it, and the
property as a consequence. What the invariant must say beyond the property is the
reason why the code is right.

| Module | Theorems (property) | Assumptions |
|---|---|---|
| ASIOSocketWrapperProofs | `SingleTorch` (`OneTorch`), `NoLostWakeup` (`QueuedChunkHasKeeper`), `ChunksStayInOrder` (`ChunksInOrder`), `TypeCorrect`, `AssertionsNeverFail` | fewer senders than `1<<29` |
| TCPStreamProofs | `CloseIsLast` (`NoDataAfterClose`), `ClosingIsQuiet`, `TypeCorrect` | senders below the flag, at most 3 closers |
| ASIOConnectAndHandshakeProofs | `RequestsStayInOrder` (`RequestsInOrder`), `OneOutcome` (`HandshakeOutcomeOnce`) | – |
| TCPStreamProofs (on ASIOStreamBuilder) | `SocketsBelongTogether` (`ConnectionsWhole`) | – |
| StreamLifecycleProofs | `StreamsCompleteBeforeDisconnect` (`CompleteBeforeDisconnect`), `StreamsNotMixedUp` (`NoMixup`), `StreamsOrderedInOrder` (`OrderedInOrder`), `ClosedIdsRecovered` (`ClosedIdRecovered`) | `OneEndOpensAndCloses` |
| EventManagerProofs | `DestroyedLast` (`DestructorIsLast`), `IdsLeadToListeners` (`RemoveMapInSync`), `EventsFindListeners` (`ListenersUpToDate`) | the last two: `~ConcurrentAlloc` |
| NetworkCacheLayerProofs | `CallbackOnce` (`AnsweredOnce`), `TransfersMoveTheFile` (`TransfersTrue`), `TypeCorrect` | every attempt has an `HTTPRequest` of its own; for the bytes, offsets and lengths are natural numbers |
| EventTransferManagerProofs | `LayersOutliveCalls` (`LayersAlive`), `NamesFollowData` (`NameAfterData`) | a name known at the start is that of a file known at the start |
| ProviderProofs | `MapInSync` (`IndexInSync`), `EveryListenerOnce` (`NotifiedOnce`), `EveryListenerKnows` (`NoStaleListener`) | – |

**ASIOSocketWrapperProofs.** Neither `OneTorch` nor `QueuedChunkHasKeeper` is
inductive: what stops a second thread from taking the torch is the value of
`mSendingStatus`, so the invariant must say what that value is. `IInv` contains

- `StatusInv`: the word is the number of threads that have counted themselves in
  (`Counted`), plus `ASYNCHRONOUS_SEND_FLAG` if the torch is held (`Holding`: by
  an agent, by an outstanding `async_send`, or by the one that failed), plus
  `QUEUE_CHECK_FLAG` if its holder is looking at the queue (`Checking`);
- `Exclusive`: `OneTorch`, and nobody has the torch once a send has failed;
- `BatchInv`: a batch is never empty (or the flag could be set on nobody's
  account), and a thread about to push carries its own chunk;
- `IssuedInv`, `ReactorInv`, `NoFailure`, `TypeOK`, and
  `QueuedChunkHasKeeper` itself.

A thread that adds 1 and reads 1 was alone with no flag set (`ReadsOne`,
`NobodyElse`), so `Exclusive` is preserved. A thread leaves `retryQueuedSend` only
if it reads the send flag without the check flag (`RetryDecides`), and then the
torch is with somebody who has still to look at the queue (`RetryKeepsChunks`).
When the torch is put down (`ReleaseTorchStep`) every chunk pushed since the swap
belongs to a thread that is still retrying. The flags are read by division
(`FlagsReadable`); everything else uses only that they are large.

`ChunksInOrder` adds `OInv` on top of that. Because of `Exclusive` at most one
batch is between the queue and the wire, so `Order` is the wire, that batch and
the queue (`FrontFacts`), and a swap or a completed send only moves chunks along
it. The dangerous step is the chosen thread, whose chunk bypasses the queue
(`ChosenOrder`): `KeptOld` says that while nobody keeps the queue it holds only
the newest chunks of their senders, whose `rawSend` has not returned, so that
neither a chunk of the same thread nor one that was handed over before is
overtaken. `SeenReturned` ties the history variable to the threads.

**TCPStreamProofs.** `NoDataAfterClose` alone is not inductive: a sender between
its test and its packet would break it. `IInv` adds `StatusInv` – the word is the
number of threads inside `send` plus *k* flags, where *k* is at least 1 once a
closer has passed its test and at most the number of those that have (so at most
3, and the word never overflows) – `ClosedMeansQuiet`, and `AnnouncedInv`, which
ties the packets already out to the closers that sent them. A closer that reads a
pure multiple of the flag knows that nobody is inside (`PureMeansZero`), and
whoever enters later sees the flag (`FlagsReadable`).

**ASIOConnectAndHandshakeProofs.** Requests are in three places: sent, in the
batch of `CommitCallbacks`, and in `mNewRequests`. `RInv` says that the three
follow each other in each user's order and together are what the users have
handed over (`InLine`), that nothing waits any more when the phase is CONNECTED,
and that a user who has passed its test and is about to send directly has nothing
waiting (`NothingWaits`). The last part is why the phase is tested again under the
lock. For the outcome, `OInv` says what `mFinishedCheckCount` counts
(`Counted`): the sockets whose header has not been checked, or all of them when
resolving failed, or a negative number after a failure; and that nobody has been
told an outcome while it is positive (`ToldOnce`). Zero is reached once, and the
large negative number of a failure keeps it from being reached at all.

**TCPStreamProofs, on ASIOStreamBuilder.** `BuilderInv` says that the sockets of an entry, and of a
connection, are different sockets of one client that announce the same number
modulo 100 (`Together`), which is what the two digits carry (`TwoDigits`), and
that a client which announces the number of its sockets on each of them has one
connection (`OneEach`): a second would need more sockets than it opened. That
part is stated for clients with fewer than 100 sockets, since the digits of a
larger number are those of a smaller one.

**StreamLifecycleProofs.** One inductive invariant, `IInv`, carries all four
properties. They are about incarnations of streams, while the code knows only ids
and counts, so `IInv` says for which stream an id stands at each moment:

- `Live(g)`: *g* is the last stream that got its id, and the id has not been given
  back. At most one stream is live per id (`LiveUnique`); an id without one has no
  callback and a count of zero at both ends (`UnusedInv`);
- four sets of sockets tell how far the end of a live stream has come: `CloseSent`,
  `CloseRead`, `AckSent`, `AckRead`. The counter of `receiveFullChunk` is the size
  of `CloseRead` at one end and of `AckRead` at the other (`CountInv`), and a
  socket in one of the read sets carries nothing of the stream any more, since
  nothing is written behind a control packet (`PacketInv`);
- `ConnectorInv` and `ListenerInv` tie `mSendStatus`, the progress of `close()` and
  of the reactor to the callbacks. They speak of the committed state (`View`): a
  callback registered by a user thread counts before the reactor has seen it;
- every packet sent is under way or delivered, in one place only (`OnceInv`,
  `CoverInv`); ordered ones are on the socket of the id, behind smaller numbers
  (`OrderInv`); free ids are different ids of streams that existed (`FreeInv`,
  `CreatedInv`).

So a Disconnected callback means that Close was read on every socket, which
leaves nothing under way: what was delivered is numbered 1 to the number sent,
each once. When the last Ack is read both counts are zero and nothing of the
stream is on any socket, so the next stream with the id starts clean, which is
why packets cannot be mixed up. `CommitCallbacks` is a fold over the registrations
(`Committed`). `CommittedTrail` unfolds it for a list of any length into the
states after each registration, by induction on the length: the induction is on a
set of numbers (`LeastNat`, `IntervalInduction`), from the fact of the library
that `<` is well-founded, so it needs no operator as a parameter. TLC has checked
every conjunct of `IInv` on the instance of MCLifecycle.

The hypothesis `OneEndOpensAndCloses` is the setting of the run: the users of the
connecting end open and close the streams, both ends send, none is refused. It is
needed: a Close and an Ack of one id are counted in the same place, and with both
ends closing TLC finds a packet given to another stream with the same id
(`NoMixup`; two sockets, two streams, within four million states).

**EventManagerProofs.** `DestructorIsLast` needs `DInv`: `mPendingEvents` is the
number of events queued, taken or dispatched in this round, less those whose
`fire()` has not counted them yet (`Counts`), so that the thread cannot leave its
loop early or miss the end, and the count is at least 1 while an event is
dispatched, so that no listener called for one finds itself the first to fire and
notifies the destructor. When requests are applied the count may be zero: there
the notification of a listener called by `doUnsubscribe` is an exception, and so
is a spurious wake-up (`misled`; see 8a below). The other two theorems need `SInv`: ids are unique
and below `nextid` (`Ids`); each listener is asked for once and unsubscribed only
afterwards (`Queue`); an id leads to a listener exactly while it is listed
(`InSync`); and whoever subscribed before an event was fired is listed, or its
request is among those that are applied before the event is dispatched
(`Served`, `InFlight`, `Calls`). They are proved for `~ConcurrentAlloc`, that is,
as long as no two threads are inside `subscribeId` at once: the increment of
`nextid` is not synchronised, and with two threads the statement is false (see 8
below).

**NetworkCacheLayerProofs.** The callback of a request is a token: it is in the
request, in the hands of `curlLoop` or in those of `abort()`. `RequestInv` says
that it is in one of these places only, that a request either thread is
finishing cannot be started again, and that the two never work on one request
unless it is in `raced` (or a retry with an empty range has answered, `early`). `SlotInv` adds that only the request for the service
being tried has a callback, and that nobody has heard of the requests for later
services (`Untouched`). So `httpCallback` finds its entry waiting, and leaves no
callback behind. Almost every action is quiet for almost every request
(`QuietKeepsSlot`); only the few that pass a callback on need an argument of their
own. The hypothesis that attempts have different requests is what
`HTTPDownloadHandler::download` does: it makes a new one each time.

`TransfersTrue` needs a second invariant, `TransferInv`, on top of `IInv`. Unless
the range is one of the three exceptions (`Plain`), the answer of a server is `size`
bytes from the start of the range that cover it (`ServedBytes`), `gotHeader` gives
the data that length, and `write` puts each piece behind the ones before
(`Arrived`, `ChunkArrives`): a transfer that has ended well has every byte in its
place (`OkIsRight`). An upload has sent the bytes up to `mUploadOffset`
(`UploadOK`); a retry of either begins again with nothing sent and the data of a
new request, since a 417 comes before any of the body. What keeps these facts true until the callback is called is the control:
a request at its end cannot be started again (`EndInv`), what `go()` adds has been
set up (`StartInv`), a range is set and a request made before anybody knows the
request (`Untouched`), and when `abort()` has taken a request that `curlLoop` is
reporting, the entry belongs to the destructor and the report is ignored
(`TakenOver`); an entry for which a request is still to be made has no request
that either thread is reporting (`OddInv`). The exceptions in the theorem are the ones TLC found; the proof
shows that there are no others, for any length of file and any ranges.

**EventTransferManagerProofs.** `LayersAlive` holds because `mPendingCleanup` is
exactly the number of calls that have not come to the end of
`downloadNameLookupSuccess` (`CountInv`, from the increment in `download` on) and
no new ones are counted after `cleanup()`. The FIXME at
`EventTransferManager.hpp:144` fears the opposite (see 15a below).
`NameAfterData` is not inductive because one upload goes on from the event of
another upload of the same file: `NamesInv` therefore speaks of events. A success
in an event, queued or being delivered, stands for all data servers (`Truthful`),
and a name chain that has begun means that every server has the file.

**ProviderProofs.** `MapInSync`: `IndexInSync` with the type of the vector is
inductive. The second listener enters the first one into the map
(`AddKeepsSync`); a removal finds the listener at its position
(`FoundAtItsPosition`) and moves the last one together with its position
(`RemoveKeepsSync`). `EveryListenerOnce` and `EveryListenerKnows` need what is
true in the middle of a walk (`WInv`): in an undisturbed call nobody was called
twice, those before its position were not called, and whoever was there all along
was called or is before it (`WalksInOrder`); a listener that is told the last
value in `addListener` is not registered yet (`AddsOut`); and all know the last
value, or the innermost notification is on its way to those that do not, or they
were overtaken in their own `addListener` (`OnTheWay`, `late`). The notifications
around it do not matter for that: when it ends nobody is left for them.

Only model-checked:

- every liveness property, and the two of MCQueue's properties about the
  refinement of FifoQueue and the items missed: fairness and ENABLED are outside
  the prover, and the contents of the list are a walk along pointers, which needs
  induction over data;
- `PacketsExact`, since cutting packets is a recursive definition;
- `PolicyAgrees`, `DiskSurvivesCrash` and `DeliveredTrue`: the operations on lists
  of ranges and on the order of use are `SelectSeq` with an operator as argument,
  of which the prover knows nothing.

## Disagreements between code and comments

What TLC or the reading of the code showed. The properties named in parentheses
are defined in the modules but not checked by a run, since they fail; the checked
ones state what holds in spite of it, with the exception spelled out, or exclude
the case by a constant.

*Network*

1. `ASIOSocketWrapper.hpp:108` says that a retrying thread takes up the torch if
   no data is being sent. Two volunteers that see each other's increment both
   step back, and can do so for ever (`EveryChunkSent`).
2. `MultiplexedSocket.cpp:259` erases the result of a `find` without a test. If
   the user closes the stream between the two commits of `shutDownClosedStream`
   the entry is gone (`CallbackFound`, with both ends in `Closers`).
3. The reactor frees an id (`MultiplexedSocket.cpp:293`) before it has sent the
   Acks. A stream cloned in between sends packets ahead of the Ack and the peer
   ignores them (`NewStreamHeard`, with the listener in `Closers`).
4. A socket error during the handshake sets DISCONNECTED, and the last header
   then reports Connected to every stream (`NothingAfterFailure`;
   `MultiplexedSocket.hpp:115` rules that out).
5. `checkHeaderContents` ignores its error argument, so a failed read compares
   whatever is in the buffer (`ConnectedMeansHeaders`;
   `ASIOConnectAndHandshake.cpp:49`).
6. A stream the user refused is offered again at its next packet (`OfferedOnce`,
   with `Refusers = {"listener"}`; `MultiplexedSocket.hpp:86`).

*Events*

7. An event whose primary id has no entry is dropped without its `operator()`
   being called (`EventManager.cpp:474`). The events by which `DependentTask` runs
   its tasks have such an id (`DependencyTask.cpp:43`), so no dependent task runs.
8. `nextid++` (`UniqueId.hpp:175`) is not synchronised; with
   `ConcurrentAlloc = TRUE` two subscriptions share an id and `RemoveMapInSync`
   fails.

   8a. The destructor waits once, without a predicate (`EventManager.cpp:85`), for
   the thread that says "notify destructor that I am returning." (`:561`). A
   spurious wake-up ends the wait; and a listener that `doUnsubscribe` calls
   (`:291-293`) before any event of the round is counted, and which fires between
   the exchange of the condition variable and `mCleanup`, makes `fire()` notify
   the destructor in the middle of the round (`WokenByReturn`; `:342`).

*Caches*

9. `CacheLayer.hpp:49`: "SparseDataPtr is guaranteed to contain the requested
   block". A read that was queued while its file was in the map is answered from
   an old `.part` file, without the block, when the file has been evicted or
   purged meanwhile (`DeliveredAlways`; `DiskCacheLayer.cpp:242`).
10. The request to delete an evicted file is made and never queued
    (`DiskCacheLayer.hpp:160`), which is why the old file is there.
11. `read_iterator::use()` splices the LRU list under a shared lock
    (`CacheMap.hpp:170`, `LRUPolicy.hpp:68`): a data race between two readers. The
    model lets them splice one at a time.

    11a. `write()`'s result is ignored (`DiskCacheLayer.cpp:198`); in the model it
    always succeeds. A read of [s, eof) is given the length of the whole file
    (`st_size`, `:268`): the surplus behind the end is not file data, and
    `DeliveredTrue` looks only at the bytes of the file.

*HTTP and transfers*

12. The range [0, n) is sent as `-n`, the last n bytes (`HTTPRequest.cpp:512`); an
    answer 200 to a request that starts later is stored at its start
    (`HTTPRequest.cpp:129`); and for an empty range `initCurlHandle` returns before
    it sets the Range header (`:519-523`), so that any server sends the whole
    file, which is stored at the start of the range. These three are the
    exceptions in `TransfersTrue`.
13. `abort()` and the curl thread may both copy the callback
    (`HTTPRequest.cpp:393` and `455`): it is called twice. So it is when a request
    with an empty range is retried, since `initCurlHandle` calls back and the
    request goes on. These two are the exceptions in `AnsweredOnce`.

    13a. `CURLOPT_TIMEOUT` is commented out ("if the connection is tarpitted by a
    nasty firewall...", `HTTPRequest.cpp:297`): a server that says nothing holds
    its request until `abort()` (`Hangs`).

    13b. "Only retry if ServerProperties has changed! Do not want to get stuck in
    an infinite loop." (`HTTPRequest.cpp:366`); the code retries on every 417
    (`:377-380`, `RetriesChange`).

    13c. "Prevents doFetch (callback for NameLookup) from starting a new download."
    (`NetworkCacheLayer.hpp:131`); `doFetch` tests `cleanup` without a lock
    (`:96`, the FIXME at `:92`) and may make a download afterwards
    (`NoNewDownloads`). When the destructor has collected the requests by then it
    is never aborted, and the destructor waits for it to end by itself.

    13d. `go()` throws a `logic_error` when the destructor's `abort()` came first.
    If the curl thread was trying the next service nobody catches it
    (`HTTPRequest.cpp:401`) and the process is terminated.
14. A download whose range lies beyond the end of the file is never answered
    (`DownloadsAnswered` with `FileLen = 1`; `TransferManager.hpp:103`).
15. `cleanup()` misses a notification that is sent without the mutex
    (`CleanupReturns` on the scenario `MCLastCall`;
    `EventTransferManager.hpp:265` and `153`).

    15a. "mFirstTransferLayer may be destroyed if cleanup is called after previous
    check" (`EventTransferManager.hpp:144`). It may not: the call is counted until
    after its last use of the layer, and `cleanup()` waits for the count
    (`LayersAlive`, proved).

    15b. `download()` counts itself (`:282`) and goes through `mNameLookup` without
    the lock (`:283`); a `cleanup()` in between has set it to NULL (`:260`), and
    the program crashes.

    15c. `upload` and its halves report FAIL_UNIMPLEMENTED when there is no registry
    and go on to use it (`:296-298`, `:313-315`, `:327-329`); a service without a
    handler is a null pointer too (`:195`, `:222`); and a URI whose file name is no
    hash makes `convertFromHex` throw in `hashedDownload`
    (`NameLookupManager.hpp:75-83`). All of these are `Crashed` in the model.
16. `NameLookupManager::lookupHash` is not virtual, so the cache of
    `CachedNameLookupManager` is filled and never read.

*Utilities*

17. LockFreeQueue ("thread-safe push() and pop() functions",
    `LockFreeQueue.hpp:40`): a node may go through the pool between the read of a
    pointer to it and a compare-and-swap, which then takes it for what it was, at
    the head of the pool (line 66) and at the tail (line 176, where `mTail` is
    read again for the swap): the item is lost although `push()` returns, or a
    node is linked to itself and calls spin (`NoneEverMissed`, already with two
    threads that push and one that pops, `MCPushers`). `fork()` takes head and tail
    in two steps, and an item pushed in between is lost (lines 133-154). `pop()`
    reads the item through a null pointer (line 215) when it has read the head's
    successor before a `push()` linked one and the tail after it: no `fork()` is
    needed. The class is used only with `USE_LOCK_FREE`, which is off.
18. Provider: a notification around another one in which a listener removed
    itself may skip a listener or call one twice (the exception in
    `NotifiedOnce`). A new listener is told the last value before it is registered
    (`ListenerProvider.hpp:227-228`): if that call makes the provider notify, the
    listener misses the new value and is registered with the old one (the
    exception in `NoStaleListener`).

## Not modelled

- *In the modelled components*: unreliable packets that are dropped on the way
  (they are sent like the others while connected); a user who closes a stream
  from inside a callback of the reactor, which includes the destructor of
  `TCPStream`; closing the listener; the contents of payloads; the hooks of
  `Provider`, which are empty; a `NodeIterator` destroyed before its end, which
  reads `mNext` of nodes it has released (`LockFreeQueue.hpp:111-112`); a
  `write()` of the disk worker that fails; the assembling of forms and URIs by
  `HTTPUploadHandler` and `HTTPFormUploadHandler`.
- *Name and service look-up*: a look-up is a step of EventTransferManager and
  NetworkCacheLayer that succeeds, fails or goes on to the next service; the
  caches in front of it are maps with insert-if-absent.
- *IO service factory*: creates and runs the asio service, no protocol.
- *DependentTask*: see 7; its tasks never run. `Scheduler` and `TimerQueue` are
  declared and not implemented.
- *Options, URIs, name formatting, plugins, factories*: parsing and sequential
  maps around the dynamic loader.
- *Mathematics, hashing, UUIDs*: floating point and bit mixing are out of TLC's
  reach.
- *Graphics (`src/liboh`), main programs (`src/cppoh`, `src/space`)*: calls into
  Ogre and SDL.
- Vendored: `src/externals`, `util/valgrind.h`, boost uuid and sha code. With
  mathematics, parsing and graphics these are most of the lines no definition
  stands for.

## Plan

The modelling is done except for the points above. Left to prove is
`DiskSurvivesCrash`, from the state of the worker between its file operations,
once the operations on lists are stated by what they return.

The hazards in `PROJECT.json` are the list the properties are made from.
