# MultiReactor in TLA+

MultiReactor is an HTTP/1.1 server: a main thread accepts, N IO threads each run
an epoll loop over their connections, a pool of workers computes the responses.
Almost everything that can go wrong in it happens *between* threads or between two
turns of a loop: a wake-up lost between a push and an exchange, an edge of an
edge-triggered descriptor that nobody consumes, answers that finish out of order,
a close that races what is still owed, a counter that leaks on one of four paths.
This directory models those parts, checks them with TLC and proves what matters
most with TLAPS. Paths below are those of the repository (`src/X.cpp` is the
implementation, `include/X.h` its headers, `docs/DESIGN.md` the design document).

`PROJECT.json` lists, for machines, what this file explains: components, runs,
the source lines behind every definition (`map`), hazards, findings, theorems, and
for each property a mutated definition under which TLC must find it violated.

## 1. The system

| Component | State | Operations | What must hold |
|---|---|---|---|
| `EventLoop` (one per thread) | `looping_`, `pendingFunctors_` under `mutex_`, `wakeupPending_`, eventfd, `threadId_`, `callingPendingFunctors_` | `loop`, `queueInLoop`, `quit`, `wakeup`, `handleWakeup` | no wake-up and no quit is lost; functors run once, in the order of their pushes; a quit ends the loop |
| `TcpConnection` + `messageCallback` (`main.cpp`) | input buffer, parser context, `channel_` registration, `sending_`/`sendQueue_`, `nextReqSeq_`, `nextSendSeq_`, `inflight_`, `pendingResp_`, `closeAfterSend_`, `closed_` | read, parse, submit/refuse/reject, `deliverResponse`, send, `handleWrite`, shutdown, `forceClose`, destroy | one answer per request, in request order; nothing read is stranded; a graceful close owes nothing |
| `ThreadPool` | `loops_`, `next_`, `inFlight_`, `maxQueueSize_` | `tryRun` on any IO thread, worker loops, `stop` | the counter is exact, the limit is never passed, `stop` returns |
| `TimerQueue`, `Timer` | `timerHeap_`, `id2index_`, `id2timer_`, `nextTimerId_`, the timerfd | `addTimer`, `cancel`, `handleRead` | heap order, heap and index in step, the earliest timer always has an alarm |
| `TcpServer` | connection set, connection count, round robin | accept callback, removal, `forEachConnection`, `shutdown` | the counts agree with the set; `shutdown` uses no loop that is gone |
| `EventLoopThread` | `loop_`, mutex, condition variable | constructor, `getLoop`, `threadFunc`, destructor | `loop_` published before use, not used after the loop is gone |
| Signals and drain (`SignalHandler`, `main.cpp`) | `isShutdown`, deadline, drain timer | `handleRead`, shutdown callback, `drainCheck` | the drain ends by the deadline, and before it only when nothing is active |
| Heartbeat (`main.cpp`) | `lastActiveTime_` of each connection | 1 s repeating timer | only idle connections are closed |
| `Acceptor` | listening socket, ET channel | `listen`, `handleRead`, `close` | the backlog is drained |
| `HttpContext` | parse state, request under construction | `parseRequest`, `reset` | the same requests however the bytes are cut; one `100 Continue` where it is due |
| `Buffer` | read and write index, storage | `append`, `retrieve`, `prepend`, `makeSpace`, `shrinkIfLarge`, `readFd` | indexes ordered, contents preserved |
| `Router` | `routes_`, `pathToMethods_`, `paramRoutes_` | `addRoute`, `route` | the declared route answers, with its own parameters |
| `StaticFileHandler` | `cacheMap_` and `lruList_`, shared by the workers under one lock | `handle` | what is served is as old as the file was; map and list fit together |
| `Channel` | `events_`, `added_` | enable/disable, `handleEvent` | dispatch order; registration matches `events_` |
| `Config`, `Log`, `Metrics`, `HttpRequest`, `HttpResponse` | values, counters | parsing, formatting | nothing in the control flow above depends on them |

Interactions. `main` owns the main loop, the server, the pool, the signal handler and
the timers of the main loop. The acceptor's callback picks an IO loop and queues
`connectEstablished` on it. The IO loop dispatches `Channel` callbacks into the
connection, which parses and calls `messageCallback`; that hands a task to
`ThreadPool::tryRun`, and the worker queues `deliverResponse` back on the
connection's own loop. So only the IO thread touches a connection and the only
shared state is behind `queueInLoop`, the pool's atomics, `lastActiveTime_`,
`isShutdown` and the server's locked set. Closing goes through functors that own
the connection, because events already returned by `epoll_wait` hold a raw pointer.

The hard behaviours, each listed at its line under `hazards`: the push/exchange/drain
protocol of the wake-up; edge-triggered readiness of eventfd, sockets, timerfd and
the listener; `quit()` against the top of `loop()`; answers in any order against
pipelining, half close, refusals and graceful close; concurrent admission with
roll-back; `stop()` against tasks; timers added, cancelled and thrown from within
callbacks; start and end of IO threads; the drain against its deadline, a second signal and
counters that other threads change; the teardown against workers and IO threads that still run;
a cache whose lock is dropped while files that change are read; requests cut anywhere by TCP.

## 2. Modules

| Module | Models | Run by |
|---|---|---|
| `TaskExecutor` | abstract: a FIFO executor | refined by `EventLoop` |
| `EventLoop` | `EventLoop.cpp`: one action per lock section, atomic operation or system call | `MCEventLoop` |
| `EventLoopProofs` | TLAPS proofs about `EventLoop` | `tlapm` |
| `ResponsePipeline` | abstract: answers in order, one each, graceful ends owe nothing | refined by `TcpConnection` |
| `TcpConnection` | `TcpConnection.cpp`, `messageCallback` of `main.cpp`, the part of `Channel` they see | `MCTcpConnection` |
| `TcpConnectionProofs` | TLAPS proofs about `TcpConnection` | `tlapm` |
| `ThreadPool` | `ThreadPool.cpp` | `MCThreadPool` |
| `ThreadPoolProofs` | TLAPS proofs about `ThreadPool` | `tlapm` |
| `TimerService` | abstract: due timers are taken together and run in order | refined by `TimerQueue` |
| `TimerQueue` | `TimerQueue.cpp`, `Timer.cpp` | `MCTimerQueue` |
| `TimerQueueProofs` | TLAPS proofs about `TimerQueue` | `tlapm` |
| `TcpServer` | the composition: `main()`, `TcpServer.cpp`, `Acceptor.cpp`, `EventLoopThread.cpp`, signals, heartbeat, drain, teardown, with loops, connections and pool reduced to what they promise | `MCTcpServer` |
| `TcpServerProofs` | TLAPS proofs about `TcpServer` | `tlapm` |
| `Router` | `Router.cpp`, as operators over the registered routes | `MCStaticFileHandler` |
| `RequestService` | abstract: the declared route answers, or the file as it was while the request was served | refined by `StaticFileHandler` |
| `StaticFileHandler` | the worker's task of `main.cpp`, `StaticFileHandler.cpp`, the file system | `MCStaticFileHandler` |
| `StaticFileHandlerProofs` | TLAPS proofs about `Router` and `StaticFileHandler` | `tlapm` |
| `Buffer` | `Buffer.cpp`, as operators over `[store, r, w]` | `MCHttpContext` |
| `HttpMessages` | what a client means by its bytes, and the verdict on each message, without a parser | used by `HttpContext` |
| `HttpContext` | `HttpContext.cpp` and the loop that calls it: `handleRead`, `processBufferedRequests`, the parsing half of `messageCallback` | `MCHttpContext` |
| `HttpContextProofs` | TLAPS proofs about `Buffer` and `HttpContext`: indices, the bytes that are held | `tlapm` |
| `HttpRequestsProofs` | TLAPS proofs about `HttpContext`: what the parser makes of the bytes | `tlapm` |

How they compose: `TcpServer` takes from `EventLoop` that functors run in the order of their pushes, each in one
piece, from `TcpConnection` what a handler may leave of a connection (`Settled`, `Sent`, `Delivered`), and from `ThreadPool` that
`stop()` returns with no task running. `TcpConnection` takes the requests `HttpContext` makes of the bytes as tokens. `StaticFileHandler`
EXTENDS `Router`, `HttpContext` EXTENDS `Buffer` and `HttpMessages`. A loop of the code is a function of the number of its rounds
(`Rounds` of the heap's sifts, `Doubled` of a buffer's capacity, `SizeUpTo` of the headers so far), so that one can prove what it computes.

### EventLoop
`lpc` is where the running thread stands in `loop()`: `check` the test of `looping_`
(:29), `epoll` blocked in `epoll_wait`, `dispatch` the event callbacks, `drain` the lock
section at :65-75, `run` and `functor` the batch. `pc[t]` is where thread *t* stands in
`queueInLoop` (push done, exchange next) or before the eventfd write. A thread inside a
callback or a functor of the loop can call both operations too, so the loop is its own
client. The eventfd is two bits: its counter is non-zero (`efd`), and an edge is on
epoll's ready list (`ready`); the edge is made by every write, is consumed by
`epoll_wait`, and `handleWakeup` resets the counter. The 5 s timeout, a signal and other descriptors are
separate actions without fairness. `quit()` may come before `loop()` has set `looping_`; it is then undone, as in the
code, and `TcpServer` shows what follows. `ThreadId` is a constant different from `Runner` when a loop is
constructed on another thread, as every worker loop is. `by` and
`executed` are history variables.

### TcpConnection
The IO thread is a call stack `todo`; between any two of its frames the peer, the
workers and the main thread may act. `sock` is what the kernel holds, `inEdge`,
`space`, `outEdge` the edges of the socket; `buffer` is `inputBuffer_` by what the
parser will make of it: a request is one token (`req`), headers that announce
a body (`head`, `body`), one refused as a whole (`err`), one refused
in its headers (`te`). What stays behind of the last one is any of `Leftovers`, sequences of errors and requests: the callback goes on parsing (`main.cpp:205-216`). A `SendItem` is the
number of its request, whether it is the final answer and whether its file has shrunk.
The functors are a FIFO queue, which `EventLoop` establishes. `wire` is a history variable: the numbers of the requests whose answers have been written, in order. Whether the pool accepts
a request is a nondeterministic choice (the 503 path), as is what a worker decides about closing.

### ThreadPool
One call of `tryRun` is followed from `fetch_add` to the end of its task through
`place`; the roll-back of a refused call is a step of its own. Worker loops are
reduced to what `EventLoop` shows of them: batches, run to their end, and return
after `quit()` possibly with tasks still queued. `numThreads` is chosen once from
`PoolSizes`, 0 included. `inFlight_` counts modulo `SizeModulus`, standing for the
width of `size_t`.

### TimerQueue
The heap is a 0-based function like the vector; `SiftUp`, `SiftDown`, `EraseEntry` and
`Push` are the functions of the source, swap by swap, with the index they keep; each loop is its body (`Up`, `Down`, `Popped`)
repeated until it changes nothing more. `armed`
is the timerfd's absolute expiration (0: disarmed), one shot, cleared by a read that
finds it expired; `settime` replaces it. `handleRead` is `ReadTimerfd`, `Collect` (samples
the clock and pops what is due), `CallbackReturns` or `CallbackThrows` per timer, and
`HandlerEnds` (sets the timerfd again). While a callback runs, and while the loop is
elsewhere, user code may add and cancel any timer, and `Tick` moves the clock anywhere in between.
`cancel()` is a public operation that the server itself does not call; it is modelled
because it is what the index exists for. A timer that is being run is in neither map, so a
repeating timer that cancels itself from its own callback goes on repeating, in the code and in the model.
An interval is a number of units of which `PerTick` make a microsecond, and `Restart` cuts it to whole ones as `Timer.cpp:33` does; how a `double` rounds
is left out. `Timer::id_` is an `int` (`Timer.h:27`) fed from a 64-bit counter: `TimerAssumption` limits the timers to `IntMax`, up to
which ids are the counter's values and distinct. Beyond it they would turn negative and, after 2^32, be those of timers that are still waiting.

### TcpServer
`mpc` follows `main()`: constructing the IO threads (`spawn`, `await`), the main loop (`run`), `threadPool.stop()` (`stop`),
`server.shutdown()` (`shut`, and `quit`/`wake` per loop), `~TcpServer` (`clear`, `reap`), return. `iopc[l]` follows an IO thread
through `threadFunc`; `loopPtr[l]` is `loop_`, which has no initialiser (`EventLoopThread.h:17`) and may at first read as null
or not. A connection is a record of what decides about it (registered, reading, output blocked, a request in the pool, to be closed) and
the step of `handleClose` it has reached: the three counters and sets it leaves are three steps, so that drain and heartbeat
see every state between. `task[c]` is its request in the pool. The clock is left open: which connections the
heartbeat finds idle and whether a drain check is past the deadline are choices. One request of a connection is in the pool at a time, a
functor is one step, and `shutdown()` posts for all connections in one step, in any order.

`threadFunc` publishes `loop_` (`Publish`) before `loop()` sets `looping_` (`EnterLoop`), and a `quit()` may come in between; `deaf` remembers the loops that were told
to quit for the last time before they listened. An accept pass ends on an empty backlog (`AcceptEnds`), on EMFILE with one client dropped (`AcceptLoses`), or on any other error
(`AcceptFails`, `Acceptor.cpp:88-91`); `gaveUp` remembers that those left waiting got no edge. A drain check reads `activeConnections` and `inFlight` in two steps (`CheckActive`, `CheckPool`).

### Router, StaticFileHandler, RequestService
A path is a sequence of segments, empty ones included: what `realpath` makes of dots and of slashes in the middle is `Canonical`, and a slash or a dot at the end is kept, since
`/a/` is no file and the index of `/dir` is looked for as `dirindex.html` (`IndexPath`). `Files` and `Directories` say what lies where. `Written` keeps that a pattern that fails further on has already
put its parameters into the request's map, and `Handler` that a route's handler reads its own with `at()`. A content is a version of a file with its
`st_mtime` in seconds: a change falls in the same second as the last, a later or an earlier one (`mv`, `cp -p`); a write in place is seen through
an open descriptor, a replacement is not. `handle` is cut where the file system or another worker can come between: `Resolve`, `Open`
(`openat2` and `fstat`), `Lookup`, `Read`, `Insert`. A FIFO blocks the worker in `openat2` until a writer comes (`WriterComes`), and nothing is served where the directory was missing at the start (`enabled`). A read is atomic; a torn one would be a version of its own. The cache is the code's:
map entries point to list nodes, and a node may outlive its entry. `RequestService` knows nothing of routes' tables, cache or descriptors, and finds the file of a path by a definition of its own (`FileFor`); what it allows is
fixed by the declared routes and by what the path held at some moment between request and answer. "As old as" means the same `st_mtime`: two versions of one
second are one to the code, and it may serve the earlier one. Once the times of a file have gone back (`InOrder`) the service only asks for some version of it: 304 is decided
by `<=` (`StaticFileHandler.cpp:185`), and the cache may hold an earlier version of the time the file has again.

### Buffer, HttpMessages, HttpContext
Indices count from 0 as in the code; bytes outside the readable ones are `Junk`, so that reading them shows. `Readv` is one `readv` into the free space and `extrabuf`,
`MakeSpace` moves or doubles. A line's text is one byte with a size of its own, which the limits are tested against; CR and LF are bytes, and a body may consist of them.
`TextsAssumption` says that the sizes fit the names (only `long-line` is too long for a request line), `IsMessage` what a client may send.
`Verdict` says from the message as a whole what is wrong with it first, the parser finds out from the bytes. An answer only gives back its place in
`inflight_`; whether an error closes at once is a choice, since that depends on the output. The client sends while the thread reads or waits; parsing does
not look at the socket, so sending in between would make no difference.

## 3. Runs

| Run | Bounds | Shows |
|---|---|---|
| `eventloop_safety` | 3 threads (the loop's own, main, another), 2 functors, `quit()` by main and by the loop itself | `NoLostWakeup`, `NoLostQuit`; `ImplementsExecutor`; every functor runs unless the loop ends (`FunctorsServed`); `quit()` ends it, without the timeout's help (`QuitEndsLoop`) |
| `connection_safety` | all 4 kinds, a refused line leaving nothing, an error or a request, 2 requests, 2 at a time in the pool, files that shrink | `RequestsAccounted`, `BlockedOutputHasWaker`, `EventsOutliveClose`, `HalfCloseKeepsAnswers`, `ImplementsPipeline` |
| `connection_live` | 2 requests, one at a time in the pool | `NoStrandedRequest`, `DrainedMeansServed`, `RequestsAnswered`, `HalfCloseEnds` |
| `pool_safety` | 4 concurrent calls, 0-2 workers, limit 2, `stop()` any time | `CounterExact`, `BoundRespected`, `AcceptedFinish`, `StopEnds` |
| `timer_safety` | 6 timers, 2 clock values, one-shot and repeating with an interval of 1.5 ticks | `HeapOrdered`, `IndexExact`, `FrontArmed`, `DueTimersRun`, `ImplementsTimerService` |
| `server_safety` | 2 connections; 1 IO thread with room for both, and 2 with room for one; a pool of 1; 2 signals; connections are interchangeable (symmetry) | `CountsAgree`, `LoopsOutliveCallers`, `DrainOwesNothing`, `BacklogHasEdge`, `TeardownCanEnd` |
| `handler_safety` | 2 workers, 11 routes, 26 kinds of request, a cache of 1 entry, 2 versions of one file | `EntriesValid`, `ImplementsRequestService` |
| `input_safety` | 19 scripts of 2 or 3 messages, one for each error of the parser; `kPrependSize` 2, `extrabuf` 3 | `BufferHolds`, `SameRequests`, `ContinueExact` |
| `eventloop_foreign_owner` | violation: `NoLostWakeup` | a loop built on another thread misses that thread's functors |
| `connection_unanswered` | violation: `UnansweredBounded` | unsent answers are not bounded by `kMaxInflight_` |
| `server_teardown` | violation: `AllClosedAtReturn` | `main()` returns with connections still registered |
| `cache_bound` | violation: `CacheBounded` | two misses of one file make the cache outgrow its limit |

Each passing run also checks the module's `TypeOK`, except `connection_live`, whose module `connection_safety` covers.

Why the bounds are enough. *Event loop*: the protocol has three parties at any moment, the loop,
the thread that found the flag unset and will write, and one that found it set; two functors give a
second push in every window of the first. *Connection*: two requests are what re-ordering, parking, a close
marked by one and owed to the other, and a half close in the same event need; the pool limit is
met from below in one run (2 of 2) and passed by what is buffered in the other (1 of 2). *Pool*: four calls
against a limit of two give two refusals that overlap two admissions. *Timers*: six entries are the
fewest in which the entry that fills a hole in the middle may have to rise; two clock values let a timer become due
after the clock was sampled, and a repeating one fall due again while callbacks run; an interval of half a tick, which repeats without a pause, was checked once with five timers. *Server*: two connections on one loop give a
close in the middle of another's teardown; two loops with room for one connection give the
round robin and the second loop's end after the first's; a pool of one gives the 503; two signals the second chain of drain checks. *Files*: one
cache entry makes every second file an eviction, two workers and two versions give a lookup, a read and an insertion on different sides of a change;
three versions of the file were checked once too (290 s, no error). `cache_bound` needs four files and a limit of two. *Input*: readv splits between buffer and
`extrabuf`, moving and doubling all occur within two messages, and TCP cuts at every place. `MaxTime` and
`MaxTimers`, `MaxRequests`, `MaxSignals`, `MaxVersions`, the sets of calls, functors, quitters, connections and scripts are the only bounds on counters.
`CHECK_DEADLOCK FALSE` stands where the system really stops: the loop has returned and nobody
calls any more, the connection is closed, the pool stopped, the clock at its bound, `main()` has returned, the client's script is at its end.

Fairness. *Event loop*: a thread inside `queueInLoop` or `quit` finishes, and the running thread goes on when it is not
blocked; `epoll_wait` is only fair when the eventfd is ready, so that no liveness result leans on the
5 s timeout or on other traffic. *Connection*: weak fairness of the IO thread (functors and callbacks end),
of each worker's task and of the peer's reading; strong fairness of `WriteItem`, since an item
is finitely long and enough partial writes finish it. The peer need never send, and need never stop.
*Pool*: a begun `tryRun` returns, workers go on, a begun `stop()` goes on. *Timers*: `handleRead` and its callbacks end
(`[]<>(pc = "idle")`) and a readable timerfd is reported. The other modules state safety only: that the server's teardown ends was tried as a liveness
property and took as long as a run may, so it is stated as the invariant `TeardownCanEnd`: whoever `main()` waits for has been told, or is still to be asked again, or missed its last `quit()`.

## 4. Proofs

All proofs hold for every value of the constants under the assumptions named in the
modules; `OwnThreadId` (no other thread of the model is the one in `threadId_`) is assumed only where stated.
From `TcpConnectionProofs` on, the modules have one shape: an inductive invariant `IInv` in named parts, one lemma per action or part, `Invariance`
(`Spec => []IInv`), and from it the properties of section 3. TLC has checked every one of those properties on its instance. Every invariant of a
passing run, and the refinement of each of the four abstract specifications, is proved; the table at the end says what is not.

`EventLoopProofs`:
- `TypeCorrect`: `Spec => []TypeOK`, inductive as it stands.
- `WakeupNotLost`: under `OwnThreadId`, `NoLostWakeup` is not inductive. `WakeupInv` adds
  `EdgeNotSwallowed` and that, whenever functors are queued and no caller is between its push and its
  write, the flag is armed with an edge outstanding, or the loop will drain before it blocks. Without
  the assumption the statement is false: that is `eventloop_foreign_owner`.
- `QuitNotLost`: `QuitInv`, the same argument for `looping_`; no assumption on `threadId_`, since
  `quit()` writes the eventfd unconditionally.
- `RefinesExecutor`: the mapping `queue <- temp \o pendingFunctors`, `done <- executed`. `QueueInv` says that a batch exists only
  while it is run, and that whatever is queued or executed has a recorded submitter, so that it is not submitted again; `ConcatAppend` and `ConcatTail` turn a push and the start of a
  functor into `Submit` and `Execute`, and the swap of the batch into a stutter.

`ThreadPoolProofs`, for any number of calls, any pool sizes and any limit, provided fewer calls than `SizeModulus` are in
flight (for a 64-bit `size_t`, always):
- `TypeCorrect`, with `numThreads = 0 => Unfinished = {}`: the ticket is never taken modulo zero.
- `CounterCorrect`: the counter is the sum of two disjoint finite sets of calls, and each action moves one call in or
  out of their union exactly when it adds or subtracts one; the sum stays below the modulus (`TotalBounded`).
- `LimitCorrect`: from the exact counter, since `Full` is tested on the value `fetch_add` returned.

`TcpConnectionProofs`, for any `kMaxInflight_`, number and kinds of requests, files that shrink or do not (`BoundsAssumption`):
- `Accounted` (`RequestsAccounted`). What is preserved is `AccountInv`: the numbers from `nextSendSeq_` to `nextReqSeq_` are those at work (in a worker, posted
  back, or in a `deliverResponse` on the stack) and those parked, the places are disjoint, and `inflight_` counts the first. In the middle of a call that is true
  only if the stack has the right shape (`StackInv`: a `deliverResponse` or a `handleRead` is the innermost call; `LifeInv`: nothing runs before `connectEstablished`).
- `NothingStranded` (`NoStrandedRequest`), `DrainedServed` (`DrainedMeansServed`): a buffer that is not empty is at the limit or has a `processBufferedRequests` on
  the stack (`StrandInv`); a close that found nothing owed found the buffer empty (`DrainedInv`).
- `OutputWoken` (`BlockedOutputHasWaker`): `OutputInv` is the property in the middle of a call, with the write that an event has announced and not yet made.
- `EventsOwned` (`EventsOutliveClose`): `GuardInv`, as long as a callback of the closed connection's round is on the stack the guard functor is queued.
- `HalfCloseSafe` (`HalfCloseKeepsAnswers`): a forced close still on its way has a reset of the peer or main's `forceClose` behind it (`ForceInv`).
- `PipelineRefined` (`ImplementsPipeline`): the output queue holds the answers handed to `send()` and not yet on the wire, in order, each once,
  wherever `100 Continue` items stand between them (`OrderInv`). So a final item written is the abstract `Answer` of the next request, whether
  `send()` wrote it at once or `handleWrite` did.

`TcpServerProofs`, for any number of connections, IO threads and signals, any limits (`SettingsAssumption`):
- `CountersExact` (`CountsAgree`): the two counters as cardinalities of sets of connections, through each of the steps of `handleClose`; a
  connection has an owner exactly when it was accepted, and its loop's functors are about its own connections (`OwnerInv`).
- `LoopsOutlive` (`LoopsOutliveCallers`): `ThreadInv` ties what main has asked of an IO thread to where that thread stands and to `loop_`, `MainInv` that the pool was joined
  before, `PoolInv` that then no task is left. `getLoop()`'s uninitialised `loop_` stays in the model: a crash is the one other outcome.
- `DrainComplete` (`DrainOwesNothing`): from the exact counters, and that a drain follows the closing of the listener (`DrainInv`), so that nothing new arrives.
- `BacklogAnnounced` (`BacklogHasEdge`): `BacklogInv` adds that who waits was not accepted. The exception, a pass that gave up on an error, is part of the property.
- `TeardownNotStuck` (`TeardownCanEnd`): from `MainInv`, `ThreadInv` and `DrainInv`; the thread that missed its last `quit()` is part of the property.

`TimerQueueProofs`, for any timers and heaps of every size (`TimerAssumption`):
- The loops of the code are `Rounds` of their bodies. They are proved by induction over the number of rounds (`Inductive`, an induction over a set of
  numbers), with a loop invariant each: `Rising` (order but for the entry that moves up, or at its first place down), `Falling`, and `Gathered` (what
  `handleRead` has popped so far: the due ones, in order, and the rest still a heap); a measure shows that they end within as many rounds as there are entries.
- `AlwaysHeapOrdered`, `AlwaysIndexExact`: `QueueInv` is `Whole`: heap in order, index exact, entries those of the timers. Each needs the other: `cancel()` finds
  its entry by the index, and the entry that fills the hole is in order in one direction only if the heap was.
- `AlwaysFrontArmed`: `FrontArmed` looks at the front; `AlarmInv` says that the alarm is no later than any timer, so that it survives the front's cancellation.
- `ServiceImplemented` (`ImplementsTimerService`): `Collect` maps to the abstract taking of exactly the due timers, in the order of their expirations.

`StaticFileHandlerProofs`, for any routes and paths, any workers, files and cache size (`SegmentsAssumption`, `HandlerAssumption`, `NoneAssumption`):
- `RouteIs`: `Router`'s search through its three tables finds the preferred of the routes declared for the request, with its own parameters, and tells "method not allowed" from
  "not found". It is about `Router.tla` alone, and holds for every table of routes.
- `IteratorsValid` (`EntriesValid`): an entry's node is in the list, with the entry's path, and no two nodes are the same (`CacheInv`), through a miss of two workers for the same file.
- `ServiceImplemented` (`ImplementsRequestService`): every answer is one the abstract service allows. `DiskInv`, `CacheInv` (an entry's content is
  as new as its `mtime` says) and `WorkInv` (the versions since the descriptor was opened have been seen) put what a hit sends among the versions the file had while it was served.

`HttpContextProofs`, for any sizes of the buffer's parts, any limits and scripts (`BufferAssumption`, `TextsAssumption`, `InputAssumption`):
- One lemma per operation of the buffer, by what it does to the bytes held: `MakeSpaceIs`, `AppendToIs`, `ReadIntoIs`, `ConsumedIs`, also for the
  capacities that doubling finds (`DoubledIs`).
- `TypeCorrect`, `BufferFaithful` (`BufferHolds`), from `StateInv` and `InputInv`: the positions sent, received and consumed are in their order, the indices in theirs.

`HttpRequestsProofs`, the same assumptions:
- `StreamLayout`: where in the stream each message's request line, header lines, empty line and body stand. `LineThere`, `EmptyLineThere` and `BodyThere`: what
  `findCrlf` finds there in the bytes that have arrived, whatever part of the message they are.
- `MessageAgrees`: the fields a parser has collected from the first lines, and the first thing it finds wrong, are those `HttpMessages` reads off the message as a whole.
- `RequestsSame` (`SameRequests`) and `ContinueRight` (`ContinueExact`). `Exact`: up to the first error the parser stands at the byte of message `K` that its state says and knows of it
  what lies before (`AlignedInv`); the outcomes are the promised ones (`OutcomeInv`); the thread goes back to wait only when it would find nothing to do, is closed or at the
  limit (`ProgressInv`); a `100 Continue` went to messages that deserve it, and to the one whose body is awaited (`PromiseInv`). `ExactInvariance` has one lemma
  per action. Beyond a client's first error nothing is promised, for the reason in section 5.

Only model-checked:

| Property | Why |
|---|---|
| `FunctorsServed`, `QuitEndsLoop`, `RequestsAnswered`, `HalfCloseEnds`, `AcceptedFinish`, `StopEnds`, `DueTimersRun` | liveness under fairness, which needs `ENABLED` |
| `NoLostWakeup` where `threadId_` is another thread's, `UnansweredBounded`, `AllClosedAtReturn`, `CacheBounded` | false of the code: section 5 |

## 5. What the checks found

Each of these four is a run whose trace shows the code's own behaviour against a sentence of the repository.

1. `ThreadPool.cpp:7` argues that a worker's `threadId_` does not matter because its clients are IO threads. With
   `io_threads = 0` the client is the thread that constructed the loop, and `queueInLoop` skips the wake-up (`eventloop_foreign_owner`).
2. `DESIGN.md:212` says `inflight_` bounds what a connection has unanswered; parked answers have given their place back (`connection_unanswered`).
3. `main.cpp:355` says that after `server.shutdown()` all connections are closed. One that still owes an answer or output when the deadline passes is
   not; its loop is freed while it is registered, and `~Channel` removes it from that loop later (`server_teardown`).
4. `StaticFileHandler.h:27` says the cache evicts beyond its capacity, and `StaticFileHandler.cpp:218` why the list must not keep an old node. Two workers
   that miss the same file leave one: its eviction takes the fresh entry, or nothing, and from then on the cache holds one entry more, one for each such double miss (`cache_bound`).
   Such nodes also let the list grow while the map is below its limit.

Observed while modelling, and described here without a run of their own:

- Connection: `100 Continue` is sent past `deliverResponse` and may precede an earlier answer (`TcpConnection.cpp:194`, `main.cpp:152`). After a 400 or 501 the
  callback resets the parser and goes on with the bytes behind the refused line as further requests (`HttpContext.cpp:202-203`, `DESIGN.md:249-250`); `SameRequests` therefore
  promises nothing after the first error. Reading does not stop at the limit (`DESIGN.md:221`, `:554` against `TcpConnection.cpp:146`).
- Input: the limits on a line and on the headers are tested once a CRLF has been found (`HttpContext.cpp:74`), so a line without end grows the buffer.
- Loop: a functor queued just before `quit()`, between the loop's drain and its test, never runs; `TcpServer.cpp:108-109` argues that it does.
- Pool: the counter may be left non-zero for tasks dropped by `stop()` and is cleared by a store (`ThreadPool.cpp:29`); near the limit a refusal not yet rolled back has another call
  refused although a place is free (`ThreadPool.cpp:43`).
- Timers: a callback that throws leaves `handleRead` before the timerfd is set again (`EventLoop.cpp:40` says only its own timer is affected); `DESIGN.md:439` describes repeating timers by
  the interval of the timerfd, the code re-arms a one-shot one (`TimerQueue.cpp:96`).
- Router: `*` is commented as "0 segments or more" (`Router.cpp:40`), but the length test before it (`:25-27`) wants one: `/x` does not match `/x/*`. Of two registrations of one
  path the last wins if it is plain and the first if it has parameters. `DESIGN.md:313-315` puts routes with parameters before wildcards; the code tries both in the order of their registration. Parameters written by a pattern that fails stay in the map.
- Files: `/dir` is answered 404 unless a file `dirindex.html` exists, since the path and `index.html` are joined without a slash (`StaticFileHandler.cpp:153`; `DESIGN.md:346` speaks of
  a final `/` only). A FIFO in the directory blocks a worker in `openat2`, and then `stop()`'s join, until somebody writes to it (`StaticFileHandler.cpp:26-28`).
  A change within the second of the last one may be answered from the cache, or by 304, with the earlier content. The index of a directory is neither cached nor compared with `If-Modified-Since`.
- Server: `TcpServer.cpp:113` says that when an IO thread is joined its loop has been told to quit and the join returns at once. `loop()` sets `looping_` whatever `quit()` has made of
  it (`EventLoop.cpp:28`), after `loop_` is published (`EventLoopThread.cpp:31-36`): if the `quit()` of `shutdown()` and that of `~EventLoopThread` both come first, `join()` waits for
  ever. TLC finds it as a violation of `TeardownCanEnd` without its exception `mi \in deaf`; it takes a signal right after the start. `getLoop()->quit()` clears `looping_` and then writes to the loop's eventfd; the IO thread may have freed the loop in between
  (`TcpServer.cpp:111`, `EventLoop.cpp:93-96`, `EventLoopThread.cpp:37-39`; in the model `mpc = "wake"` with `iopc = "freed"`). `loop_` is uninitialised, so the constructor's wait may not wait
  (`EventLoopThread.h:17`, `.cpp:9`), and `getLoop()` reads it without the lock. The heartbeat may close a connection not yet
  established, whose `lastActiveTime_` is 0, or one whose request arrives after the decision (`main.cpp:337`). A second SIGTERM sets a new deadline and starts a second chain
  of checks. Idle keep-alive connections hold the drain until its deadline. After EMFILE, and after every other error of `accept()` but EAGAIN, the rest of the backlog waits for the next connection (`Acceptor.cpp:79-91`, `DESIGN.md:130-133`): `BacklogHasEdge` excepts it.

## 6. Plan

Done: every module of section 2, and a proof of every invariant and refinement that a passing run checks. What is left, in this order:

1. What joins the components is still argued, not proved: that `TcpConnection`'s functors are the queue `TaskExecutor` promises, that the outcomes
   `HttpContext` hands over are the requests `TcpConnection` numbers, and that what a handler leaves of a connection in `TcpServer` (`Settled`) is what `TcpConnection` may leave.
2. Stronger facts the proofs have come close to: that a graceful teardown stops every loop with an empty queue of functors, and that the list of the file cache grows by at most one node for each
   miss of two workers (the exact form of `CacheBounded`).
3. Action properties: that `nextSendSeq_` moves by the answers handed to `send()` only, and that a closed connection never writes again.

## 7. Not modelled

- `Config` is read once before any thread starts. `Log` and `Metrics` are written and not read by anything that decides, except
  the number of active connections, which is `active` in `TcpServer`.
- `HttpRequest`, `HttpResponse`, MIME types and the serialisation of headers are formatting. URL decoding is not modelled; its one consequence for control, a ':' or '*' in
  a decoded path, is (`ExactMatch`).
- `openResolved` on kernels without `openat2`, where a file replaced between `realpath` and `open` may give 404.
- `Buffer::prepend`, `retrieveAll` and `writeFd`, which the server does not call.
- `io_threads = 0` in the composition: the main loop then serves the connections, and `shutdown()` queues its functors on a loop that has left already. `EventLoop` covers the loop itself.
- `Channel`'s destructor closing a descriptor, and memory itself: who frees what appears where the control flow depends on it (the loops in `TcpServer`, the guard functors of a closed connection in `TcpConnection`).
- The tests and benchmarks under `test/` and `bench/` are clients of the code above.
