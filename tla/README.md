# Appweb: a verification project

TLA+ models of parts of Embedthis Appweb, the TLC configurations that check them
on small instances, and proofs that TLAPS checks for every instance. Paths are
those of the repository. `PROJECT.json` lists the components, the runs, the
mutants every property is tested against, the hazards of the code at their
lines, and maps each definition of a model to the lines it stands for.

    tlc -config ESTimer.cfg MCEventService     # one of the runs of PROJECT.json
    tlapm EventServiceProofs.tla               # the proofs of a module

## 1. The system

Appweb is an embedded web server in C. `src/mpr/mprLib.c` is the portable
runtime (MPR) and `src/http/httpLib.c` the HTTP engine; both are amalgamations
whose parts keep their names in banner comments. Handlers, the server and the
watchdog are on top.

| Component | State it keeps | Operations | Hard behaviour |
|---|---|---|---|
| Event service (dispatcher.c, event.c, epoll.c) | five dispatcher queues (run, ready, wait, idle, pending), event queues, `willAwake`, `waiting`, `eventCount`, the eventfd and `wakeRequested` | create, queue, remove, run events; service, schedule, claim, release, destroy dispatchers; sleep, wake | lost wakeups between the last look and `epoll_wait`; one dispatcher on two threads; dispatchers forgotten between critical sections |
| Worker pool (thread.c) | idle and busy lists, a condition per worker, limits | start, hand over, yield, go idle, prune | dispatchers parked for lack of a core and never taken up; stale jobs |
| Garbage collector (mem.c) | marks, `eternal`, yield flags of threads, `mustYield`, `marking`, `gcRequested`, counts of collections | yield, reset, pause, mark, resume, sweep, hold, release, request, complete collection | stop the world without preemption; a sweep beside the program; foreign threads that are never stopped |
| Locks, conditions (lock.c, cond.c) | `triggered`, one pthread condition | wait, signal, reset | a condition is made for one waiter |
| Wait handlers (wait.c) | masks, handlers | add, remove, recall | events for a handler that is gone |
| Threads, commands, signals (thread.c, cmd.c, signal.c) | processes and their pipes | start, reap, close | exit of the process against its output |
| Runtime life cycle (mpr.c) | state from created to destroyed | shutdown, destroy, restart | order of terminators, workers that are still busy |
| Runtime data: hash, list, buf, JSON, strings, cache | in memory | sequential algorithms; the cache expires by time and size | boundaries, iteration during change |
| Network (net.c, netConnector.c, endpoint.c) | connections, their I/O queues, `destroyed`, `eof` | accept, read, write, enable events, destroy | teardown during callbacks, half closed connections |
| HTTP/1, HTTP/2, WebSocket filters | parse state; windows, stream identifiers, header tables | parse, frame, flow control | windows at zero, resets, continuation frames |
| Streams, request state machine (stream.c, process.c, error.c, rx.c, tx.c) | state from BEGIN to COMPLETE, finalized flags, error | advance, finalize, fail, reset, destroy | recursion of `httpSetState`, errors after the headers, finalizing twice |
| Pipeline, queues (pipeline.c, queue.c, packet.c) | queue pairs, counts, suspension | put, service, suspend, resume, open, close | back pressure that is never released |
| Sessions, authentication, users | keyed items with expiry | create, look up, expire, destroy | expiry against use |
| Content cache, runtime cache | responses per URI | fetch, store, invalidate | concurrent fill, expiry |
| Monitors, defenses | counters per address, bans | count, trigger, expire | counters that must balance |
| Routes, patterns, URIs, configuration | tables | match, rewrite, parse | sequential |
| FastCGI pool (fastHandler.c) | applications, selections (`inUse`), requests, pooled connections, `destroy`/`destroyed` | select, launch, connect, register, send, read, lose, retry, close, reap, prune, terminate | a process that exits or a connection that breaks at any step |
| Proxy pool (proxyHandler.c) | back-end applications, networks | select, connect, maintain | like FastCGI |
| CGI (cgiHandler.c) | one command per request | start, read, write, reap | exit against output |
| Server, watchdog, utilities | processes | start, restart | restart loops |

How they interact. Every HTTP connection has a dispatcher; its events run on
worker threads, one at a time, so most HTTP code needs no locks. Timers, I/O
readiness and other threads reach a connection only through events. Foreign
threads create events (`mprCreateEvent`, `httpCreateEvent`), which relies on
the hold of blocks against the collector. Worker threads yield to the collector
between events; a worker that blocks for long in a sticky yield also frees its
core for a pending dispatcher. The FastCGI pool is shared by the dispatchers of
all streams of a route, the dispatcher of SIGCHLD and a timer, under one lock
which is not held while connecting.

What makes each component correct, in short:
- event service: serialization per dispatcher, no lost wakeup, no forgotten or
  stranded dispatcher, order by due time, a removed event never runs;
- collector: nobody runs while it marks, nothing in use is freed, every yield
  and every complete collection returns, no request is lost;
- FastCGI pool: selections balance, limits hold, a lost application reaches
  each of its requests and no other, requests that may have acted are sent once,
  no process and no foreign answer is left behind;
- streams: a request visits its states in order, is answered before the next one
  of its connection begins, closes its handler once and leaves the count of active
  requests once, whatever ends it; output that waits is waited for;
- queues: counts are exact through splits and put backs, a suspended producer is
  resumed, and what the peer gets is the handler's bytes in order;
- HTTP/2: windows are exact and never overdrawn;
- CGI: a finalized response is whole, and no process or descriptor is left behind;
- not modelled yet: conditions (a signal reaches its waiter), caches and sessions
  (expiry never takes what is in use), monitors (counters balance), the watchdog
  (the restart backs off).

## 2. Plan

Most important behaviour first; the first seven items are done.

1. `EventService` with `EventServiceProofs` and `EventQueueProofs`: all other code runs on it.
2. `FastPool` with `FastPoolProofs`: the most intricate handler, with processes that fail.
3. `Collector` with `CollectorProofs`: memory safety of all the rest.
4. `Request` with `RequestProofs`, `RequestVisitProofs` and `RequestAnswerProofs`: the states of a request,
   finalization, errors and their documents, keep alive, timeouts, the end of streams and connections.
5. `Pipeline`: queues and flow control of a response, HTTP/2 windows, the network
   connector; it refines `ByteStream`, the abstract promise of a pipeline.
6. `Cgi` with `CgiProofs`: a handler on top of a process, with cmd.c and the way of SIGCHLD.
7. `SerialExecutor`: an abstract serialized executor that `EventService` implements
   (the end of `EventQueueProofs`).
8. `ProxyPool` beside `FastPool`; `Cond` (cond.c).
9. The incoming pipeline with the HTTP/2 receive windows; uploads.
10. Sessions, caches, monitors, watchdog; pruning of workers and shutdown.
11. Algorithms as functions against reference definitions: hash, list, pattern.

Runs stay below about 2.5 million states.

Theorems to come: `CountExact`, `WindowExact` and `BufferBound` of the pipeline, the count as a fold.

## 3. The modules

Each model has one atomic step per critical section of the component's lock, or
per unlocked access to shared state, so that every interleaving the
locks allow is a behaviour. A program counter says where a thread is. Names are
those of the source. Definitions whose names have a suffix after an underscore
(`Reap_Silent`) are faulty variants of the definition before the underscore;
no specification uses them. They serve to show that each property fails when the
code has a plausible bug.

### EventService and SerialExecutor (dispatcher.c, event.c, epoll.c, workers of thread.c)

| Part of the module | Code |
|---|---|
| `place`, `rank`, `owner`, `destroyed`, `waitFlag`, `dcond` | `MprDispatcher`: `parent`, the position in the queue, `owner`, flags, `cond` |
| `waiting`, `willAwake`, `now`, `counted` | `MprEventService`; `counted` compares `eventCount` with the snapshot of the service thread instead of counting |
| `wakeRequested`, `breakFd`, `sawBreak`, `sleepUntil` | `MprWaitService`, the eventfd, `epoll_wait` |
| `ScanReady` ... `Refresh` | `mprServiceEvents`, `getNextReadyDispatcher`, `getIdleTicks`, `mprWaitForIO` |
| `TestWaiting` ... `WriteBreak` | `mprWakeEventService`, `mprWakeNotifier` |
| `Reclaim`, `NextEvent`, `CallReturns`, `CallDone`, `Release`, `Unlink`, `Resched` | `dispatchEventsHelper`, `dispatchEvents` |
| `BecomeIdle`, `Offer`, `Rest`, `CallYields`, `NapEnds` | `workerMain`, `mprWakePendingDispatchers`, a sticky yield in a callback |
| `CreateEvent`, `PostEvent`, `QueueIOEvent`, `RemoveEvent`, `DestroyForeign`, `DestroyInCall` | `createEvent`, `mprQueueEvent`, `mprRemoveEvent`, `mprDestroyDispatcher`, by other threads and by callbacks |
| `StartClaim` ... `StopSchedule` | `mprStartDispatcher`, `mprWaitForEvent`, `mprStopDispatcher` |

Left out: `mprRescheduleEvent`, stopping and restarting of continuous events,
waiting for the completion of an event, pruning of workers and changes of their
limits, the other wait back ends. Time is a counter up to `MaxTime`.

`SerialExecutor` is what the users of dispatchers rely on, without threads, locks or
wakeups: a dispatcher runs the events posted to it one at a time, when they are due and
in that order, a one-shot event once and a continuous one again and again, until it is
removed or its dispatcher is destroyed. `EventService` refines it (`ExecutorSpec`): the
queue of a dispatcher is the set of the events in its `eventQ` (`Queued`), what it runs
are the events whose callbacks a thread is in (`Running`), and the life and due time of
events are the same in both.

### FastPool (modules/fastHandler.c)

`Open`, `Select` (`TakeIdle`, `Launch`, `Share`, `NoApp`) are one pass of
`getFastApp` under the lock; `PopSocket`, `Connect` and `ConnectFails` are
`getFastSocket` outside it; `Register` and `RegisterFails` the end of
`connectFastRequest`. `Write`, `Read`, their failures, `LostEvent`, `OldEvent`
and `Close` are the life of a registered request, `ReleaseApp` is
`releaseFastApp`, `Reap` the SIGCHLD handler, `Maintain` and `Terminate` the
timer and the terminator. `AppExits`, `AppAnswers`, `AppDrops` and
`AppClosesIdle` are the applications, which are not part of the repository: they
may do each at any time. `lost` and `old` are the lost events that are queued
for a request that is current, or was closed since. Whether applications are
launched or external, and the multiplexing limit, are chosen initially.

Left out: record encoding, the parts of a body (a request is unsent or sent),
flow control, response headers, and fairness: the module has safety
properties only.

### Collector (mem.c, threads of thread.c)

`Yield`, `TestYield`, `EnterYield`, `SignalYield`, `Wait`, `Woken` are
`mprYield` between its unlocked test of `mustYield` and its return; `Unblock`
and `Reset` call `mprResetYield`. `CollectBlocking`, `ReadTarget`, `Await`,
`Reset`, `Again` are `mprGC`; `Request`, `Trigger`, `Insist`, `Alert`
`triggerGC`, which takes no lock. `Top` ... `Choose` are `sweeperThread`,
`Pause`, `Poll`, `Nap`, `TimeUp` `pauseThreads`, the rest `markAndSweep`,
`resumeThreads` and the loop of `sweep`. `TakeBlock`, `CreateHeld`, `LinkHeld`,
`ReleaseLock`, `Stamp`, `LetGo` are a foreign thread in `createEvent` and
`mprRelease`. Counters of collections are not kept: `goal` says how far the
collection that a complete `mprGC` waits for has come, `gaveUp` that one was
abandoned since. `doomed` is a history variable: the garbage at the call.

What a thread refers to (`local`) must be saved before it yields, as the
documentation of `mprYield` demands; the model clears it there. The wait of
20 ms on `ts->pauseThreads` may end at any time, so its signal is not kept.
`Crowd` is 4 in the code and 3 in the runs, where two threads and the
collector reach it. Left out: regions, free queues, joining and splitting,
managers and children of blocks, and the stop of the collector. What a yielding
worker does for pending dispatchers is in `EventService`.

### Request (process.c, error.c, stream.c, net.c and what they call)

The functions of these files call each other deeply, and `httpSetState` is
entered again from its own callees. So `todo` is the stack of calls that are
still to be made; a step runs the call on its top up to the calls that it makes,
which it pushes, and an event comes when the stack is empty: the connection has
one dispatcher.

| Part of the module | Code |
|---|---|
| `net`, `stream`, `rx`, `tx` | the flags of `HttpNet`, `HttpStream`, `HttpRx`, `HttpTx` that decide about the course of a request; `end` is how far the END packet of the response has come |
| `Visit`, `SetState`, `Update`, `Leave` | `httpSetState` with its loop and `httpStateMachine` |
| `ProcessFirst` ... `ProcessFinalized` | the functions of the states; `Redirect` is `errorRedirect` and `prepErrorDoc` |
| `RaiseError`, `AfterError`, `NetError`, `Disconnect`, `Hang` | `errorv`, `httpNetError`, `httpDisconnectStream` |
| `Finalize`, `FinalizeInput`, `FinalizeOutput`, `FinalizeConnector`, `CheckFinalized` | the functions of these names |
| `Open`, `StartHandler`, `ReadyHandler`, `PumpIn`, `PumpFile`, `PumpOut`, `PumpFilter`, `Send`, `Free` | the pipeline, reduced to one packet and its END per direction |
| `IOEvent`, `ServiceNet`, `ServiceEnd`, `Mask`, `Enable`, `CloseStream`, `RemoveStream`, `DestroyNet` | `httpIOEvent`, `httpServiceNet`, `httpEnableNetEvents`, `httpDestroyNet` |
| `ReadHeader`, `ReadHeaders`, `ReadBody`, `ReadData`, `ReadReset`, `ReadWindow`, `FrameDone` | what the two protocol filters do with input |
| `HttpTimer`, `StreamTimeout`, `NetTimeout`, `PeerClose`, `Hangup`, `Writable`, `Recall`, `CgiOutput`, `CgiEnd` | the events of a connection |

The handlers are the file handler, the pass handler, one whose program writes
later (CGI), and requests without one. `seen` is a history variable: the
states of which the notifier told, and whether the request timed out. Left out:
the client side, upgraded connections, parsing, authentication, handlers that
run requests of their own, sharing of a connection between threads.

### Pipeline and ByteStream (queue.c, packet.c, filters, netConnector.c)

A stream has three queues (`HandlerQ`, `ChunkQ`, `TailQ`), a connection two
(`OutQ`, `SockQ`). A call of the dispatcher is a step, and so is each round of the loop of a
service routine: what a step calls is an operator from worlds to worlds, records
of all variables. `FileService`, `ChunkService`, `TailService`, `Http1Service`,
`Http2Service` and `SocketService` are the service routines,
`ServiceDone`/`NextQueue` `httpServiceNetQueues`; `PutTail`, `PutHttp2`, `Split`,
`Join`, `PutBack`, `Suspend`, `Resume`, `Accept` are the functions of queue.c, packet.c and
the filters; `StreamWindow`, `NetWindow`, `SettingsFrame` are frames of the peer,
`PeerReads` and `IOWritable` the socket. A unit is a run of bytes that is never split, the header
of a frame or chunk a prefix of one unit. `ByteStream` says what a handler may
rely on: each stream delivers the units written to it, in order, and shows its end
when all are delivered. `Pipeline` refines it (`BytesSpec`): `sent` is what the
handler has produced, `got` what the peer has received, `ended` whether it has seen
a last frame, a last chunk, or as much as the headers announced.

Left out: range, upload and cache filters, trailers, priorities, aborts of
streams in the middle of a response (those are in `Request`).

### Cgi (modules/cgiHandler.c, cmd.c, mprServiceSignals)

| Part of the module | Code |
|---|---|
| `cmd` | `MprCmd`: whether there is a `pid`, the open descriptors, their handlers and which of these are enabled, `eofCount`, `complete`, and whether the handler of SIGCHLD and the callback are set |
| `cgi`, `cgiq`, `writeq`, `stream` | `Cgi`, `cgi->writeq`, `stream->writeq`, the flags of the stream; `down` is the rest of the pipeline |
| `pc`, `sched` | the call under way: a callback, its `httpServiceNetQueues`, the wait in `mprStopCmd`; the queues to service |
| `StartCgi`, `Launch`, `BrowserData`, `BrowserEnd`, `BrowserShort`, `Close` | `startCgi`, `mprStartCmd`, `browserToCgiData`, `closeCgi` |
| `ServeCgi`, `ServeWriteq` | `browserToCgiService`, `cgiToBrowserService` |
| `QueueIOEvent`, `ServiceSignals` | the service thread: `serviceIO`, `mprServiceSignals` |
| `StdinEvent`, `OutputEvent`, `ChildDeath`, `Read...`, `AfterCallback` | `cgiCallback`, `readFromCgi`, `reapCmd` |
| `ReapAtReset`, `KillAtReset`, `GiveUp` | `mprStopCmd` from `resetCmd`: SIGTERM, SIGKILL, and no more waiting |
| `Script` | the program: it reads, writes, closes its pipes and exits at any time |

What a script writes to stderr is only logged, so only the end of that pipe is
modelled. The order in which two scheduled queues are serviced is left open.
Left out: nph scripts, the failures of `openCgi`, errors of pipes other than a
missing reader, SIGCHLD of other processes (`reapCmd` then does nothing),
`mprRunCmd` and `mprWaitForCmd`, other platforms. A close within a callback is
taken as one after it. What becomes of the queues after `closeCgi` is left to the pipeline.

## 4. What the runs check

`MC*.tla` only add symmetry sets and the values of constants. Deadlock is
checked but where the system really stops: a CGI request that is closed, and a
connection of `request` whose error document fails (section 7).

| Run | Instance | Shows |
|---|---|---|
| `es_live` | 2 dispatchers, 1 worker on 1 core, a posted and an I/O event | `EventsRun`: each queued event runs, is removed or loses its dispatcher; `NoForgottenDispatcher`, `NoStrandedPending`, `QueuedOnce` |
| `es_timer` | time 0..1, a continuous and a one-shot event, 2 workers on 1 core, a poster | `NoLostWakeup`, `NoOversleep`, `InDueOrder`, and `ExecutorSpec`: refinement of `SerialExecutor` |
| `es_owner` | an owner that starts, waits on and stops a dispatcher, against the service, a worker and a poster; an event that is due now or later | `Serialized`, `NoMissedSignal` |
| `es_stop` | an owner, a worker and a poster | a counterexample to `StopsRunning`, see section 7 |
| `fast_pool` | 2 streams, 2 application objects, at most 1 live one, 1 or 2 streams each, worn out after 2 requests | `SelectionsCounted`, `LimitsHold`, `ReapedIsTold`, `BlamedRightly`, `SentOnce`, `NoForeignAnswer`, `NoProcessLeaked` |
| `gc_heap` | 1 thread, 1 foreign thread, 2 blocks | `NoUseAfterFree`, `CompleteSwept`, `NoLostRequest` |
| `gc_live` | 2 threads that come and go | `MarkingExcludes`, `YieldReturns`, `CompleteReturns` |
| `request` | 2 requests of a connection, one after the other (HTTP/1) or at once (HTTP/2), with error documents; 3 or 1 faults | `ActiveExact`, `AnsweredFirst`, `AllVisited`, `HandlerClosed`, `OutputAwaited` |
| `request_live` | 1 stream, 3 or 2 faults, no error documents | `Served`, `TimeoutDestroys` |
| `request_errdoc` | HTTP/1 with error documents | a counterexample to `TimeoutDestroys`, see section 7 |
| `pipe` | a file or a written response of HTTP/1, two files of HTTP/2; units of 3 in packets, queues, windows and socket, a change of the window | `CountExact`, `WindowExact`, `BufferBound`, `NeverOverdrawn`, `BytesSpec`, `AllSent` |
| `cgi` | pipes and queues of one unit; bodies that exceed the pipe, are awaited, or of unknown length; responses that are shorter, longer or as long as declared, and a redirection | `ResponseWhole`, `NothingLeft`, `Finishes`, `InputEnds` |

Why the bounds are enough. Serialization and wakeup races are between two
threads over one dispatcher; a second dispatcher on one core brings in the
pending queue, and a second worker the choice among workers. An event may be
created, queued, taken, removed and put back, so one or two suffice for two
callers to meet. A clock of two values has events that are due before, now,
later, and not any more in the run. In the pool one live application with a second object covers the
exit of one while its successor starts, and two streams cover sharing and waiting;
`MaxRequests` 2 makes an application wear out while it is used. In the
collector one thread meets the collector at each pair of points; the second
covers a collection that one ends and the other makes fail. A request meets its
own error, that of its error document, and the loss of its client, which three
faults allow; the second request shows what the first one leaves behind. In the
pipeline a response is longer than packet, queue, window and socket, and two
streams share a window that is too small for both. A CGI body of two units is longer than its
pipe and its queue together with what is being written, and a response of two
fills the pipeline and the queue before it. Bounds that are
not in the code: `MaxTime`, `MaxPeriod` (the clock stays at its last value),
`MaxFaults`, `SettingsMax`, the lengths of bodies,
the numbers of objects, and the saturation of `nextID` at `MaxRequests`.

## 5. Fairness

`EventService!FairSpec` has weak fairness of what each thread's program does
next (`Program(t)`) and of the clock: the operating system schedules runnable
threads, and `epoll_wait` and timed waits end. There is no fairness of choices
of users: posting, removing, destroying, or how long a callback or
an owner holds its dispatcher; therefore `EventsRun` is checked without owners,
who may hold a dispatcher for ever. Locks are held within a step or released by
a step that is always enabled, so weak fairness suffices. In `Collector` the same holds of
`Program(t)`, of the collector and of its timeout; threads need not yield, so
liveness includes collections that are given up.

The fairness of `Pipeline`, `Request` and `Cgi` is weak fairness, where it is
written out as guards and actions only because TLC evaluates it faster so. The
thread of the dispatcher goes on while a call is under way, and runs events that
stay possible. A peer reads and gives back the windows of what it has read, programs
end their output, and a script reads what it is sent; nothing is assumed about
when a script exits, closes its pipes or writes, and nothing about the timers of
requests, so `Served` and `AllSent` do not rest on a timeout. A CGI request is closed
when it is finalized or has lost its client, which `Request` shows to happen.

## 6. What is proved

For all values of the constants that satisfy the modules' assumptions
(`ConstantsAssumption`, `CollectorAssumption`, `FastAssumption`, `CgiAssumption`: the
sorts are disjoint, sets of threads, dispatchers, streams and applications are
finite, limits are natural numbers, and sizes are positive).

`EventServiceProofs`: `IndInv` is inductive, with one lemma per action. It is
`TypeOK` and:
- `WorkSet`: a thread that works has a dispatcher or an event to work on;
- `JobHolders`, `ReservedOnce`: a job is a reserved dispatcher, held by one
  thread, and a reservation comes from a job or the service thread;
- `OwnerHolds`: who is inside a dispatcher's program owns it;
- `WaitingInv`: `waiting` is set just while the service sleeps or wakes;
- `WakeFlagBacked`, `NoLostWakeup`.
`Serialized` is not inductive: two threads may share a dispatcher unless each
owns it, which needs to know that a claim only takes unowned or properly
reserved ones, hence the reservations. Likewise `NoLostWakeup` needs
`WaitingInv`, since who makes a dispatcher ready decides by `waiting` whether to
wake, and `WakeFlagBacked`, since `wakeRequested` suppresses the write. The
theorems are `TypeCorrect`, `Ownership`, `Serialization`, `Reservation`,
`WakeFlag`, `WakeupSafety`.

`EventQueueProofs` builds on it. `QueueInv` says what the event queues hold, and is
inductive:
- `QueuesSorted`: a queue is in the order of due times;
- `Linked`, `NoTwice`, `NoneLoose`: the events on queues are the queued ones, each at
  one place. `QueuedOnce` is a count, which follows;
- `Posting`: an event that is about to be queued is on no queue, and only one thread
  has it: without it, an event could be inserted twice.
Every step puts one event on a queue, takes one off, empties a queue, or leaves the
queues alone (`QueueChange`), so there is one lemma per kind of change and not per
action; `InDueOrder` and `RemovedStaysRemoved` follow. `NoForgottenDispatcher`
goes by the places of a dispatcher. `NoStrandedPending` and `NoOversleep` share an
argument: only `Doze` puts the service to sleep, after a look at the queues, while
it sleeps a wake that is under way stays so (`WakeStays`), and whoever parks a
dispatcher, frees a worker or brings an earlier event sends one. `SignalInv` is the
like for an owner: from the time it announces that it waits until it wakes it is
flagged, and signalled if its dispatcher's first event is earlier than its deadline.
That no other owner clears flag or signal needs the ownership of `IndInv`. The theorems are
`QueuesRight`, `OnOneQueue`, `DueOrder`, `RemovedForGood`, `NoneForgotten`,
`NoneStranded`, `OnTime`, `OwnerSignalled`.

The last part of `EventQueueProofs` shows that the event service implements `SerialExecutor`. `RunInv` says what
the callbacks under way are about:
- `Engaged`: a thread has an event just while it is in its callback; the event is running or was
  removed meanwhile, so it is on no queue, and it was due when it was taken;
- `Alone`: no event is in two callbacks;
- the time that dispatching goes by, which is cached, is not ahead of the clock.
An event begins only on a dispatcher that runs nothing, which needs the ownership of `IndInv`:
whoever is in a callback owns its dispatcher, and so does the thread that takes the next event.
That it is the least due one needs `QueueInv`. Most steps change
nothing that the executor knows of (`Silent`) and leave the callbacks alone (`Steadfast`), and
share their lemmas; each of the others has a lemma that names the executor's step and
restores `RunInv`. The theorems are `CallbacksRight` and `ServiceImplements`. `RemovedForGood`
(`RemovedStaysRemoved`) is one of its consequences on which no run spends time of its own:
`SerialExecutor` has no step that queues or runs such an event again.

`CollectorProofs`: `IInv` is inductive. It adds to `TypeOK`
- where a thread is that counts as yielded, and where its yield returns to
  (`YieldPlaces`, `ReturnPlaces`, `WaitingPlaces`, `Listed`);
- that a thread which ends a sticky yield during the marking is on its way to yield
  again (`OnTheWayBack`), and the phases of the collector (`CollectorPhase`):
  with the above, `MarkingExcludes` follows;
- that a thread which yields refers to nothing (`SavedBeforeYield`), who holds
  the global lock (`LockPlaces`), and `HeapSafe`: from the end of the marking to
  the end of the sweep, what is in use is marked or eternal, the block under the
  sweep's eye is marked if it is in use, and a block is marked again before it is
  released. `NoUseAfterFree` follows.
`SweptInv` is inductive on top of it: what a complete collection is to free stays
garbage, is unmarked once the collection has begun, and has the sweep still before
it. `CompleteSwept` follows. Threads use no garbage and mark none, so one lemma
covers all their steps but the two of `mprGC` itself.
The theorems are `TypeCorrect`, `MarkExclusion`, `MemorySafety`, `RequestsHeard`,
`GarbageFreed`.

`RequestProofs`: `IInv` is inductive. It is `TypeOK` and
- `Counting`: `active` is the number of streams that are counted;
- `StreamOK(s)`: when a stream is counted, by its state;
- `CallOK(i)`: the calls on the stack fit the streams they are about. A request
  leaves the count only when `httpDestroyStream` or the state machine runs, perhaps
  much later on the stack; a stream that is between states has such a call pending
  (`Ending`, `Leaving`), and calls above it do not touch its count.
Most steps only push calls that are good anywhere and leave the states alone; one
lemma (`PlainKeeps`) covers them, and each of the others has its own. `CountExact`
is the theorem that the counter of active requests is exact.

`RequestVisitProofs` builds on it. `httpSetState` is entered again from its own callees,
so what a state's processing finds is not what it left. `VInv` pins it down and is inductive:
- `OneLoop`, `TurnOK`: a stream has at most one loop in progress, which is one call on
  the stack; a callee only raises its target. The call that goes on with the loop
  finds the stream in the state it is for, and goes one state further at most, or
  from PARSED to READY when the request was aborted;
- `PartOps`, `LowOps`: a handler is opened and started only below a loop in PARSED or
  READY, and a stream is destroyed only when no loop is in progress;
- `VisitOK(s)`: a handler that is open has a stream from PARSED to RUNNING, or one whose
  FINALIZED is about to be processed; a stream in COMPLETE has been reported or has a
  call under way that will report it; the states below its own have been visited.
Calls that are of no loop leave all this alone (`SteadyKeeps`, one lemma for them all), the
turns of a loop share another one (`TurnKeeps`), and what comes when no loop is in
progress a third (`BareKeeps`). `HandlerClosed` and `AllVisited` follow.

`OutputAwaited` has an invariant of its own over the same stack, `AwaitInv`. Output that waits has
a `Reason` to be seen to: an event that is armed, the end of the connection, or a call further down
the stack that computes the event mask after the call that queues output. Each step that
makes output wait (`AwaitStep`, `AwaitService`) has such a call below it, because only a timeout makes a stream work without
one. The theorems are `VisitInductive`, `HandlersClosed`, `StatesVisited`, `OutputIsAwaited`.

`RequestAnswerProofs` builds on both for HTTP/1, where a connection has one stream.
`AnsweredFirst` speaks of a connection at rest, but why a request has got to COMPLETE is known only
by the calls that took it there. Three invariants say it, each inductive given those before:
- `FirstInv`, of the stack: its calls are about the stream in use, those that are only made when
  the connection is lost are there only then (`Gone`), those that must be made at once are on top
  (`AtOnce`), and `Above` says which call may wait above which: a handler is not started above
  the routing that chooses it, and `httpServiceNet` is below all that it serves;
- `AnswerInv`, of a connection that is neither lost nor spent: each call on the stack has a reason
  (`Sound`). Output is finalized because the handler has acted or the request has failed
  (`Original`), the connector only when END was written (`Written`), and the state goes to
  FINALIZED or COMPLETE because the connector is final or an error document takes over (`Going`).
  A queued END has `httpServiceNet` below it (`Pumped`). The reasons must survive the restart of
  the request as that of its error document, which is why they are reasons and not states;
- `DoneInv`, of any connection that is not lost: a request that was reported done has been sent.
  It takes `AnswerInv` at the moment of the report, and no longer: a connection that is spent by
  then is closed in the same turn of the loop.
At rest nothing is on its way to lose the connection, `ReportOK` of `VInv` says that a COMPLETE request
was reported, and `AnsweredFirst` follows. The theorems are `FirstInductive` and `AnswersFirst`.

`FastPoolProofs`: `IInv` is inductive. It is the types, `SelectionsCounted`,
`LimitsHold`, `ReapedIsTold`, `BlamedRightly` and
- `Chosen`: a stream has an application just while it is between its selection and
  its release, so that the selections of an application are a set of streams, whose
  cardinality each step changes by one at most;
- `Listed`, `Alive`: what the state of an application says of the lists it is on and of
  its process. `Launch` reuses an object that is on no list, and `NoProcessLeaked`
  follows;
- `Registered`: a request exists just while it is registered;
- `LostBlamed`: a lost event is queued only for an application that is condemned,
  which it stays while the request holds it;
- `Given`: how often a request was sent, by its place and by whether it is sent
  again; `SentOnce` follows;
- `CleanPool`, `CleanSock`: no connection with an answer to come is pooled or taken.
The theorems are `SelectionCount`, `Limits`, `ReapTold`, `Blame`, `GivenOnce`,
`NoForeign`, `NoLeak` and `TypeCorrect`.

`CgiProofs`: `IInv` is inductive. It is the types, `ResponseWhole` and
- `Written`, `Passed`: the output pipe holds the last units that the script wrote, and
  what was passed on is what it wrote but for those: nothing is lost or overtaken
  between the script and the response;
- `Descriptors`: `eofCount` counts the outputs that have ended, and a complete command
  has seen both, whichever of them and of the exit was last;
- `Decided`: when the output has ended the response is finalized, with an error or
  without, so that `AfterCallback`, which finalizes too, cannot be the one that cuts it;
- `Processes`, `Before`, `After`: the command knows its process until it is reaped,
  nothing exists before the start, and what is left at each place of a destruction;
  `NothingLeft` follows;
- `EndLast`: the end of the body is queued once and last, so that the pipe of the
  script's input gets units of the body only; `Bounds`: no pipe is overfilled.
The theorems are `TypeCorrect`, `ResponseIsWhole`, `NothingIsLeft`.

Only model-checked: all liveness (fairness and `ENABLED` are beyond the
prover), and all of `Pipeline` (whose lengths are recursive).

## 7. Where the code and what it says differ

Shown by a run (`request_errdoc`): the comment in `netTimeout` says that closing the connection
will trigger an I/O event that destroys it. When an error document itself
fails, `errorRedirect` asks for the document again; `prepErrorDoc` finds that it
has done so and leaves the request in FINALIZED with all its output written. The
event mask of the connection is empty then, no event comes, and the connection,
the stream and their counts stay.

Shown by a run (`es_stop`): `mprStartDispatcher` puts the dispatcher on the run
queue and `mprStopDispatcher` asserts that it is there. But when an owner starts a dispatcher
just after a worker has released it and before that worker dequeues it, the
dequeue takes the owner's dispatcher off the run queue. A stop then fails its assertion,
or returns without releasing: nobody else can claim the dispatcher. What is queued
for it meanwhile puts it on the ready or the wait queue. There the service thread passes
it over without end, since it is owned; and it gives the owner no signal when it is
due later than `willAwake`, which is why `NoMissedSignal` speaks of the run queue.
No caller in the repository starts a dispatcher that workers also serve; the
interface allows it.

Met while modelling; the models do what the code does:
- Event service: `dispatchEvents` asserts that its dispatcher is on the run queue,
  which the same race takes it off. `mprDestroyDispatcher` is to remove a
  dispatcher from any queue, but one that is reserved for a worker stays on the
  run queue.
- FastCGI: a request whose answer was read completely, but is still being sent,
  is aborted when its application exits. One whose application closes the connection
  without an answer is neither retried nor failed until a write fails or the
  process exits, although the comment of `retryFastRequest` covers it.
- Pipeline: the fast path of `outgoingTail` may split a packet and leave the rest
  in a queue that is neither scheduled nor suspended; it goes out with the next
  service, not at once. `freeNetPackets` takes the END packet of an HTTP/2 stream
  before its last prefix is written, so the connector is finalized a little early.
- Streams: an HTTP/2 stream that is aborted outside the handling of its own frame is reset,
  but neither completes nor is destroyed before its connection; its timeout has no
  effect any more. `http.h` says a request always visits all states; closed HTTP/2
  streams do not. A stream timeout while the body has not arrived leaves the
  408 response in the queue until another event. An error document is never served
  over HTTP/2. A GET of a file with a body that is too long and an error document
  sends two responses. `httpNetError` sets `eof` before it tests it, so GOAWAY is never sent.
- CGI: `cgiCallback` asserts that a suspended queue means a blocked socket, but
  a full HTTP/2 window or a full queue of the connection suspends it too. The
  answer to a script that exits without reading its body may be replaced by a 502,
  depending on which pipe is served first. When a script closes its input with
  the pipe full, epoll reports an error only, which `serviceIO` takes for readable and
  does not deliver; the service thread is woken again and again until the command completes.

## 8. What is not modelled, and why

Components with status `not_modelled` in `PROJECT.json` are either planned
(section 2) or have no protocol of their own: text and data structures, files,
TLS (external libraries), platform layers, configuration parsing, test programs,
the Windows monitor. What is left out of a modelled part is listed with the
module in section 3. Within the modelled parts, data is abstracted to what the
properties tell apart; memory exhaustion, the debug mode's long timeouts and the
shutdown of the runtime are not modelled. Most of the repository's lines are
parsing, formatting, data structures and adapters to libraries and platforms.
