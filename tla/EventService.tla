---------------------------- MODULE EventService ----------------------------
(***************************************************************************)
(* The MPR event service: dispatchers (serialized event queues), the five  *)
(* queues the service keeps them on, the one thread that runs              *)
(* mprServiceEvents, the worker threads that run the events, and the       *)
(* eventfd protocol that wakes the service thread from epoll_wait.         *)
(* Sources: the dispatcher.c, event.c, epoll.c and thread.c parts of       *)
(* mprLib.c.                                                               *)
(*                                                                         *)
(* Every thread has a program counter.  A step is what the code does        *)
(* between two points where another thread can interleave: one critical     *)
(* section of the service lock, or one unlocked access to shared state.     *)
(***************************************************************************)
EXTENDS Integers, Sequences, FiniteSets, SequencesExt

CONSTANTS
  Dispatchers,      \* the dispatchers that exist
  Immediate,        \* those flagged MPR_DISPATCHER_IMMEDIATE
  Main,             \* MPR->dispatcher: never destroyed, adopts orphaned events
  Events,           \* the events that can be created in a behaviour
  Continuous,       \* those created with MPR_EVENT_CONTINUOUS
  IOEvents,         \* those the service thread queues from serviceIO
  Workers,          \* the worker threads that may be created (ws->maxThreads)
  Posters,          \* foreign threads that create, remove and destroy
  Owners,           \* threads that start a dispatcher and wait on it
  Service,          \* the service thread
  Cores,            \* stats.cpuCores
  MaxPeriod,        \* bound on the period of an event, in ticks
  MaxTime,          \* bound on the clock; later times collapse on to it
  None, Reserved    \* owner == 0, and RESERVED_DISPATCHER

Threads == {Service} \cup Workers \cup Posters \cup Owners
Servers == {Service} \cup Workers      \* those that run dispatchEventsHelper
Runners == Servers \cup Owners         \* those that run dispatchEvents

ASSUME ConstantsAssumption ==
  /\ Immediate \subseteq Dispatchers /\ Main \in Dispatchers
  /\ Continuous \subseteq Events /\ IOEvents \subseteq Events
  /\ Cores \in Nat \ {0} /\ MaxPeriod \in Nat /\ MaxTime \in Nat
  /\ IsFiniteSet(Workers) /\ IsFiniteSet(Dispatchers)
  /\ Service \notin Workers \cup Posters \cup Owners
  /\ Workers \cap Posters = {} /\ Workers \cap Owners = {}
  /\ Posters \cap Owners = {}
  /\ None \notin Threads \cup Dispatchers \cup Events \cup {Reserved}
  /\ Reserved \notin Threads

VARIABLES
  clock,          \* what mprGetTicks returns
  now,            \* es->now, the cached time
  willAwake,      \* es->willAwake
  waiting,        \* es->waiting
  counted,        \* es->eventCount differs from the service's snapshot
  lock,           \* holder of es->mutex between steps
  place,          \* dispatcher->parent: the queue a dispatcher is on
  rank,           \* recency of queueing; the head of a queue has the least
  owner,          \* dispatcher->owner
  destroyed,      \* dispatchers flagged MPR_DISPATCHER_DESTROYED
  waitFlag,       \* dispatchers flagged MPR_DISPATCHER_WAITING
  dcond,          \* dispatchers whose cond is triggered
  eventQ,         \* dispatcher->eventQ
  due,            \* event->due
  estate,         \* life of an event
  wakeRequested,  \* ws->wakeRequested
  breakFd,        \* the eventfd is readable
  sleepUntil,     \* when epoll_wait times out
  sawBreak,       \* the eventfd was among the events epoll_wait returned
  deadline,       \* when the mprWaitForCond of an owner times out
  pc,             \* program counter of each thread
  after,          \* where a thread continues after mprWakeEventService
  back,           \* where a thread continues after dispatchEvents
  ran,            \* dispatchEvents has run an event (its result is not 0)
  disp,           \* the dispatcher a thread works on
  cur,            \* the event a thread works on
  job,            \* the reserved dispatcher a thread was handed
  made, target,   \* the event a thread creates, and the dispatcher it is for
  idle,           \* ws->idleThreads
  busy,           \* ws->busyThreads
  napping,        \* workers inside mprYield(MPR_YIELD_STICKY) of a callback
  idleCond        \* workers whose idleCond is triggered

esVars   == <<now, willAwake, waiting, counted>>
dpVars   == <<place, rank, owner, destroyed, waitFlag, dcond>>
evVars   == <<eventQ, due, estate>>
ioVars   == <<wakeRequested, breakFd, sleepUntil, sawBreak, deadline>>
makeVars == <<made, target>>
thVars   == <<pc, after, back, ran, disp, cur, job, makeVars>>
poolVars == <<idle, busy, napping, idleCond>>
vars == <<clock, lock, esVars, dpVars, evVars, ioVars, thVars, poolVars>>

Forever == MaxTime + MaxPeriod + 2      \* MPR_MAX_TIMEOUT
Places == {"run", "ready", "wait", "idle", "pending", "none"}
EventStates == {"new", "made", "queued", "running", "over", "removed", "dropped"}

-----------------------------------------------------------------------------
(* Helpers *)

Lesser(x, y) == IF x <= y THEN x ELSE y

On(q) == {d \in Dispatchers : place[d] = q}

\* The first of the dispatchers S of a queue: queueDispatcher links right behind
\* the queue's head, so it is the one queued last.
FirstOf(S) == {d \in S : \A x \in S : rank[d] <= rank[x]}

\* rank after d is queued again: d comes first, the others keep their order.
MoveToFront(d) ==
  [x \in Dispatchers |-> IF x = d THEN 1
                         ELSE IF rank[x] < rank[d] THEN rank[x] + 1 ELSE rank[x]]

QueueDispatcher(d, q) ==
  /\ place' = [place EXCEPT ![d] = q]
  /\ rank' = MoveToFront(d)

\* Faulty: in front of the events that are due at the same time.
InsertEvent_Before(q, e, when) ==
  LET n == Cardinality({i \in DOMAIN q : due[q[i]] < when})
  IN  SubSeq(q, 1, n) \o <<e>> \o SubSeq(q, n + 1, Len(q))

\* mprQueueEvent inserts behind the last event that is not due later.
InsertEvent(q, e, when) ==
  LET n == Cardinality({i \in DOMAIN q : due[q[i]] <= when})
  IN  SubSeq(q, 1, n) \o <<e>> \o SubSeq(q, n + 1, Len(q))

AvailableWorkers ==
  LET spareThreads == Cardinality(Workers) - Cardinality(busy) - Cardinality(idle)
      spareCores == Cores - (Cardinality(busy) - Cardinality(napping))
  IN  IF spareCores <= 0 THEN 0
      ELSE Cardinality(idle) + Lesser(spareThreads, spareCores)

Free == lock = None

Goto(t, label) == pc' = [pc EXCEPT ![t] = label]

\* Call mprWakeEventService and continue at label; keep tells whether es->mutex
\* stays locked during the call (the callers that hold it around the call).
CallWake(t, label, keep) ==
  /\ pc' = [pc EXCEPT ![t] = "wake"]
  /\ after' = [after EXCEPT ![t] = label]
  /\ lock' = IF keep THEN t ELSE lock

\* Faulty: no wake for an event that is due later.
Schedule_Ready(t, d, q, when, label, keep) ==
  LET to == IF place[d] = "run" THEN "run"
            ELSE IF q = <<>> THEN "idle"
            ELSE IF when[q[1]] > clock THEN "wait" ELSE "ready"
  IN  /\ now' = clock
      /\ IF to = "run" THEN UNCHANGED <<place, rank>> ELSE QueueDispatcher(d, to)
      /\ UNCHANGED dcond
      /\ IF to # "wait" /\ waiting THEN CallWake(t, label, keep)
         ELSE Goto(t, label) /\ UNCHANGED <<after, lock>>

\* mprScheduleDispatcher(d) by thread t, which then continues at label.
\* q and when are the event queue and due times after the caller's changes.
Schedule(t, d, q, when, label, keep) ==
  LET to == IF place[d] = "run" THEN "run"
            ELSE IF q = <<>> THEN "idle"
            ELSE IF when[q[1]] > clock THEN "wait" ELSE "ready"
      mustWake == IF to = "wait" THEN when[q[1]] < willAwake ELSE waiting
      mustSignal == d \in waitFlag /\ (to = "wait" => when[q[1]] < willAwake)
  IN  /\ now' = clock
      /\ IF to = "run" THEN UNCHANGED <<place, rank>> ELSE QueueDispatcher(d, to)
      /\ dcond' = IF mustSignal THEN dcond \cup {d} ELSE dcond
      /\ IF mustWake THEN CallWake(t, label, keep)
         ELSE Goto(t, label) /\ UNCHANGED <<after, lock>>

-----------------------------------------------------------------------------
Init ==
  /\ clock = 0 /\ lock = None
  /\ now = 0 /\ willAwake = 0 /\ waiting = FALSE /\ counted = FALSE
  /\ place = [d \in Dispatchers |-> "idle"]
  /\ rank \in [Dispatchers -> 1 .. Cardinality(Dispatchers)]
  /\ \A x, y \in Dispatchers : x # y => rank[x] # rank[y]
  /\ owner = [d \in Dispatchers |-> None]
  /\ destroyed = {} /\ waitFlag = {} /\ dcond = {}
  /\ eventQ = [d \in Dispatchers |-> <<>>]
  /\ due = [e \in Events |-> 0]
  /\ estate = [e \in Events |-> "new"]
  /\ wakeRequested = FALSE /\ breakFd = FALSE
  /\ sleepUntil = 0 /\ sawBreak = FALSE
  /\ deadline = [o \in Owners |-> 0]
  /\ pc = [t \in Threads |-> IF t = Service THEN "scan"
                             ELSE IF t \in Workers THEN "unborn" ELSE "free"]
  /\ after = [t \in Threads |-> IF t \in Servers THEN "return" ELSE "free"]
  /\ back = [t \in Threads |-> IF t \in Owners THEN "flag" ELSE "release"]
  /\ ran = [t \in Threads |-> FALSE]
  /\ disp = [t \in Threads |-> None]
  /\ cur = [t \in Threads |-> None]
  /\ job = [t \in Threads |-> None]
  /\ made = [t \in Threads |-> None]
  /\ target = [t \in Threads |-> None]
  /\ idle = {} /\ busy = {} /\ napping = {} /\ idleCond = {}

-----------------------------------------------------------------------------
(* mprServiceEvents, run by the service thread *)

\* getNextReadyDispatcher looks at the pendingQ, the readyQ, and for what is due
\* on the waitQ, in that order.
Candidates ==
  IF On("pending") # {} /\ AvailableWorkers > 0 THEN FirstOf(On("pending"))
  ELSE IF On("ready") # {} THEN FirstOf(On("ready"))
  ELSE FirstOf({d \in On("wait") : eventQ[d] = <<>> \/ due[eventQ[d][1]] <= now})

\* Faulty: claims whoever owns the dispatcher.
ScanReady_Unchecked ==
  /\ pc[Service] = "scan" /\ Free
  /\ \E d \in Candidates :
     /\ IF place[d] = "wait" THEN QueueDispatcher(d, "ready") ELSE UNCHANGED <<place, rank>>
     /\ owner' = [owner EXCEPT ![d] = Reserved]
     /\ disp' = [disp EXCEPT ![Service] = d]
     /\ job' = [job EXCEPT ![Service] = d]
  /\ Goto(Service, "enlist")
  /\ UNCHANGED <<clock, lock, esVars, destroyed, waitFlag, dcond, evVars, ioVars,
                 after, back, ran, cur, makeVars, poolVars>>

\* claimDispatcher for the candidate; one from the waitQ is on the readyQ first
ScanReady ==
  /\ pc[Service] = "scan" /\ Free
  /\ \E d \in Candidates :
     /\ IF place[d] = "wait" THEN QueueDispatcher(d, "ready") ELSE UNCHANGED <<place, rank>>
     /\ IF d \in destroyed \/ owner[d] # None
        THEN Goto(Service, "count") /\ UNCHANGED <<owner, disp, job>>
        ELSE /\ owner' = [owner EXCEPT ![d] = Reserved]
             /\ disp' = [disp EXCEPT ![Service] = d]
             /\ job' = [job EXCEPT ![Service] = d]
             /\ Goto(Service, "enlist")
  /\ UNCHANGED <<clock, lock, esVars, destroyed, waitFlag, dcond, evVars, ioVars,
                 after, back, ran, cur, makeVars, poolVars>>

ScanEmpty ==
  /\ pc[Service] = "scan" /\ Free
  /\ Candidates = {}
  /\ Goto(Service, "count")
  /\ UNCHANGED <<clock, lock, esVars, dpVars, evVars, ioVars, after, back, ran, disp, cur,
                 job, makeVars, poolVars>>

\* queueDispatcher(es->runQ, dp); an immediate dispatcher is run inline.
Enlist ==
  /\ pc[Service] = "enlist" /\ Free
  /\ QueueDispatcher(disp[Service], "run")
  /\ Goto(Service, IF disp[Service] \in Immediate THEN "claim" ELSE "start")
  /\ UNCHANGED <<clock, lock, esVars, owner, destroyed, waitFlag, dcond, evVars,
                 ioVars, after, back, ran, disp, cur, job, makeVars, poolVars>>

\* Hand the service's reserved dispatcher to worker w.
Handover(w) ==
  /\ job' = [job EXCEPT ![w] = disp[Service], ![Service] = None]
  /\ busy' = busy \cup {w}

\* mprStartWorker finds an idle worker and wakes it
StartIdleWorker ==
  /\ pc[Service] = "start"
  /\ \E w \in idle :
       /\ Handover(w)
       /\ idle' = idle \ {w}
       /\ idleCond' = idleCond \cup {w}
  /\ Goto(Service, "scan")
  /\ UNCHANGED <<clock, lock, esVars, dpVars, evVars, ioVars, after, back, ran,
                 disp, cur, napping, makeVars>>

\* mprStartWorker creates a thread
StartNewWorker ==
  /\ pc[Service] = "start" /\ idle = {} /\ AvailableWorkers # 0
  /\ \E w \in Workers :
       /\ pc[w] = "unborn"
       /\ Handover(w)
       /\ pc' = [pc EXCEPT ![w] = "claim", ![Service] = "scan"]
  /\ UNCHANGED <<clock, lock, esVars, dpVars, evVars, ioVars, after, back, ran,
                 disp, cur, idle, napping, idleCond, makeVars>>

\* mprStartWorker fails (MPR_ERR_BUSY): releaseDispatcher(dp)
NoWorker ==
  /\ pc[Service] = "start" /\ idle = {}
  /\ AvailableWorkers = 0 \/ \A w \in Workers : pc[w] # "unborn"
  /\ owner' = [owner EXCEPT ![disp[Service]] = None]
  /\ job' = [job EXCEPT ![Service] = None]
  /\ Goto(Service, "park")
  /\ UNCHANGED <<clock, lock, esVars, place, rank, destroyed, waitFlag, dcond, evVars,
                 ioVars, after, back, ran, disp, cur, makeVars, poolVars>>

\* queueDispatcher(es->pendingQ, dp) and leave the scan
Park ==
  /\ pc[Service] = "park" /\ Free
  /\ QueueDispatcher(disp[Service], "pending")
  /\ Goto(Service, "count")
  /\ UNCHANGED <<clock, lock, esVars, owner, destroyed, waitFlag, dcond, evVars,
                 ioVars, after, back, ran, disp, cur, job, makeVars, poolVars>>

\* if (es->eventCount == eventCount): scan again when events were counted
CheckCount ==
  /\ pc[Service] = "count"
  /\ Goto(Service, IF counted THEN "tick" ELSE "doze")
  /\ UNCHANGED <<clock, lock, esVars, dpVars, evVars, ioVars, after, back, ran,
                 disp, cur, job, makeVars, poolVars>>

\* Faulty: does not look at the readyQ again.
IdleTicks_Waiting ==
  LET left == {Forever} \cup
               {IF due[eventQ[d][1]] <= now THEN 0 ELSE due[eventQ[d][1]] - now :
                  d \in {x \in On("wait") : eventQ[x] # <<>>}}
  IN  {delay \in left : \A x \in left : delay <= x}

\* getIdleTicks: zero with a ready dispatcher, else the time to the first event
IdleTicks ==
  IF On("ready") # {} THEN {0}
  ELSE LET left == {Forever} \cup
                   {IF due[eventQ[d][1]] <= now THEN 0 ELSE due[eventQ[d][1]] - now :
                      d \in {x \in On("wait") : eventQ[x] # <<>>}}
       IN  {delay \in left : \A x \in left : delay <= x}

\* The critical section before mprWaitForIO.  A time beyond MaxTime never comes.
Doze ==
  /\ pc[Service] = "doze" /\ Free
  /\ \E delay \in IdleTicks :
       /\ willAwake' = Lesser(now + delay, Forever)
       /\ sleepUntil' = IF On("pending") # {} /\ AvailableWorkers # 0 THEN clock
                        ELSE IF now + delay > MaxTime THEN Forever
                        ELSE Lesser(clock + delay, MaxTime)
  /\ waiting' = TRUE
  /\ Goto(Service, "sleep")
  /\ UNCHANGED <<clock, lock, now, counted, dpVars, evVars, wakeRequested, breakFd,
                 sawBreak, deadline, after, back, ran, disp, cur, job, makeVars, poolVars>>

\* epoll_wait returns: eventfd, timeout, other descriptors or EINTR
EpollReturns ==
  /\ sawBreak' = breakFd
  /\ Goto(Service, "awake")
  /\ UNCHANGED <<clock, lock, esVars, dpVars, evVars, wakeRequested, breakFd,
                 sleepUntil, deadline, after, back, ran, disp, cur, job, makeVars, poolVars>>

Wakes     == pc[Service] = "sleep" /\ (breakFd \/ clock >= sleepUntil) /\ EpollReturns
OtherIO   == pc[Service] = "sleep" /\ EpollReturns

\* mprClearWaiting
ClearWaiting ==
  /\ pc[Service] = "awake"
  /\ waiting' = FALSE
  /\ Goto(Service, IF sawBreak THEN "drain" ELSE "io")
  /\ UNCHANGED <<clock, lock, now, willAwake, counted, dpVars, evVars, ioVars, after,
                 back, ran, disp, cur, job, makeVars, poolVars>>

\* serviceIO reads the eventfd
Drain ==
  /\ pc[Service] = "drain"
  /\ breakFd' = FALSE
  /\ Goto(Service, "io")
  /\ UNCHANGED <<clock, lock, esVars, dpVars, evVars, wakeRequested, sleepUntil,
                 sawBreak, deadline, after, back, ran, disp, cur, job, makeVars, poolVars>>

\* ws->wakeRequested = 0 at the end of mprWaitForIO
ResetWake ==
  /\ pc[Service] = "io"
  /\ wakeRequested' = FALSE
  /\ Goto(Service, "tick")
  /\ UNCHANGED <<clock, lock, esVars, dpVars, evVars, breakFd, sleepUntil, sawBreak, deadline,
                 after, back, ran, disp, cur, job, makeVars, poolVars>>

\* es->now = mprGetTicks(), and the snapshot of eventCount for the next round
Refresh ==
  /\ pc[Service] = "tick"
  /\ now' = clock /\ counted' = FALSE
  /\ Goto(Service, "scan")
  /\ UNCHANGED <<clock, lock, willAwake, waiting, dpVars, evVars, ioVars, after, back,
                 ran, disp, cur, job, makeVars, poolVars>>

-----------------------------------------------------------------------------
(* mprWakeEventService and mprWakeNotifier, called by any thread *)

\* The call returns: release es->mutex when the caller's step held it.
WakeDone(t) ==
  /\ Goto(t, after[t])
  /\ lock' = IF lock = t THEN None ELSE lock

WakeUnchanged == UNCHANGED <<clock, esVars, dpVars, evVars, sleepUntil, sawBreak, deadline, after,
                             back, ran, disp, cur, job, makeVars, poolVars>>

TestWaiting(t) ==
  /\ pc[t] = "wake"
  /\ IF waiting THEN Goto(t, "test") /\ UNCHANGED lock ELSE WakeDone(t)
  /\ WakeUnchanged /\ UNCHANGED <<wakeRequested, breakFd>>

TestRequested(t) ==
  /\ pc[t] = "test"
  /\ IF wakeRequested THEN WakeDone(t) ELSE Goto(t, "set") /\ UNCHANGED lock
  /\ WakeUnchanged /\ UNCHANGED <<wakeRequested, breakFd>>

SetRequested(t) ==
  /\ pc[t] = "set"
  /\ wakeRequested' = TRUE
  /\ Goto(t, "write")
  /\ WakeUnchanged /\ UNCHANGED <<breakFd, lock>>

WriteBreak(t) ==
  /\ pc[t] = "write"
  /\ breakFd' = TRUE
  /\ WakeDone(t)
  /\ WakeUnchanged /\ UNCHANGED wakeRequested

WakeStep(t) == TestWaiting(t) \/ TestRequested(t) \/ SetRequested(t) \/ WriteBreak(t)

-----------------------------------------------------------------------------
(* dispatchEventsHelper and dispatchEvents *)

\* reclaimDispatcher; a dispatcher destroyed since the claim is abandoned
Reclaim(t) ==
  /\ pc[t] = "claim" /\ Free
  /\ disp' = [disp EXCEPT ![t] = job[t]]
  /\ job' = [job EXCEPT ![t] = None]
  /\ IF job[t] \in destroyed \/ owner[job[t]] # Reserved
     THEN Goto(t, "return") /\ UNCHANGED <<owner, back>>
     ELSE /\ owner' = [owner EXCEPT ![job[t]] = t]
          /\ back' = [back EXCEPT ![t] = "release"]
          /\ Goto(t, "next")
  /\ UNCHANGED <<clock, lock, esVars, place, rank, destroyed, waitFlag, dcond, evVars,
                 ioVars, after, ran, cur, makeVars, poolVars>>

\* Faulty: the event stays on the queue.
NextEvent_Kept(t) ==
  /\ pc[t] = "next" /\ Free
  /\ LET d == disp[t] IN
     IF eventQ[d] # <<>> /\ due[eventQ[d][1]] <= now
     THEN /\ cur' = [cur EXCEPT ![t] = Head(eventQ[d])]
          /\ estate' = [estate EXCEPT ![Head(eventQ[d])] = "running"]
          /\ ran' = [ran EXCEPT ![t] = TRUE]
          /\ Goto(t, "call")
     ELSE Goto(t, back[t]) /\ UNCHANGED <<cur, estate, ran>>
  /\ UNCHANGED <<clock, lock, esVars, dpVars, eventQ, due, ioVars, after, back, disp, job,
                 makeVars, poolVars>>

\* mprGetNextEvent: the first event, once it is due by the cached time
NextEvent(t) ==
  /\ pc[t] = "next" /\ Free
  /\ LET d == disp[t] IN
     IF eventQ[d] # <<>> /\ due[eventQ[d][1]] <= now
     THEN /\ eventQ' = [eventQ EXCEPT ![d] = Tail(@)]
          /\ cur' = [cur EXCEPT ![t] = Head(eventQ[d])]
          /\ estate' = [estate EXCEPT ![Head(eventQ[d])] = "running"]
          /\ ran' = [ran EXCEPT ![t] = TRUE]
          /\ Goto(t, "call")
     ELSE Goto(t, back[t]) /\ UNCHANGED <<eventQ, cur, estate, ran>>
  /\ UNCHANGED <<clock, lock, esVars, dpVars, due, ioVars, after, back, disp, job,
                 makeVars, poolVars>>

\* The callback returns
CallReturns(t) ==
  /\ pc[t] = "call"
  /\ Goto(t, "done")
  /\ UNCHANGED <<clock, lock, esVars, dpVars, evVars, ioVars, after, back, ran, disp,
                 cur, job, makeVars, poolVars>>

\* The callback blocks in mprYield(MPR_YIELD_STICKY), once; a worker that
\* yields frees its core, so it wakes a service that has pending dispatchers.
CallYields(w) ==
  /\ pc[w] = "call"
  /\ napping' = napping \cup {w}
  /\ after' = [after EXCEPT ![w] = "nap"]
  /\ Goto(w, "offer")
  /\ UNCHANGED <<clock, lock, esVars, dpVars, evVars, ioVars, back, ran, disp, cur, job,
                 idle, busy, idleCond, makeVars>>

\* mprResetYield, and the callback goes on to its end
NapEnds(w) ==
  /\ pc[w] = "nap"
  /\ napping' = napping \ {w}
  /\ Goto(w, "done")
  /\ UNCHANGED <<clock, lock, esVars, dpVars, evVars, ioVars, after, back, ran, disp,
                 cur, job, idle, busy, idleCond, makeVars>>

\* Faulty: a continuous event is queued again although it was removed meanwhile.
CallDone_Removed(t) ==
  /\ pc[t] = "done" /\ Free
  /\ LET d == disp[t]
         e == cur[t]
         when == [due EXCEPT ![e] = now + 1]
         q == InsertEvent(eventQ[d], e, when[e])
     IN
     IF d \in destroyed \/ e \notin Continuous
     THEN /\ estate' = [estate EXCEPT ![e] = IF @ = "running" THEN "over" ELSE @]
          /\ Goto(t, "next") /\ counted' = TRUE
          /\ UNCHANGED <<now, place, rank, dcond, eventQ, due, after, lock>>
     ELSE /\ counted' = TRUE /\ due' = when
          /\ eventQ' = [eventQ EXCEPT ![d] = q]
          /\ estate' = [estate EXCEPT ![e] = "queued"]
          /\ Schedule(t, d, q, when, "next", TRUE)
  /\ cur' = [cur EXCEPT ![t] = None]
  /\ UNCHANGED <<clock, willAwake, waiting, owner, destroyed, waitFlag, ioVars, back,
                 ran, disp, job, makeVars, poolVars>>

\* After the callback: stop if it destroyed the dispatcher, queue a continuous
\* event again (mprQueueEvent), and count the event.
CallDone(t) ==
  /\ pc[t] = "done" /\ Free
  /\ LET d == disp[t]
         e == cur[t]
         again == e \in Continuous /\ estate[e] = "running"
         when == [due EXCEPT ![e] = now + 1]
         q == InsertEvent(eventQ[d], e, when[e])
     IN
     IF d \in destroyed
     THEN /\ estate' = [estate EXCEPT ![e] = IF @ = "running" THEN "over" ELSE @]
          /\ Goto(t, back[t])
          /\ UNCHANGED <<counted, now, place, rank, dcond, eventQ, due, after, lock>>
     ELSE /\ counted' = TRUE
          /\ IF again
             THEN /\ due' = when
                  /\ eventQ' = [eventQ EXCEPT ![d] = q]
                  /\ estate' = [estate EXCEPT ![e] = "queued"]
                  /\ Schedule(t, d, q, when, "next", TRUE)
             ELSE /\ estate' = [estate EXCEPT ![e] = IF @ = "running" THEN "over" ELSE @]
                  /\ Goto(t, "next")
                  /\ UNCHANGED <<now, place, rank, dcond, eventQ, due, after, lock>>
  /\ cur' = [cur EXCEPT ![t] = None]
  /\ UNCHANGED <<clock, willAwake, waiting, owner, destroyed, waitFlag, ioVars, back,
                 ran, disp, job, makeVars, poolVars>>

\* releaseDispatcher, without the lock
Release(t) ==
  /\ pc[t] = "release"
  /\ owner' = [owner EXCEPT ![disp[t]] = None]
  /\ Goto(t, "unlink")
  /\ UNCHANGED <<clock, lock, esVars, place, rank, destroyed, waitFlag, dcond, evVars,
                 ioVars, after, back, ran, disp, cur, job, makeVars, poolVars>>

\* dequeueDispatcher
Unlink(t) ==
  /\ pc[t] = "unlink" /\ Free
  /\ place' = [place EXCEPT ![disp[t]] = "none"]
  /\ Goto(t, "resched")
  /\ UNCHANGED <<clock, lock, esVars, rank, owner, destroyed, waitFlag, dcond, evVars,
                 ioVars, after, back, ran, disp, cur, job, makeVars, poolVars>>

\* Faulty: does not look for events queued since mprGetNextEvent found none.
Resched_Never(t) ==
  /\ pc[t] = "resched" /\ Free
  /\ Goto(t, "return")
  /\ UNCHANGED <<clock, lock, esVars, dpVars, evVars, ioVars, after, back, ran, disp, cur,
                 job, makeVars, poolVars>>

\* mprScheduleDispatcher unless destroyed; the wake is sent unlocked
Resched(t) ==
  /\ pc[t] = "resched" /\ Free
  /\ IF disp[t] \in destroyed
     THEN Goto(t, "return") /\ UNCHANGED <<now, place, rank, dcond, after, lock>>
     ELSE Schedule(t, disp[t], eventQ[disp[t]], due, "return", FALSE)
  /\ UNCHANGED <<clock, willAwake, waiting, counted, owner, destroyed, waitFlag, evVars,
                 ioVars, back, ran, disp, cur, job, makeVars, poolVars>>

\* The service thread ran the helper inline and scans on
HelperReturns ==
  /\ pc[Service] = "return"
  /\ Goto(Service, "scan")
  /\ UNCHANGED <<clock, lock, esVars, dpVars, evVars, ioVars, after, back, ran, disp,
                 cur, job, makeVars, poolVars>>

\* Faulty: does not offer itself to a pending dispatcher.
BecomeIdle_Quiet(w) ==
  /\ pc[w] = "return"
  /\ idle' = idle \cup {w} /\ busy' = busy \ {w}
  /\ Goto(w, "rest")
  /\ UNCHANGED <<clock, lock, esVars, dpVars, evVars, ioVars, after, back, ran, disp, cur,
                 job, napping, idleCond, makeVars>>

\* workerMain: changeState(worker, MPR_WORKER_IDLE)
BecomeIdle(w) ==
  /\ pc[w] = "return"
  /\ idle' = idle \cup {w} /\ busy' = busy \ {w}
  /\ after' = [after EXCEPT ![w] = "rest"]
  /\ Goto(w, "offer")
  /\ UNCHANGED <<clock, lock, esVars, dpVars, evVars, ioVars, back, ran, disp, cur, job,
                 napping, idleCond, makeVars>>

\* mprWakePendingDispatchers
Offer(w) ==
  /\ pc[w] = "offer" /\ Free
  /\ Goto(w, IF On("pending") # {} THEN "wake" ELSE after[w])
  /\ UNCHANGED <<clock, lock, esVars, dpVars, evVars, ioVars, after, back, ran, disp,
                 cur, job, makeVars, poolVars>>

\* mprWaitForCond(worker->idleCond, -1)
Rest(w) ==
  /\ pc[w] = "rest" /\ w \in idleCond
  /\ idleCond' = idleCond \ {w}
  /\ Goto(w, "claim")
  /\ UNCHANGED <<clock, lock, esVars, dpVars, evVars, ioVars, after, back, ran, disp,
                 cur, job, idle, busy, napping, makeVars>>

-----------------------------------------------------------------------------
(* Creating, removing and destroying, by posters and by callbacks *)

MayCreate(t) == (t \in Posters /\ pc[t] = "free") \/ (t \in Runners /\ pc[t] = "call")
Resume(t) == IF t \in Posters THEN "free" ELSE "done"

\* createEvent: an event for a destroyed dispatcher goes to MPR->dispatcher
CreateEvent(t) ==
  /\ MayCreate(t)
  /\ \E e \in Events \ IOEvents, d \in Dispatchers, period \in 0 .. MaxPeriod :
       /\ estate[e] = "new"
       /\ estate' = [estate EXCEPT ![e] = "made"]
       /\ due' = [due EXCEPT ![e] = clock + period]
       /\ made' = [made EXCEPT ![t] = e]
       /\ target' = [target EXCEPT ![t] = IF d \in destroyed THEN Main ELSE d]
  /\ Goto(t, "post")
  /\ UNCHANGED <<clock, lock, esVars, dpVars, eventQ, ioVars, after, back, ran, disp,
                 cur, job, poolVars>>

\* mprQueueEvent(d, e) by t: insert, count, schedule, and wake while locked; a
\* destroyed dispatcher drops the event
Queue(t, d, e, when, label) ==
  IF d \in destroyed
  THEN /\ estate' = [estate EXCEPT ![e] = "dropped"]
       /\ Goto(t, label)
       /\ UNCHANGED <<now, counted, place, rank, dcond, eventQ, after, lock>>
  ELSE LET q == InsertEvent(eventQ[d], e, when[e]) IN
       /\ eventQ' = [eventQ EXCEPT ![d] = q]
       /\ estate' = [estate EXCEPT ![e] = "queued"]
       /\ counted' = TRUE
       /\ Schedule(t, d, q, when, label, TRUE)

PostEvent(t) ==
  /\ pc[t] = "post" /\ Free
  /\ Queue(t, target[t], made[t], due, Resume(t))
  /\ made' = [made EXCEPT ![t] = None]
  /\ target' = [target EXCEPT ![t] = None]
  /\ UNCHANGED <<clock, willAwake, waiting, owner, destroyed, waitFlag, due, ioVars,
                 back, ran, disp, cur, job, poolVars>>

\* serviceIO: a descriptor is ready, mprQueueIOEvent queues an event at once
QueueIOEvent ==
  /\ pc[Service] = "io" /\ Free
  /\ \E e \in IOEvents, d \in Dispatchers :
       /\ estate[e] = "new"
       /\ due' = [due EXCEPT ![e] = clock]
       /\ Queue(Service, d, e, due', "io")
  /\ UNCHANGED <<clock, willAwake, waiting, owner, destroyed, waitFlag, ioVars, back,
                 ran, disp, cur, job, makeVars, poolVars>>

\* mprRemoveEvent(e) by a poster.  A queued event leaves its queue; a running
\* one loses MPR_EVENT_CONTINUOUS.  When the service was to wake for the event,
\* the dispatcher is scheduled for its next one.
RemoveFrom(t, d, e, q) ==
  /\ estate' = [estate EXCEPT ![e] = "removed"]
  /\ eventQ' = [eventQ EXCEPT ![d] = q]
  /\ IF due[e] = willAwake /\ q # <<>>
     THEN Schedule(t, d, q, due, "free", TRUE)
     ELSE UNCHANGED <<now, place, rank, dcond, pc, after, lock>>

RemoveEvent(t) ==
  /\ t \in Posters /\ pc[t] = "free" /\ Free
  /\ \E d \in Dispatchers :
       \/ \E i \in DOMAIN eventQ[d] :
            RemoveFrom(t, d, eventQ[d][i], RemoveAt(eventQ[d], i))
       \/ \E u \in Runners :
            /\ cur[u] # None /\ disp[u] = d /\ estate[cur[u]] = "running"
            /\ RemoveFrom(t, d, cur[u], eventQ[d])
  /\ UNCHANGED <<clock, willAwake, waiting, counted, owner, destroyed, waitFlag, due,
                 ioVars, back, ran, disp, cur, job, makeVars, poolVars>>

\* mprDestroyDispatcher(d) by t.  freeEvents removes the events one by one and,
\* like mprRemoveEvent, schedules what is left when the service was to wake for
\* the event removed; a dispatcher on the runQ is left there.
Destroy(t, d, label) ==
  LET q == eventQ[d]
      scheduled == {i \in 1 .. Len(q) - 1 : due[q[i]] = willAwake}
      prompt == \E i \in scheduled : place[d] = "run" \/ due[q[i + 1]] <= clock
  IN  /\ d # Main /\ d \notin destroyed
      /\ eventQ' = [eventQ EXCEPT ![d] = <<>>]
      /\ estate' = [e \in Events |-> IF \E i \in DOMAIN q : q[i] = e THEN "removed"
                                     ELSE estate[e]]
      /\ now' = IF scheduled # {} THEN clock ELSE now
      /\ place' = [place EXCEPT ![d] = IF @ = "run" THEN "run" ELSE "none"]
      /\ dcond' = IF prompt /\ d \in waitFlag THEN dcond \cup {d} ELSE dcond
      /\ destroyed' = destroyed \cup {d}
      /\ IF prompt /\ waiting THEN CallWake(t, label, TRUE)
         ELSE Goto(t, label) /\ UNCHANGED <<after, lock>>

DestroyUnchanged ==
  UNCHANGED <<clock, willAwake, waiting, counted, rank, owner, waitFlag, due, ioVars, back,
              ran, disp, cur, job, makeVars, poolVars>>

DestroyForeign(t) ==
  /\ t \in Posters /\ pc[t] = "free" /\ Free
  /\ \E d \in Dispatchers : Destroy(t, d, "free")
  /\ DestroyUnchanged

DestroyInCall(t) ==
  /\ t \in Runners /\ pc[t] = "call" /\ Free
  /\ Destroy(t, disp[t], "done")
  /\ DestroyUnchanged

-----------------------------------------------------------------------------
(* mprStartDispatcher, mprWaitForEvent and mprStopDispatcher, by an owner *)

\* claimDispatcher(dispatcher, 0); when it fails the owner may try again
StartClaim(o) ==
  /\ pc[o] = "free" /\ Free
  /\ \E d \in Dispatchers \ (destroyed \cup {Main}) :
       /\ owner[d] \in {None, o}
       /\ owner' = [owner EXCEPT ![d] = o]
       /\ disp' = [disp EXCEPT ![o] = d]
  /\ Goto(o, "enter")
  /\ UNCHANGED <<clock, lock, esVars, place, rank, destroyed, waitFlag, dcond, evVars,
                 ioVars, after, back, ran, cur, job, makeVars, poolVars>>

\* if (!isRunning(dispatcher)) queueDispatcher(runQ)
StartEnter(o) ==
  /\ pc[o] = "enter" /\ Free
  /\ IF place[disp[o]] = "run" THEN UNCHANGED <<place, rank>>
     ELSE QueueDispatcher(disp[o], "run")
  /\ Goto(o, "held")
  /\ UNCHANGED <<clock, lock, esVars, owner, destroyed, waitFlag, dcond, evVars, ioVars,
                 after, back, ran, disp, cur, job, makeVars, poolVars>>

\* mprWaitForEvent begins: run what is due
WaitBegin(o) ==
  /\ pc[o] = "held" /\ disp[o] \notin destroyed
  /\ back' = [back EXCEPT ![o] = "flag"]
  /\ ran' = [ran EXCEPT ![o] = FALSE]
  /\ Goto(o, "next")
  /\ UNCHANGED <<clock, lock, esVars, dpVars, evVars, ioVars, after, disp, cur, job,
                 makeVars, poolVars>>

\* Faulty: waits without announcing it.
WaitFlag_Silent(o) ==
  /\ pc[o] = "flag" /\ Free
  /\ IF ran[o] THEN Goto(o, "held") /\ UNCHANGED <<now, back, deadline>>
     ELSE /\ now' = clock
          /\ deadline' = [deadline EXCEPT ![o] =
                            IF eventQ[disp[o]] = <<>> THEN Forever
                            ELSE due[eventQ[disp[o]][1]]]
          /\ Goto(o, IF disp[o] \in destroyed THEN "block" ELSE "next")
          /\ back' = [back EXCEPT ![o] = "block"]
  /\ UNCHANGED <<clock, lock, willAwake, waiting, counted, place, rank, owner, destroyed,
                 waitFlag, dcond, evVars, wakeRequested, breakFd, sleepUntil, sawBreak, after,
                 ran, disp, cur, job, makeVars, poolVars>>

\* The critical section that sets MPR_DISPATCHER_WAITING.  The caller's mark
\* may be older than events that ran: then the call returns, the flag set.
\* The time to the first event, not the caller's timeout, is the deadline.
WaitFlag(o) ==
  /\ pc[o] = "flag" /\ Free
  /\ IF ran[o] THEN Goto(o, "held") /\ UNCHANGED <<now, waitFlag, back, deadline>>
     ELSE /\ now' = clock
          /\ waitFlag' = waitFlag \cup {disp[o]}
          /\ deadline' = [deadline EXCEPT ![o] =
                            IF eventQ[disp[o]] = <<>> THEN Forever
                            ELSE due[eventQ[disp[o]][1]]]
          /\ \/ Goto(o, "held") /\ UNCHANGED back
             \/ /\ Goto(o, IF disp[o] \in destroyed THEN "block" ELSE "next")
                /\ back' = [back EXCEPT ![o] = "block"]
  /\ UNCHANGED <<clock, lock, willAwake, waiting, counted, place, rank, owner, destroyed,
                 dcond, evVars, wakeRequested, breakFd, sleepUntil, sawBreak, after, ran,
                 disp, cur, job, makeVars, poolVars>>

WaitEnds(o) ==
  /\ Goto(o, "unflag")
  /\ UNCHANGED <<clock, lock, willAwake, waiting, counted, place, rank, owner, destroyed,
                 waitFlag, evVars, ioVars, after, back, ran, disp, cur, job, makeVars,
                 poolVars>>

\* The second dispatchEvents ran an event: do not wait
WaitSkips(o) == pc[o] = "block" /\ ran[o] /\ WaitEnds(o) /\ UNCHANGED <<now, dcond>>

\* mprWaitForCond(dispatcher->cond, delay) ends: signalled, or an event is due
WaitWakes(o) ==
  /\ pc[o] = "block" /\ ~ran[o]
  /\ disp[o] \in dcond \/ deadline[o] <= clock
  /\ dcond' = dcond \ {disp[o]} /\ now' = clock
  /\ WaitEnds(o)

\* The caller's own timeout
WaitTimesOut(o) ==
  /\ pc[o] = "block" /\ ~ran[o]
  /\ now' = clock
  /\ WaitEnds(o) /\ UNCHANGED dcond

\* dispatcher->flags &= ~MPR_DISPATCHER_WAITING
WaitUnflag(o) ==
  /\ pc[o] = "unflag" /\ Free
  /\ waitFlag' = waitFlag \ {disp[o]}
  /\ Goto(o, "held")
  /\ UNCHANGED <<clock, lock, esVars, place, rank, owner, destroyed, dcond, evVars, ioVars,
                 after, back, ran, disp, cur, job, makeVars, poolVars>>

\* mprStopDispatcher: refused when destroyed or not on the runQ
StopDequeue(o) ==
  /\ pc[o] = "held" /\ Free
  /\ disp[o] \notin destroyed /\ place[disp[o]] = "run"
  /\ place' = [place EXCEPT ![disp[o]] = "none"]
  /\ Goto(o, "stop")
  /\ UNCHANGED <<clock, lock, esVars, rank, owner, destroyed, waitFlag, dcond, evVars,
                 ioVars, after, back, ran, disp, cur, job, makeVars, poolVars>>

StopRelease(o) ==
  /\ pc[o] = "stop"
  /\ owner' = [owner EXCEPT ![disp[o]] = None]
  /\ Goto(o, "stopped")
  /\ UNCHANGED <<clock, lock, esVars, place, rank, destroyed, waitFlag, dcond, evVars,
                 ioVars, after, back, ran, disp, cur, job, makeVars, poolVars>>

StopSchedule(o) ==
  /\ pc[o] = "stopped" /\ Free
  /\ IF disp[o] \in destroyed
     THEN Goto(o, "free") /\ UNCHANGED <<now, place, rank, dcond, after, lock>>
     ELSE Schedule(o, disp[o], eventQ[disp[o]], due, "free", FALSE)
  /\ UNCHANGED <<clock, willAwake, waiting, counted, owner, destroyed, waitFlag, evVars,
                 ioVars, back, ran, disp, cur, job, makeVars, poolVars>>

\* mprDestroyDispatcher by the owner, which has no dispatcher to stop then
DestroyOwned(o) ==
  /\ pc[o] = "held" /\ Free
  /\ Destroy(o, disp[o], "free")
  /\ DestroyUnchanged

-----------------------------------------------------------------------------
Tick ==
  /\ clock < MaxTime
  /\ clock' = clock + 1
  /\ UNCHANGED <<lock, esVars, dpVars, evVars, ioVars, thVars, poolVars>>

ServiceStep ==
  \/ ScanReady \/ ScanEmpty \/ Enlist \/ StartIdleWorker \/ StartNewWorker \/ NoWorker \/ Park
  \/ CheckCount \/ Doze \/ Wakes \/ ClearWaiting \/ Drain \/ ResetWake \/ Refresh
  \/ HelperReturns

RunStep(t) ==
  \/ NextEvent(t) \/ CallReturns(t) \/ CallDone(t)

HelperStep(t) == Reclaim(t) \/ Release(t) \/ Unlink(t) \/ Resched(t)

WorkerStep(w) == NapEnds(w) \/ BecomeIdle(w) \/ Offer(w) \/ Rest(w)

OwnerStep(o) ==
  \/ StartEnter(o) \/ WaitFlag(o) \/ WaitSkips(o) \/ WaitWakes(o) \/ WaitUnflag(o)
  \/ StopRelease(o) \/ StopSchedule(o)

\* What a thread does once started, until it next asks for something to do
Program(t) ==
  \/ WakeStep(t) \/ PostEvent(t)
  \/ t \in Runners /\ RunStep(t)
  \/ t \in Servers /\ HelperStep(t)
  \/ t = Service /\ ServiceStep
  \/ t \in Workers /\ WorkerStep(t)
  \/ t \in Owners /\ OwnerStep(t)

\* What the users of the service choose to do
Choice(t) ==
  \/ CreateEvent(t) \/ RemoveEvent(t) \/ DestroyForeign(t) \/ DestroyInCall(t)
  \/ t \in Workers /\ CallYields(t)
  \/ t \in Owners /\ (StartClaim(t) \/ WaitBegin(t) \/ WaitTimesOut(t) \/ StopDequeue(t)
                      \/ DestroyOwned(t))

Next ==
  \/ \E t \in Threads : Program(t) \/ Choice(t)
  \/ OtherIO \/ QueueIOEvent \/ Tick

Spec == Init /\ [][Next]_vars

\* Every thread that can run does, time passes, and sockets stay silent.
Fairness ==
  /\ \A t \in Threads : WF_vars(Program(t))
  /\ WF_vars(Tick)

FairSpec == Spec /\ Fairness

-----------------------------------------------------------------------------
(* Properties *)

WakeLabels == {"wake", "test", "set", "write"}
RunLabels == {"next", "call", "done", "post"}
HelperLabels == {"claim", "release", "unlink", "resched", "return"} \cup RunLabels

\* The labels of a thread, and where it may continue after a wake or dispatchEvents
Labels(t) ==
  IF t = Service
  THEN {"scan", "enlist", "start", "park", "count", "doze", "sleep", "awake", "drain", "io",
        "tick", "wake"} \cup HelperLabels
  ELSE IF t \in Workers
  THEN {"unborn", "offer", "rest", "nap"} \cup HelperLabels \cup WakeLabels
  ELSE IF t \in Posters THEN {"free", "post"} \cup WakeLabels
  ELSE {"free", "enter", "held", "flag", "block", "unflag", "stop", "stopped"}
         \cup RunLabels \cup WakeLabels
Afters(t) ==
  IF t = Service THEN {"next", "return", "done", "io"}
  ELSE IF t \in Workers THEN {"next", "return", "done", "nap", "rest"}
  ELSE IF t \in Posters THEN {"free"}
  ELSE {"next", "done", "free"}
Backs(t) == IF t \in Owners THEN {"flag", "block"} ELSE {"release"}

\* The types of the shared state and of what the threads work on
DataTyped ==
  /\ clock \in 0 .. MaxTime /\ now \in 0 .. MaxTime /\ willAwake \in Nat
  /\ waiting \in BOOLEAN /\ counted \in BOOLEAN
  /\ lock \in Threads \cup {None}
  /\ place \in [Dispatchers -> Places]
  /\ rank \in [Dispatchers -> 1 .. Cardinality(Dispatchers)]
  /\ owner \in [Dispatchers -> Threads \cup {None, Reserved}]
  /\ destroyed \subseteq Dispatchers \ {Main}
  /\ waitFlag \subseteq Dispatchers /\ dcond \subseteq Dispatchers
  /\ eventQ \in [Dispatchers -> Seq(Events)]
  /\ due \in [Events -> Nat] /\ estate \in [Events -> EventStates]
  /\ wakeRequested \in BOOLEAN /\ breakFd \in BOOLEAN /\ sawBreak \in BOOLEAN
  /\ sleepUntil \in Nat /\ deadline \in [Owners -> Nat]
  /\ ran \in [Threads -> BOOLEAN]
  /\ disp \in [Threads -> Dispatchers \cup {None}]
  /\ cur \in [Threads -> Events \cup {None}]
  /\ job \in [Threads -> Dispatchers \cup {None}]
  /\ made \in [Threads -> Events \cup {None}]
  /\ target \in [Threads -> Dispatchers \cup {None}]
  /\ idle \subseteq Workers /\ busy \subseteq Workers
  /\ napping \subseteq Workers /\ idleCond \subseteq Workers

\* Every thread is at a label of its own program, and returns to one.
ControlTyped ==
  /\ pc \in [Threads -> UNION {Labels(t) : t \in Threads}]
  /\ after \in [Threads -> UNION {Afters(t) : t \in Threads}]
  /\ back \in [Threads -> UNION {Backs(t) : t \in Threads}]
  /\ \A t \in Threads : pc[t] \in Labels(t) /\ after[t] \in Afters(t) /\ back[t] \in Backs(t)

\* All variables have their types and every thread is in its own program.
TypeOK == DataTyped /\ ControlTyped

\* Where t is once the calls it is in (a wake, a nap, an event it queues) end
Stage(t) ==
  LET direct == IF pc[t] \in WakeLabels \cup {"offer"} THEN after[t] ELSE pc[t]
  IN  CASE direct = "post" -> IF t \in Posters THEN "free" ELSE "call"
        [] direct = "nap" -> "call"
        [] OTHER -> direct

\* The stages at which a thread's disp is the dispatcher it works on
UsesDispatcher == {"enlist", "start", "park", "next", "call", "done", "release", "unlink",
                   "resched", "enter", "held", "flag", "block", "unflag", "stop", "stopped"}

\* Thread t is inside dispatchEvents: its callbacks may be running.
Dispatching(t) == t \in Runners /\ Stage(t) \in {"next", "call", "done"}

\* A dispatcher's events never run on two threads at once: what mpr.h promises
\* when it says that dispatchers serialize work.  Violating it takes the
\* service, a worker and an owner claiming, releasing and requeueing across
\* each other.
Serialized ==
  \A t, u \in Runners :
    Dispatching(t) /\ Dispatching(u) /\ t # u => disp[t] # disp[u]

\* The thread that dispatches owns the dispatcher all the while, so that a
\* claim by another thread fails.
OwnedWhileDispatching ==
  \A t \in Runners : Dispatching(t) => owner[disp[t]] = t

\* A reservation is handed to one thread only and stays until that thread
\* takes it, so no stale job can seize a dispatcher reserved for another.
ReservedOnce ==
  \A t \in Servers : job[t] # None =>
    /\ owner[job[t]] = Reserved
    /\ \A u \in Servers : job[u] = job[t] => u = t

\* A wake of the service is under way, or has been delivered.
WakeComing ==
  breakFd \/ \E t \in Threads : pc[t] \in WakeLabels

\* No lost wakeup: while the service thread sleeps, and not for zero time, a
\* dispatcher that became ready since it looked has a wake on its way.  The wake
\* is sent after the queueing, often without the service lock, and is suppressed
\* by two flags that other threads set and clear.
NoLostWakeup ==
  pc[Service] = "sleep" /\ On("ready") # {} => WakeComing \/ sleepUntil <= clock

\* No oversleeping: the same for an event that is due before willAwake, the time
\* the service thread told the others it would get up.
NoOversleep ==
  pc[Service] = "sleep" =>
    \A d \in On("wait") : eventQ[d] # <<>> /\ due[eventQ[d][1]] < willAwake =>
      WakeComing \/ sleepUntil <= clock

\* The wakeRequested flag, which suppresses a write to the eventfd, is never
\* left set with the eventfd empty, or every later wake would be swallowed.
WakeFlagBacked ==
  wakeRequested => \/ breakFd \/ Stage(Service) = "io"
                   \/ \E t \in Threads : pc[t] = "write"

\* A dispatcher with queued events is never forgotten: it is on a queue that
\* is served, or a thread is about to put it there.
NoForgottenDispatcher ==
  \A d \in Dispatchers :
    eventQ[d] # <<>> /\ d \notin destroyed =>
      \/ place[d] \in {"run", "ready", "wait", "pending"}
      \/ \E t \in Threads : disp[t] = d /\ Stage(t) \in {"resched", "stop", "stopped", "enter"}

\* A dispatcher parked for lack of a worker is picked up when one comes free:
\* the service does not sleep on while a worker is available.
NoStrandedPending ==
  pc[Service] = "sleep" /\ On("pending") # {} /\ AvailableWorkers > 0 =>
    \/ WakeComing \/ sleepUntil <= clock
    \/ \E w \in Workers : pc[w] = "offer"

\* An owner that waits on a dispatcher of the runQ does not sleep past its first
\* event, whenever that was posted: mprScheduleDispatcher has signalled it, or
\* its deadline is no later.
NoMissedSignal ==
  \A o \in Owners :
    /\ pc[o] = "block" /\ ~ran[o] /\ disp[o] \notin destroyed
    /\ place[disp[o]] = "run" /\ eventQ[disp[o]] # <<>>
    => disp[o] \in dcond \/ deadline[o] <= due[eventQ[disp[o]][1]]

\* A started dispatcher is on the runQ until its owner stops it, as mprStartDispatcher
\* promises and mprStopDispatcher asserts.  It is not: see section 7 of the README.
StopsRunning ==
  \A o \in Owners : pc[o] = "held" /\ disp[o] \notin destroyed => place[disp[o]] = "run"

\* The queue of a dispatcher is in the order its events are due, and an event
\* queued is behind those due at the same time: mprQueueEvent inserts from the
\* back, and continuous events are put back while others come and go.
InDueOrder ==
  [][\A d \in Dispatchers : \A i, j \in DOMAIN eventQ'[d] : i < j =>
       LET early == eventQ'[d][i]
           late == eventQ'[d][j]
       IN  /\ due'[early] <= due'[late]
           /\ due'[early] = due'[late] /\ Contains(eventQ[d], late) =>
                Contains(eventQ[d], early)]_vars

\* An event that was removed, dropped or is over never runs and is never queued
\* again, also when it is removed while its callback runs and it is continuous.
RemovedStaysRemoved ==
  [][\A e \in Events : estate[e] \in {"removed", "dropped", "over"} =>
       estate'[e] = estate[e]]_vars

\* An event is on one queue, once, exactly while it is queued: queueing, taking,
\* removing and destroying never duplicate or leave a link of the doubly linked list.
QueuedOnce ==
  \A e \in Events :
    LET slots == {s \in UNION {{d} \X DOMAIN eventQ[d] : d \in Dispatchers} :
                    eventQ[s[1]][s[2]] = e}
    IN  Cardinality(slots) = IF estate[e] = "queued" THEN 1 ELSE 0

\* Every queued event that comes due is run, removed, or loses its dispatcher:
\* the wakeups, the pending queue and the worker pool together forget none.
EventsRun ==
  \A e \in Events : (estate[e] = "queued" /\ due[e] <= MaxTime) ~> (estate[e] # "queued")

-----------------------------------------------------------------------------
(* The abstract executor that the service implements *)

\* The events that wait on a dispatcher, and those whose callbacks its threads run
Queued == [d \in Dispatchers |-> Range(eventQ[d])]
Running == [d \in Dispatchers |-> {e \in Events : \E t \in Runners : disp[t] = d /\ cur[t] = e}]

Executor == INSTANCE SerialExecutor WITH
  state <- estate, queue <- Queued, running <- Running, closed <- destroyed

\* Whatever the service, its workers, posters and owners interleave, what becomes
\* of the events is what one serialized executor per dispatcher does: one callback
\* at a time, none early or out of turn, each event once per time that it is due,
\* and none that was removed or whose dispatcher was destroyed before.
ExecutorSpec == Executor!Spec

-----------------------------------------------------------------------------
(* The inductive invariant of the safety proofs *)

\* What a thread works on is set at the stages that use it.
HasWork(t) ==
  /\ Stage(t) \in UsesDispatcher => disp[t] \in Dispatchers
  /\ t \in Runners /\ Stage(t) \in {"call", "done"} => cur[t] \in Events
  /\ pc[t] = "post" => made[t] \in Events /\ target[t] \in Dispatchers

WorkSet == \A t \in Threads : HasWork(t)

\* Where the one reservation of a dispatcher is: with the service thread that
\* made it, or handed to a worker that has yet to take it.
JobHolders ==
  /\ job[Service] # None <=> pc[Service] \in {"enlist", "start", "claim"}
  /\ pc[Service] \in {"enlist", "start"} => job[Service] = disp[Service]
  /\ \A w \in Workers :
       /\ job[w] # None <=> pc[w] = "claim" \/ w \in idleCond
       /\ w \in idle \cup idleCond => Stage(w) = "rest"
       /\ ~(w \in idle /\ w \in idleCond)

\* Who a dispatcher's owner field names
OwnerHolds ==
  /\ \A t \in Servers :
       Stage(t) \in {"next", "call", "done", "release"} => owner[disp[t]] = t
  /\ \A o \in Owners :
       Stage(o) \in UsesDispatcher \ {"stopped"} => owner[disp[o]] = o

\* es->waiting is set exactly around epoll_wait
WaitingInv == waiting <=> pc[Service] \in {"sleep", "awake"}

IndInv ==
  TypeOK /\ WorkSet /\ JobHolders /\ ReservedOnce /\ OwnerHolds /\ WaitingInv
    /\ WakeFlagBacked /\ NoLostWakeup

=============================================================================
