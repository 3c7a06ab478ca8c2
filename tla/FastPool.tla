------------------------------- MODULE FastPool -------------------------------
(***************************************************************************)
(* The FastCGI handler: the pool of applications of one FastConnect route, *)
(* and the life of the requests that select an application, connect to it, *)
(* are answered or lost, and release it.  Source: fastHandler.c.           *)
(*                                                                         *)
(* A step is one critical section of fast->mutex, or one unlocked access.  *)
(* Streams run on dispatchers of their own, the SIGCHLD handler and the    *)
(* maintenance timer on others, and the applications are processes.        *)
(***************************************************************************)
EXTENDS Integers, FiniteSets, SequencesExt

CONSTANTS
  Streams,        \* client streams; each runs one request after the other
  Apps,           \* the FastApp objects; garbage ones are allocated again
  MaxApps,        \* fast->maxApps
  MinApps,        \* fast->minApps
  Multiplex,      \* the largest fast->multiplex of the routes modelled
  MaxRequests,    \* fast->maxRequests; app->nextID is not told apart beyond it
  keep,           \* fast->keep: the connections outlive a request
  None

\* A pooled connection: of a request that ended, or of one whose answer may still
\* come; or the app has closed it.
Connections == {"open", "stale", "closed"}

ASSUME FastAssumption ==
  /\ MaxApps \in Nat \ {0} /\ Multiplex \in Nat \ {0} /\ MaxRequests \in Nat \ {0}
  /\ MinApps \in Nat /\ keep \in BOOLEAN
  /\ IsFiniteSet(Streams) /\ IsFiniteSet(Apps) /\ None \notin Apps \cup Connections

VARIABLES
  route,       \* fast->launch: applications are started here, not elsewhere;
               \* and fast->multiplex
  apps,        \* fast->apps: those that serve a request
  idleApps,    \* fast->idleApps
  inUse,       \* app->inUse
  status,      \* app->destroy (marked), app->destroyed (dead), app->noexec;
               \* free: nothing refers to the object
  proc,        \* their process: app->pid is set until it is reaped
  nextID,      \* app->nextID
  sockets,     \* app->sockets: the idle connections, last in first out
  pc,          \* where a stream's dispatcher is
  app,         \* the application a stream has selected
  sock,        \* the connection a stream has to it
  safe,        \* streams with a GET, HEAD or OPTIONS that has no body
  again,       \* streams in the second round of connectFastRequest
  resent,      \* streams whose request is one that retryFastRequest made
  req,         \* the FastRequest of a stream
  lost,        \* streams with a lost event queued for that request
  old,         \* streams with one queued for a former request
  sends        \* to how many apps the stream's request has been given

poolVars == <<apps, idleApps, inUse, status, proc, nextID, sockets>>
streamVars == <<pc, app, sock, safe, again, resent>>
vars == <<route, poolVars, streamVars, req, lost, old, sends>>

Selected == {"pop", "connect", "register", "active"}

NewRequest ==
  [sent |-> FALSE,        \* connWriteq has sent it, or the first part of it
   wire |-> "none",       \* what the app has written and is not read yet
   answered |-> FALSE,    \* req->bytesRead > 0
   ended |-> FALSE,       \* req->ended
   eof |-> FALSE,         \* req->eof
   dropped |-> FALSE,     \* the app has closed the connection
   told |-> "no"]         \* the httpError of the stream: lost, or another

-----------------------------------------------------------------------------
(* Helpers *)

\* An application that may be given another stream
Fit(a) == status[a] = "fit"

\* app->destroyed: killed, reaped or never executed
Destroyed(a) == status[a] \in {"dead", "noexec"}

\* Where s has an active request on app a
Requests(a) == {s \in Streams : pc[s] = "active" /\ app[s] = a}

\* A process of app a listens; one that runs elsewhere may or may not.
Listens(a) == route.launch => proc[a] = "running"

PeerOpen(s) == ~req[s].dropped /\ Listens(app[s])

Goto(s, label) == pc' = [pc EXCEPT ![s] = label]

\* The request of s is unregistered: what is queued for it finds it gone.
Unregister(s) ==
  /\ req' = [req EXCEPT ![s] = NewRequest]
  /\ old' = IF s \in lost THEN old \cup {s} ELSE old
  /\ lost' = lost \ {s}

\* The stream is done with its request, and ready for another.
Finish(s) ==
  /\ safe' = safe \ {s} /\ again' = again \ {s} /\ resent' = resent \ {s}
  /\ sends' = [sends EXCEPT ![s] = 0]

Init ==
  /\ route \in [launch : BOOLEAN, multiplex : 1 .. Multiplex]
  /\ apps = {} /\ idleApps = {}
  /\ inUse = [a \in Apps |-> 0]
  /\ status = [a \in Apps |-> "free"]
  /\ proc = [a \in Apps |-> "none"]
  /\ nextID = [a \in Apps |-> 1]
  /\ sockets = [a \in Apps |-> <<>>]
  /\ pc = [s \in Streams |-> "free"]
  /\ app = [s \in Streams |-> None]
  /\ sock = [s \in Streams |-> None]
  /\ safe = {} /\ again = {} /\ resent = {}
  /\ req = [s \in Streams |-> NewRequest]
  /\ lost = {} /\ old = {}
  /\ sends = [s \in Streams |-> 0]

-----------------------------------------------------------------------------
(* getFastApp: one pass of its loop holds the lock *)

\* fastOpenRequest for a new request of the stream
Open(s) ==
  /\ pc[s] = "free"
  /\ Goto(s, "get")
  /\ safe' \in {safe, safe \cup {s}}
  /\ UNCHANGED <<route, poolVars, app, sock, again, resent, req, lost, old, sends>>

Select(s, a) ==
  /\ app' = [app EXCEPT ![s] = a]
  /\ inUse' = [inUse EXCEPT ![a] = @ + 1]
  /\ Goto(s, "pop")
  /\ UNCHANGED <<route, sock, safe, again, resent, req, lost, old, sends>>

TakeIdle(s) ==
  /\ pc[s] = "get"
  /\ \E a \in idleApps :
       /\ Fit(a)
       /\ idleApps' = idleApps \ {a}
       /\ apps' = apps \cup {a}
       /\ Select(s, a)
  /\ UNCHANGED <<status, proc, nextID, sockets>>

NoneIdle == \A a \in idleApps : ~Fit(a)

\* Faulty: starts one more than maxApps.
Launch_Beyond(s) ==
  /\ pc[s] = "get" /\ NoneIdle
  /\ Cardinality(apps) <= MaxApps
  /\ \E a \in Apps :
       /\ status[a] = "free"
       /\ apps' = apps \cup {a}
       /\ status' = [status EXCEPT ![a] = "fit"]
       /\ proc' = [proc EXCEPT ![a] = IF route.launch THEN "running" ELSE "none"]
       /\ Select(s, a)
  /\ UNCHANGED <<idleApps, nextID, sockets>>

\* startFastApp: the program is executed, or is not; without launch= there is
\* nothing to execute.
Launch(s) ==
  /\ pc[s] = "get" /\ NoneIdle
  /\ Cardinality(apps) < MaxApps
  /\ \E a \in Apps, executed \in BOOLEAN :
       /\ status[a] = "free"
       /\ apps' = apps \cup {a}
       /\ status' = [status EXCEPT ![a] = IF route.launch /\ ~executed THEN "noexec" ELSE "fit"]
       /\ proc' = [proc EXCEPT ![a] = IF route.launch /\ executed THEN "running" ELSE "none"]
       /\ Select(s, a)
  /\ UNCHANGED <<idleApps, nextID, sockets>>

\* The first app with room; which of them is first does not matter here.
Share(s) ==
  /\ pc[s] = "get" /\ NoneIdle
  /\ Cardinality(apps) >= MaxApps
  /\ \E a \in apps : Fit(a) /\ inUse[a] < route.multiplex /\ Select(s, a)
  /\ UNCHANGED <<apps, idleApps, status, proc, nextID, sockets>>

\* No app: the wait (which ends with a signal of fast->cond, or a second later)
\* has gone on for fast->waitTimeout, or no app can be started.
NoApp(s) ==
  /\ pc[s] = "get" /\ NoneIdle
  /\ Cardinality(apps) < MaxApps => route.launch
  /\ Cardinality(apps) >= MaxApps => \A a \in apps : ~Fit(a) \/ inUse[a] >= route.multiplex
  /\ Goto(s, "free") /\ Finish(s)
  /\ UNCHANGED <<route, poolVars, app, sock, req, lost, old>>

-----------------------------------------------------------------------------
(* getFastSocket, without the lock *)

\* The connection pooled last; one that ended is closed and the next one tried.
PopSocket(s) ==
  LET a == app[s]
  IN  /\ pc[s] = "pop" /\ sockets[a] # <<>>
      /\ sockets' = [sockets EXCEPT ![a] = Front(@)]
      /\ IF Last(sockets[a]) # "closed" /\ Listens(a)
         THEN sock' = [sock EXCEPT ![s] = Last(sockets[a])] /\ Goto(s, "register")
         ELSE UNCHANGED <<sock, pc>>
      /\ UNCHANGED <<route, apps, idleApps, inUse, status, proc,
                     nextID, app, safe, again, resent, req, lost, old, sends>>

NoSocket(s) ==
  /\ pc[s] = "pop" /\ sockets[app[s]] = <<>>
  /\ Goto(s, "connect")
  /\ UNCHANGED <<route, poolVars, app, sock, safe, again, resent, req, lost, old,
                 sends>>

Connect(s) ==
  /\ pc[s] = "connect" /\ ~Destroyed(app[s]) /\ Listens(app[s])
  /\ sock' = [sock EXCEPT ![s] = "open"]
  /\ Goto(s, "register")
  /\ UNCHANGED <<route, poolVars, app, safe, again, resent, req, lost, old, sends>>

\* The app was destroyed, or has not answered for FAST_CONNECT_TIMEOUT.
ConnectFails(s) ==
  /\ pc[s] = "connect"
  /\ sock' = [sock EXCEPT ![s] = None]
  /\ Goto(s, "register")
  /\ UNCHANGED <<route, poolVars, app, safe, again, resent, req, lost, old, sends>>

-----------------------------------------------------------------------------
(* The rest of connectFastRequest, and releaseFastApp *)

\* Faulty: an app that must be destroyed is dropped without being killed.
ReleaseApp_NoKill(a, mark, pool) ==
  LET last == inUse[a] = 1
      worn == proc[a] # "none" /\ nextID[a] >= MaxRequests
      retired == last /\ (mark \/ worn \/ ~Fit(a))
  IN  /\ inUse' = [inUse EXCEPT ![a] = @ - 1]
      /\ apps' = IF last THEN apps \ {a} ELSE apps
      /\ idleApps' = IF last /\ ~retired THEN idleApps \cup {a} ELSE idleApps
      /\ status' = [status EXCEPT ![a] =
                      IF retired THEN IF proc[a] = "none" THEN "free" ELSE "marked"
                      ELSE IF mark /\ Fit(a) THEN "marked" ELSE @]
      /\ sockets' = [sockets EXCEPT ![a] = IF retired THEN <<>> ELSE pool]
      /\ nextID' = [nextID EXCEPT ![a] = IF retired THEN 1 ELSE @]
      /\ UNCHANGED proc

\* releaseFastApp, with whether the caller sets app->destroy, and the pooled
\* connections after its changes.  The last release makes the app idle, or
\* retires it: kills its process, and closes its connections.
ReleaseApp(a, mark, pool) ==
  LET last == inUse[a] = 1
      worn == proc[a] # "none" /\ nextID[a] >= MaxRequests
      retired == last /\ (mark \/ worn \/ ~Fit(a))
  IN  /\ inUse' = [inUse EXCEPT ![a] = @ - 1]
      /\ apps' = IF last THEN apps \ {a} ELSE apps
      /\ idleApps' = IF last /\ ~retired THEN idleApps \cup {a} ELSE idleApps
      /\ status' = [status EXCEPT ![a] =
                      IF retired THEN IF proc[a] = "none" THEN "free" ELSE "dead"
                      ELSE IF mark /\ Fit(a) THEN "marked" ELSE @]
      /\ sockets' = [sockets EXCEPT ![a] = IF retired THEN <<>> ELSE pool]
      /\ nextID' = [nextID EXCEPT ![a] = IF retired THEN 1 ELSE @]
      /\ UNCHANGED proc

\* The exit check and the registration are one critical section.
Register(s) ==
  LET a == app[s]
  IN  /\ pc[s] = "register" /\ sock[s] # None /\ ~Destroyed(a)
      /\ Goto(s, "active")
      /\ nextID' = [nextID EXCEPT ![a] = IF @ < MaxRequests THEN @ + 1 ELSE @]
      /\ sends' = [sends EXCEPT ![s] = @ + 1]
      /\ again' = again \ {s}
      /\ UNCHANGED <<route, apps, idleApps, inUse, status, proc,
                     sockets, app, sock, safe, resent, req, lost, old>>

\* Faulty: leaves the release to the close of the pipeline, which does not come.
RegisterFails_Unreleased(s) ==
  /\ pc[s] = "register" /\ (sock[s] = None \/ Destroyed(app[s]))
  /\ sock' = [sock EXCEPT ![s] = None]
  /\ app' = [app EXCEPT ![s] = None]
  /\ Goto(s, "free") /\ Finish(s)
  /\ UNCHANGED <<route, poolVars, req, lost, old>>

\* The app exited, or could not be connected to: release it, and try another
\* once if it exited.
RegisterFails(s) ==
  LET a == app[s]
      exited == Destroyed(a)
      retry == exited /\ s \notin again /\ status[a] # "noexec"
  IN  /\ pc[s] = "register" /\ (sock[s] = None \/ exited)
      /\ ReleaseApp(a, exited, sockets[a])
      /\ sock' = [sock EXCEPT ![s] = None]
      /\ app' = [app EXCEPT ![s] = None]
      /\ IF retry
         THEN again' = again \cup {s} /\ Goto(s, "get") /\ UNCHANGED <<safe, resent, sends>>
         ELSE Goto(s, "free") /\ Finish(s)
      /\ UNCHANGED <<route, req, lost, old>>

-----------------------------------------------------------------------------
(* A registered request *)

\* app->destroy = 1
Mark(a) == [status EXCEPT ![a] = IF @ = "fit" THEN "marked" ELSE @]

ReqUnchanged ==
  UNCHANGED <<route, apps, idleApps, inUse, proc, nextID, sockets, pc,
              app, safe, again, resent, sends>>

\* What is left of a request when its connection is gone: nothing is written or
\* read any more.
Cut(r) == [r EXCEPT !.eof = TRUE, !.dropped = TRUE, !.wire = "none", !.sent = FALSE]

\* fastConnectorOutgoingService: the socket takes what is queued.  Later parts of a
\* body, which the app may answer before it has read them, are not told apart.
Write(s) ==
  /\ pc[s] = "active" /\ ~req[s].eof /\ ~req[s].sent
  /\ req' = [req EXCEPT ![s].sent = TRUE]
  /\ ReqUnchanged /\ UNCHANGED <<status, sock, lost, old>>

\* It does not, as the app has gone: every request of the app is told.
WriteFails(s) ==
  /\ pc[s] = "active" /\ ~req[s].eof /\ ~req[s].sent /\ ~PeerOpen(s)
  /\ req' = [req EXCEPT ![s] = Cut(@)]
  /\ sock' = [sock EXCEPT ![s] = "closed"]
  /\ status' = Mark(app[s])
  /\ lost' = lost \cup Requests(app[s])
  /\ ReqUnchanged /\ UNCHANGED old

\* fastConnectorIO reads an answer, or the part of one.
Read(s) ==
  /\ pc[s] = "active" /\ ~req[s].eof /\ req[s].wire # "none"
  /\ req' = [req EXCEPT ![s].answered = TRUE, ![s].wire = "none",
                        ![s].ended = @ \/ req[s].wire = "end"]
  /\ ReqUnchanged /\ UNCHANGED <<status, sock, lost, old>>

\* The answer is that the request is rejected, or its record is a bad one.
ReadError(s) ==
  /\ pc[s] = "active" /\ ~req[s].eof /\ req[s].wire # "none"
  /\ req' = [req EXCEPT ![s].answered = TRUE, ![s].wire = "none",
                        ![s].told = IF @ = "no" THEN "error" ELSE @]
  /\ status' \in {status, Mark(app[s])}
  /\ ReqUnchanged /\ UNCHANGED <<sock, lost, old>>

ReadEof(s) ==
  /\ pc[s] = "active" /\ ~req[s].eof /\ req[s].wire = "none" /\ ~PeerOpen(s)
  /\ req' = [req EXCEPT ![s] = Cut(@)]
  /\ sock' = [sock EXCEPT ![s] = "closed"]
  /\ ReqUnchanged /\ UNCHANGED <<status, lost, old>>

\* Faulty: an unsafe request is sent again, too.
CanRetry_Unsafe(s) ==
  /\ s \notin resent
  /\ ~req[s].answered /\ ~req[s].ended /\ req[s].told = "no"

\* retryFastRequest sends it again: an answer has not begun, and the request is
\* safe, and was not sent again before.
CanRetry(s) ==
  /\ s \in safe /\ s \notin resent
  /\ ~req[s].answered /\ ~req[s].ended /\ req[s].told = "no"

Resend(s) ==
  /\ ReleaseApp(app[s], TRUE, sockets[app[s]])
  /\ Unregister(s)
  /\ sock' = [sock EXCEPT ![s] = None]
  /\ app' = [app EXCEPT ![s] = None]
  /\ resent' = resent \cup {s}
  /\ Goto(s, "get")
  /\ UNCHANGED <<route, safe, again, sends>>

\* fastHandlerLost for the request of s: the stream is told when it is not sent
\* again.  An answer that is complete is not looked at.
LostEvent(s) ==
  /\ pc[s] = "active" /\ s \in lost
  /\ IF CanRetry(s) THEN Resend(s)
     ELSE /\ lost' = lost \ {s}
          /\ req' = [req EXCEPT ![s].told = IF @ = "no" THEN "lost" ELSE @, ![s].wire = "none"]
          /\ ReqUnchanged /\ UNCHANGED <<status, sock, old>>

\* Faulty: does not look whether the request is still registered.
OldEvent_Unchecked(s) ==
  /\ s \in old /\ pc[s] \in {"free", "active"}
  /\ old' = old \ {s}
  /\ req' = [req EXCEPT ![s].told = IF @ = "no" /\ pc[s] = "active" THEN "lost" ELSE @]
  /\ ReqUnchanged /\ UNCHANGED <<status, sock, lost>>

\* fastHandlerLost for a request that is not registered any more.  The stream's
\* dispatcher is busy while it selects an app.
OldEvent(s) ==
  /\ s \in old /\ pc[s] \in {"free", "active"}
  /\ old' = old \ {s}
  /\ ReqUnchanged /\ UNCHANGED <<status, sock, req, lost>>

\* Faulty: pools the connection whether or not the request ended.
Close_Unended(s) ==
  LET pool == sockets[app[s]]
      state == IF req[s].ended THEN "open" ELSE "stale"
  IN  /\ pc[s] = "active"
      /\ ReleaseApp(app[s], FALSE,
                    IF keep /\ sock[s] # "closed" THEN Append(pool, state) ELSE pool)
      /\ Unregister(s)
      /\ sock' = [sock EXCEPT ![s] = None]
      /\ app' = [app EXCEPT ![s] = None]
      /\ Goto(s, "free") /\ Finish(s)
      /\ UNCHANGED route

\* fastCloseRequest: the answer is complete, or the stream failed, timed out or
\* was closed by the client.  The connection is pooled when the request ended,
\* whether or not all of its body was sent.
Close(s) ==
  LET pool == sockets[app[s]]
      state == IF req[s].ended THEN "open" ELSE "stale"
  IN  /\ pc[s] = "active"
      /\ ReleaseApp(app[s], FALSE, IF keep /\ req[s].ended /\ sock[s] # "closed"
                                     THEN Append(pool, state) ELSE pool)
      /\ Unregister(s)
      /\ sock' = [sock EXCEPT ![s] = None]
      /\ app' = [app EXCEPT ![s] = None]
      /\ Goto(s, "free") /\ Finish(s)
      /\ UNCHANGED route

-----------------------------------------------------------------------------
(* The SIGCHLD handler, the timer and the terminator *)

\* Faulty: tells nobody.
Reap_Silent(a) ==
  /\ proc[a] = "exited"
  /\ proc' = [proc EXCEPT ![a] = "none"]
  /\ status' = [status EXCEPT ![a] = IF inUse[a] = 0 THEN "free" ELSE "dead"]
  /\ nextID' = [nextID EXCEPT ![a] = IF inUse[a] = 0 THEN 1 ELSE @]
  /\ idleApps' = idleApps \ {a}
  /\ sockets' = [sockets EXCEPT ![a] = <<>>]
  /\ UNCHANGED <<route, apps, inUse, streamVars, req, lost, old,
                 sends>>

\* reapSignalHandler: retire the app and tell its requests.  What it closes is
\* dropped from the pool, as getFastSocket would.
Reap(a) ==
  /\ proc[a] = "exited"
  /\ proc' = [proc EXCEPT ![a] = "none"]
  /\ status' = [status EXCEPT ![a] = IF inUse[a] = 0 THEN "free" ELSE "dead"]
  /\ nextID' = [nextID EXCEPT ![a] = IF inUse[a] = 0 THEN 1 ELSE @]
  /\ idleApps' = idleApps \ {a}
  /\ sockets' = [sockets EXCEPT ![a] = <<>>]
  /\ lost' = lost \cup Requests(a)
  /\ UNCHANGED <<route, apps, inUse, streamVars, req, old, sends>>

\* killFastApp for the apps S, which have a process
Kill(S) == [a \in Apps |-> IF a \in S THEN "dead" ELSE status[a]]

\* fastMaintenance: of the idle apps that have expired, kill those beyond minApps.
Maintain ==
  /\ \E expired \in SUBSET {a \in idleApps : proc[a] # "none"} :
       LET spare == Cardinality(apps) + Cardinality(idleApps) - MinApps
       IN  \E killed \in SUBSET expired :
             /\ killed # {}
             /\ Cardinality(killed) = IF Cardinality(expired) < spare
                                      THEN Cardinality(expired) ELSE spare
             /\ status' = Kill(killed)
  /\ UNCHANGED <<route, apps, idleApps, inUse, proc, nextID, sockets, streamVars,
                 req, lost, old, sends>>

\* fastTerminator: kill them all
Terminate ==
  /\ status' = Kill({a \in apps \cup idleApps : proc[a] # "none"})
  /\ UNCHANGED <<route, apps, idleApps, inUse, proc, nextID, sockets, streamVars,
                 req, lost, old, sends>>

-----------------------------------------------------------------------------
(* The applications *)

AppUnchanged ==
  UNCHANGED <<route, apps, idleApps, inUse, status, nextID, streamVars,
              lost, old, sends>>

AppExits(a) ==
  /\ proc[a] = "running"
  /\ proc' = [proc EXCEPT ![a] = "exited"]
  /\ UNCHANGED <<sockets, req>> /\ AppUnchanged

\* It answers once the request has reached it, perhaps before all of it has.
AppAnswers(s) ==
  /\ pc[s] = "active" /\ req[s].sent /\ PeerOpen(s)
  /\ ~req[s].ended /\ req[s].wire # "end" /\ req[s].told = "no"
  /\ \E what \in {"part", "end"} : req' = [req EXCEPT ![s].wire = what]
  /\ UNCHANGED <<proc, sockets>> /\ AppUnchanged

AppDrops(s) ==
  /\ pc[s] = "active" /\ PeerOpen(s)
  /\ req' = [req EXCEPT ![s].dropped = TRUE]
  /\ UNCHANGED <<proc, sockets>> /\ AppUnchanged

\* It closes an idle connection; idleSocketIO or the test before reuse finds out.
AppClosesIdle(a) ==
  /\ \E i \in DOMAIN sockets[a] :
       sockets[a][i] # "closed" /\ sockets' = [sockets EXCEPT ![a][i] = "closed"]
  /\ UNCHANGED <<proc, req>> /\ AppUnchanged

Next ==
  \/ \E s \in Streams :
       \/ Open(s) \/ TakeIdle(s) \/ Launch(s) \/ Share(s) \/ NoApp(s)
       \/ PopSocket(s) \/ NoSocket(s) \/ Connect(s) \/ ConnectFails(s)
       \/ Register(s) \/ RegisterFails(s)
       \/ Write(s) \/ WriteFails(s) \/ Read(s) \/ ReadError(s) \/ ReadEof(s)
       \/ LostEvent(s) \/ OldEvent(s) \/ Close(s)
       \/ AppAnswers(s) \/ AppDrops(s)
  \/ \E a \in Apps : Reap(a) \/ AppExits(a) \/ AppClosesIdle(a)
  \/ Maintain \/ Terminate

Spec == Init /\ [][Next]_vars

-----------------------------------------------------------------------------
(* Properties *)

TypeOK ==
  /\ route \in [launch : BOOLEAN, multiplex : 1 .. Multiplex]
  /\ apps \subseteq Apps /\ idleApps \subseteq Apps
  /\ inUse \in [Apps -> Nat]
  /\ status \in [Apps -> {"free", "fit", "marked", "dead", "noexec"}]
  /\ proc \in [Apps -> {"none", "running", "exited"}]
  /\ nextID \in [Apps -> 1 .. MaxRequests]
  /\ sockets \in [Apps -> Seq(Connections)]
  /\ pc \in [Streams -> {"free", "get"} \cup Selected]
  /\ app \in [Streams -> Apps \cup {None}]
  /\ sock \in [Streams -> Connections \cup {None}]
  /\ safe \subseteq Streams /\ again \subseteq Streams /\ resent \subseteq Streams
  /\ req \in [Streams -> [sent : BOOLEAN, wire : {"none", "part", "end"},
                          answered : BOOLEAN, ended : BOOLEAN, eof : BOOLEAN, dropped : BOOLEAN,
                          told : {"no", "lost", "error"}]]
  /\ lost \subseteq Streams /\ old \subseteq Streams
  /\ sends \in [Streams -> Nat]

Users(a) == {s \in Streams : pc[s] \in Selected /\ app[s] = a}

\* Every selection of an app is counted once and released once, whatever fails
\* on the way: an app serves exactly when it is on the active list, and it is
\* on one list only.
SelectionsCounted ==
  \A a \in Apps :
    /\ inUse[a] = Cardinality(Users(a))
    /\ a \in apps <=> inUse[a] > 0
    /\ a \in idleApps => a \notin apps

\* The limits hold: apps in service and apps that could be are never more than
\* maxApps, also while earlier ones die and idle ones are taken and given back;
\* and since a selected app is busy from its selection, not from when the request
\* is connected, no more than multiplex streams ever hold one.
LimitsHold ==
  /\ Cardinality(apps \cup {a \in idleApps : Fit(a)}) <= MaxApps
  /\ \A a \in Apps : Cardinality(Users(a)) <= route.multiplex

\* No request is left waiting on an app that was reaped: the exit check and the
\* registration exclude the SIGCHLD handler, so that either the exit is seen or
\* the request is told.
ReapedIsTold ==
  \A s \in Streams :
    pc[s] = "active" /\ route.launch /\ proc[app[s]] = "none" =>
      s \in lost \/ req[s].told # "no"

\* A stream is told that its app was lost only when that app is condemned: an
\* event queued for an earlier request on the stream does it no harm.
BlamedRightly ==
  \A s \in Streams :
    pc[s] = "active" /\ req[s].told = "lost" => ~Fit(app[s])

\* A request that may have acted is given to one app only, any other to two at
\* most, whichever ways the retries of connectFastRequest and of retryFastRequest
\* combine.
SentOnce == \A s \in Streams : sends[s] <= IF s \in safe THEN 2 ELSE 1

\* A connection is not given to another request with an answer still to come.
NoForeignAnswer ==
  \A s \in Streams : pc[s] = "register" => sock[s] # "stale"

\* No process is left behind: one that runs is on a list, from which shutdown
\* and the timer kill it, or has been killed.
NoProcessLeaked ==
  \A a \in Apps : proc[a] = "running" => a \in apps \cup idleApps \/ Destroyed(a)

=============================================================================
