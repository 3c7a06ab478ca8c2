--------------------------- MODULE FastPoolProofs ---------------------------
(***************************************************************************)
(* Proofs about FastPool, for any number of streams and applications and   *)
(* any limits: every invariant that its run checks, from one inductive     *)
(* invariant.                                                              *)
(***************************************************************************)
EXTENDS FastPool, TLAPS, FiniteSetTheorems, SequenceTheorems

-----------------------------------------------------------------------------
(* The inductive invariant *)

PoolTyped ==
  /\ route \in [launch : BOOLEAN, multiplex : 1 .. Multiplex]
  /\ apps \subseteq Apps /\ idleApps \subseteq Apps
  /\ inUse \in [Apps -> Nat]
  /\ status \in [Apps -> {"free", "fit", "marked", "dead", "noexec"}]
  /\ proc \in [Apps -> {"none", "running", "exited"}]
  /\ nextID \in [Apps -> 1 .. MaxRequests]

SocketsTyped == sockets \in [Apps -> Seq(Connections)]

StreamsTyped ==
  /\ pc \in [Streams -> {"free", "get"} \cup Selected]
  /\ app \in [Streams -> Apps \cup {None}]
  /\ sock \in [Streams -> Connections \cup {None}]
  /\ safe \subseteq Streams /\ again \subseteq Streams /\ resent \subseteq Streams
  /\ lost \subseteq Streams /\ old \subseteq Streams
  /\ sends \in [Streams -> Nat]

Request ==
  [sent : BOOLEAN, wire : {"none", "part", "end"}, answered : BOOLEAN, ended : BOOLEAN,
   eof : BOOLEAN, dropped : BOOLEAN, told : {"no", "lost", "error"}]
ReqTyped == req \in [Streams -> Request]

\* A stream has an app just while it is in one of these places.
Chosen == \A s \in Streams : pc[s] \in Selected <=> app[s] # None

\* What is on a list exists; what is on none is dead, or garbage without a process.
Listed ==
  \A a \in Apps :
    /\ status[a] = "free" => a \notin apps \cup idleApps /\ proc[a] = "none"
    /\ a \notin apps \cup idleApps => status[a] \in {"free", "dead"}
    /\ a \in idleApps => status[a] \in {"fit", "dead"}

\* An app that is started here has its process until it is reaped.
Alive == route.launch => \A a \in Apps : status[a] \in {"fit", "marked"} => proc[a] # "none"

\* A request exists while it is registered.
Registered == \A s \in Streams : pc[s] # "active" => req[s] = NewRequest

\* It is told of the loss of an app only when that app is not fit any more.
LostBlamed == \A s \in lost : pc[s] = "active" /\ ~Fit(app[s])

\* The requests that were given to an app: the current one, and the one that is sent again.
Given ==
  /\ resent \subseteq safe
  /\ \A s \in Streams :
       /\ sends[s] = (IF pc[s] = "active" THEN 1 ELSE 0) + (IF s \in resent THEN 1 ELSE 0)
       /\ pc[s] = "free" => s \notin safe

\* No connection is pooled or taken with an answer still to come.
CleanPool == \A a \in Apps : \A i \in 1 .. Len(sockets[a]) : sockets[a][i] # "stale"
CleanSock == \A s \in Streams : sock[s] # "stale"

\* The apps that count for maxApps
Counted == apps \cup {a \in idleApps : Fit(a)}

Types == PoolTyped /\ SocketsTyped /\ StreamsTyped /\ ReqTyped

IInv ==
  /\ Types /\ Chosen /\ SelectionsCounted /\ Listed /\ LimitsHold /\ Alive /\ Registered
  /\ LostBlamed /\ ReapedIsTold /\ BlamedRightly /\ Given /\ CleanPool /\ CleanSock

-----------------------------------------------------------------------------
(* Sequences and users *)

\* The front and the last of a sequence
LEMMA FrontType ==
  ASSUME NEW T, NEW q \in Seq(T), q # <<>>
  PROVE  /\ Front(q) \in Seq(T) /\ Len(Front(q)) = Len(q) - 1
         /\ \A i \in 1 .. Len(q) - 1 : Front(q)[i] = q[i]
         /\ Len(q) \in 1 .. Len(q) /\ Last(q) = q[Len(q)] /\ Last(q) \in T
<1>1. Len(q) \in Nat \ {0} /\ 1 <= 1 /\ Len(q) - 1 <= Len(q) /\ Len(q) - 1 \in Int
  BY EmptySeq
<1>2. \A i \in 1 .. Len(q) - 1 : q[i] \in T
  BY <1>1, ElementOfSeq
<1>3. /\ Front(q) \in Seq(T) /\ Len(Front(q)) = Len(q) - 1
      /\ \A i \in 1 .. Len(q) - 1 : Front(q)[i] = q[i]
  <2>1. \A i \in 1 .. Len(q) - 1 : SubSeq(q, 1, Len(q) - 1)[i] = q[1 + i - 1]
    BY <1>1, <1>2, SubSeqProperties
  <2>2. SubSeq(q, 1, Len(q) - 1) \in Seq(T)
    BY <1>1, <1>2, SubSeqProperties
  <2>3. Len(SubSeq(q, 1, Len(q) - 1)) = IF 1 <= Len(q) - 1 THEN Len(q) - 1 - 1 + 1 ELSE 0
    BY <1>1, <1>2, SubSeqProperties
  <2>4. Len(SubSeq(q, 1, Len(q) - 1)) = Len(q) - 1
    <3>1. PICK n : n = Len(SubSeq(q, 1, Len(q) - 1))
      OBVIOUS
    <3>2. PICK m : m = Len(q)
      OBVIOUS
    <3>3. n = IF 1 <= m - 1 THEN m - 1 - 1 + 1 ELSE 0
      BY <2>3, <3>1, <3>2, Zenon
    <3>4. m \in Nat \ {0}
      BY <1>1, <3>2, Zenon
    <3>5. n = m - 1
      BY <3>3, <3>4
    <3> QED
      BY <3>1, <3>2, <3>5, Zenon
  <2>5. \A i \in 1 .. Len(q) - 1 : SubSeq(q, 1, Len(q) - 1)[i] = q[i]
    <3>1. \A i \in 1 .. Len(q) - 1 : 1 + i - 1 = i
      BY <1>1
    <3> QED
      BY <2>1, <3>1
  <2> QED
    BY <2>2, <2>4, <2>5 DEF Front
<1>4. Last(q) = q[Len(q)] /\ q[Len(q)] \in T
  BY <1>1, ElementOfSeq DEF Last
<1> QED
  BY <1>1, <1>3, <1>4

\* A sequence and one more
LEMMA AppendType ==
  ASSUME NEW T, NEW q \in Seq(T), NEW x \in T
  PROVE  /\ Append(q, x) \in Seq(T) /\ Len(Append(q, x)) = Len(q) + 1
         /\ \A i \in 1 .. Len(q) + 1 : Append(q, x)[i] = IF i <= Len(q) THEN q[i] ELSE x
BY AppendProperties

\* A new request is a request.
LEMMA NewRequestType == NewRequest \in Request
BY DEF NewRequest, Request

\* An app has finitely many users.
LEMMA UsersFinite ==
  ASSUME NEW a
  PROVE  IsFiniteSet(Users(a)) /\ Cardinality(Users(a)) \in Nat
<1>1. Users(a) \subseteq Streams
  BY DEF Users
<1> QED
  BY <1>1, FastAssumption, FS_Subset, FS_CardinalityType

-----------------------------------------------------------------------------
(* How a stream comes to have an app, and leaves it *)

\* s selects app a: TakeIdle, Launch and Share
Takes(s, a) ==
  /\ pc[s] = "get" /\ a \in Apps /\ Select(s, a)

\* s gives its app back: a registration that fails, a request that is sent again, and its end
Leaves(s) ==
  /\ pc[s] \in {"register", "active"}
  /\ pc'[s] \in {"free", "get"} /\ \A t \in Streams \ {s} : pc'[t] = pc[t]
  /\ app' = [app EXCEPT ![s] = None] /\ sock' = [sock EXCEPT ![s] = None] /\ UNCHANGED route
  /\ \E mark \in BOOLEAN, pool \in {sockets[app[s]], Append(sockets[app[s]], "open")} :
       ReleaseApp(app[s], mark, pool)

\* A step that neither selects nor releases an app
Steady ==
  /\ UNCHANGED <<route, app, inUse, apps>> /\ idleApps' \subseteq idleApps
  /\ \A b \in Apps : Users(b)' = Users(b)

\* Only garbage becomes fit.
NoneRevived == \A a \in Apps : Fit(a)' => Fit(a) \/ status[a] = "free"

\* The three that give back an app
LEMMA LeavesIs ==
  ASSUME StreamsTyped, NEW s \in Streams, RegisterFails(s) \/ (LostEvent(s) /\ CanRetry(s)) \/ Close(s)
  PROVE  Leaves(s)
<1>1. CASE RegisterFails(s)
  <2>1. Destroyed(app[s]) \in BOOLEAN
    BY DEF Destroyed
  <2>2. pc[s] = "register" /\ pc'[s] \in {"free", "get"} /\ \A t \in Streams \ {s} : pc'[t] = pc[t]
    BY <1>1 DEF RegisterFails, Goto, StreamsTyped
  <2> QED
    BY <1>1, <2>1, <2>2 DEF RegisterFails, Leaves
<1>2. CASE LostEvent(s) /\ CanRetry(s)
  <2>1. pc[s] = "active" /\ pc'[s] \in {"free", "get"} /\ \A t \in Streams \ {s} : pc'[t] = pc[t]
    BY <1>2 DEF LostEvent, Resend, Goto, StreamsTyped
  <2> QED
    BY <1>2, <2>1 DEF LostEvent, Resend, Leaves
<1>3. CASE Close(s)
  <2>1. pc[s] = "active" /\ pc'[s] \in {"free", "get"} /\ \A t \in Streams \ {s} : pc'[t] = pc[t]
    BY <1>3 DEF Close, Goto, StreamsTyped
  <2>2. CASE keep /\ req[s].ended /\ sock[s] # "closed"
    BY <1>3, <2>1, <2>2 DEF Close, Leaves
  <2>3. CASE ~(keep /\ req[s].ended /\ sock[s] # "closed")
    BY <1>3, <2>1, <2>3 DEF Close, Leaves
  <2> QED
    BY <2>2, <2>3
<1> QED
  BY <1>1, <1>2, <1>3

\* A release keeps the types of the pool.
LEMMA LeavesTyped ==
  ASSUME Types, Chosen, SelectionsCounted, NEW s \in Streams, Leaves(s)
  PROVE  PoolTyped' /\ SocketsTyped'
<1>1. PICK mark \in BOOLEAN, pool \in {sockets[app[s]], Append(sockets[app[s]], "open")} :
        ReleaseApp(app[s], mark, pool)
  BY DEF Leaves
<1>2. app[s] \in Apps
  BY DEF Leaves, Chosen, Selected, Types, StreamsTyped
<1>3. pool \in Seq(Connections)
  BY <1>2, AppendType, SMTT(30) DEF Types, SocketsTyped, Connections
<1>4. SocketsTyped'
  BY <1>1, <1>2, <1>3 DEF ReleaseApp, Types, SocketsTyped
<1>5. inUse' \in [Apps -> Nat]
  <2>1. s \in Users(app[s])
    BY <1>2 DEF Users, Leaves, Selected
  <2>2. Cardinality(Users(app[s])) # 0
    BY <2>1, UsersFinite, FS_EmptySet
  <2>3. inUse[app[s]] \in Nat \ {0}
    BY <1>2, <2>2 DEF SelectionsCounted, Types, PoolTyped
  <2> QED
    BY <1>1, <1>2, <2>3 DEF ReleaseApp, Types, PoolTyped
<1>6. apps' \subseteq Apps /\ idleApps' \subseteq Apps
  BY <1>1, <1>2 DEF ReleaseApp, Types, PoolTyped
<1>7. status' \in [Apps -> {"free", "fit", "marked", "dead", "noexec"}]
  BY <1>1, <1>2 DEF ReleaseApp, Types, PoolTyped
<1>8. nextID' \in [Apps -> 1 .. MaxRequests]
  BY <1>1, <1>2, FastAssumption DEF ReleaseApp, Types, PoolTyped
<1> QED
  BY <1>1, <1>4, <1>5, <1>6, <1>7, <1>8 DEF ReleaseApp, Leaves, Types, PoolTyped

-----------------------------------------------------------------------------
(* One lemma per part *)

\* The pool keeps its types.
LEMMA PoolTypedStep ==
  ASSUME Types, SelectionsCounted, Chosen, [Next]_vars
  PROVE  PoolTyped'
<1>1. ASSUME NEW s \in Streams, TakeIdle(s) PROVE PoolTyped'
  BY <1>1, FastAssumption DEF TakeIdle, Select, Goto, Fit, PoolTyped, Types, StreamsTyped, Selected, Chosen
<1>2. ASSUME NEW s \in Streams, Launch(s) PROVE PoolTyped'
  BY <1>2, FastAssumption DEF Launch, Select, Goto, NoneIdle, Fit, PoolTyped, Types, StreamsTyped, Selected,
      Chosen
<1>3. ASSUME NEW s \in Streams, Share(s) PROVE PoolTyped'
  BY <1>3, FastAssumption DEF Share, Select, Goto, Fit, PoolTyped, Types, StreamsTyped, Selected, Chosen
<1>4. ASSUME NEW s \in Streams, Register(s) PROVE PoolTyped'
  BY <1>4, FastAssumption DEF Register, Goto, Destroyed, PoolTyped, Types, StreamsTyped, Selected, Chosen
<1>5. ASSUME NEW s \in Streams, RegisterFails(s) PROVE PoolTyped'
  BY <1>5, LeavesIs, LeavesTyped DEF Types
<1>6. ASSUME NEW s \in Streams, WriteFails(s) PROVE PoolTyped'
  BY <1>6, FastAssumption DEF WriteFails, ReqUnchanged, Cut, Mark, Requests, PoolTyped, Types, StreamsTyped,
      Selected, Chosen
<1>7. ASSUME NEW s \in Streams, ReadError(s) PROVE PoolTyped'
  BY <1>7, FastAssumption DEF ReadError, ReqUnchanged, Mark, PoolTyped, Types, StreamsTyped, Selected, Chosen
<1>8. ASSUME NEW s \in Streams, LostEvent(s) PROVE PoolTyped'
  <2>1. CASE CanRetry(s)
    BY <1>8, <2>1, LeavesIs, LeavesTyped DEF Types
  <2>2. CASE ~CanRetry(s)
    BY <1>8, <2>2 DEF LostEvent, ReqUnchanged, Types, PoolTyped
  <2> QED
    BY <2>1, <2>2
<1>9. ASSUME NEW s \in Streams, Close(s) PROVE PoolTyped'
  BY <1>9, LeavesIs, LeavesTyped DEF Types
<1>10. ASSUME NEW a \in Apps, Reap(a) PROVE PoolTyped'
  BY <1>10, FastAssumption DEF Reap, Requests, PoolTyped, Types, StreamsTyped, Selected, Chosen
<1>11. ASSUME NEW a \in Apps, AppExits(a) PROVE PoolTyped'
  BY <1>11, FastAssumption DEF AppExits, AppUnchanged, PoolTyped, Types, StreamsTyped, Selected, Chosen
<1>12. ASSUME Maintain PROVE PoolTyped'
  BY <1>12, FastAssumption DEF Maintain, Kill, PoolTyped, Types, StreamsTyped, Selected, Chosen
<1>13. ASSUME Terminate PROVE PoolTyped'
  BY <1>13, FastAssumption DEF Terminate, Kill, PoolTyped, Types, StreamsTyped, Selected, Chosen
<1>14. ASSUME \/ \E s \in Streams : Open(s) \/ NoApp(s) \/ PopSocket(s) \/ NoSocket(s)
                    \/ Connect(s) \/ ConnectFails(s) \/ Write(s) \/ Read(s) \/ ReadEof(s)
                    \/ OldEvent(s) \/ AppAnswers(s) \/ AppDrops(s)
              \/ \E a \in Apps : AppClosesIdle(a)
              \/ UNCHANGED vars
     PROVE  PoolTyped'
  <2>1. UNCHANGED <<route, apps, idleApps, inUse, status, proc, nextID>>
    BY <1>14, SMT, ZenonT(60) DEF Open, Goto, NoApp, Finish, PopSocket, NoSocket, Connect, ConnectFails, Write,
        ReqUnchanged, Read, ReadEof, OldEvent, AppAnswers, AppUnchanged, AppDrops, AppClosesIdle, vars,
            poolVars, streamVars
  <2> QED
    BY <2>1 DEF PoolTyped, Types, StreamsTyped, Selected, Chosen
<1> QED
  BY <1>1, <1>2, <1>3, <1>4, <1>5, <1>6, <1>7, <1>8, <1>9, <1>10, <1>11, <1>12, <1>13,
     <1>14 DEF Next

\* The streams keep their types.
LEMMA StreamsTypedStep ==
  ASSUME Types, Chosen, [Next]_vars
  PROVE  StreamsTyped'
<1>1. ASSUME NEW s \in Streams, Open(s) PROVE StreamsTyped'
  BY <1>1, FastAssumption DEF Open, Goto, StreamsTyped, Types, PoolTyped, SocketsTyped, Selected, Connections
<1>2. ASSUME NEW s \in Streams, TakeIdle(s) PROVE StreamsTyped'
  BY <1>2, FastAssumption DEF TakeIdle, Select, Goto, Fit, StreamsTyped, Types, PoolTyped, SocketsTyped,
      Selected, Connections
<1>3. ASSUME NEW s \in Streams, Launch(s) PROVE StreamsTyped'
  BY <1>3, FastAssumption DEF Launch, Select, Goto, NoneIdle, Fit, StreamsTyped, Types, PoolTyped,
      SocketsTyped, Selected, Connections
<1>4. ASSUME NEW s \in Streams, Share(s) PROVE StreamsTyped'
  BY <1>4, FastAssumption DEF Share, Select, Goto, Fit, StreamsTyped, Types, PoolTyped, SocketsTyped, Selected,
      Connections
<1>5. ASSUME NEW s \in Streams, NoApp(s) PROVE StreamsTyped'
  BY <1>5, FastAssumption DEF NoApp, Finish, Goto, StreamsTyped, Types, PoolTyped, SocketsTyped, Selected,
      Connections
<1>6. ASSUME NEW s \in Streams, PopSocket(s) PROVE StreamsTyped'
  <2>1. app[s] \in Apps
    BY <1>6, FastAssumption DEF PopSocket, Types, StreamsTyped, Chosen, Selected
  <2>2. Last(sockets[app[s]]) \in Connections
    BY <1>6, <2>1, FrontType DEF PopSocket, Types, SocketsTyped
  <2> QED
    BY <1>6, <2>2 DEF PopSocket, Goto, Types, StreamsTyped, Selected
<1>7. ASSUME NEW s \in Streams, NoSocket(s) PROVE StreamsTyped'
  BY <1>7, FastAssumption DEF NoSocket, Goto, StreamsTyped, Types, PoolTyped, SocketsTyped, Selected,
      Connections
<1>8. ASSUME NEW s \in Streams, Connect(s) PROVE StreamsTyped'
  BY <1>8, FastAssumption DEF Connect, Goto, StreamsTyped, Types, PoolTyped, SocketsTyped, Selected, Connections
<1>9. ASSUME NEW s \in Streams, ConnectFails(s) PROVE StreamsTyped'
  BY <1>9, FastAssumption DEF ConnectFails, Goto, StreamsTyped, Types, PoolTyped, SocketsTyped, Selected,
      Connections
<1>10. ASSUME NEW s \in Streams, Register(s) PROVE StreamsTyped'
  BY <1>10, FastAssumption DEF Register, Goto, Destroyed, StreamsTyped, Types, PoolTyped, SocketsTyped,
      Selected, Connections
<1>11. ASSUME NEW s \in Streams, RegisterFails(s) PROVE StreamsTyped'
  <2>1. pc' \in [Streams -> {"free", "get"} \cup Selected]
    BY <1>11, SMTT(30) DEF RegisterFails, ReleaseApp, Finish, Goto, Destroyed, Fit, StreamsTyped, Types,
        Selected
  <2>2. app' \in [Streams -> Apps \cup {None}]
    BY <1>11, SMTT(30) DEF RegisterFails, ReleaseApp, Finish, Goto, Destroyed, Fit, StreamsTyped, Types,
        Selected
  <2>3. sock' \in [Streams -> Connections \cup {None}]
    BY <1>11, SMTT(30) DEF RegisterFails, ReleaseApp, Finish, Goto, Destroyed, Fit, StreamsTyped, Types,
        Selected
  <2>4. safe' \subseteq Streams /\ again' \subseteq Streams /\ resent' \subseteq Streams
    BY <1>11, SMTT(30) DEF RegisterFails, ReleaseApp, Finish, Goto, Destroyed, Fit, StreamsTyped, Types,
        Selected
  <2>5. lost' \subseteq Streams /\ old' \subseteq Streams
    BY <1>11, SMTT(30) DEF RegisterFails, ReleaseApp, Finish, Goto, Destroyed, Fit, StreamsTyped, Types,
        Selected
  <2>6. sends' \in [Streams -> Nat]
    BY <1>11, SMTT(30) DEF RegisterFails, ReleaseApp, Finish, Goto, Destroyed, Fit, StreamsTyped, Types,
        Selected
  <2> QED
    BY <1>11, <2>1, <2>2, <2>3, <2>4, <2>5, <2>6 DEF RegisterFails, StreamsTyped, Types, Selected
<1>12. ASSUME NEW s \in Streams, WriteFails(s) PROVE StreamsTyped'
  BY <1>12, FastAssumption DEF WriteFails, ReqUnchanged, Cut, Mark, Requests, StreamsTyped, Types, PoolTyped,
      SocketsTyped, Selected, Connections
<1>13. ASSUME NEW s \in Streams, ReadEof(s) PROVE StreamsTyped'
  BY <1>13, FastAssumption DEF ReadEof, ReqUnchanged, Cut, StreamsTyped, Types, PoolTyped, SocketsTyped,
      Selected, Connections
<1>14. ASSUME NEW s \in Streams, LostEvent(s) PROVE StreamsTyped'
  <2>1. pc' \in [Streams -> {"free", "get"} \cup Selected]
    BY <1>14, SMTT(30) DEF LostEvent, Resend, ReleaseApp, Unregister, Goto, ReqUnchanged, CanRetry, Fit,
        StreamsTyped, Types, Selected
  <2>2. app' \in [Streams -> Apps \cup {None}]
    BY <1>14, SMTT(30) DEF LostEvent, Resend, ReleaseApp, Unregister, Goto, ReqUnchanged, CanRetry, Fit,
        StreamsTyped, Types, Selected
  <2>3. sock' \in [Streams -> Connections \cup {None}]
    BY <1>14, SMTT(30) DEF LostEvent, Resend, ReleaseApp, Unregister, Goto, ReqUnchanged, CanRetry, Fit,
        StreamsTyped, Types, Selected
  <2>4. safe' \subseteq Streams /\ again' \subseteq Streams /\ resent' \subseteq Streams
    BY <1>14, SMTT(30) DEF LostEvent, Resend, ReleaseApp, Unregister, Goto, ReqUnchanged, CanRetry, Fit,
        StreamsTyped, Types, Selected
  <2>5. lost' \subseteq Streams /\ old' \subseteq Streams
    BY <1>14, SMTT(30) DEF LostEvent, Resend, ReleaseApp, Unregister, Goto, ReqUnchanged, CanRetry, Fit,
        StreamsTyped, Types, Selected
  <2>6. sends' \in [Streams -> Nat]
    BY <1>14, SMTT(30) DEF LostEvent, Resend, ReleaseApp, Unregister, Goto, ReqUnchanged, CanRetry, Fit,
        StreamsTyped, Types, Selected
  <2> QED
    BY <1>14, <2>1, <2>2, <2>3, <2>4, <2>5, <2>6 DEF LostEvent, StreamsTyped, Types, Selected
<1>15. ASSUME NEW s \in Streams, OldEvent(s) PROVE StreamsTyped'
  BY <1>15, FastAssumption DEF OldEvent, ReqUnchanged, StreamsTyped, Types, PoolTyped, SocketsTyped, Selected,
      Connections
<1>16. ASSUME NEW s \in Streams, Close(s) PROVE StreamsTyped'
  BY <1>16, FastAssumption DEF Close, ReleaseApp, Unregister, Finish, Goto, Fit, StreamsTyped, Types,
      PoolTyped, SocketsTyped, Selected, Connections
<1>17. ASSUME NEW a \in Apps, Reap(a) PROVE StreamsTyped'
  <2>1. Requests(a) \subseteq Streams
    BY DEF Requests
  <2> QED
    BY <1>17, <2>1 DEF Reap, streamVars, StreamsTyped, Types
<1>18. ASSUME \/ \E s \in Streams : Write(s) \/ Read(s) \/ ReadError(s) \/ AppAnswers(s)
                    \/ AppDrops(s)
              \/ \E a \in Apps : AppExits(a) \/ AppClosesIdle(a)
              \/ Maintain
              \/ Terminate
              \/ UNCHANGED vars
     PROVE  StreamsTyped'
  <2>1. UNCHANGED <<pc, app, sock, safe, again, resent, lost, old, sends>>
    BY <1>18, SMT, ZenonT(60) DEF Write, ReqUnchanged, Read, ReadError, AppAnswers, AppUnchanged, AppDrops,
        AppExits, AppClosesIdle, Maintain, Terminate, vars, poolVars, streamVars
  <2> QED
    BY <2>1 DEF StreamsTyped, Types, PoolTyped, SocketsTyped, Selected, Connections
<1> QED
  BY <1>1, <1>2, <1>3, <1>4, <1>5, <1>6, <1>7, <1>8, <1>9, <1>10, <1>11, <1>12, <1>13,
     <1>14, <1>15, <1>16, <1>17, <1>18 DEF Next

\* The pooled connections keep their types.
LEMMA SocketsTypedStep ==
  ASSUME Types, Chosen, SelectionsCounted, [Next]_vars
  PROVE  SocketsTyped'
<1>1. ASSUME NEW s \in Streams, PopSocket(s) PROVE SocketsTyped'
  <2>1. app[s] \in Apps
    BY <1>1, FastAssumption DEF PopSocket, Types, StreamsTyped, Chosen, Selected
  <2>2. Front(sockets[app[s]]) \in Seq(Connections)
    BY <1>1, <2>1, FrontType DEF PopSocket, Types, SocketsTyped
  <2> QED
    BY <1>1, <2>1, <2>2 DEF PopSocket, Types, SocketsTyped
<1>2. ASSUME NEW s \in Streams, RegisterFails(s) PROVE SocketsTyped'
  BY <1>2, LeavesIs, LeavesTyped DEF Types
<1>3. ASSUME NEW s \in Streams, LostEvent(s) PROVE SocketsTyped'
  <2>1. CASE CanRetry(s)
    BY <1>3, <2>1, LeavesIs, LeavesTyped DEF Types
  <2>2. CASE ~CanRetry(s)
    BY <1>3, <2>2 DEF LostEvent, ReqUnchanged, Types, SocketsTyped
  <2> QED
    BY <2>1, <2>2
<1>4. ASSUME NEW s \in Streams, Close(s) PROVE SocketsTyped'
  BY <1>4, LeavesIs, LeavesTyped DEF Types
<1>5. ASSUME NEW a \in Apps, Reap(a) PROVE SocketsTyped'
  BY <1>5, FastAssumption DEF Reap, Requests, SocketsTyped, Types, Connections, StreamsTyped, Selected
<1>6. ASSUME NEW a \in Apps, AppClosesIdle(a) PROVE SocketsTyped'
  BY <1>6, FastAssumption DEF AppClosesIdle, AppUnchanged, SocketsTyped, Types, Connections, StreamsTyped,
      Selected
<1>7. ASSUME \/ \E s \in Streams : Open(s) \/ TakeIdle(s) \/ Launch(s) \/ Share(s)
                   \/ NoApp(s) \/ NoSocket(s) \/ Connect(s) \/ ConnectFails(s) \/ Register(s)
                   \/ Write(s) \/ WriteFails(s) \/ Read(s) \/ ReadError(s) \/ ReadEof(s)
                   \/ OldEvent(s) \/ AppAnswers(s) \/ AppDrops(s)
             \/ \E a \in Apps : AppExits(a)
             \/ Maintain
             \/ Terminate
             \/ UNCHANGED vars
     PROVE  SocketsTyped'
  <2>1. UNCHANGED <<sockets>>
    BY <1>7, SMT, ZenonT(60) DEF Open, Goto, TakeIdle, Select, Launch, Share, NoApp, Finish, NoSocket, Connect,
        ConnectFails, Register, Write, ReqUnchanged, WriteFails, Read, ReadError, ReadEof, OldEvent,
            AppAnswers, AppUnchanged, AppDrops, AppExits, Maintain, Terminate, vars, poolVars, streamVars
  <2> QED
    BY <2>1 DEF SocketsTyped, Types, Connections, StreamsTyped, Selected
<1> QED
  BY <1>1, <1>2, <1>3, <1>4, <1>5, <1>6, <1>7 DEF Next

\* The requests keep their types.
LEMMA ReqTypedStep ==
  ASSUME Types, [Next]_vars
  PROVE  ReqTyped'
<1>1. ASSUME NEW s \in Streams, Write(s) PROVE ReqTyped'
  BY <1>1, SMT, ZenonT(60) DEF Write, ReqUnchanged, ReqTyped, Types, Request, NewRequest
<1>2. ASSUME NEW s \in Streams, WriteFails(s) PROVE ReqTyped'
  BY <1>2, SMT, ZenonT(60) DEF WriteFails, ReqUnchanged, Cut, Mark, Requests, ReqTyped, Types, Request,
      NewRequest
<1>3. ASSUME NEW s \in Streams, Read(s) PROVE ReqTyped'
  BY <1>3, SMT, ZenonT(60) DEF Read, ReqUnchanged, ReqTyped, Types, Request, NewRequest
<1>4. ASSUME NEW s \in Streams, ReadError(s) PROVE ReqTyped'
  BY <1>4, SMT, ZenonT(60) DEF ReadError, ReqUnchanged, Mark, ReqTyped, Types, Request, NewRequest
<1>5. ASSUME NEW s \in Streams, ReadEof(s) PROVE ReqTyped'
  BY <1>5, SMT, ZenonT(60) DEF ReadEof, ReqUnchanged, Cut, ReqTyped, Types, Request, NewRequest
<1>6. ASSUME NEW s \in Streams, LostEvent(s) PROVE ReqTyped'
  <2>1. CASE CanRetry(s)
    BY <1>6, <2>1, NewRequestType DEF LostEvent, Resend, Unregister, Types, ReqTyped
  <2>2. CASE ~CanRetry(s)
    BY <1>6, <2>2 DEF LostEvent, Types, ReqTyped, Request
  <2> QED
    BY <2>1, <2>2
<1>7. ASSUME NEW s \in Streams, Close(s) PROVE ReqTyped'
  BY <1>7, SMT, ZenonT(60) DEF Close, ReleaseApp, Unregister, Finish, Goto, Fit, ReqTyped, Types, Request,
      NewRequest
<1>8. ASSUME NEW s \in Streams, AppAnswers(s) PROVE ReqTyped'
  BY <1>8, SMT, ZenonT(60) DEF AppAnswers, AppUnchanged, ReqTyped, Types, Request, NewRequest
<1>9. ASSUME NEW s \in Streams, AppDrops(s) PROVE ReqTyped'
  BY <1>9, SMT, ZenonT(60) DEF AppDrops, AppUnchanged, ReqTyped, Types, Request, NewRequest
<1>10. ASSUME \/ \E s \in Streams : Open(s) \/ TakeIdle(s) \/ Launch(s) \/ Share(s)
                    \/ NoApp(s) \/ PopSocket(s) \/ NoSocket(s) \/ Connect(s)
                    \/ ConnectFails(s) \/ Register(s) \/ RegisterFails(s) \/ OldEvent(s)
              \/ \E a \in Apps : Reap(a) \/ AppExits(a) \/ AppClosesIdle(a)
              \/ Maintain
              \/ Terminate
              \/ UNCHANGED vars
     PROVE  ReqTyped'
  <2>1. UNCHANGED <<req>>
    BY <1>10, SMT, ZenonT(60) DEF Open, Goto, TakeIdle, Select, Launch, Share, NoApp, Finish, PopSocket,
        NoSocket, Connect, ConnectFails, Register, RegisterFails, OldEvent, ReqUnchanged, Reap, AppExits,
            AppUnchanged, AppClosesIdle, Maintain, Terminate, vars, poolVars, streamVars
  <2> QED
    BY <2>1 DEF ReqTyped, Types, Request, NewRequest
<1> QED
  BY <1>1, <1>2, <1>3, <1>4, <1>5, <1>6, <1>7, <1>8, <1>9, <1>10 DEF Next

\* Selecting and releasing an app go with the place of the stream.
LEMMA ChosenStep ==
  ASSUME Types, Chosen, [Next]_vars
  PROVE  Chosen'
<1>1. ASSUME NEW s \in Streams, Open(s) PROVE Chosen'
  BY <1>1, FastAssumption DEF Open, Goto, Chosen, Types, StreamsTyped, PoolTyped, Selected
<1>2. ASSUME NEW s \in Streams, TakeIdle(s) PROVE Chosen'
  BY <1>2, FastAssumption DEF TakeIdle, Select, Goto, Fit, Chosen, Types, StreamsTyped, PoolTyped, Selected
<1>3. ASSUME NEW s \in Streams, Launch(s) PROVE Chosen'
  BY <1>3, FastAssumption DEF Launch, Select, Goto, NoneIdle, Fit, Chosen, Types, StreamsTyped, PoolTyped,
      Selected
<1>4. ASSUME NEW s \in Streams, Share(s) PROVE Chosen'
  BY <1>4, FastAssumption DEF Share, Select, Goto, Fit, Chosen, Types, StreamsTyped, PoolTyped, Selected
<1>5. ASSUME NEW s \in Streams, NoApp(s) PROVE Chosen'
  BY <1>5, FastAssumption DEF NoApp, Finish, Goto, Chosen, Types, StreamsTyped, PoolTyped, Selected
<1>6. ASSUME NEW s \in Streams, PopSocket(s) PROVE Chosen'
  BY <1>6, FastAssumption DEF PopSocket, Goto, Front, Last, Chosen, Types, StreamsTyped, PoolTyped, Selected
<1>7. ASSUME NEW s \in Streams, NoSocket(s) PROVE Chosen'
  BY <1>7, FastAssumption DEF NoSocket, Goto, Chosen, Types, StreamsTyped, PoolTyped, Selected
<1>8. ASSUME NEW s \in Streams, Connect(s) PROVE Chosen'
  BY <1>8, FastAssumption DEF Connect, Goto, Chosen, Types, StreamsTyped, PoolTyped, Selected
<1>9. ASSUME NEW s \in Streams, ConnectFails(s) PROVE Chosen'
  BY <1>9, FastAssumption DEF ConnectFails, Goto, Chosen, Types, StreamsTyped, PoolTyped, Selected
<1>10. ASSUME NEW s \in Streams, Register(s) PROVE Chosen'
  BY <1>10, FastAssumption DEF Register, Goto, Destroyed, Chosen, Types, StreamsTyped, PoolTyped, Selected
<1>11. ASSUME NEW s \in Streams, RegisterFails(s) PROVE Chosen'
  BY <1>11, FastAssumption DEF RegisterFails, ReleaseApp, Finish, Goto, Destroyed, Fit, Chosen, Types,
      StreamsTyped, PoolTyped, Selected
<1>12. ASSUME NEW s \in Streams, LostEvent(s) PROVE Chosen'
  BY <1>12, FastAssumption DEF LostEvent, Resend, ReleaseApp, Unregister, Goto, ReqUnchanged, CanRetry, Fit,
      Chosen, Types, StreamsTyped, PoolTyped, Selected
<1>13. ASSUME NEW s \in Streams, Close(s) PROVE Chosen'
  BY <1>13, FastAssumption DEF Close, ReleaseApp, Unregister, Finish, Goto, Fit, Chosen, Types, StreamsTyped,
      PoolTyped, Selected
<1>14. ASSUME \/ \E s \in Streams : Write(s) \/ WriteFails(s) \/ Read(s) \/ ReadError(s)
                    \/ ReadEof(s) \/ OldEvent(s) \/ AppAnswers(s) \/ AppDrops(s)
              \/ \E a \in Apps : Reap(a) \/ AppExits(a) \/ AppClosesIdle(a)
              \/ Maintain
              \/ Terminate
              \/ UNCHANGED vars
     PROVE  Chosen'
  <2>1. UNCHANGED <<pc, app>>
    BY <1>14, SMT, ZenonT(60) DEF Write, ReqUnchanged, WriteFails, Read, ReadError, ReadEof, OldEvent,
        AppAnswers, AppUnchanged, AppDrops, Reap, AppExits, AppClosesIdle, Maintain, Terminate, vars, poolVars,
            streamVars
  <2> QED
    BY <2>1 DEF Chosen, Types, StreamsTyped, PoolTyped, Selected
<1> QED
  BY <1>1, <1>2, <1>3, <1>4, <1>5, <1>6, <1>7, <1>8, <1>9, <1>10, <1>11, <1>12, <1>13,
     <1>14 DEF Next

-----------------------------------------------------------------------------
(* The users of an app *)

\* A selection adds the stream to the users of the app, and to no other.
LEMMA UsersTaken ==
  ASSUME Types, Chosen, NEW s \in Streams, NEW a \in Apps, Takes(s, a)
  PROVE  /\ s \notin Users(a) /\ Users(a)' = Users(a) \cup {s}
         /\ \A b \in Apps \ {a} : Users(b)' = Users(b)
<1>1. /\ pc'[s] = "pop" /\ app'[s] = a /\ app[s] = None /\ a # None
      /\ \A t \in Streams \ {s} : pc'[t] = pc[t] /\ app'[t] = app[t]
  BY FastAssumption DEF Takes, Select, Goto, Types, StreamsTyped, Chosen, Selected
<1> QED
  BY <1>1, FastAssumption DEF Users, Selected

\* A release takes away the stream from the users of its app, and no other.
LEMMA UsersLeft ==
  ASSUME Types, Chosen, NEW s \in Streams, Leaves(s)
  PROVE  \E a \in Apps :
           /\ a = app[s] /\ s \in Users(a) /\ Users(a)' = Users(a) \ {s}
           /\ \A b \in Apps \ {a} : Users(b)' = Users(b)
<1>1. app[s] \in Apps /\ pc[s] \in Selected /\ pc'[s] \notin Selected
  BY DEF Leaves, Types, StreamsTyped, Chosen, Selected
<1>2. \A t \in Streams \ {s} : pc'[t] = pc[t] /\ app'[t] = app[t]
  BY DEF Leaves, Types, StreamsTyped
<1>3. PICK a \in Apps : a = app[s]
  BY <1>1
<1>4. s \in Users(a) /\ \A b \in Apps : Users(b)' = Users(b) \ {s}
  BY <1>1, <1>2, <1>3 DEF Users
<1>5. \A b \in Apps \ {a} : s \notin Users(b)
  BY <1>3 DEF Users
<1> QED
  BY <1>3, <1>4, <1>5

\* Who uses an app depends on the places and the choices of the streams.
LEMMA UsersSame ==
  ASSUME Types, UNCHANGED app,
         \A s \in Streams : pc[s] \in Selected <=> pc'[s] \in Selected
  PROVE  \A b \in Apps : Users(b)' = Users(b)
BY DEF Users

\* Only a selection and a release change who uses an app.
LEMMA StaysSelected ==
  ASSUME Types, [Next]_vars
  PROVE  \/ \E s \in Streams : TakeIdle(s) \/ Launch(s) \/ Share(s)
         \/ \E s \in Streams : Leaves(s)
         \/ Steady
<1> DEFINE Same == /\ UNCHANGED <<route, app, inUse, apps>> /\ idleApps' \subseteq idleApps
                   /\ \A t \in Streams : pc[t] \in Selected <=> pc'[t] \in Selected
<1>1. ASSUME NEW s \in Streams,
             Open(s) \/ NoApp(s) \/ PopSocket(s) \/ NoSocket(s) \/ Connect(s) \/ ConnectFails(s) \/ Register(s)
      PROVE  Same
  BY <1>1 DEF Open, NoApp, PopSocket, NoSocket, Connect, ConnectFails, Register, Goto, Selected, Types,
     StreamsTyped, poolVars
<1>2. ASSUME NEW s \in Streams,
             Write(s) \/ WriteFails(s) \/ Read(s) \/ ReadError(s) \/ ReadEof(s) \/ OldEvent(s) \/ AppAnswers(s)
               \/ AppDrops(s) \/ (LostEvent(s) /\ ~CanRetry(s))
      PROVE  Same
  BY <1>2 DEF Write, WriteFails, Read, ReadError, ReadEof, OldEvent, AppAnswers, AppDrops, LostEvent,
     ReqUnchanged, AppUnchanged, streamVars
<1>3. ASSUME NEW a \in Apps, Reap(a) \/ AppExits(a) \/ AppClosesIdle(a)
      PROVE  Same
  BY <1>3 DEF Reap, AppExits, AppClosesIdle, AppUnchanged, streamVars
<1>4. ASSUME Maintain \/ Terminate \/ UNCHANGED vars
      PROVE  Same
  BY <1>4 DEF Maintain, Terminate, vars, poolVars, streamVars
<1>5. ASSUME NEW s \in Streams, RegisterFails(s) \/ (LostEvent(s) /\ CanRetry(s)) \/ Close(s)
      PROVE  Leaves(s)
  BY <1>5, LeavesIs DEF Types
<1>6. Same => Steady
  BY UsersSame DEF Steady
<1> HIDE DEF Same
<1> QED
  BY <1>1, <1>2, <1>3, <1>4, <1>5, <1>6 DEF Next

-----------------------------------------------------------------------------
(* Counting *)

\* The three ways to take an app
LEMMA TakesIs ==
  ASSUME Types, Listed, NEW s \in Streams, TakeIdle(s) \/ Launch(s) \/ Share(s)
  PROVE  \E a \in Apps :
           /\ Takes(s, a) /\ apps' = apps \cup {a} /\ idleApps' = idleApps \ {a}
           /\ status' = [status EXCEPT ![a] = status'[a]] /\ proc' = [proc EXCEPT ![a] = proc'[a]]
           /\ \/ /\ a \in idleApps /\ Fit(a) /\ UNCHANGED <<status, proc>>
              \/ /\ status[a] = "free" /\ Cardinality(apps) < MaxApps /\ \A b \in idleApps : ~Fit(b)
                 /\ \/ status'[a] = "fit" /\ (route.launch => proc'[a] = "running")
                    \/ status'[a] = "noexec" /\ proc'[a] = "none"
              \/ /\ a \in apps \ idleApps /\ inUse[a] < route.multiplex /\ UNCHANGED <<status, proc>>
<1>1. CASE TakeIdle(s)
  BY <1>1 DEF TakeIdle, Takes, Types, PoolTyped
<1>2. CASE Launch(s)
  <2>1. PICK a \in Apps, executed \in BOOLEAN :
          /\ status[a] = "free"
          /\ apps' = apps \cup {a}
          /\ status' = [status EXCEPT ![a] = IF route.launch /\ ~executed THEN "noexec" ELSE "fit"]
          /\ proc' = [proc EXCEPT ![a] = IF route.launch /\ executed THEN "running" ELSE "none"]
          /\ Select(s, a)
    BY <1>2 DEF Launch
  <2>2. idleApps' = idleApps \ {a}
    BY <1>2, <2>1 DEF Launch, Listed
  <2>3. /\ status'[a] = IF route.launch /\ ~executed THEN "noexec" ELSE "fit"
        /\ proc'[a] = IF route.launch /\ executed THEN "running" ELSE "none"
    BY <2>1 DEF Types, PoolTyped
  <2> QED
    BY <1>2, <2>1, <2>2, <2>3 DEF Launch, NoneIdle, Takes
<1>3. CASE Share(s)
  <2>1. PICK a \in apps : Fit(a) /\ inUse[a] < route.multiplex /\ Select(s, a)
    BY <1>3 DEF Share
  <2>2. a \notin idleApps
    BY <1>3, <2>1 DEF Share, NoneIdle
  <2> QED
    BY <1>3, <2>1, <2>2 DEF Share, Takes, Types, PoolTyped
<1> QED
  BY <1>1, <1>2, <1>3

\* What the release of an app does with it
LEMMA ReleaseIs ==
  ASSUME Types, Chosen, SelectionsCounted, NEW s \in Streams, Leaves(s)
  PROVE  \E a \in Apps :
           /\ a = app[s]
           /\ a \in apps /\ inUse[a] \in Nat \ {0} /\ inUse' = [inUse EXCEPT ![a] = inUse[a] - 1]
           /\ UNCHANGED proc
           /\ \A b \in Apps \ {a} : status'[b] = status[b]
           /\ \/ /\ inUse[a] # 1 /\ UNCHANGED <<apps, idleApps>>
                 /\ status'[a] = status[a] \/ (Fit(a) /\ status'[a] = "marked")
              \/ /\ inUse[a] = 1 /\ apps' = apps \ {a} /\ idleApps' = idleApps \cup {a}
                 /\ UNCHANGED status /\ Fit(a)
              \/ /\ inUse[a] = 1 /\ apps' = apps \ {a} /\ UNCHANGED idleApps
                 /\ status'[a] = IF proc[a] = "none" THEN "free" ELSE "dead"
<1>1. PICK a \in Apps : a = app[s] /\ s \in Users(a)
  BY UsersLeft
<1>2. inUse[a] \in Nat \ {0} /\ a \in apps
  <2>1. Cardinality(Users(a)) # 0
    BY <1>1, UsersFinite, FS_EmptySet
  <2> QED
    BY <1>1, <2>1 DEF SelectionsCounted, Types, PoolTyped
<1>3. PICK mark \in BOOLEAN, pool \in {sockets[a], Append(sockets[a], "open")} : ReleaseApp(a, mark, pool)
  BY <1>1 DEF Leaves
<1>4. /\ inUse' = [inUse EXCEPT ![a] = inUse[a] - 1] /\ UNCHANGED proc
      /\ \A b \in Apps \ {a} : status'[b] = status[b]
  BY <1>1, <1>3 DEF ReleaseApp, Types, PoolTyped
<1>5. CASE inUse[a] # 1
  BY <1>1, <1>2, <1>3, <1>4, <1>5 DEF ReleaseApp, Types, PoolTyped
<1>6. CASE inUse[a] = 1 /\ ~(mark \/ (proc[a] # "none" /\ nextID[a] >= MaxRequests) \/ ~Fit(a))
  <2>1. /\ apps' = apps \ {a} /\ idleApps' = idleApps \cup {a}
        /\ status' = [status EXCEPT ![a] = status[a]]
    BY <1>1, <1>3, <1>6 DEF ReleaseApp
  <2>2. UNCHANGED status
    BY <1>1, <2>1 DEF Types, PoolTyped
  <2> QED
    BY <1>1, <1>2, <1>4, <1>6, <2>1, <2>2
<1>7. CASE inUse[a] = 1 /\ (mark \/ (proc[a] # "none" /\ nextID[a] >= MaxRequests) \/ ~Fit(a))
  <2>1. /\ apps' = apps \ {a} /\ UNCHANGED idleApps
        /\ status' = [status EXCEPT ![a] = IF proc[a] = "none" THEN "free" ELSE "dead"]
    BY <1>1, <1>3, <1>7 DEF ReleaseApp
  <2>2. status'[a] = IF proc[a] = "none" THEN "free" ELSE "dead"
    BY <1>1, <2>1 DEF Types, PoolTyped
  <2> QED
    BY <1>1, <1>2, <1>4, <1>7, <2>1, <2>2
<1> QED
  BY <1>1, <1>5, <1>6, <1>7

\* The count of an app follows its users, and its list follows the count.
LEMMA CountedStep ==
  ASSUME Types, Chosen, Listed, SelectionsCounted, [Next]_vars
  PROVE  SelectionsCounted'
<1>1. ASSUME NEW s \in Streams, TakeIdle(s) \/ Launch(s) \/ Share(s) PROVE SelectionsCounted'
  <2>1. PICK a \in Apps : Takes(s, a) /\ apps' = apps \cup {a} /\ idleApps' = idleApps \ {a}
    BY <1>1, TakesIs
  <2>2. inUse'[a] = inUse[a] + 1 /\ \A b \in Apps \ {a} : inUse'[b] = inUse[b]
    BY <2>1 DEF Takes, Select, Types, PoolTyped
  <2>3. Cardinality(Users(a))' = Cardinality(Users(a)) + 1
    BY <2>1, UsersTaken, UsersFinite, FS_AddElement
  <2>4. inUse[a] \in Nat
    BY DEF Types, PoolTyped
  <2> QED
    BY <2>1, <2>2, <2>3, <2>4, UsersTaken DEF SelectionsCounted
<1>2. ASSUME NEW s \in Streams, Leaves(s) PROVE SelectionsCounted'
  <2>1. PICK a \in Apps :
          /\ a = app[s] /\ s \in Users(a) /\ Users(a)' = Users(a) \ {s}
          /\ \A b \in Apps \ {a} : Users(b)' = Users(b)
    BY <1>2, UsersLeft
  <2>2. /\ inUse'[a] = inUse[a] - 1 /\ \A b \in Apps \ {a} : inUse'[b] = inUse[b]
        /\ a \in apps /\ inUse[a] \in Nat \ {0}
    BY <1>2, <2>1, ReleaseIs DEF Types, PoolTyped
  <2>3. /\ a \in apps' <=> inUse[a] # 1
        /\ \A b \in Apps \ {a} : (b \in apps' <=> b \in apps) /\ (b \in idleApps' <=> b \in idleApps)
        /\ a \in idleApps' => inUse[a] = 1
    BY <1>2, <2>1, <2>2, ReleaseIs DEF SelectionsCounted
  <2>4. Cardinality(Users(a))' = Cardinality(Users(a)) - 1
    BY <2>1, UsersFinite, FS_RemoveElement, SMT, ZenonT(60)
  <2>5. \A b \in Apps \ {a} :
          /\ inUse'[b] = Cardinality(Users(b)')
          /\ (b \in apps' <=> inUse'[b] > 0) /\ (b \in idleApps' => b \notin apps')
    BY <2>1, <2>2, <2>3 DEF SelectionsCounted
  <2>6. inUse'[a] = Cardinality(Users(a)')
    BY <2>2, <2>4 DEF SelectionsCounted
  <2>7. (a \in apps' <=> inUse'[a] > 0) /\ (a \in idleApps' => a \notin apps')
    BY <2>2, <2>3
  <2> QED
    BY <2>5, <2>6, <2>7 DEF SelectionsCounted
<1>3. CASE Steady
  BY <1>3 DEF Steady, SelectionsCounted
<1> QED
  BY <1>1, <1>2, <1>3, StaysSelected

-----------------------------------------------------------------------------
(* The lists and the limits *)

\* An app that a stream has is in service.
LEMMA UserCounts ==
  ASSUME Types, SelectionsCounted, NEW a \in Apps, NEW s \in Users(a)
  PROVE  inUse[a] # 0 /\ a \in apps
<1>1. Cardinality(Users(a)) # 0
  BY UsersFinite, FS_EmptySet
<1> QED
  BY <1>1 DEF SelectionsCounted, Types, PoolTyped

\* Only garbage becomes fit: an app that is condemned stays so until it is garbage.
LEMMA FitAgain ==
  ASSUME Types, Chosen, SelectionsCounted, Listed, [Next]_vars
  PROVE  NoneRevived
<1>1. ASSUME NEW s \in Streams, Launch(s) PROVE NoneRevived
  <2>1. PICK a \in Apps :
          /\ status' = [status EXCEPT ![a] = status'[a]]
          /\ UNCHANGED status \/ status[a] = "free"
    BY <1>1, TakesIs
  <2> QED
    BY <2>1 DEF NoneRevived, Fit, Types, PoolTyped
<1>2. ASSUME NEW s \in Streams, RegisterFails(s) PROVE NoneRevived
  <2>0. Leaves(s)
    BY <1>2, LeavesIs DEF Types
  <2>1. PICK a \in Apps :
        /\ \A b \in Apps \ {a} : status'[b] = status[b]
        /\ status'[a] = status[a] \/ status'[a] \in {"marked", "free", "dead"}
    BY <2>0, ReleaseIs
  <2> QED
    BY <2>1 DEF NoneRevived, Fit
<1>3. ASSUME NEW s \in Streams, WriteFails(s) PROVE NoneRevived
  BY <1>3 DEF WriteFails, ReqUnchanged, Cut, Mark, Requests, NoneRevived, Fit, Types, PoolTyped
<1>4. ASSUME NEW s \in Streams, ReadError(s) PROVE NoneRevived
  BY <1>4 DEF ReadError, ReqUnchanged, Mark, NoneRevived, Fit, Types, PoolTyped
<1>5. ASSUME NEW s \in Streams, LostEvent(s) PROVE NoneRevived
  <2>1. CASE CanRetry(s)
    <3>0. Leaves(s)
      BY <1>5, <2>1, LeavesIs DEF Types
    <3>1. PICK a \in Apps :
          /\ \A b \in Apps \ {a} : status'[b] = status[b]
          /\ status'[a] = status[a] \/ status'[a] \in {"marked", "free", "dead"}
      BY <3>0, ReleaseIs
    <3> QED
      BY <3>1 DEF NoneRevived, Fit
  <2>2. CASE ~CanRetry(s)
    BY <1>5, <2>2 DEF LostEvent, NoneRevived, Fit
  <2> QED
    BY <2>1, <2>2
<1>6. ASSUME NEW s \in Streams, Close(s) PROVE NoneRevived
  <2>0. Leaves(s)
    BY <1>6, LeavesIs DEF Types
  <2>1. PICK a \in Apps :
        /\ \A b \in Apps \ {a} : status'[b] = status[b]
        /\ status'[a] = status[a] \/ status'[a] \in {"marked", "free", "dead"}
    BY <2>0, ReleaseIs
  <2> QED
    BY <2>1 DEF NoneRevived, Fit
<1>7. ASSUME NEW a \in Apps, Reap(a) PROVE NoneRevived
  BY <1>7 DEF Reap, Requests, NoneRevived, Fit, Types, PoolTyped
<1>8. ASSUME Maintain PROVE NoneRevived
  <2>1. PICK killed \in SUBSET {a \in idleApps : proc[a] # "none"} : status' = Kill(killed)
    BY <1>8 DEF Maintain
  <2> QED
    BY <2>1 DEF Kill, NoneRevived, Fit, Types, PoolTyped
<1>9. ASSUME Terminate PROVE NoneRevived
  BY <1>9 DEF Terminate, Kill, NoneRevived, Fit, Types, PoolTyped
<1>10. ASSUME \/ \E s \in Streams : Open(s) \/ TakeIdle(s) \/ Share(s) \/ NoApp(s)
                    \/ PopSocket(s) \/ NoSocket(s) \/ Connect(s) \/ ConnectFails(s)
                    \/ Register(s) \/ Write(s) \/ Read(s) \/ ReadEof(s) \/ OldEvent(s)
                    \/ AppAnswers(s) \/ AppDrops(s)
              \/ \E a \in Apps : AppExits(a) \/ AppClosesIdle(a)
              \/ UNCHANGED vars
     PROVE  NoneRevived
  <2>1. UNCHANGED <<status>>
    BY <1>10, SMT, ZenonT(60) DEF Open, Goto, TakeIdle, Select, Share, NoApp, Finish, PopSocket, NoSocket,
        Connect, ConnectFails, Register, Write, ReqUnchanged, Read, ReadEof, OldEvent, AppAnswers,
            AppUnchanged, AppDrops, AppExits, AppClosesIdle, vars, poolVars, streamVars
  <2> QED
    BY <2>1 DEF NoneRevived, Fit, Types, PoolTyped
<1> QED
  BY <1>1, <1>2, <1>3, <1>4, <1>5, <1>6, <1>7, <1>8, <1>9, <1>10 DEF Next

\* So that an app in use which is not fit does not become fit.
LEMMA CondemnedStays ==
  ASSUME Types, Chosen, SelectionsCounted, Listed, [Next]_vars
  PROVE  \A t \in Streams :
           pc[t] \in Selected =>
             /\ app[t] \in apps /\ app[t] \in Apps /\ status[app[t]] # "free"
             /\ ~Fit(app[t]) => status'[app[t]] # "fit"
<1> SUFFICES ASSUME NEW t \in Streams, pc[t] \in Selected
             PROVE  /\ app[t] \in apps /\ app[t] \in Apps /\ status[app[t]] # "free"
                    /\ ~Fit(app[t]) => status'[app[t]] # "fit"
  OBVIOUS
<1>1. app[t] \in Apps
  BY DEF Chosen, Types, StreamsTyped
<1>2. t \in Users(app[t])
  BY DEF Users
<1>3. app[t] \in apps
  BY <1>1, <1>2, UserCounts
<1>4. PICK a \in Apps : a = app[t]
  BY <1>1
<1>5. Fit(a)' => Fit(a) \/ status[a] = "free"
  BY FitAgain DEF NoneRevived
<1> QED
  BY <1>1, <1>3, <1>4, <1>5 DEF Listed, Fit

\* An app stays on its list, or is retired.
LEMMA ListedStep ==
  ASSUME Types, Chosen, SelectionsCounted, Listed, [Next]_vars
  PROVE  Listed'
<1>1. ASSUME NEW s \in Streams, TakeIdle(s) PROVE Listed'
  <2>1. PICK a \in Apps :
           /\ apps' = apps \cup {a} /\ idleApps' = idleApps \ {a} /\ status'[a] # "free"
           /\ \A b \in Apps \ {a} : status'[b] = status[b] /\ proc'[b] = proc[b]
    <3>1. PICK a \in Apps :
             /\ apps' = apps \cup {a} /\ idleApps' = idleApps \ {a}
             /\ status' = [status EXCEPT ![a] = status'[a]] /\ proc' = [proc EXCEPT ![a] = proc'[a]]
             /\ \/ (a \in idleApps \/ a \in apps) /\ UNCHANGED status
                \/ status'[a] \in {"fit", "noexec"}
      BY <1>1, TakesIs
    <3>2. \A b \in Apps \ {a} : status'[b] = status[b] /\ proc'[b] = proc[b]
      BY <3>1 DEF Types, PoolTyped
    <3> QED
      BY <3>1, <3>2 DEF Listed
  <2> QED
    BY <2>1 DEF Listed
<1>2. ASSUME NEW s \in Streams, Launch(s) PROVE Listed'
  <2>1. PICK a \in Apps :
           /\ apps' = apps \cup {a} /\ idleApps' = idleApps \ {a} /\ status'[a] # "free"
           /\ \A b \in Apps \ {a} : status'[b] = status[b] /\ proc'[b] = proc[b]
    <3>1. PICK a \in Apps :
             /\ apps' = apps \cup {a} /\ idleApps' = idleApps \ {a}
             /\ status' = [status EXCEPT ![a] = status'[a]] /\ proc' = [proc EXCEPT ![a] = proc'[a]]
             /\ \/ (a \in idleApps \/ a \in apps) /\ UNCHANGED status
                \/ status'[a] \in {"fit", "noexec"}
      BY <1>2, TakesIs
    <3>2. \A b \in Apps \ {a} : status'[b] = status[b] /\ proc'[b] = proc[b]
      BY <3>1 DEF Types, PoolTyped
    <3> QED
      BY <3>1, <3>2 DEF Listed
  <2> QED
    BY <2>1 DEF Listed
<1>3. ASSUME NEW s \in Streams, RegisterFails(s) PROVE Listed'
  <2>0. Leaves(s)
    BY <1>3, LeavesIs DEF Types
  <2>1. PICK a \in Apps :
           /\ a \in apps /\ UNCHANGED proc /\ \A b \in Apps \ {a} : status'[b] = status[b]
           /\ \/ UNCHANGED <<apps, idleApps>> /\ (status'[a] = status[a] \/ status'[a] = "marked")
              \/ apps' = apps \ {a} /\ idleApps' = idleApps \cup {a} /\ UNCHANGED status /\ Fit(a)
              \/ /\ apps' = apps \ {a} /\ UNCHANGED idleApps
                 /\ status'[a] = IF proc[a] = "none" THEN "free" ELSE "dead"
    BY <2>0, ReleaseIs
  <2>2. a \notin idleApps
    BY <2>1 DEF SelectionsCounted
  <2> QED
    BY <2>1, <2>2 DEF Listed, Fit
<1>4. ASSUME NEW s \in Streams, WriteFails(s) PROVE Listed'
  <2>1. app[s] \in apps /\ app[s] \in Apps /\ status[app[s]] # "free"
    BY <1>4, CondemnedStays DEF WriteFails, ReadError, Selected
  <2>2. app[s] \notin idleApps
    BY <2>1 DEF SelectionsCounted
  <2> QED
    BY <1>4, <2>1, <2>2 DEF WriteFails, ReadError, ReqUnchanged, Mark, Listed, Types, PoolTyped
<1>5. ASSUME NEW s \in Streams, ReadError(s) PROVE Listed'
  <2>1. app[s] \in apps /\ app[s] \in Apps /\ status[app[s]] # "free"
    BY <1>5, CondemnedStays DEF WriteFails, ReadError, Selected
  <2>2. app[s] \notin idleApps
    BY <2>1 DEF SelectionsCounted
  <2> QED
    BY <1>5, <2>1, <2>2 DEF WriteFails, ReadError, ReqUnchanged, Mark, Listed, Types, PoolTyped
<1>6. ASSUME NEW s \in Streams, LostEvent(s) PROVE Listed'
  <2>1. CASE CanRetry(s)
    <3>0. Leaves(s)
      BY <1>6, <2>1, LeavesIs DEF Types
    <3>1. PICK a \in Apps :
             /\ a \in apps /\ UNCHANGED proc /\ \A b \in Apps \ {a} : status'[b] = status[b]
             /\ \/ UNCHANGED <<apps, idleApps>> /\ (status'[a] = status[a] \/ status'[a] = "marked")
                \/ apps' = apps \ {a} /\ idleApps' = idleApps \cup {a} /\ UNCHANGED status /\ Fit(a)
                \/ /\ apps' = apps \ {a} /\ UNCHANGED idleApps
                   /\ status'[a] = IF proc[a] = "none" THEN "free" ELSE "dead"
      BY <3>0, ReleaseIs
    <3>2. a \notin idleApps
      BY <3>1 DEF SelectionsCounted
    <3> QED
      BY <3>1, <3>2 DEF Listed, Fit
  <2>2. CASE ~CanRetry(s)
    BY <1>6, <2>2 DEF LostEvent, ReqUnchanged, Listed
  <2> QED
    BY <2>1, <2>2
<1>7. ASSUME NEW s \in Streams, Close(s) PROVE Listed'
  <2>0. Leaves(s)
    BY <1>7, LeavesIs DEF Types
  <2>1. PICK a \in Apps :
           /\ a \in apps /\ UNCHANGED proc /\ \A b \in Apps \ {a} : status'[b] = status[b]
           /\ \/ UNCHANGED <<apps, idleApps>> /\ (status'[a] = status[a] \/ status'[a] = "marked")
              \/ apps' = apps \ {a} /\ idleApps' = idleApps \cup {a} /\ UNCHANGED status /\ Fit(a)
              \/ /\ apps' = apps \ {a} /\ UNCHANGED idleApps
                 /\ status'[a] = IF proc[a] = "none" THEN "free" ELSE "dead"
    BY <2>0, ReleaseIs
  <2>2. a \notin idleApps
    BY <2>1 DEF SelectionsCounted
  <2> QED
    BY <2>1, <2>2 DEF Listed, Fit
<1>8. ASSUME NEW a \in Apps, Reap(a) PROVE Listed'
  <2>1. a \notin apps => inUse[a] = 0
    BY DEF SelectionsCounted, Types, PoolTyped
  <2>2. a \in apps => inUse[a] # 0
    BY DEF SelectionsCounted, Types, PoolTyped
  <2> QED
    BY <1>8, <2>1, <2>2 DEF Reap, Listed, Types, PoolTyped
<1>9. ASSUME NEW a \in Apps, AppExits(a) PROVE Listed'
  BY <1>9 DEF AppExits, AppUnchanged, Listed, Types, PoolTyped
<1>10. ASSUME Maintain PROVE Listed'
  <2>1. PICK killed \in SUBSET {a \in idleApps : proc[a] # "none"} : status' = Kill(killed)
    BY <1>10 DEF Maintain
  <2>2. UNCHANGED <<apps, idleApps, proc>>
    BY <1>10 DEF Maintain
  <2> QED
    BY <2>1, <2>2 DEF Kill, Listed, Types, PoolTyped
<1>11. ASSUME Terminate PROVE Listed'
  BY <1>11 DEF Terminate, Kill, Listed, Types, PoolTyped
<1>12. ASSUME \/ \E s \in Streams : Open(s) \/ Share(s) \/ NoApp(s) \/ PopSocket(s)
                    \/ NoSocket(s) \/ Connect(s) \/ ConnectFails(s) \/ Register(s)
                    \/ Write(s) \/ Read(s) \/ ReadEof(s) \/ OldEvent(s) \/ AppAnswers(s)
                    \/ AppDrops(s)
              \/ \E a \in Apps : AppClosesIdle(a)
              \/ UNCHANGED vars
     PROVE  Listed'
  <2>1. UNCHANGED <<apps, idleApps, status, proc>>
    BY <1>12, SMT, ZenonT(60) DEF Open, Goto, Share, Select, NoApp, Finish, PopSocket, NoSocket, Connect,
        ConnectFails, Register, Write, ReqUnchanged, Read, ReadEof, OldEvent, AppAnswers, AppUnchanged,
            AppDrops, AppClosesIdle, vars, poolVars, streamVars
  <2> QED
    BY <2>1 DEF Listed, Types, PoolTyped
<1> QED
  BY <1>1, <1>2, <1>3, <1>4, <1>5, <1>6, <1>7, <1>8, <1>9, <1>10, <1>11, <1>12 DEF Next

\* No app is added to those that count for maxApps, but by Launch.
LEMMA CountedShrinks ==
  ASSUME Types, Chosen, SelectionsCounted, Listed, [Next]_vars
  PROVE  \/ Counted' \subseteq Counted
         \/ \E a \in Apps : Counted' \subseteq apps \cup {a} /\ Cardinality(apps) < MaxApps
<1>1. ASSUME NEW s \in Streams, TakeIdle(s) \/ Launch(s) \/ Share(s)
      PROVE  \/ Counted' \subseteq Counted
             \/ \E a \in Apps : Counted' \subseteq apps \cup {a} /\ Cardinality(apps) < MaxApps
  <2>1. PICK a \in Apps :
           /\ apps' = apps \cup {a} /\ idleApps' = idleApps \ {a}
           /\ status' = [status EXCEPT ![a] = status'[a]]
           /\ \/ a \in idleApps /\ Fit(a) /\ UNCHANGED status
              \/ Cardinality(apps) < MaxApps /\ \A b \in idleApps : ~Fit(b)
              \/ a \in apps \ idleApps /\ UNCHANGED status
    BY <1>1, TakesIs
  <2>2. \A b \in Apps \ {a} : status'[b] = status[b]
    BY <2>1 DEF Types, PoolTyped
  <2>3. CASE Cardinality(apps) < MaxApps /\ \A b \in idleApps : ~Fit(b)
    <3>1. Counted' \subseteq apps \cup {a}
      BY <2>1, <2>2, <2>3 DEF Counted, Fit, Types, PoolTyped
    <3> QED
      BY <2>3, <3>1
  <2>4. CASE UNCHANGED status /\ (a \in apps \/ (a \in idleApps /\ Fit(a)))
    BY <2>1, <2>4 DEF Counted, Fit
  <2> QED
    BY <2>1, <2>3, <2>4
<1>2. ASSUME NEW s \in Streams, Leaves(s)
      PROVE  Counted' \subseteq Counted
  <2>1. PICK a \in Apps :
           /\ a \in apps /\ \A b \in Apps \ {a} : status'[b] = status[b]
           /\ \/ UNCHANGED <<apps, idleApps>>
              \/ apps' = apps \ {a} /\ idleApps' = idleApps \cup {a} /\ UNCHANGED status
              \/ apps' = apps \ {a} /\ UNCHANGED idleApps
    BY <1>2, ReleaseIs
  <2> QED
    BY <2>1 DEF Counted, Fit, SelectionsCounted, Types, PoolTyped
<1>3. ASSUME Steady
      PROVE  Counted' \subseteq Counted
  <2>1. \A a \in Apps : Fit(a)' => Fit(a) \/ status[a] = "free"
    BY FitAgain DEF NoneRevived
  <2>2. \A a \in idleApps' : a \in Apps /\ a \in idleApps /\ status[a] # "free"
    BY <1>3 DEF Steady, Listed, Types, PoolTyped
  <2> QED
    BY <1>3, <2>1, <2>2 DEF Steady, Counted
<1> QED
  BY <1>1, <1>2, <1>3, StaysSelected

\* Launch respects maxApps, and nothing else adds to what it counts.
LEMMA AppsLimit ==
  ASSUME Types, Chosen, SelectionsCounted, Listed, LimitsHold, [Next]_vars
  PROVE  Cardinality(Counted') <= MaxApps
<1>1. IsFiniteSet(Counted) /\ Cardinality(Counted) \in Nat /\ Cardinality(Counted) <= MaxApps
  <2>1. Counted \subseteq Apps
    BY DEF Counted, Types, PoolTyped
  <2> QED
    BY <2>1, FastAssumption, FS_Subset, FS_CardinalityType DEF Counted, LimitsHold
<1>2. CASE Counted' \subseteq Counted
  <2>1. Cardinality(Counted') <= Cardinality(Counted) /\ Cardinality(Counted') \in Nat
    BY <1>1, <1>2, FS_Subset, FS_CardinalityType
  <2> QED
    BY <1>1, <2>1, FastAssumption
<1>3. ASSUME NEW a \in Apps, Counted' \subseteq apps \cup {a}, Cardinality(apps) < MaxApps
      PROVE  Cardinality(Counted') <= MaxApps
  <2>1. IsFiniteSet(apps) /\ Cardinality(apps) \in Nat
    BY FastAssumption, FS_Subset, FS_CardinalityType DEF Types, PoolTyped
  <2>2. IsFiniteSet(apps \cup {a}) /\ Cardinality(apps \cup {a}) <= Cardinality(apps) + 1
    <3>1. CASE a \in apps
      <4>1. apps \cup {a} = apps
        BY <3>1
      <4> QED
        BY <2>1, <4>1
    <3>2. CASE a \notin apps
      <4>1. Cardinality(apps \cup {a}) = Cardinality(apps) + 1 /\ IsFiniteSet(apps \cup {a})
        BY <2>1, <3>2, FS_AddElement
      <4> QED
        BY <2>1, <4>1
    <3> QED
      BY <3>1, <3>2
  <2>3. Cardinality(apps \cup {a}) \in Nat
    BY <2>2, FS_CardinalityType
  <2>4. Cardinality(Counted') <= Cardinality(apps \cup {a}) /\ Cardinality(Counted') \in Nat
    BY <1>3, <2>2, FS_Subset, FS_CardinalityType
  <2> QED
    BY <1>3, <2>1, <2>2, <2>3, <2>4, FastAssumption
<1> QED
  BY <1>2, <1>3, CountedShrinks

\* The limits are respected by every step.
LEMMA LimitsStep ==
  ASSUME Types, Chosen, SelectionsCounted, Listed, LimitsHold, [Next]_vars
  PROVE  LimitsHold'
<1>1. Cardinality((apps \cup {a \in idleApps : Fit(a)})') <= MaxApps
  BY AppsLimit DEF Counted
<1>2. ASSUME NEW s \in Streams, TakeIdle(s) \/ Launch(s) \/ Share(s)
      PROVE  \A b \in Apps : Cardinality(Users(b)') <= route'.multiplex
  <2>1. PICK a \in Apps : Takes(s, a) /\ (a \in idleApps \/ status[a] = "free" \/ inUse[a] < route.multiplex)
    BY <1>2, TakesIs
  <2>2. route' = route /\ route.multiplex \in Nat \ {0}
    BY <2>1, FastAssumption DEF Takes, Select, Types, PoolTyped
  <2>3. inUse[a] < route.multiplex /\ inUse[a] = Cardinality(Users(a)) /\ inUse[a] \in Nat
    BY <2>1, <2>2 DEF SelectionsCounted, Listed, Types, PoolTyped
  <2>4. Cardinality(Users(a)') = Cardinality(Users(a)) + 1
    BY <2>1, UsersTaken, UsersFinite, FS_AddElement
  <2>5. Cardinality(Users(a)') <= route'.multiplex
    BY <2>2, <2>3, <2>4
  <2> QED
    BY <2>1, <2>2, <2>5, UsersTaken DEF LimitsHold
<1>3. ASSUME NEW s \in Streams, Leaves(s)
      PROVE  \A b \in Apps : Cardinality(Users(b)') <= route'.multiplex
  <2>1. PICK a \in Apps :
          /\ s \in Users(a) /\ Users(a)' = Users(a) \ {s}
          /\ \A b \in Apps \ {a} : Users(b)' = Users(b)
    BY <1>3, UsersLeft
  <2>2. route' = route /\ route.multiplex \in Nat
    BY <1>3, FastAssumption DEF Leaves, Types, PoolTyped
  <2>3. Cardinality(Users(a)') = Cardinality(Users(a)) - 1 /\ Cardinality(Users(a)) \in Nat
    BY <2>1, UsersFinite, FS_RemoveElement
  <2>4. Cardinality(Users(a)') <= route'.multiplex
    BY <2>2, <2>3 DEF LimitsHold
  <2> QED
    BY <2>1, <2>2, <2>4 DEF LimitsHold
<1>4. ASSUME Steady
      PROVE  \A b \in Apps : Cardinality(Users(b)') <= route'.multiplex
  BY <1>4 DEF Steady, LimitsHold
<1>5. (\A b \in Apps : Cardinality(Users(b)') <= route'.multiplex) => LimitsHold'
  BY <1>1 DEF LimitsHold
<1> QED
  BY <1>2, <1>3, <1>4, <1>5, StaysSelected

-----------------------------------------------------------------------------
(* The requests *)

\* What is started here keeps its process until it is reaped.
LEMMA AliveStep ==
  ASSUME Types, Chosen, SelectionsCounted, Listed, Alive, [Next]_vars
  PROVE  Alive'
<1>1. ASSUME NEW s \in Streams, Launch(s) PROVE Alive'
  <2>1. PICK a \in Apps :
          /\ status' = [status EXCEPT ![a] = status'[a]] /\ proc' = [proc EXCEPT ![a] = proc'[a]]
          /\ \/ UNCHANGED <<status, proc>>
             \/ status'[a] = "fit" /\ (route.launch => proc'[a] = "running")
             \/ status'[a] = "noexec"
          /\ UNCHANGED route
    BY <1>1, TakesIs DEF Takes, Select
  <2> QED
    BY <2>1 DEF Alive, Types, PoolTyped
<1>2. ASSUME NEW s \in Streams, RegisterFails(s) PROVE Alive'
  <2>0. Leaves(s)
    BY <1>2, LeavesIs DEF Types
  <2>1. PICK a \in Apps :
        /\ \A b \in Apps \ {a} : status'[b] = status[b]
        /\ status'[a] \in {status[a], "free", "dead"} \/ (Fit(a) /\ status'[a] = "marked")
        /\ UNCHANGED <<proc, route>>
    BY <2>0, ReleaseIs DEF Leaves
  <2> QED
    BY <2>1 DEF Fit, Alive
<1>3. ASSUME NEW s \in Streams, WriteFails(s) PROVE Alive'
  BY <1>3 DEF WriteFails, ReqUnchanged, Cut, Mark, Requests, Alive, Types, PoolTyped
<1>4. ASSUME NEW s \in Streams, ReadError(s) PROVE Alive'
  BY <1>4 DEF ReadError, ReqUnchanged, Mark, Alive, Types, PoolTyped
<1>5. ASSUME NEW s \in Streams, LostEvent(s) PROVE Alive'
  <2>1. CASE CanRetry(s)
    <3>0. Leaves(s)
      BY <1>5, <2>1, LeavesIs DEF Types
    <3>1. PICK a \in Apps :
          /\ \A b \in Apps \ {a} : status'[b] = status[b]
          /\ status'[a] \in {status[a], "free", "dead"} \/ (Fit(a) /\ status'[a] = "marked")
          /\ UNCHANGED <<proc, route>>
      BY <3>0, ReleaseIs DEF Leaves
    <3> QED
      BY <3>1 DEF Fit, Alive
  <2>2. CASE ~CanRetry(s)
    BY <1>5, <2>2 DEF LostEvent, ReqUnchanged, Alive
  <2> QED
    BY <2>1, <2>2
<1>6. ASSUME NEW s \in Streams, Close(s) PROVE Alive'
  <2>0. Leaves(s)
    BY <1>6, LeavesIs DEF Types
  <2>1. PICK a \in Apps :
        /\ \A b \in Apps \ {a} : status'[b] = status[b]
        /\ status'[a] \in {status[a], "free", "dead"} \/ (Fit(a) /\ status'[a] = "marked")
        /\ UNCHANGED <<proc, route>>
    BY <2>0, ReleaseIs DEF Leaves
  <2> QED
    BY <2>1 DEF Fit, Alive
<1>7. ASSUME NEW a \in Apps, Reap(a) PROVE Alive'
  BY <1>7 DEF Reap, Alive, Types, PoolTyped
<1>8. ASSUME NEW a \in Apps, AppExits(a) PROVE Alive'
  BY <1>8 DEF AppExits, AppUnchanged, Alive, Types, PoolTyped
<1>9. ASSUME Maintain PROVE Alive'
  <2>1. PICK killed \in SUBSET {a \in idleApps : proc[a] # "none"} : status' = Kill(killed)
    BY <1>9 DEF Maintain
  <2>2. UNCHANGED <<route, proc>>
    BY <1>9 DEF Maintain
  <2> QED
    BY <2>1, <2>2 DEF Kill, Alive, Types, PoolTyped
<1>10. ASSUME Terminate PROVE Alive'
  BY <1>10 DEF Terminate, Kill, Alive, Types, PoolTyped
<1>11. ASSUME \/ \E s \in Streams : Open(s) \/ TakeIdle(s) \/ Share(s) \/ NoApp(s)
                    \/ PopSocket(s) \/ NoSocket(s) \/ Connect(s) \/ ConnectFails(s)
                    \/ Register(s) \/ Write(s) \/ Read(s) \/ ReadEof(s) \/ OldEvent(s)
                    \/ AppAnswers(s) \/ AppDrops(s)
              \/ \E a \in Apps : AppClosesIdle(a)
              \/ UNCHANGED vars
     PROVE  Alive'
  <2>1. UNCHANGED <<status, proc, route>>
    BY <1>11, SMT, ZenonT(60) DEF Open, Goto, TakeIdle, Select, Share, NoApp, Finish, PopSocket, NoSocket,
        Connect, ConnectFails, Register, Write, ReqUnchanged, Read, ReadEof, OldEvent, AppAnswers,
            AppUnchanged, AppDrops, AppClosesIdle, vars, poolVars, streamVars
  <2> QED
    BY <2>1 DEF Alive, Types, PoolTyped
<1> QED
  BY <1>1, <1>2, <1>3, <1>4, <1>5, <1>6, <1>7, <1>8, <1>9, <1>10, <1>11 DEF Next

\* A stream that has no request has a new record.
LEMMA RegisteredStep ==
  ASSUME Types, Registered, [Next]_vars
  PROVE  Registered'
<1>1. ASSUME NEW s \in Streams, Open(s) PROVE Registered'
  BY <1>1 DEF Open, Goto, Registered, Types, StreamsTyped, ReqTyped, poolVars
<1>2. ASSUME NEW s \in Streams, TakeIdle(s) PROVE Registered'
  BY <1>2 DEF TakeIdle, Select, Goto, Fit, Registered, Types, StreamsTyped, ReqTyped
<1>3. ASSUME NEW s \in Streams, Launch(s) PROVE Registered'
  BY <1>3 DEF Launch, Select, Goto, NoneIdle, Fit, Registered, Types, StreamsTyped, ReqTyped
<1>4. ASSUME NEW s \in Streams, Share(s) PROVE Registered'
  BY <1>4 DEF Share, Select, Goto, Fit, Registered, Types, StreamsTyped, ReqTyped
<1>5. ASSUME NEW s \in Streams, NoApp(s) PROVE Registered'
  BY <1>5 DEF NoApp, Finish, Goto, Registered, Types, StreamsTyped, ReqTyped, poolVars
<1>6. ASSUME NEW s \in Streams, PopSocket(s) PROVE Registered'
  BY <1>6 DEF PopSocket, Goto, Front, Last, Registered, Types, StreamsTyped, ReqTyped
<1>7. ASSUME NEW s \in Streams, NoSocket(s) PROVE Registered'
  BY <1>7 DEF NoSocket, Goto, Registered, Types, StreamsTyped, ReqTyped, poolVars
<1>8. ASSUME NEW s \in Streams, Connect(s) PROVE Registered'
  BY <1>8 DEF Connect, Goto, Registered, Types, StreamsTyped, ReqTyped, poolVars
<1>9. ASSUME NEW s \in Streams, ConnectFails(s) PROVE Registered'
  BY <1>9 DEF ConnectFails, Goto, Registered, Types, StreamsTyped, ReqTyped, poolVars
<1>10. ASSUME NEW s \in Streams, Register(s) PROVE Registered'
  BY <1>10 DEF Register, Goto, Destroyed, Registered, Types, StreamsTyped, ReqTyped
<1>11. ASSUME NEW s \in Streams, RegisterFails(s) PROVE Registered'
  BY <1>11 DEF RegisterFails, ReleaseApp, Finish, Goto, Destroyed, Fit, Registered, Types, StreamsTyped,
      ReqTyped
<1>12. ASSUME NEW s \in Streams, Write(s) PROVE Registered'
  BY <1>12 DEF Write, ReqUnchanged, Registered, Types, StreamsTyped, ReqTyped
<1>13. ASSUME NEW s \in Streams, WriteFails(s) PROVE Registered'
  BY <1>13 DEF WriteFails, ReqUnchanged, Cut, Mark, Requests, Registered, Types, StreamsTyped, ReqTyped
<1>14. ASSUME NEW s \in Streams, Read(s) PROVE Registered'
  BY <1>14 DEF Read, ReqUnchanged, Registered, Types, StreamsTyped, ReqTyped
<1>15. ASSUME NEW s \in Streams, ReadError(s) PROVE Registered'
  BY <1>15 DEF ReadError, ReqUnchanged, Mark, Registered, Types, StreamsTyped, ReqTyped
<1>16. ASSUME NEW s \in Streams, ReadEof(s) PROVE Registered'
  BY <1>16 DEF ReadEof, ReqUnchanged, Cut, Registered, Types, StreamsTyped, ReqTyped
<1>17. ASSUME NEW s \in Streams, LostEvent(s) PROVE Registered'
  <2>1. CASE CanRetry(s)
    BY <1>17, <2>1 DEF LostEvent, Resend, Unregister, Goto, Registered, Types, StreamsTyped, ReqTyped
  <2>2. CASE ~CanRetry(s)
    BY <1>17, <2>2 DEF LostEvent, ReqUnchanged, Registered, Types, StreamsTyped, ReqTyped
  <2> QED
    BY <2>1, <2>2
<1>18. ASSUME NEW s \in Streams, Close(s) PROVE Registered'
  BY <1>18 DEF Close, ReleaseApp, Unregister, Finish, Goto, Fit, Registered, Types, StreamsTyped, ReqTyped
<1>19. ASSUME NEW s \in Streams, AppAnswers(s) PROVE Registered'
  BY <1>19 DEF AppAnswers, AppUnchanged, Registered, Types, StreamsTyped, ReqTyped, streamVars
<1>20. ASSUME NEW s \in Streams, AppDrops(s) PROVE Registered'
  BY <1>20 DEF AppDrops, AppUnchanged, Registered, Types, StreamsTyped, ReqTyped, streamVars
<1>21. ASSUME \/ \E s \in Streams : OldEvent(s)
              \/ \E a \in Apps : Reap(a) \/ AppExits(a) \/ AppClosesIdle(a)
              \/ Maintain
              \/ Terminate
              \/ UNCHANGED vars
     PROVE  Registered'
  <2>1. UNCHANGED <<pc, req>>
    BY <1>21, SMT, ZenonT(60) DEF OldEvent, ReqUnchanged, Reap, AppExits, AppUnchanged, AppClosesIdle,
        Maintain, Terminate, vars, poolVars, streamVars
  <2> QED
    BY <2>1 DEF Registered, Types, StreamsTyped, ReqTyped
<1> QED
  BY <1>1, <1>2, <1>3, <1>4, <1>5, <1>6, <1>7, <1>8, <1>9, <1>10, <1>11, <1>12, <1>13,
     <1>14, <1>15, <1>16, <1>17, <1>18, <1>19, <1>20, <1>21 DEF Next

\* The lost events that are queued are about apps that are condemned.
LEMMA LostBlamedStep ==
  ASSUME Types, Chosen, SelectionsCounted, Listed, Registered, LostBlamed, [Next]_vars
  PROVE  LostBlamed'
<1>a. \A t \in Streams :
        pc[t] = "active" =>
          /\ app[t] \in Apps /\ status[app[t]] # "free" /\ inUse[app[t]] # 0
          /\ ~Fit(app[t]) => status'[app[t]] # "fit"
  BY CondemnedStays DEF Selected, SelectionsCounted, Types, PoolTyped
<1>1. ASSUME NEW s \in Streams, Open(s) PROVE LostBlamed'
  BY <1>1, <1>a DEF Open, Goto, LostBlamed, Fit, Selected, Types, StreamsTyped, poolVars
<1>2. ASSUME NEW s \in Streams, TakeIdle(s) PROVE LostBlamed'
  BY <1>2, <1>a DEF TakeIdle, Select, Goto, Fit, LostBlamed, Selected, Types, StreamsTyped
<1>3. ASSUME NEW s \in Streams, Launch(s) PROVE LostBlamed'
  BY <1>3, <1>a DEF Launch, Select, Goto, NoneIdle, Fit, LostBlamed, Selected, Types, StreamsTyped
<1>4. ASSUME NEW s \in Streams, Share(s) PROVE LostBlamed'
  BY <1>4, <1>a DEF Share, Select, Goto, Fit, LostBlamed, Selected, Types, StreamsTyped
<1>5. ASSUME NEW s \in Streams, NoApp(s) PROVE LostBlamed'
  BY <1>5, <1>a DEF NoApp, Finish, Goto, LostBlamed, Fit, Selected, Types, StreamsTyped, poolVars
<1>6. ASSUME NEW s \in Streams, PopSocket(s) PROVE LostBlamed'
  BY <1>6, <1>a DEF PopSocket, Goto, Front, Last, LostBlamed, Fit, Selected, Types, StreamsTyped
<1>7. ASSUME NEW s \in Streams, NoSocket(s) PROVE LostBlamed'
  BY <1>7, <1>a DEF NoSocket, Goto, LostBlamed, Fit, Selected, Types, StreamsTyped, poolVars
<1>8. ASSUME NEW s \in Streams, Connect(s) PROVE LostBlamed'
  BY <1>8, <1>a DEF Connect, Goto, LostBlamed, Fit, Selected, Types, StreamsTyped, poolVars
<1>9. ASSUME NEW s \in Streams, ConnectFails(s) PROVE LostBlamed'
  BY <1>9, <1>a DEF ConnectFails, Goto, LostBlamed, Fit, Selected, Types, StreamsTyped, poolVars
<1>10. ASSUME NEW s \in Streams, Register(s) PROVE LostBlamed'
  BY <1>10, <1>a DEF Register, Goto, Destroyed, LostBlamed, Fit, Selected, Types, StreamsTyped
<1>11. ASSUME NEW s \in Streams, RegisterFails(s) PROVE LostBlamed'
  BY <1>11, <1>a DEF RegisterFails, ReleaseApp, Finish, Goto, Destroyed, Fit, LostBlamed, Selected, Types,
      StreamsTyped
<1>12. ASSUME NEW s \in Streams, WriteFails(s) PROVE LostBlamed'
  <2>1. status'[app[s]] # "fit"
    BY <1>12, <1>a DEF WriteFails, Mark, Types, PoolTyped
  <2>2. \A t \in lost' : pc'[t] = "active" /\ app'[t] = app[t] /\ (t \in lost \/ app[t] = app[s])
    BY <1>12 DEF WriteFails, ReqUnchanged, Requests, LostBlamed
  <2> QED
    BY <1>12, <1>a, <2>1, <2>2 DEF ReqUnchanged, Requests, LostBlamed, Fit, Types, StreamsTyped, WriteFails
<1>13. ASSUME NEW s \in Streams, ReadError(s) PROVE LostBlamed'
  BY <1>13, <1>a DEF ReadError, ReqUnchanged, Mark, LostBlamed, Fit, Selected, Types, StreamsTyped
<1>14. ASSUME NEW s \in Streams, LostEvent(s) PROVE LostBlamed'
  <2>1. CASE CanRetry(s)
    BY <1>14, <1>a, <2>1 DEF LostEvent, Resend, Unregister, Goto, LostBlamed, Fit, Types, StreamsTyped
  <2>2. CASE ~CanRetry(s)
    BY <1>14, <1>a, <2>2 DEF LostEvent, ReqUnchanged, LostBlamed, Fit, Types, StreamsTyped
  <2> QED
    BY <2>1, <2>2
<1>15. ASSUME NEW s \in Streams, Close(s) PROVE LostBlamed'
  BY <1>15, <1>a DEF Close, ReleaseApp, Unregister, Finish, Goto, Fit, LostBlamed, Selected, Types, StreamsTyped
<1>16. ASSUME NEW a \in Apps, Reap(a) PROVE LostBlamed'
  <2>1. status'[a] # "fit"
    BY <1>16 DEF Reap, Types, PoolTyped
  <2>2. \A t \in lost' : t \in Streams /\ pc'[t] = "active" /\ app'[t] = app[t] /\ (t \in lost \/ app[t] = a)
    BY <1>16 DEF Reap, streamVars, Requests, LostBlamed, Types, StreamsTyped
  <2> QED
    BY <1>a, <2>1, <2>2 DEF LostBlamed, Fit
<1>17. ASSUME Maintain PROVE LostBlamed'
  BY <1>17, <1>a DEF Maintain, Kill, LostBlamed, Fit, Selected, Types, StreamsTyped, streamVars
<1>18. ASSUME Terminate PROVE LostBlamed'
  BY <1>18, <1>a DEF Terminate, Kill, LostBlamed, Fit, Selected, Types, StreamsTyped, streamVars
<1>19. ASSUME \/ \E s \in Streams : Write(s) \/ Read(s) \/ ReadEof(s) \/ OldEvent(s)
                    \/ AppAnswers(s) \/ AppDrops(s)
              \/ \E a \in Apps : AppExits(a) \/ AppClosesIdle(a)
              \/ UNCHANGED vars
     PROVE  LostBlamed'
  <2>1. UNCHANGED <<pc, app, status, lost>>
    BY <1>19, SMT, ZenonT(60) DEF Write, ReqUnchanged, Read, ReadEof, OldEvent, AppAnswers, AppUnchanged,
        AppDrops, AppExits, AppClosesIdle, vars, poolVars, streamVars
  <2> QED
    BY <2>1, <1>a DEF LostBlamed, Fit, Selected, Types, StreamsTyped
<1> QED
  BY <1>1, <1>2, <1>3, <1>4, <1>5, <1>6, <1>7, <1>8, <1>9, <1>10, <1>11, <1>12, <1>13,
     <1>14, <1>15, <1>16, <1>17, <1>18, <1>19 DEF Next

\* Who is told of a loss has an app that is condemned.
LEMMA BlamedStep ==
  ASSUME Types, Chosen, SelectionsCounted, Listed, Registered, LostBlamed, BlamedRightly, [Next]_vars
  PROVE  BlamedRightly'
<1>a. \A t \in Streams :
        pc[t] = "active" =>
          /\ app[t] \in Apps /\ status[app[t]] # "free" /\ inUse[app[t]] # 0
          /\ ~Fit(app[t]) => status'[app[t]] # "fit"
  BY CondemnedStays DEF Selected, SelectionsCounted, Types, PoolTyped
<1>1. ASSUME NEW s \in Streams, Open(s) PROVE BlamedRightly'
  BY <1>1, <1>a DEF Open, Goto, BlamedRightly, Registered, NewRequest, Fit, Selected, Types, StreamsTyped,
      ReqTyped, Request, poolVars
<1>2. ASSUME NEW s \in Streams, TakeIdle(s) PROVE BlamedRightly'
  BY <1>2, <1>a DEF TakeIdle, Select, Goto, Fit, BlamedRightly, Registered, NewRequest, Selected, Types,
      StreamsTyped, ReqTyped, Request
<1>3. ASSUME NEW s \in Streams, Launch(s) PROVE BlamedRightly'
  BY <1>3, <1>a DEF Launch, Select, Goto, NoneIdle, Fit, BlamedRightly, Registered, NewRequest, Selected,
      Types, StreamsTyped, ReqTyped, Request
<1>4. ASSUME NEW s \in Streams, Share(s) PROVE BlamedRightly'
  BY <1>4, <1>a DEF Share, Select, Goto, Fit, BlamedRightly, Registered, NewRequest, Selected, Types,
      StreamsTyped, ReqTyped, Request
<1>5. ASSUME NEW s \in Streams, NoApp(s) PROVE BlamedRightly'
  BY <1>5, <1>a DEF NoApp, Finish, Goto, BlamedRightly, Registered, NewRequest, Fit, Selected, Types,
      StreamsTyped, ReqTyped, Request, poolVars
<1>6. ASSUME NEW s \in Streams, PopSocket(s) PROVE BlamedRightly'
  BY <1>6, <1>a DEF PopSocket, Goto, Front, Last, BlamedRightly, Registered, NewRequest, Fit, Selected, Types,
      StreamsTyped, ReqTyped, Request
<1>7. ASSUME NEW s \in Streams, NoSocket(s) PROVE BlamedRightly'
  BY <1>7, <1>a DEF NoSocket, Goto, BlamedRightly, Registered, NewRequest, Fit, Selected, Types, StreamsTyped,
      ReqTyped, Request, poolVars
<1>8. ASSUME NEW s \in Streams, Connect(s) PROVE BlamedRightly'
  BY <1>8, <1>a DEF Connect, Goto, BlamedRightly, Registered, NewRequest, Fit, Selected, Types, StreamsTyped,
      ReqTyped, Request, poolVars
<1>9. ASSUME NEW s \in Streams, ConnectFails(s) PROVE BlamedRightly'
  BY <1>9, <1>a DEF ConnectFails, Goto, BlamedRightly, Registered, NewRequest, Fit, Selected, Types,
      StreamsTyped, ReqTyped, Request, poolVars
<1>10. ASSUME NEW s \in Streams, Register(s) PROVE BlamedRightly'
  BY <1>10, <1>a DEF Register, Goto, Destroyed, BlamedRightly, Registered, NewRequest, Fit, Selected, Types,
      StreamsTyped, ReqTyped, Request
<1>11. ASSUME NEW s \in Streams, RegisterFails(s) PROVE BlamedRightly'
  BY <1>11, <1>a DEF RegisterFails, ReleaseApp, Finish, Goto, Destroyed, Fit, BlamedRightly, Registered,
      NewRequest, Selected, Types, StreamsTyped, ReqTyped, Request
<1>12. ASSUME NEW s \in Streams, Write(s) PROVE BlamedRightly'
  BY <1>12, <1>a DEF Write, ReqUnchanged, BlamedRightly, Registered, NewRequest, Fit, Selected, Types,
      StreamsTyped, ReqTyped, Request
<1>13. ASSUME NEW s \in Streams, WriteFails(s) PROVE BlamedRightly'
  BY <1>13, <1>a DEF WriteFails, ReqUnchanged, Cut, Mark, Requests, BlamedRightly, Registered, NewRequest, Fit,
      Selected, Types, StreamsTyped, ReqTyped, Request
<1>14. ASSUME NEW s \in Streams, Read(s) PROVE BlamedRightly'
  BY <1>14, <1>a DEF Read, ReqUnchanged, BlamedRightly, Registered, NewRequest, Fit, Selected, Types,
      StreamsTyped, ReqTyped, Request
<1>15. ASSUME NEW s \in Streams, ReadError(s) PROVE BlamedRightly'
  BY <1>15, <1>a DEF ReadError, ReqUnchanged, Mark, BlamedRightly, Registered, NewRequest, Fit, Selected,
      Types, StreamsTyped, ReqTyped, Request
<1>16. ASSUME NEW s \in Streams, ReadEof(s) PROVE BlamedRightly'
  BY <1>16, <1>a DEF ReadEof, ReqUnchanged, Cut, BlamedRightly, Registered, NewRequest, Fit, Selected, Types,
      StreamsTyped, ReqTyped, Request
<1>17. ASSUME NEW s \in Streams, LostEvent(s) PROVE BlamedRightly'
  <2>1. CASE CanRetry(s)
    BY <1>17, <1>a, <2>1 DEF LostEvent, Resend, Unregister, Goto, BlamedRightly, LostBlamed, Registered,
        ReqTyped, Fit, Types, StreamsTyped
  <2>2. CASE ~CanRetry(s)
    BY <1>17, <1>a, <2>2 DEF LostEvent, ReqUnchanged, BlamedRightly, LostBlamed, Registered, ReqTyped, Fit,
        Types, StreamsTyped
  <2> QED
    BY <2>1, <2>2
<1>18. ASSUME NEW s \in Streams, Close(s) PROVE BlamedRightly'
  BY <1>18, <1>a DEF Close, ReleaseApp, Unregister, Finish, Goto, Fit, BlamedRightly, Registered, NewRequest,
      Selected, Types, StreamsTyped, ReqTyped, Request
<1>19. ASSUME NEW s \in Streams, AppAnswers(s) PROVE BlamedRightly'
  BY <1>19, <1>a DEF AppAnswers, AppUnchanged, BlamedRightly, Registered, NewRequest, Fit, Selected, Types,
      StreamsTyped, ReqTyped, Request, streamVars
<1>20. ASSUME NEW s \in Streams, AppDrops(s) PROVE BlamedRightly'
  BY <1>20, <1>a DEF AppDrops, AppUnchanged, BlamedRightly, Registered, NewRequest, Fit, Selected, Types,
      StreamsTyped, ReqTyped, Request, streamVars
<1>21. ASSUME NEW a \in Apps, Reap(a) PROVE BlamedRightly'
  BY <1>21, <1>a DEF Reap, Requests, BlamedRightly, Registered, NewRequest, Fit, Selected, Types, StreamsTyped,
      ReqTyped, Request, streamVars
<1>22. ASSUME Maintain PROVE BlamedRightly'
  BY <1>22, <1>a DEF Maintain, Kill, BlamedRightly, Registered, NewRequest, Fit, Selected, Types, StreamsTyped,
      ReqTyped, Request, streamVars
<1>23. ASSUME Terminate PROVE BlamedRightly'
  BY <1>23, <1>a DEF Terminate, Kill, BlamedRightly, Registered, NewRequest, Fit, Selected, Types,
      StreamsTyped, ReqTyped, Request, streamVars
<1>24. ASSUME \/ \E s \in Streams : OldEvent(s)
              \/ \E a \in Apps : AppExits(a) \/ AppClosesIdle(a)
              \/ UNCHANGED vars
     PROVE  BlamedRightly'
  <2>1. UNCHANGED <<pc, app, status, req>>
    BY <1>24, SMT, ZenonT(60) DEF OldEvent, ReqUnchanged, AppExits, AppUnchanged, AppClosesIdle, vars,
        poolVars, streamVars
  <2> QED
    BY <2>1, <1>a DEF BlamedRightly, Registered, NewRequest, Fit, Selected, Types, StreamsTyped, ReqTyped,
        Request
<1> QED
  BY <1>1, <1>2, <1>3, <1>4, <1>5, <1>6, <1>7, <1>8, <1>9, <1>10, <1>11, <1>12, <1>13,
     <1>14, <1>15, <1>16, <1>17, <1>18, <1>19, <1>20, <1>21, <1>22, <1>23, <1>24 DEF Next

\* A request of a reaped app is told, or will be.
LEMMA ReapedStep ==
  ASSUME Types, Chosen, SelectionsCounted, Listed, Alive, Registered, ReapedIsTold, [Next]_vars
  PROVE  ReapedIsTold'
<1>a. \A t \in Streams :
        pc[t] = "active" =>
          /\ app[t] \in Apps /\ status[app[t]] # "free" /\ inUse[app[t]] # 0
          /\ ~Fit(app[t]) => status'[app[t]] # "fit"
  BY CondemnedStays DEF Selected, SelectionsCounted, Types, PoolTyped
<1>1. ASSUME NEW s \in Streams, Open(s) PROVE ReapedIsTold'
  BY <1>1, <1>a DEF Open, Goto, ReapedIsTold, Registered, NewRequest, Selected, Types, StreamsTyped, PoolTyped,
      ReqTyped, Request, poolVars
<1>2. ASSUME NEW s \in Streams, TakeIdle(s) PROVE ReapedIsTold'
  <2>1. PICK a \in Apps :
          /\ proc' = [proc EXCEPT ![a] = proc'[a]] /\ (status[a] = "free" \/ UNCHANGED proc)
          /\ Takes(s, a)
    BY <1>2, TakesIs
  <2>2. pc'[s] = "pop" /\ \A t \in Streams \ {s} : pc'[t] = pc[t] /\ app'[t] = app[t]
    BY <2>1 DEF Takes, Select, Goto, Types, StreamsTyped
  <2>3. UNCHANGED <<route, req, lost>>
    BY <2>1 DEF Takes, Select
  <2> QED
    BY <1>a, <2>1, <2>2, <2>3 DEF ReapedIsTold, Types, PoolTyped
<1>3. ASSUME NEW s \in Streams, Launch(s) PROVE ReapedIsTold'
  <2>1. PICK a \in Apps :
          /\ proc' = [proc EXCEPT ![a] = proc'[a]] /\ (status[a] = "free" \/ UNCHANGED proc)
          /\ Takes(s, a)
    BY <1>3, TakesIs
  <2>2. pc'[s] = "pop" /\ \A t \in Streams \ {s} : pc'[t] = pc[t] /\ app'[t] = app[t]
    BY <2>1 DEF Takes, Select, Goto, Types, StreamsTyped
  <2>3. UNCHANGED <<route, req, lost>>
    BY <2>1 DEF Takes, Select
  <2> QED
    BY <1>a, <2>1, <2>2, <2>3 DEF ReapedIsTold, Types, PoolTyped
<1>4. ASSUME NEW s \in Streams, Share(s) PROVE ReapedIsTold'
  <2>1. PICK a \in Apps :
          /\ proc' = [proc EXCEPT ![a] = proc'[a]] /\ (status[a] = "free" \/ UNCHANGED proc)
          /\ Takes(s, a)
    BY <1>4, TakesIs
  <2>2. pc'[s] = "pop" /\ \A t \in Streams \ {s} : pc'[t] = pc[t] /\ app'[t] = app[t]
    BY <2>1 DEF Takes, Select, Goto, Types, StreamsTyped
  <2>3. UNCHANGED <<route, req, lost>>
    BY <2>1 DEF Takes, Select
  <2> QED
    BY <1>a, <2>1, <2>2, <2>3 DEF ReapedIsTold, Types, PoolTyped
<1>5. ASSUME NEW s \in Streams, NoApp(s) PROVE ReapedIsTold'
  BY <1>5, <1>a DEF NoApp, Finish, Goto, ReapedIsTold, Registered, NewRequest, Selected, Types, StreamsTyped,
      PoolTyped, ReqTyped, Request, poolVars
<1>6. ASSUME NEW s \in Streams, PopSocket(s) PROVE ReapedIsTold'
  BY <1>6, <1>a DEF PopSocket, Goto, Front, Last, ReapedIsTold, Registered, NewRequest, Selected, Types,
      StreamsTyped, PoolTyped, ReqTyped, Request
<1>7. ASSUME NEW s \in Streams, NoSocket(s) PROVE ReapedIsTold'
  BY <1>7, <1>a DEF NoSocket, Goto, ReapedIsTold, Registered, NewRequest, Selected, Types, StreamsTyped,
      PoolTyped, ReqTyped, Request, poolVars
<1>8. ASSUME NEW s \in Streams, Connect(s) PROVE ReapedIsTold'
  BY <1>8, <1>a DEF Connect, Goto, ReapedIsTold, Registered, NewRequest, Selected, Types, StreamsTyped,
      PoolTyped, ReqTyped, Request, poolVars
<1>9. ASSUME NEW s \in Streams, ConnectFails(s) PROVE ReapedIsTold'
  BY <1>9, <1>a DEF ConnectFails, Goto, ReapedIsTold, Registered, NewRequest, Selected, Types, StreamsTyped,
      PoolTyped, ReqTyped, Request, poolVars
<1>10. ASSUME NEW s \in Streams, Register(s) PROVE ReapedIsTold'
  <2>1. /\ pc'[s] = "active" /\ \A t \in Streams \ {s} : pc'[t] = pc[t]
        /\ UNCHANGED <<route, app, proc, req, lost>>
    BY <1>10 DEF Register, Goto, Types, StreamsTyped
  <2>2. app[s] \in Apps /\ status[app[s]] \in {"fit", "marked"}
    BY <1>10, CondemnedStays DEF Register, Destroyed, Selected, Types, PoolTyped
  <2> QED
    BY <2>1, <2>2 DEF ReapedIsTold, Alive
<1>11. ASSUME NEW s \in Streams, RegisterFails(s) PROVE ReapedIsTold'
  BY <1>11, <1>a DEF RegisterFails, ReleaseApp, Finish, Goto, Destroyed, Fit, ReapedIsTold, Registered,
      NewRequest, Selected, Types, StreamsTyped, PoolTyped, ReqTyped, Request
<1>12. ASSUME NEW s \in Streams, Write(s) PROVE ReapedIsTold'
  BY <1>12, <1>a DEF Write, ReqUnchanged, ReapedIsTold, Registered, NewRequest, Selected, Types, StreamsTyped,
      PoolTyped, ReqTyped, Request
<1>13. ASSUME NEW s \in Streams, WriteFails(s) PROVE ReapedIsTold'
  BY <1>13, <1>a DEF WriteFails, ReqUnchanged, Cut, Mark, Requests, ReapedIsTold, Registered, NewRequest,
      Selected, Types, StreamsTyped, PoolTyped, ReqTyped, Request
<1>14. ASSUME NEW s \in Streams, Read(s) PROVE ReapedIsTold'
  BY <1>14, <1>a DEF Read, ReqUnchanged, ReapedIsTold, Registered, NewRequest, Selected, Types, StreamsTyped,
      PoolTyped, ReqTyped, Request
<1>15. ASSUME NEW s \in Streams, ReadError(s) PROVE ReapedIsTold'
  BY <1>15, <1>a DEF ReadError, ReqUnchanged, Mark, ReapedIsTold, Registered, NewRequest, Selected, Types,
      StreamsTyped, PoolTyped, ReqTyped, Request
<1>16. ASSUME NEW s \in Streams, ReadEof(s) PROVE ReapedIsTold'
  BY <1>16, <1>a DEF ReadEof, ReqUnchanged, Cut, ReapedIsTold, Registered, NewRequest, Selected, Types,
      StreamsTyped, PoolTyped, ReqTyped, Request
<1>17. ASSUME NEW s \in Streams, LostEvent(s) PROVE ReapedIsTold'
  <2>1. CASE CanRetry(s)
    BY <1>17, <1>a, <2>1 DEF LostEvent, Resend, ReleaseApp, Unregister, Goto, ReapedIsTold, Types,
        StreamsTyped, ReqTyped
  <2>2. CASE ~CanRetry(s)
    BY <1>17, <1>a, <2>2 DEF LostEvent, ReqUnchanged, ReapedIsTold, Types, StreamsTyped, ReqTyped, Request
  <2> QED
    BY <2>1, <2>2
<1>18. ASSUME NEW s \in Streams, Close(s) PROVE ReapedIsTold'
  BY <1>18, <1>a DEF Close, ReleaseApp, Unregister, Finish, Goto, Fit, ReapedIsTold, Registered, NewRequest,
      Selected, Types, StreamsTyped, PoolTyped, ReqTyped, Request
<1>19. ASSUME NEW s \in Streams, AppAnswers(s) PROVE ReapedIsTold'
  BY <1>19, <1>a DEF AppAnswers, AppUnchanged, ReapedIsTold, Registered, NewRequest, Selected, Types,
      StreamsTyped, PoolTyped, ReqTyped, Request, streamVars
<1>20. ASSUME NEW s \in Streams, AppDrops(s) PROVE ReapedIsTold'
  BY <1>20, <1>a DEF AppDrops, AppUnchanged, ReapedIsTold, Registered, NewRequest, Selected, Types,
      StreamsTyped, PoolTyped, ReqTyped, Request, streamVars
<1>21. ASSUME NEW a \in Apps, Reap(a) PROVE ReapedIsTold'
  BY <1>21, <1>a DEF Reap, Requests, ReapedIsTold, Registered, NewRequest, Selected, Types, StreamsTyped,
      PoolTyped, ReqTyped, Request, streamVars
<1>22. ASSUME NEW a \in Apps, AppExits(a) PROVE ReapedIsTold'
  BY <1>22, <1>a DEF AppExits, AppUnchanged, ReapedIsTold, Registered, NewRequest, Selected, Types,
      StreamsTyped, PoolTyped, ReqTyped, Request, streamVars
<1>23. ASSUME \/ \E s \in Streams : OldEvent(s)
              \/ \E a \in Apps : AppClosesIdle(a)
              \/ Maintain
              \/ Terminate
              \/ UNCHANGED vars
     PROVE  ReapedIsTold'
  <2>1. UNCHANGED <<route, pc, app, proc, lost, req>>
    BY <1>23, SMT, ZenonT(60) DEF OldEvent, ReqUnchanged, AppClosesIdle, AppUnchanged, Maintain, Terminate,
        vars, poolVars, streamVars
  <2> QED
    BY <2>1, <1>a DEF ReapedIsTold, Registered, NewRequest, Selected, Types, StreamsTyped, PoolTyped, ReqTyped,
        Request
<1> QED
  BY <1>1, <1>2, <1>3, <1>4, <1>5, <1>6, <1>7, <1>8, <1>9, <1>10, <1>11, <1>12, <1>13,
     <1>14, <1>15, <1>16, <1>17, <1>18, <1>19, <1>20, <1>21, <1>22, <1>23 DEF Next

\* A request is given to an app by its registration, and once more when it is sent again.
LEMMA GivenStep ==
  ASSUME Types, Given, [Next]_vars
  PROVE  Given'
<1>1. ASSUME NEW s \in Streams, Open(s) PROVE Given'
  <2>1. \A t \in Streams \ {s} :
          /\ pc'[t] = pc[t] /\ sends'[t] = sends[t]
          /\ (t \in resent' <=> t \in resent)
          /\ (t \in safe' <=> t \in safe)
    BY <1>1 DEF Open, Goto, Types, StreamsTyped
  <2>2. resent' \subseteq Streams /\ safe' \subseteq Streams
    BY <1>1 DEF Open, Goto, Types, StreamsTyped
  <2>3. /\ sends'[s] = (IF pc'[s] = "active" THEN 1 ELSE 0) + (IF s \in resent' THEN 1 ELSE 0)
        /\ (pc'[s] = "free" => s \notin safe') /\ (s \in resent' => s \in safe')
    BY <1>1 DEF Open, Goto, Given, Types, StreamsTyped
  <2> QED
    BY <2>1, <2>2, <2>3 DEF Given
<1>2. ASSUME NEW s \in Streams, TakeIdle(s) PROVE Given'
  BY <1>2 DEF TakeIdle, Select, Goto, Fit, Given, Types, StreamsTyped
<1>3. ASSUME NEW s \in Streams, Launch(s) PROVE Given'
  BY <1>3 DEF Launch, Select, Goto, NoneIdle, Fit, Given, Types, StreamsTyped
<1>4. ASSUME NEW s \in Streams, Share(s) PROVE Given'
  BY <1>4 DEF Share, Select, Goto, Fit, Given, Types, StreamsTyped
<1>5. ASSUME NEW s \in Streams, NoApp(s) PROVE Given'
  <2>1. \A t \in Streams \ {s} :
          /\ pc'[t] = pc[t] /\ sends'[t] = sends[t]
          /\ (t \in resent' <=> t \in resent)
          /\ (t \in safe' <=> t \in safe)
    BY <1>5 DEF NoApp, Finish, Goto, Types, StreamsTyped
  <2>2. resent' \subseteq Streams /\ safe' \subseteq Streams
    BY <1>5 DEF NoApp, Finish, Goto, Types, StreamsTyped
  <2>3. /\ sends'[s] = (IF pc'[s] = "active" THEN 1 ELSE 0) + (IF s \in resent' THEN 1 ELSE 0)
        /\ (pc'[s] = "free" => s \notin safe') /\ (s \in resent' => s \in safe')
    BY <1>5 DEF NoApp, Finish, Goto, Given, Types, StreamsTyped
  <2> QED
    BY <2>1, <2>2, <2>3 DEF Given
<1>6. ASSUME NEW s \in Streams, PopSocket(s) PROVE Given'
  BY <1>6 DEF PopSocket, Goto, Front, Last, Given, Types, StreamsTyped
<1>7. ASSUME NEW s \in Streams, NoSocket(s) PROVE Given'
  BY <1>7 DEF NoSocket, Goto, Given, Types, StreamsTyped, poolVars
<1>8. ASSUME NEW s \in Streams, Connect(s) PROVE Given'
  BY <1>8 DEF Connect, Goto, Given, Types, StreamsTyped, poolVars
<1>9. ASSUME NEW s \in Streams, ConnectFails(s) PROVE Given'
  BY <1>9 DEF ConnectFails, Goto, Given, Types, StreamsTyped, poolVars
<1>10. ASSUME NEW s \in Streams, Register(s) PROVE Given'
  <2>1. \A t \in Streams \ {s} :
          /\ pc'[t] = pc[t] /\ sends'[t] = sends[t]
          /\ (t \in resent' <=> t \in resent)
          /\ (t \in safe' <=> t \in safe)
    BY <1>10 DEF Register, Goto, Types, StreamsTyped
  <2>2. resent' \subseteq Streams /\ safe' \subseteq Streams
    BY <1>10 DEF Register, Goto, Types, StreamsTyped
  <2>3. /\ sends'[s] = (IF pc'[s] = "active" THEN 1 ELSE 0) + (IF s \in resent' THEN 1 ELSE 0)
        /\ (pc'[s] = "free" => s \notin safe') /\ (s \in resent' => s \in safe')
    BY <1>10 DEF Register, Goto, Given, Types, StreamsTyped
  <2> QED
    BY <2>1, <2>2, <2>3 DEF Given
<1>11. ASSUME NEW s \in Streams, RegisterFails(s) PROVE Given'
  <2>1. \A t \in Streams \ {s} :
          /\ pc'[t] = pc[t] /\ sends'[t] = sends[t]
          /\ (t \in resent' <=> t \in resent)
          /\ (t \in safe' <=> t \in safe)
    BY <1>11 DEF RegisterFails, Finish, Goto, Types, StreamsTyped
  <2>2. resent' \subseteq Streams /\ safe' \subseteq Streams
    BY <1>11 DEF RegisterFails, Finish, Goto, Types, StreamsTyped
  <2>3. /\ sends'[s] = (IF pc'[s] = "active" THEN 1 ELSE 0) + (IF s \in resent' THEN 1 ELSE 0)
        /\ (pc'[s] = "free" => s \notin safe') /\ (s \in resent' => s \in safe')
    BY <1>11 DEF RegisterFails, Finish, Goto, Given, Types, StreamsTyped
  <2> QED
    BY <2>1, <2>2, <2>3 DEF Given
<1>12. ASSUME NEW s \in Streams, LostEvent(s) PROVE Given'
  <2>1. CASE CanRetry(s)
    <3>1. \A t \in Streams \ {s} :
            /\ pc'[t] = pc[t] /\ sends'[t] = sends[t]
            /\ (t \in resent' <=> t \in resent)
            /\ (t \in safe' <=> t \in safe)
      BY <1>12, <2>1 DEF LostEvent, Resend, CanRetry, Goto, Types, StreamsTyped
    <3>2. resent' \subseteq Streams /\ safe' \subseteq Streams
      BY <1>12, <2>1 DEF LostEvent, Resend, CanRetry, Goto, Types, StreamsTyped
    <3>3. /\ sends'[s] = (IF pc'[s] = "active" THEN 1 ELSE 0) + (IF s \in resent' THEN 1 ELSE 0)
          /\ (pc'[s] = "free" => s \notin safe') /\ (s \in resent' => s \in safe')
      BY <1>12, <2>1 DEF LostEvent, Resend, CanRetry, Goto, Given, Types, StreamsTyped
    <3> QED
      BY <3>1, <3>2, <3>3 DEF Given
  <2>2. CASE ~CanRetry(s)
    BY <1>12, <2>2 DEF LostEvent, ReqUnchanged, Given
  <2> QED
    BY <2>1, <2>2
<1>13. ASSUME NEW s \in Streams, Close(s) PROVE Given'
  <2>1. \A t \in Streams \ {s} :
          /\ pc'[t] = pc[t] /\ sends'[t] = sends[t]
          /\ (t \in resent' <=> t \in resent)
          /\ (t \in safe' <=> t \in safe)
    BY <1>13 DEF Close, Finish, Goto, Types, StreamsTyped
  <2>2. resent' \subseteq Streams /\ safe' \subseteq Streams
    BY <1>13 DEF Close, Finish, Goto, Types, StreamsTyped
  <2>3. /\ sends'[s] = (IF pc'[s] = "active" THEN 1 ELSE 0) + (IF s \in resent' THEN 1 ELSE 0)
        /\ (pc'[s] = "free" => s \notin safe') /\ (s \in resent' => s \in safe')
    BY <1>13 DEF Close, Finish, Goto, Given, Types, StreamsTyped
  <2> QED
    BY <2>1, <2>2, <2>3 DEF Given
<1>14. ASSUME \/ \E s \in Streams : Write(s) \/ WriteFails(s) \/ Read(s) \/ ReadError(s)
                    \/ ReadEof(s) \/ OldEvent(s) \/ AppAnswers(s) \/ AppDrops(s)
              \/ \E a \in Apps : Reap(a) \/ AppExits(a) \/ AppClosesIdle(a)
              \/ Maintain
              \/ Terminate
              \/ UNCHANGED vars
     PROVE  Given'
  <2>1. UNCHANGED <<pc, safe, resent, sends>>
    BY <1>14, SMT, ZenonT(60) DEF Write, ReqUnchanged, WriteFails, Read, ReadError, ReadEof, OldEvent,
        AppAnswers, AppUnchanged, AppDrops, Reap, AppExits, AppClosesIdle, Maintain, Terminate, vars, poolVars,
            streamVars
  <2> QED
    BY <2>1 DEF Given, Types, StreamsTyped
<1> QED
  BY <1>1, <1>2, <1>3, <1>4, <1>5, <1>6, <1>7, <1>8, <1>9, <1>10, <1>11, <1>12, <1>13,
     <1>14 DEF Next

\* A stream that gives its app back pools an open connection, or none.
LEMMA LeavesClean ==
  ASSUME Types, Chosen, SelectionsCounted, CleanPool, NEW s \in Streams, Leaves(s)
  PROVE  CleanPool'
<1>1. PICK a \in Apps : a = app[s]
  BY UsersLeft
<1>2. PICK mark \in BOOLEAN, pool \in {sockets[a], Append(sockets[a], "open")} : ReleaseApp(a, mark, pool)
  BY <1>1 DEF Leaves
<1>3. \A i \in 1 .. Len(pool) : pool[i] # "stale"
  <2>1. CASE pool = sockets[a]
    BY <2>1 DEF CleanPool
  <2>2. CASE pool = Append(sockets[a], "open")
    <3>1. sockets[a] \in Seq(Connections) /\ Len(sockets[a]) \in Nat
      BY LenProperties DEF Types, SocketsTyped
    <3>2. /\ Len(Append(sockets[a], "open")) = Len(sockets[a]) + 1
          /\ \A i \in 1 .. Len(sockets[a]) + 1 :
               Append(sockets[a], "open")[i] = IF i <= Len(sockets[a]) THEN sockets[a][i] ELSE "open"
      BY <3>1, AppendType DEF Connections
    <3>3. \A i \in 1 .. Len(sockets[a]) + 1 : Append(sockets[a], "open")[i] # "stale"
      BY <3>1, <3>2 DEF CleanPool
    <3> QED
      BY <2>2, <3>2, <3>3
  <2> QED
    BY <1>2, <2>1, <2>2
<1>4. \A i \in 1 .. Len(<<>>) : <<>>[i] # "stale"
  OBVIOUS
<1>5. sockets' = [sockets EXCEPT ![a] = pool] \/ sockets' = [sockets EXCEPT ![a] = <<>>]
  BY <1>2 DEF ReleaseApp
<1>6. sockets \in [Apps -> Seq(Connections)]
  BY DEF Types, SocketsTyped
<1>7. \A b \in Apps \ {a} : sockets'[b] = sockets[b]
  BY <1>5, <1>6
<1>8. sockets'[a] = pool \/ sockets'[a] = <<>>
  BY <1>5, <1>6
<1> QED
  BY <1>3, <1>4, <1>7, <1>8 DEF CleanPool

\* Only the connection of a request that ended is pooled.
LEMMA CleanPoolStep ==
  ASSUME Types, Chosen, SelectionsCounted, CleanPool, [Next]_vars
  PROVE  CleanPool'
<1>1. ASSUME NEW s \in Streams, PopSocket(s) PROVE CleanPool'
  <2>1. PICK a \in Apps : a = app[s]
    BY <1>1, FastAssumption DEF PopSocket, Types, StreamsTyped, Chosen, Selected
  <2>2. sockets[a] \in Seq(Connections) /\ sockets[a] # <<>>
    BY <1>1, <2>1 DEF PopSocket, Types, SocketsTyped
  <2>3. /\ Len(Front(sockets[a])) = Len(sockets[a]) - 1
        /\ \A i \in 1 .. Len(sockets[a]) - 1 : Front(sockets[a])[i] = sockets[a][i]
        /\ Len(sockets[a]) \in Nat
    BY <2>2, FrontType, LenProperties
  <2>4. \A i \in 1 .. Len(Front(sockets[a])) : Front(sockets[a])[i] # "stale"
    BY <2>3 DEF CleanPool
  <2>5. \A b \in Apps : sockets'[b] = IF b = a THEN Front(sockets[a]) ELSE sockets[b]
    BY <1>1, <2>1 DEF PopSocket, Types, SocketsTyped
  <2> QED
    BY <2>4, <2>5 DEF CleanPool
<1>2. ASSUME NEW s \in Streams, RegisterFails(s) PROVE CleanPool'
  BY <1>2, LeavesIs, LeavesClean DEF Types
<1>3. ASSUME NEW s \in Streams, LostEvent(s) PROVE CleanPool'
  <2>1. CASE CanRetry(s)
    BY <1>3, <2>1, LeavesIs, LeavesClean DEF Types
  <2>2. CASE ~CanRetry(s)
    BY <1>3, <2>2 DEF LostEvent, ReqUnchanged, CleanPool
  <2> QED
    BY <2>1, <2>2
<1>4. ASSUME NEW s \in Streams, Close(s) PROVE CleanPool'
  BY <1>4, LeavesIs, LeavesClean DEF Types
<1>5. ASSUME NEW a \in Apps, Reap(a) PROVE CleanPool'
  <2>1. \A b \in Apps : sockets'[b] = IF b = a THEN <<>> ELSE sockets[b]
    BY <1>5 DEF Reap, Types, SocketsTyped
  <2>2. \A i \in 1 .. Len(<<>>) : <<>>[i] # "stale"
    OBVIOUS
  <2> QED
    BY <2>1, <2>2 DEF CleanPool
<1>6. ASSUME NEW a \in Apps, AppClosesIdle(a) PROVE CleanPool'
  <2>1. PICK i \in DOMAIN sockets[a] : sockets' = [sockets EXCEPT ![a][i] = "closed"]
    BY <1>6 DEF AppClosesIdle
  <2>2. sockets[a] \in Seq(Connections)
    BY DEF Types, SocketsTyped
  <2>3. \A b \in Apps : sockets'[b] = IF b = a THEN [sockets[a] EXCEPT ![i] = "closed"] ELSE sockets[b]
    BY <2>1 DEF Types, SocketsTyped
  <2>4. /\ Len([sockets[a] EXCEPT ![i] = "closed"]) = Len(sockets[a])
        /\ \A j \in 1 .. Len(sockets[a]) :
             [sockets[a] EXCEPT ![i] = "closed"][j] = IF j = i THEN "closed" ELSE sockets[a][j]
    BY <2>1, <2>2, ExceptSeq, LenProperties DEF Connections
  <2> QED
    BY <2>3, <2>4 DEF CleanPool
<1>7. ASSUME \/ \E s \in Streams : Open(s) \/ TakeIdle(s) \/ Launch(s) \/ Share(s)
                   \/ NoApp(s) \/ NoSocket(s) \/ Connect(s) \/ ConnectFails(s) \/ Register(s)
                   \/ Write(s) \/ WriteFails(s) \/ Read(s) \/ ReadError(s) \/ ReadEof(s)
                   \/ OldEvent(s) \/ AppAnswers(s) \/ AppDrops(s)
             \/ \E a \in Apps : AppExits(a)
             \/ Maintain
             \/ Terminate
             \/ UNCHANGED vars
     PROVE  CleanPool'
  <2>1. UNCHANGED <<sockets>>
    BY <1>7, SMT, ZenonT(60) DEF Open, Goto, TakeIdle, Select, Launch, Share, NoApp, Finish, NoSocket, Connect,
        ConnectFails, Register, Write, ReqUnchanged, WriteFails, Read, ReadError, ReadEof, OldEvent,
            AppAnswers, AppUnchanged, AppDrops, AppExits, Maintain, Terminate, vars, poolVars, streamVars
  <2> QED
    BY <2>1 DEF CleanPool, Types, SocketsTyped
<1> QED
  BY <1>1, <1>2, <1>3, <1>4, <1>5, <1>6, <1>7 DEF Next

\* Only such a connection is taken from the pool.
LEMMA CleanSockStep ==
  ASSUME Types, Chosen, CleanPool, CleanSock, [Next]_vars
  PROVE  CleanSock'
<1>1. ASSUME NEW s \in Streams, PopSocket(s) PROVE CleanSock'
  <2>1. PICK a \in Apps : a = app[s]
    BY <1>1, FastAssumption DEF PopSocket, Types, StreamsTyped, Chosen, Selected
  <2>2. Last(sockets[a]) # "stale"
    <3>1. sockets[a] \in Seq(Connections) /\ sockets[a] # <<>>
      BY <1>1, <2>1 DEF PopSocket, Types, SocketsTyped
    <3>2. Len(sockets[a]) \in 1 .. Len(sockets[a]) /\ Last(sockets[a]) = sockets[a][Len(sockets[a])]
      BY <3>1, FrontType
    <3> QED
      BY <3>2 DEF CleanPool
  <2> QED
    BY <1>1, <2>1, <2>2 DEF PopSocket, CleanSock, Types, StreamsTyped
<1>2. ASSUME NEW s \in Streams, Connect(s) PROVE CleanSock'
  BY <1>2, FastAssumption DEF Connect, Goto, CleanSock, Types, StreamsTyped, Connections
<1>3. ASSUME NEW s \in Streams, ConnectFails(s) PROVE CleanSock'
  BY <1>3, FastAssumption DEF ConnectFails, Goto, CleanSock, Types, StreamsTyped, Connections
<1>4. ASSUME NEW s \in Streams, RegisterFails(s) PROVE CleanSock'
  BY <1>4, FastAssumption DEF RegisterFails, ReleaseApp, Finish, Goto, Destroyed, Fit, CleanSock, Types,
      StreamsTyped, Connections
<1>5. ASSUME NEW s \in Streams, WriteFails(s) PROVE CleanSock'
  BY <1>5, FastAssumption DEF WriteFails, ReqUnchanged, Cut, Mark, Requests, CleanSock, Types, StreamsTyped,
      Connections
<1>6. ASSUME NEW s \in Streams, ReadEof(s) PROVE CleanSock'
  BY <1>6, FastAssumption DEF ReadEof, ReqUnchanged, Cut, CleanSock, Types, StreamsTyped, Connections
<1>7. ASSUME NEW s \in Streams, LostEvent(s) PROVE CleanSock'
  BY <1>7, FastAssumption DEF LostEvent, Resend, ReleaseApp, Unregister, Goto, ReqUnchanged, CanRetry, Fit,
      CleanSock, Types, StreamsTyped, Connections
<1>8. ASSUME NEW s \in Streams, Close(s) PROVE CleanSock'
  BY <1>8, FastAssumption DEF Close, ReleaseApp, Unregister, Finish, Goto, Fit, CleanSock, Types, StreamsTyped,
      Connections
<1>9. ASSUME \/ \E s \in Streams : Open(s) \/ TakeIdle(s) \/ Launch(s) \/ Share(s)
                   \/ NoApp(s) \/ NoSocket(s) \/ Register(s) \/ Write(s) \/ Read(s)
                   \/ ReadError(s) \/ OldEvent(s) \/ AppAnswers(s) \/ AppDrops(s)
             \/ \E a \in Apps : Reap(a) \/ AppExits(a) \/ AppClosesIdle(a)
             \/ Maintain
             \/ Terminate
             \/ UNCHANGED vars
     PROVE  CleanSock'
  <2>1. UNCHANGED <<sock>>
    BY <1>9, SMT, ZenonT(60) DEF Open, Goto, TakeIdle, Select, Launch, Share, NoApp, Finish, NoSocket,
        Register, Write, ReqUnchanged, Read, ReadError, OldEvent, AppAnswers, AppUnchanged, AppDrops, Reap,
            AppExits, AppClosesIdle, Maintain, Terminate, vars, poolVars, streamVars
  <2> QED
    BY <2>1 DEF CleanSock, Types, StreamsTyped, Connections
<1> QED
  BY <1>1, <1>2, <1>3, <1>4, <1>5, <1>6, <1>7, <1>8, <1>9 DEF Next

-----------------------------------------------------------------------------
(* The invariant is inductive *)

\* It holds at the start.
LEMMA InitInv == ASSUME Init PROVE IInv
<1>1. Types
  <2>1. <<>> \in Seq(Connections)
    OBVIOUS
  <2>2. PoolTyped
    BY FastAssumption DEF Init, PoolTyped
  <2>3. SocketsTyped
    BY <2>1 DEF Init, SocketsTyped
  <2>4. StreamsTyped
    BY DEF Init, StreamsTyped
  <2>5. ReqTyped
    BY NewRequestType DEF Init, ReqTyped
  <2> QED
    BY <2>2, <2>3, <2>4, <2>5 DEF Types
<1>2. Chosen
  BY FastAssumption DEF Init, Chosen, Selected
<1>3. \A a \in Apps : Users(a) = {}
  BY DEF Init, Users, Selected
<1>4. SelectionsCounted
  <2>1. \A a \in Apps : Cardinality(Users(a)) = 0
    BY <1>3, FS_EmptySet
  <2>2. \A a \in Apps : inUse[a] = 0 /\ a \notin apps /\ a \notin idleApps
    BY DEF Init
  <2> QED
    BY <2>1, <2>2 DEF SelectionsCounted
<1>5. Listed /\ Alive
  BY DEF Init, Listed, Alive
<1>6. LimitsHold
  <2>1. apps \cup {a \in idleApps : Fit(a)} = {}
    BY DEF Init
  <2>2. route.multiplex \in Nat
    BY <1>1, FastAssumption DEF Types, PoolTyped
  <2> QED
    BY <1>3, <2>1, <2>2, FS_EmptySet, FastAssumption DEF LimitsHold
<1>7. Registered /\ LostBlamed /\ ReapedIsTold /\ BlamedRightly
  BY DEF Init, Registered, LostBlamed, ReapedIsTold, BlamedRightly
<1>8. Given
  BY DEF Init, Given
<1>9. CleanPool /\ CleanSock
  BY FastAssumption DEF Init, CleanPool, CleanSock, Connections
<1> QED
  BY <1>1, <1>2, <1>4, <1>5, <1>6, <1>7, <1>8, <1>9 DEF IInv

\* Every step preserves it.
LEMMA NextInv == ASSUME IInv, [Next]_vars PROVE IInv'
<1>1. Types'
  BY PoolTypedStep, SocketsTypedStep, StreamsTypedStep, ReqTypedStep DEF IInv, Types
<1>2. Chosen' /\ SelectionsCounted' /\ Listed' /\ LimitsHold'
  BY ChosenStep, CountedStep, ListedStep, LimitsStep DEF IInv
<1>3. Alive' /\ Registered' /\ LostBlamed' /\ ReapedIsTold' /\ BlamedRightly'
  BY AliveStep, RegisteredStep, LostBlamedStep, ReapedStep, BlamedStep DEF IInv
<1>4. Given' /\ CleanPool' /\ CleanSock'
  BY GivenStep, CleanPoolStep, CleanSockStep DEF IInv
<1> QED
  BY <1>1, <1>2, <1>3, <1>4 DEF IInv

\* The inductive invariant of the pool and its requests
THEOREM Inductive == Spec => []IInv
<1>1. Init => IInv
  BY InitInv
<1>2. IInv /\ [Next]_vars => IInv'
  BY NextInv
<1> QED
  BY <1>1, <1>2, PTL DEF Spec

-----------------------------------------------------------------------------
(* What the run checks *)

\* The pool, the streams and the requests have their types.
THEOREM TypeCorrect == Spec => []TypeOK
<1>1. IInv => TypeOK
  BY DEF IInv, Types, PoolTyped, SocketsTyped, StreamsTyped, ReqTyped, Request, TypeOK
<1> QED
  BY <1>1, Inductive, PTL

\* getFastApp and releaseFastApp count every selection once: an app is in service
\* exactly while a stream has it, and is on one list only.
THEOREM SelectionCount == Spec => []SelectionsCounted
<1>1. IInv => SelectionsCounted
  BY DEF IInv
<1> QED
  BY <1>1, Inductive, PTL

\* No more than maxApps apps serve or could, and no more than multiplex streams
\* hold one, whatever is killed, reaped, taken and given back.
THEOREM Limits == Spec => []LimitsHold
<1>1. IInv => LimitsHold
  BY DEF IInv
<1> QED
  BY <1>1, Inductive, PTL

\* Whatever the order of the SIGCHLD handler and the registration, no request is
\* left waiting on an app that was reaped.
THEOREM ReapTold == Spec => []ReapedIsTold
<1>1. IInv => ReapedIsTold
  BY DEF IInv
<1> QED
  BY <1>1, Inductive, PTL

\* A lost event of an earlier request does not reach a later one of the stream.
THEOREM Blame == Spec => []BlamedRightly
<1>1. IInv => BlamedRightly
  BY DEF IInv
<1> QED
  BY <1>1, Inductive, PTL

\* The two retries together give an unsafe request to one app, a safe one to two
\* at most.
THEOREM GivenOnce == Spec => []SentOnce
<1>1. IInv => SentOnce
  BY DEF IInv, Given, SentOnce, Types, StreamsTyped
<1> QED
  BY <1>1, Inductive, PTL

\* fastCloseRequest pools no connection on which an answer is still to come.
THEOREM NoForeign == Spec => []NoForeignAnswer
<1>1. IInv => NoForeignAnswer
  BY DEF IInv, CleanSock, NoForeignAnswer
<1> QED
  BY <1>1, Inductive, PTL

\* Every process that runs is on a list or has been killed.
THEOREM NoLeak == Spec => []NoProcessLeaked
<1>1. IInv => NoProcessLeaked
  BY DEF IInv, Listed, NoProcessLeaked, Destroyed
<1> QED
  BY <1>1, Inductive, PTL

=============================================================================
