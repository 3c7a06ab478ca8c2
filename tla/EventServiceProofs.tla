------------------------- MODULE EventServiceProofs -------------------------
(***************************************************************************)
(* Safety of the event service for any number of threads, dispatchers and  *)
(* events: IndInv is inductive, and the properties follow from it.         *)
(***************************************************************************)
EXTENDS EventService, TLAPS, FiniteSetTheorems, SequenceTheorems

USE DEF Free, Goto, esVars, dpVars, evVars, ioVars, makeVars, thVars, poolVars

LEMMA InsertType ==
  ASSUME NEW q \in Seq(Events), NEW e \in Events, NEW when
  PROVE  InsertEvent(q, e, when) \in Seq(Events)
<1> DEFINE S == {i \in DOMAIN q : due[q[i]] <= when}
           n == Cardinality(S)
<1>1. IsFiniteSet(S) /\ n \in Nat /\ n <= Len(q)
  <2>1. DOMAIN q = 1 .. Len(q) /\ Len(q) \in Nat
    OBVIOUS
  <2>2. IsFiniteSet(1 .. Len(q)) /\ Cardinality(1 .. Len(q)) = Len(q)
    BY SMTT(30), ZenonT(60), <2>1, FS_Interval
  <2>3. IsFiniteSet(S) /\ n <= Cardinality(1 .. Len(q))
    BY <2>1, <2>2, FS_Subset
  <2> QED
    BY <2>1, <2>2, <2>3, FS_CardinalityType
<1> HIDE DEF S, n
<1>2. SubSeq(q, 1, n) \in Seq(Events)
  <2>1. \A i \in 1 .. n : q[i] \in Events
    BY <1>1
  <2> QED
    BY <1>1, <2>1, SubSeqProperties
<1>3. SubSeq(q, n + 1, Len(q)) \in Seq(Events)
  <2>1. \A i \in n + 1 .. Len(q) : q[i] \in Events
    BY <1>1
  <2> QED
    BY <1>1, <2>1, SubSeqProperties
<1>4. <<e>> \in Seq(Events)
  OBVIOUS
<1>5. SubSeq(q, 1, n) \o <<e>> \in Seq(Events)
  BY <1>2, <1>4, ConcatProperties
<1>6. (SubSeq(q, 1, n) \o <<e>>) \o SubSeq(q, n + 1, Len(q)) \in Seq(Events)
  BY <1>5, <1>3, ConcatProperties
<1> QED
  BY <1>6 DEF InsertEvent, n, S

LEMMA RemoveAtType ==
  ASSUME NEW q \in Seq(Events), NEW i \in DOMAIN q
  PROVE  RemoveAt(q, i) \in Seq(Events)
<1>1. i \in 1 .. Len(q) /\ Len(q) \in Nat
  OBVIOUS
<1>2. \A j \in 1 .. i - 1 : q[j] \in Events
  BY <1>1
<1>3. \A j \in i + 1 .. Len(q) : q[j] \in Events
  BY <1>1
<1>4. SubSeq(q, 1, i - 1) \in Seq(Events)
  BY <1>1, <1>2, SubSeqProperties
<1>5. SubSeq(q, i + 1, Len(q)) \in Seq(Events)
  BY <1>1, <1>3, SubSeqProperties
<1> QED
  BY <1>4, <1>5, ConcatProperties DEF RemoveAt

LEMMA MoveToFrontType ==
  ASSUME TypeOK, NEW d \in Dispatchers
  PROVE  MoveToFront(d) \in [Dispatchers -> 1 .. Cardinality(Dispatchers)]
<1> DEFINE N == Cardinality(Dispatchers)
<1>1. rank \in [Dispatchers -> 1 .. N] /\ N \in Nat
  BY FS_CardinalityType, ConstantsAssumption DEF TypeOK, DataTyped
<1> HIDE DEF N
<1>2. ASSUME NEW x \in Dispatchers
      PROVE  MoveToFront(d)[x] \in 1 .. N
  <2>1. rank[d] \in 1 .. N /\ rank[x] \in 1 .. N
    BY <1>1
  <2> QED
    BY <1>1, <2>1 DEF MoveToFront
<1> QED
  BY <1>2 DEF MoveToFront, N

LEMMA QueueDispatcherTyped ==
  ASSUME TypeOK, NEW d \in Dispatchers, NEW q \in Places, QueueDispatcher(d, q)
  PROVE  /\ place' \in [Dispatchers -> Places]
         /\ rank' \in [Dispatchers -> 1 .. Cardinality(Dispatchers)]
BY MoveToFrontType DEF QueueDispatcher, TypeOK, DataTyped

LEMMA ScheduleTyped ==
  ASSUME TypeOK, NEW t \in Threads, NEW d \in Dispatchers, NEW q, NEW when,
         NEW label, NEW keep \in BOOLEAN, Schedule(t, d, q, when, label, keep)
  PROVE  /\ now' \in 0 .. MaxTime
         /\ place' \in [Dispatchers -> Places]
         /\ rank' \in [Dispatchers -> 1 .. Cardinality(Dispatchers)]
         /\ dcond' \subseteq Dispatchers
         /\ lock' \in Threads \cup {None}
<1>1. place' \in [Dispatchers -> Places] /\ rank' \in [Dispatchers -> 1 .. Cardinality(Dispatchers)]
  BY QueueDispatcherTyped DEF Schedule, TypeOK, DataTyped, Places
<1> QED
  BY <1>1 DEF Schedule, CallWake, TypeOK, DataTyped

-----------------------------------------------------------------------------
(* Threads and their programs *)

\* A step of t alone: it goes to labels of its own program.
Moves(t) ==
  /\ pc' = [pc EXCEPT ![t] = pc'[t]] /\ pc'[t] \in Labels(t)
  /\ after' = [after EXCEPT ![t] = after'[t]] /\ after'[t] \in Afters(t)
  /\ back' = [back EXCEPT ![t] = back'[t]] /\ back'[t] \in Backs(t)

LEMMA MovesTyped ==
  ASSUME ControlTyped, NEW t \in Threads, Moves(t)
  PROVE  ControlTyped'
<1>1. /\ pc' \in [Threads -> UNION {Labels(u) : u \in Threads}]
      /\ after' \in [Threads -> UNION {Afters(u) : u \in Threads}]
      /\ back' \in [Threads -> UNION {Backs(u) : u \in Threads}]
  BY SMTT(30), ZenonT(60) DEF Moves, ControlTyped
<1>2. ASSUME NEW u \in Threads
      PROVE  pc'[u] \in Labels(u) /\ after'[u] \in Afters(u) /\ back'[u] \in Backs(u)
  BY <1>1 DEF Moves, ControlTyped
<1> QED
  BY <1>1, <1>2 DEF ControlTyped

\* The stages at which a thread is where its pc says
LEMMA PlainStage ==
  ASSUME NEW t, pc[t] \notin WakeLabels \cup {"offer", "post", "nap"}
  PROVE  Stage(t) = pc[t]
BY DEF Stage

LEMMA DispTyped ==
  ASSUME WorkSet, NEW t \in Threads,
         pc[t] \in UsesDispatcher
  PROVE  disp[t] \in Dispatchers
BY PlainStage DEF WorkSet, HasWork, UsesDispatcher, WakeLabels

LEMMA CurTyped ==
  ASSUME WorkSet, NEW t \in Runners,
         pc[t] \in {"call", "done"}
  PROVE  cur[t] \in Events
BY PlainStage DEF WorkSet, HasWork, UsesDispatcher, WakeLabels, Runners, Servers, Threads


\* What mprQueueEvent, mprDestroyDispatcher and mprRemoveEvent do to the types
LEMMA QueueTyped ==
  ASSUME TypeOK, NEW t \in Threads, NEW d \in Dispatchers, NEW e \in Events,
         NEW when \in [Events -> Nat], NEW label, Queue(t, d, e, when, label)
  PROVE  /\ now' \in 0 .. MaxTime /\ counted' \in BOOLEAN
         /\ place' \in [Dispatchers -> Places]
         /\ rank' \in [Dispatchers -> 1 .. Cardinality(Dispatchers)]
         /\ dcond' \subseteq Dispatchers
         /\ lock' \in Threads \cup {None}
         /\ eventQ' \in [Dispatchers -> Seq(Events)]
         /\ estate' \in [Events -> EventStates]
<1>1. CASE d \in destroyed
  BY <1>1 DEF Queue, TypeOK, DataTyped, EventStates
<1>2. CASE d \notin destroyed
  <2> DEFINE q == InsertEvent(eventQ[d], e, when[e])
  <2>1. q \in Seq(Events)
    BY InsertType DEF TypeOK, DataTyped
  <2>2. Schedule(t, d, q, when, label, TRUE)
    BY <1>2 DEF Queue
  <2>3. /\ now' \in 0 .. MaxTime
        /\ place' \in [Dispatchers -> Places]
        /\ rank' \in [Dispatchers -> 1 .. Cardinality(Dispatchers)]
        /\ dcond' \subseteq Dispatchers
        /\ lock' \in Threads \cup {None}
    BY <2>2, ScheduleTyped
  <2> HIDE DEF q
  <2>4. /\ counted' \in BOOLEAN
        /\ eventQ' \in [Dispatchers -> Seq(Events)]
        /\ estate' \in [Events -> EventStates]
    BY <1>2, <2>1 DEF Queue, TypeOK, DataTyped, EventStates, q
  <2> QED
    BY <2>3, <2>4
<1> QED
  BY <1>1, <1>2

LEMMA DestroyTyped ==
  ASSUME TypeOK, NEW t \in Threads, NEW d \in Dispatchers, NEW label,
         Destroy(t, d, label), DestroyUnchanged
  PROVE  DataTyped'
<1>1. eventQ' \in [Dispatchers -> Seq(Events)]
  <2>1. <<>> \in Seq(Events)
    OBVIOUS
  <2> QED
    BY <2>1 DEF Destroy, TypeOK, DataTyped
<1>2. estate' \in [Events -> EventStates]
  BY DEF Destroy, TypeOK, DataTyped, EventStates
<1>3. place' \in [Dispatchers -> Places]
  BY DEF Destroy, TypeOK, DataTyped, Places
<1>4. /\ dcond' \subseteq Dispatchers
      /\ now' \in 0 .. MaxTime
      /\ destroyed' \subseteq Dispatchers \ {Main}
      /\ lock' \in Threads \cup {None}
  BY DEF Destroy, CallWake, TypeOK, DataTyped
<1> QED
  BY <1>1, <1>2, <1>3, <1>4 DEF DestroyUnchanged, TypeOK, DataTyped

LEMMA RemoveTyped ==
  ASSUME TypeOK, NEW t \in Threads, NEW d \in Dispatchers, NEW e \in Events,
         NEW q \in Seq(Events), RemoveFrom(t, d, e, q)
  PROVE  /\ now' \in 0 .. MaxTime
         /\ place' \in [Dispatchers -> Places]
         /\ rank' \in [Dispatchers -> 1 .. Cardinality(Dispatchers)]
         /\ dcond' \subseteq Dispatchers
         /\ lock' \in Threads \cup {None}
         /\ eventQ' \in [Dispatchers -> Seq(Events)]
         /\ estate' \in [Events -> EventStates]
<1>1. CASE Schedule(t, d, q, due, "free", TRUE)
  <2>1. /\ now' \in 0 .. MaxTime
        /\ place' \in [Dispatchers -> Places]
        /\ rank' \in [Dispatchers -> 1 .. Cardinality(Dispatchers)]
        /\ dcond' \subseteq Dispatchers
        /\ lock' \in Threads \cup {None}
    BY <1>1, ScheduleTyped
  <2> QED
    BY <2>1 DEF RemoveFrom, TypeOK, DataTyped, EventStates
<1>2. CASE UNCHANGED <<now, place, rank, dcond, pc, after, lock>>
  BY <1>2 DEF RemoveFrom, TypeOK, DataTyped, EventStates
<1> QED
  BY <1>1, <1>2 DEF RemoveFrom


\* No step breaks the types of the data.
LEMMA DataTypedStep ==
  ASSUME TypeOK, WorkSet, [Next]_vars
  PROVE  DataTyped'
<1>1. ASSUME NEW t \in Threads, PostEvent(t) PROVE DataTyped'
  <2>1. target[t] \in Dispatchers /\ made[t] \in Events
    BY <1>1 DEF PostEvent, WorkSet, HasWork
  <2>2. due \in [Events -> Nat] /\ Queue(t, target[t], made[t], due, Resume(t))
    BY <1>1 DEF PostEvent, TypeOK, DataTyped
  <2>3. /\ now' \in 0 .. MaxTime /\ counted' \in BOOLEAN
        /\ place' \in [Dispatchers -> Places]
        /\ rank' \in [Dispatchers -> 1 .. Cardinality(Dispatchers)]
        /\ dcond' \subseteq Dispatchers
        /\ lock' \in Threads \cup {None}
        /\ eventQ' \in [Dispatchers -> Seq(Events)]
        /\ estate' \in [Events -> EventStates]
    BY <1>1, <2>1, <2>2, QueueTyped
  <2> QED
    BY <1>1, <2>3 DEF PostEvent, TypeOK, DataTyped
<1>2. ASSUME NEW t \in Runners, NextEvent(t) PROVE DataTyped'
  <2>1. t \in Threads
    BY <1>2 DEF Runners, Servers, Threads
  <2>2. disp[t] \in Dispatchers
    BY <1>2, <2>1, DispTyped DEF NextEvent, UsesDispatcher
  <2>3. eventQ[disp[t]] \in Seq(Events)
    BY <2>2 DEF TypeOK, DataTyped
  <2>4. eventQ[disp[t]] # <<>> => /\ Head(eventQ[disp[t]]) \in Events
                                  /\ Tail(eventQ[disp[t]]) \in Seq(Events)
    BY <2>3
  <2>5. /\ eventQ' \in [Dispatchers -> Seq(Events)]
        /\ cur' \in [Threads -> Events \cup {None}]
        /\ estate' \in [Events -> EventStates]
        /\ ran' \in [Threads -> BOOLEAN]
    BY SMTT(30), ZenonT(60), <1>2, <2>1, <2>2, <2>4 DEF NextEvent, TypeOK, DataTyped, EventStates
  <2> QED
    BY <1>2, <2>5 DEF NextEvent, TypeOK, DataTyped
<1>3. ASSUME NEW t \in Runners, CallDone(t) PROVE DataTyped'
  <2> DEFINE e == cur[t]
             d == disp[t]
             when == [due EXCEPT ![e] = now + 1]
             q == InsertEvent(eventQ[d], e, when[e])
  <2>1. t \in Threads
    BY <1>3 DEF Runners, Servers, Threads
  <2>2. d \in Dispatchers /\ e \in Events
    BY <1>3, <2>1, DispTyped, CurTyped DEF CallDone, UsesDispatcher
  <2>3. when \in [Events -> Nat] /\ q \in Seq(Events)
    BY <2>2, InsertType DEF TypeOK, DataTyped
  <2>4. cur' \in [Threads -> Events \cup {None}]
    BY <1>3, <2>1 DEF CallDone, TypeOK, DataTyped
  <2>5. CASE ~(d \in destroyed) /\ e \in Continuous /\ estate[e] = "running"
    <3>1. Schedule(t, d, q, when, "next", TRUE)
      BY <1>3, <2>5 DEF CallDone
    <3>2. /\ now' \in 0 .. MaxTime
          /\ place' \in [Dispatchers -> Places]
          /\ rank' \in [Dispatchers -> 1 .. Cardinality(Dispatchers)]
          /\ dcond' \subseteq Dispatchers
          /\ lock' \in Threads \cup {None}
      BY <2>1, <2>2, <3>1, ScheduleTyped
    <3>3. /\ due' = when /\ eventQ' = [eventQ EXCEPT ![d] = q]
          /\ estate' = [estate EXCEPT ![e] = "queued"]
          /\ counted' = TRUE
      BY <1>3, <2>5 DEF CallDone
    <3> HIDE DEF when, q, d, e
    <3>4. /\ due' \in [Events -> Nat] /\ eventQ' \in [Dispatchers -> Seq(Events)]
          /\ estate' \in [Events -> EventStates]
      BY <2>2, <2>3, <3>3 DEF TypeOK, DataTyped, EventStates
    <3> QED
      BY <1>3, <2>4, <3>2, <3>3, <3>4 DEF CallDone, TypeOK, DataTyped
  <2>6. CASE ~(~(d \in destroyed) /\ e \in Continuous /\ estate[e] = "running")
    <3>1. /\ estate' \in [Events -> EventStates] /\ counted' \in BOOLEAN
          /\ UNCHANGED <<now, place, rank, dcond, eventQ, due, after, lock>>
      BY <1>3, <2>2, <2>6 DEF CallDone, TypeOK, DataTyped, EventStates
    <3> QED
      BY <1>3, <2>4, <3>1 DEF CallDone, TypeOK, DataTyped
  <2> QED
    BY <2>5, <2>6
<1>4. ASSUME NEW t \in Servers, Reclaim(t) PROVE DataTyped'
  <2>1. t \in Threads
    BY <1>4 DEF Servers, Threads
  <2>2. /\ disp' \in [Threads -> Dispatchers \cup {None}]
        /\ job' \in [Threads -> Dispatchers \cup {None}]
        /\ owner' \in [Dispatchers -> Threads \cup {None, Reserved}]
    BY <1>4, <2>1 DEF Reclaim, TypeOK, DataTyped
  <2> QED
    BY <1>4, <2>2 DEF Reclaim, TypeOK, DataTyped
<1>5. ASSUME NEW t \in Servers, Unlink(t) PROVE DataTyped'
  BY <1>5 DEF Unlink, TypeOK, DataTyped, Places
<1>6. ASSUME NEW t \in Servers, Resched(t) PROVE DataTyped'
  <2>1. disp[t] \in Dispatchers /\ t \in Threads
    BY <1>6, DispTyped DEF Resched, UsesDispatcher, Servers, Threads
  <2>2. CASE disp[t] \in destroyed
    BY <1>6, <2>2 DEF Resched, TypeOK, DataTyped
  <2>3. CASE disp[t] \notin destroyed
    <3>1. /\ now' \in 0 .. MaxTime
          /\ place' \in [Dispatchers -> Places]
          /\ rank' \in [Dispatchers -> 1 .. Cardinality(Dispatchers)]
          /\ dcond' \subseteq Dispatchers
          /\ lock' \in Threads \cup {None}
      BY <1>6, <2>1, <2>3, ScheduleTyped DEF Resched
    <3> QED
      BY <1>6, <3>1 DEF Resched, TypeOK, DataTyped
  <2> QED
    BY <2>2, <2>3
<1>7. ASSUME ScanReady PROVE DataTyped'
  <2>1. PICK d \in Candidates :
          /\ IF place[d] = "wait" THEN QueueDispatcher(d, "ready") ELSE UNCHANGED <<place, rank>>
          /\ IF d \in destroyed \/ owner[d] # None
             THEN UNCHANGED <<owner, disp, job>>
             ELSE /\ owner' = [owner EXCEPT ![d] = Reserved]
                  /\ disp' = [disp EXCEPT ![Service] = d]
                  /\ job' = [job EXCEPT ![Service] = d]
    BY <1>7 DEF ScanReady
  <2>2. d \in Dispatchers
    BY DEF Candidates, FirstOf, On
  <2>3. /\ place' \in [Dispatchers -> Places]
        /\ rank' \in [Dispatchers -> 1 .. Cardinality(Dispatchers)]
    BY <2>1, <2>2, QueueDispatcherTyped DEF TypeOK, DataTyped, Places
  <2>4. /\ owner' \in [Dispatchers -> Threads \cup {None, Reserved}]
        /\ disp' \in [Threads -> Dispatchers \cup {None}]
        /\ job' \in [Threads -> Dispatchers \cup {None}]
    BY SMTT(30), ZenonT(60), <2>1, <2>2 DEF TypeOK, DataTyped
  <2> QED
    BY <1>7, <2>3, <2>4 DEF ScanReady, TypeOK, DataTyped
<1>8. ASSUME Enlist PROVE DataTyped'
  <2>1. disp[Service] \in Dispatchers
    BY <1>8, DispTyped DEF Enlist, UsesDispatcher, Threads
  <2>2. /\ place' \in [Dispatchers -> Places]
        /\ rank' \in [Dispatchers -> 1 .. Cardinality(Dispatchers)]
    BY <1>8, <2>1, QueueDispatcherTyped DEF Enlist, TypeOK, DataTyped, Places
  <2> QED
    BY <1>8, <2>2 DEF Enlist, TypeOK, DataTyped
<1>9. ASSUME StartIdleWorker PROVE DataTyped'
  <2>1. PICK w \in Workers : Handover(w)
    BY <1>9 DEF StartIdleWorker, TypeOK, DataTyped
  <2>2. job' \in [Threads -> Dispatchers \cup {None}] /\ busy' \subseteq Workers
    BY <2>1 DEF Handover, TypeOK, DataTyped, Threads
  <2> QED
    BY <1>9, <2>2 DEF StartIdleWorker, TypeOK, DataTyped
<1>10. ASSUME StartNewWorker PROVE DataTyped'
  <2>1. PICK w \in Workers : Handover(w)
    BY <1>10 DEF StartNewWorker, TypeOK, DataTyped
  <2>2. job' \in [Threads -> Dispatchers \cup {None}] /\ busy' \subseteq Workers
    BY <2>1 DEF Handover, TypeOK, DataTyped, Threads
  <2> QED
    BY <1>10, <2>2 DEF StartNewWorker, TypeOK, DataTyped
<1>11. ASSUME Park PROVE DataTyped'
  <2>1. disp[Service] \in Dispatchers
    BY <1>11, DispTyped DEF Park, UsesDispatcher, Threads
  <2>2. /\ place' \in [Dispatchers -> Places]
        /\ rank' \in [Dispatchers -> 1 .. Cardinality(Dispatchers)]
    BY <1>11, <2>1, QueueDispatcherTyped DEF Park, TypeOK, DataTyped, Places
  <2> QED
    BY <1>11, <2>2 DEF Park, TypeOK, DataTyped
<1>12. ASSUME Doze PROVE DataTyped'
  <2>1. PICK delay \in IdleTicks :
         /\ willAwake' = Lesser(now + delay, Forever)
         /\ sleepUntil' = IF On("pending") # {} /\ AvailableWorkers # 0 THEN clock
                          ELSE IF now + delay > MaxTime THEN Forever
                          ELSE Lesser(clock + delay, MaxTime)
    BY <1>12 DEF Doze
  <2>2. Forever \in Nat /\ MaxTime \in Nat /\ clock \in Nat /\ now \in Nat
    BY ConstantsAssumption DEF Forever, TypeOK, DataTyped
  <2>3. delay \in Nat
    <3>1. \A d \in On("wait") : eventQ[d] # <<>> => due[eventQ[d][1]] \in Nat
      BY DEF On, TypeOK, DataTyped
    <3> QED
      BY <2>2, <3>1 DEF IdleTicks
  <2>4. willAwake' \in Nat /\ sleepUntil' \in Nat
    BY <2>1, <2>2, <2>3 DEF Lesser
  <2> QED
    BY <1>12, <2>4 DEF Doze, TypeOK, DataTyped
<1>13. ASSUME NEW o \in Owners, StartEnter(o) PROVE DataTyped'
  <2>1. disp[o] \in Dispatchers
    BY <1>13, DispTyped DEF StartEnter, UsesDispatcher, Threads
  <2>2. /\ place' \in [Dispatchers -> Places]
        /\ rank' \in [Dispatchers -> 1 .. Cardinality(Dispatchers)]
    BY <1>13, <2>1, QueueDispatcherTyped DEF StartEnter, TypeOK, DataTyped, Places
  <2> QED
    BY <1>13, <2>2 DEF StartEnter, TypeOK, DataTyped
<1>14. ASSUME NEW o \in Owners, WaitFlag(o) PROVE DataTyped'
  <2>1. disp[o] \in Dispatchers /\ o \in Threads
    BY <1>14, DispTyped DEF WaitFlag, UsesDispatcher, Threads
  <2>2. deadline' \in [Owners -> Nat]
    <3>1. Forever \in Nat
      BY ConstantsAssumption DEF Forever
    <3>2. eventQ[disp[o]] # <<>> => due[eventQ[disp[o]][1]] \in Nat
      BY <2>1 DEF TypeOK, DataTyped
    <3> QED
      BY <1>14, <3>1, <3>2 DEF WaitFlag, TypeOK, DataTyped
  <2>3. waitFlag' \subseteq Dispatchers /\ now' \in 0 .. MaxTime
    BY <1>14, <2>1 DEF WaitFlag, TypeOK, DataTyped
  <2> QED
    BY <1>14, <2>2, <2>3 DEF WaitFlag, TypeOK, DataTyped
<1>15. ASSUME NEW o \in Owners, StopSchedule(o) PROVE DataTyped'
  <2>1. disp[o] \in Dispatchers /\ o \in Threads
    BY <1>15, DispTyped DEF StopSchedule, UsesDispatcher, Threads
  <2>2. CASE disp[o] \in destroyed
    BY <1>15, <2>2 DEF StopSchedule, TypeOK, DataTyped
  <2>3. CASE disp[o] \notin destroyed
    <3>1. /\ now' \in 0 .. MaxTime
          /\ place' \in [Dispatchers -> Places]
          /\ rank' \in [Dispatchers -> 1 .. Cardinality(Dispatchers)]
          /\ dcond' \subseteq Dispatchers
          /\ lock' \in Threads \cup {None}
      BY <1>15, <2>1, <2>3, ScheduleTyped DEF StopSchedule
    <3> QED
      BY <1>15, <3>1 DEF StopSchedule, TypeOK, DataTyped
  <2> QED
    BY <2>2, <2>3
<1>16. ASSUME NEW t \in Threads, CreateEvent(t) PROVE DataTyped'
  <2>1. PICK e \in Events \ IOEvents, d \in Dispatchers, period \in 0 .. MaxPeriod :
          /\ estate' = [estate EXCEPT ![e] = "made"]
          /\ due' = [due EXCEPT ![e] = clock + period]
          /\ made' = [made EXCEPT ![t] = e]
          /\ target' = [target EXCEPT ![t] = IF d \in destroyed THEN Main ELSE d]
    BY <1>16 DEF CreateEvent
  <2>2. clock + period \in Nat
    BY ConstantsAssumption DEF TypeOK, DataTyped
  <2>3. /\ estate' \in [Events -> EventStates] /\ due' \in [Events -> Nat]
        /\ made' \in [Threads -> Events \cup {None}]
        /\ target' \in [Threads -> Dispatchers \cup {None}]
    BY <1>16, <2>1, <2>2, ConstantsAssumption DEF TypeOK, DataTyped, EventStates
  <2> QED
    BY <1>16, <2>3 DEF CreateEvent, TypeOK, DataTyped
<1>17. ASSUME NEW t \in Threads, RemoveEvent(t) PROVE DataTyped'
  <2>1. \E d \in Dispatchers, e \in Events, q \in Seq(Events) : RemoveFrom(t, d, e, q)
    <3>1. PICK d \in Dispatchers :
            \/ \E i \in DOMAIN eventQ[d] :
                 RemoveFrom(t, d, eventQ[d][i], RemoveAt(eventQ[d], i))
            \/ \E u \in Runners : cur[u] # None /\ RemoveFrom(t, d, cur[u], eventQ[d])
      BY <1>17 DEF RemoveEvent
    <3>2. eventQ[d] \in Seq(Events)
      BY DEF TypeOK, DataTyped
    <3>3. CASE \E i \in DOMAIN eventQ[d] :
                 RemoveFrom(t, d, eventQ[d][i], RemoveAt(eventQ[d], i))
      <4>1. PICK i \in DOMAIN eventQ[d] :
              RemoveFrom(t, d, eventQ[d][i], RemoveAt(eventQ[d], i))
        BY <3>3
      <4>2. eventQ[d][i] \in Events /\ RemoveAt(eventQ[d], i) \in Seq(Events)
        BY <3>2, RemoveAtType
      <4> QED
        BY <4>1, <4>2
    <3>4. CASE \E u \in Runners : cur[u] # None /\ RemoveFrom(t, d, cur[u], eventQ[d])
      <4>1. PICK u \in Runners : cur[u] # None /\ RemoveFrom(t, d, cur[u], eventQ[d])
        BY <3>4
      <4>2. cur[u] \in Events
        BY <4>1 DEF Runners, Servers, Threads, TypeOK, DataTyped
      <4> QED
        BY <3>2, <4>1, <4>2
    <3> QED
      BY <3>1, <3>3, <3>4
  <2>2. /\ now' \in 0 .. MaxTime
        /\ place' \in [Dispatchers -> Places]
        /\ rank' \in [Dispatchers -> 1 .. Cardinality(Dispatchers)]
        /\ dcond' \subseteq Dispatchers
        /\ lock' \in Threads \cup {None}
        /\ eventQ' \in [Dispatchers -> Seq(Events)]
        /\ estate' \in [Events -> EventStates]
    BY <1>17, <2>1, RemoveTyped
  <2> QED
    BY <1>17, <2>2 DEF RemoveEvent, TypeOK, DataTyped
<1>18. ASSUME NEW t \in Threads, DestroyForeign(t) PROVE DataTyped'
  BY <1>18, DestroyTyped DEF DestroyForeign
<1>19. ASSUME NEW t \in Threads, DestroyInCall(t) PROVE DataTyped'
  <2>1. t \in Threads
    BY <1>19 DEF Runners, Servers, Threads
  <2>2. disp[t] \in Dispatchers
    BY <1>19, <2>1, DispTyped DEF DestroyInCall, UsesDispatcher
  <2> QED
    BY <1>19, <2>1, <2>2, DestroyTyped DEF DestroyInCall
<1>20. ASSUME NEW o \in Owners, StartClaim(o) PROVE DataTyped'
  BY <1>20 DEF StartClaim, TypeOK, DataTyped, Threads
<1>21. ASSUME NEW o \in Owners, StopDequeue(o) PROVE DataTyped'
  BY <1>21 DEF StopDequeue, TypeOK, DataTyped, Places
<1>22. ASSUME NEW o \in Owners, DestroyOwned(o) PROVE DataTyped'
  <2>1. o \in Threads
    BY <1>22 DEF Threads
  <2>2. disp[o] \in Dispatchers
    BY <1>22, <2>1, DispTyped DEF DestroyOwned, UsesDispatcher
  <2> QED
    BY <1>22, <2>1, <2>2, DestroyTyped DEF DestroyOwned
<1>23. ASSUME QueueIOEvent PROVE DataTyped'
  <2>1. PICK e \in IOEvents, d \in Dispatchers :
          due' = [due EXCEPT ![e] = clock] /\ Queue(Service, d, e, due', "io")
    BY <1>23 DEF QueueIOEvent
  <2>2. e \in Events /\ due' \in [Events -> Nat] /\ Service \in Threads
    BY <2>1, ConstantsAssumption DEF TypeOK, DataTyped, Threads
  <2>3. /\ now' \in 0 .. MaxTime /\ counted' \in BOOLEAN
        /\ place' \in [Dispatchers -> Places]
        /\ rank' \in [Dispatchers -> 1 .. Cardinality(Dispatchers)]
        /\ dcond' \subseteq Dispatchers
        /\ lock' \in Threads \cup {None}
        /\ eventQ' \in [Dispatchers -> Seq(Events)]
        /\ estate' \in [Events -> EventStates]
    BY <2>1, <2>2, QueueTyped
  <2> QED
    BY <1>23, <2>2, <2>3 DEF QueueIOEvent, TypeOK, DataTyped
<1>24. ASSUME Tick PROVE DataTyped'
  BY <1>24, ConstantsAssumption DEF Tick, TypeOK, DataTyped
<1> USE DEF TypeOK, DataTyped
<1>25. ASSUME NEW t \in Threads, TestWaiting(t) PROVE DataTyped'
  BY <1>25 DEF TestWaiting, WakeUnchanged, WakeDone
<1>26. ASSUME NEW t \in Threads, TestRequested(t) PROVE DataTyped'
  BY <1>26 DEF TestRequested, WakeUnchanged, WakeDone
<1>27. ASSUME NEW t \in Threads, SetRequested(t) PROVE DataTyped'
  BY <1>27 DEF SetRequested, WakeUnchanged, WakeDone
<1>28. ASSUME NEW t \in Threads, WriteBreak(t) PROVE DataTyped'
  BY <1>28 DEF WriteBreak, WakeUnchanged, WakeDone
<1>29. ASSUME NEW t \in Runners, CallReturns(t) PROVE DataTyped'
  BY <1>29 DEF CallReturns
<1>30. ASSUME NEW t \in Servers, Release(t) PROVE DataTyped'
  BY <1>30 DEF Release
<1>31. ASSUME ScanEmpty PROVE DataTyped'
  BY <1>31 DEF ScanEmpty
<1>32. ASSUME NoWorker PROVE DataTyped'
  BY <1>32 DEF NoWorker
<1>33. ASSUME CheckCount PROVE DataTyped'
  BY <1>33 DEF CheckCount
<1>34. ASSUME Wakes PROVE DataTyped'
  BY <1>34 DEF Wakes, EpollReturns
<1>35. ASSUME ClearWaiting PROVE DataTyped'
  BY <1>35 DEF ClearWaiting
<1>36. ASSUME Drain PROVE DataTyped'
  BY <1>36 DEF Drain
<1>37. ASSUME ResetWake PROVE DataTyped'
  BY <1>37 DEF ResetWake
<1>38. ASSUME Refresh PROVE DataTyped'
  BY <1>38 DEF Refresh
<1>39. ASSUME HelperReturns PROVE DataTyped'
  BY <1>39 DEF HelperReturns
<1>40. ASSUME NEW w \in Workers, NapEnds(w) PROVE DataTyped'
  BY <1>40 DEF NapEnds
<1>41. ASSUME NEW w \in Workers, BecomeIdle(w) PROVE DataTyped'
  BY <1>41 DEF BecomeIdle
<1>42. ASSUME NEW w \in Workers, Offer(w) PROVE DataTyped'
  BY <1>42 DEF Offer
<1>43. ASSUME NEW w \in Workers, Rest(w) PROVE DataTyped'
  BY <1>43 DEF Rest
<1>44. ASSUME NEW o \in Owners, WaitSkips(o) PROVE DataTyped'
  BY <1>44 DEF WaitSkips, WaitEnds
<1>45. ASSUME NEW o \in Owners, WaitWakes(o) PROVE DataTyped'
  BY <1>45 DEF WaitWakes, WaitEnds
<1>46. ASSUME NEW o \in Owners, WaitUnflag(o) PROVE DataTyped'
  BY <1>46 DEF WaitUnflag
<1>47. ASSUME NEW o \in Owners, StopRelease(o) PROVE DataTyped'
  BY <1>47 DEF StopRelease
<1>48. ASSUME NEW w \in Workers, CallYields(w) PROVE DataTyped'
  BY <1>48 DEF CallYields
<1>49. ASSUME NEW o \in Owners, WaitBegin(o) PROVE DataTyped'
  BY <1>49 DEF WaitBegin
<1>50. ASSUME NEW o \in Owners, WaitTimesOut(o) PROVE DataTyped'
  BY <1>50 DEF WaitTimesOut, WaitEnds
<1>51. ASSUME OtherIO PROVE DataTyped'
  BY <1>51 DEF OtherIO, EpollReturns
<1>52. ASSUME UNCHANGED vars PROVE DataTyped'
  BY <1>52 DEF vars
<1> HIDE DEF TypeOK, DataTyped
<1> QED
  BY <1>1, <1>2, <1>3, <1>4, <1>5, <1>6, <1>7, <1>8, <1>9, <1>10, <1>11, <1>12,
     <1>13, <1>14, <1>15, <1>16, <1>17, <1>18, <1>19, <1>20, <1>21, <1>22, <1>23, <1>24,
     <1>25, <1>26, <1>27, <1>28, <1>29, <1>30, <1>31, <1>32, <1>33, <1>34, <1>35, <1>36,
     <1>37, <1>38, <1>39, <1>40, <1>41, <1>42, <1>43, <1>44, <1>45, <1>46, <1>47, <1>48,
     <1>49, <1>50, <1>51, <1>52
     DEF Next, Program, Choice, WakeStep, RunStep, HelperStep, ServiceStep,
         WorkerStep, OwnerStep


\* A thread continues at labels of its own program after a call, and the labels
\* inside mprWakeEventService belong to the program of any thread but the service.
LEMMA LabelFacts ==
  ASSUME NEW t \in Threads
  PROVE  /\ Afters(t) \subseteq Labels(t)
         /\ "wake" \in Labels(t)
         /\ t # Service => WakeLabels \subseteq Labels(t)
         /\ {"test", "set", "write"} \cap Labels(Service) = {}
<1>1. /\ t = Service => t \notin Workers \cup Posters \cup Owners
      /\ t \in Workers => t \notin Posters \cup Owners
      /\ t \in Posters => t \notin Owners
      /\ t \in {Service} \cup Workers \cup Posters \cup Owners
  BY ConstantsAssumption DEF Threads
<1>2. Afters(t) \subseteq Labels(t)
  BY <1>1 DEF Labels, HelperLabels, RunLabels, WakeLabels, Afters
<1>3. "wake" \in Labels(t) /\ (t # Service => WakeLabels \subseteq Labels(t))
  BY <1>1 DEF Labels, HelperLabels, RunLabels, WakeLabels
<1>4. {"test", "set", "write"} \cap Labels(Service) = {}
  BY DEF Labels, HelperLabels, RunLabels
<1> QED
  BY <1>2, <1>3, <1>4


\* Every thread stays in its program.
LEMMA ControlTypedStep ==
  ASSUME TypeOK, WorkSet, WaitingInv, [Next]_vars
  PROVE  ControlTyped'
<1>1. ASSUME NEW t \in Threads, TestWaiting(t) PROVE Moves(t)
  <2>1. t = Service => ~waiting
    BY <1>1 DEF TestWaiting, WaitingInv
  <2> QED
    BY <1>1, <2>1, LabelFacts
       DEF TestWaiting, WakeDone, WakeUnchanged, TypeOK, ControlTyped, Moves, WakeLabels
<1>2. ASSUME NEW t \in Threads, TestRequested(t) PROVE Moves(t)
  <2>1. t # Service
    BY <1>2, LabelFacts DEF TestRequested, TypeOK, ControlTyped
  <2> QED
    BY <1>2, <2>1, LabelFacts
       DEF TestRequested, WakeDone, WakeUnchanged, TypeOK, ControlTyped, Moves, WakeLabels
<1>3. ASSUME StartNewWorker PROVE ControlTyped'
  <2>1. PICK w \in Workers : pc' = [pc EXCEPT ![w] = "claim", ![Service] = "scan"]
    BY <1>3 DEF StartNewWorker
  <2>2. "claim" \in Labels(w) /\ "scan" \in Labels(Service) /\ w \in Threads /\ Service \in Threads
    BY ConstantsAssumption DEF Labels, HelperLabels, Threads
  <2>3. pc' \in [Threads -> UNION {Labels(u) : u \in Threads}]
    BY <2>1, <2>2 DEF TypeOK, ControlTyped
  <2>4. \A u \in Threads : pc'[u] \in Labels(u)
    BY <2>1, <2>2 DEF TypeOK, ControlTyped
  <2> QED
    BY <1>3, <2>3, <2>4 DEF StartNewWorker, TypeOK, ControlTyped
<1>4. ASSUME NEW t \in Threads, RemoveEvent(t) PROVE Moves(t)
  <2>1. t \in Posters /\ t # Service /\ t \notin Workers
    BY <1>4, ConstantsAssumption DEF RemoveEvent
  <2>2. "free" \in Labels(t) /\ "free" \in Afters(t) /\ "wake" \in Labels(t)
    BY <2>1 DEF Labels, Afters, WakeLabels
  <2>3. /\ pc' \in {pc, [pc EXCEPT ![t] = "free"], [pc EXCEPT ![t] = "wake"]}
        /\ after' \in {after, [after EXCEPT ![t] = "free"]}
    BY <1>4 DEF RemoveEvent, RemoveFrom, Schedule, CallWake
  <2> QED
    BY <1>4, <2>2, <2>3 DEF RemoveEvent, TypeOK, ControlTyped, Moves
<1> USE ConstantsAssumption DEF TypeOK, ControlTyped, Moves, Labels, HelperLabels,
        RunLabels, WakeLabels, Afters, Backs, Threads, Runners, Servers
<1>5. ASSUME NEW t \in Threads, SetRequested(t) PROVE Moves(t)
  BY <1>5 DEF SetRequested, WakeUnchanged, WakeDone
<1>6. ASSUME NEW t \in Threads, WriteBreak(t) PROVE Moves(t)
  BY <1>6 DEF WriteBreak, WakeUnchanged, WakeDone
<1>7. ASSUME NEW t \in Threads, PostEvent(t) PROVE Moves(t)
  BY <1>7 DEF PostEvent, Queue, Resume, Schedule, CallWake, Resume
<1>8. ASSUME NEW t \in Runners, NextEvent(t) PROVE Moves(t)
  BY <1>8 DEF NextEvent
<1>9. ASSUME NEW t \in Runners, CallReturns(t) PROVE Moves(t)
  BY <1>9 DEF CallReturns
<1>10. ASSUME NEW t \in Runners, CallDone(t) PROVE Moves(t)
  BY SMTT(60), <1>10 DEF CallDone, Schedule, CallWake
<1>11. ASSUME NEW t \in Servers, Reclaim(t) PROVE Moves(t)
  BY <1>11 DEF Reclaim
<1>12. ASSUME NEW t \in Servers, Release(t) PROVE Moves(t)
  BY <1>12 DEF Release
<1>13. ASSUME NEW t \in Servers, Unlink(t) PROVE Moves(t)
  BY <1>13 DEF Unlink
<1>14. ASSUME NEW t \in Servers, Resched(t) PROVE Moves(t)
  BY <1>14 DEF Resched, Schedule, CallWake
<1>15. ASSUME ScanReady PROVE Moves(Service)
  BY <1>15 DEF ScanReady, QueueDispatcher, Candidates, FirstOf, On
<1>16. ASSUME ScanEmpty PROVE Moves(Service)
  BY <1>16 DEF ScanEmpty
<1>17. ASSUME Enlist PROVE Moves(Service)
  BY <1>17 DEF Enlist, QueueDispatcher
<1>18. ASSUME StartIdleWorker PROVE Moves(Service)
  BY <1>18 DEF StartIdleWorker, Handover
<1>19. ASSUME NoWorker PROVE Moves(Service)
  BY <1>19 DEF NoWorker
<1>20. ASSUME Park PROVE Moves(Service)
  BY <1>20 DEF Park, QueueDispatcher
<1>21. ASSUME CheckCount PROVE Moves(Service)
  BY <1>21 DEF CheckCount
<1>22. ASSUME Doze PROVE Moves(Service)
  BY <1>22 DEF Doze, IdleTicks, On, Lesser, Forever
<1>23. ASSUME Wakes PROVE Moves(Service)
  BY <1>23 DEF Wakes, EpollReturns
<1>24. ASSUME ClearWaiting PROVE Moves(Service)
  BY <1>24 DEF ClearWaiting
<1>25. ASSUME Drain PROVE Moves(Service)
  BY <1>25 DEF Drain
<1>26. ASSUME ResetWake PROVE Moves(Service)
  BY <1>26 DEF ResetWake
<1>27. ASSUME Refresh PROVE Moves(Service)
  BY <1>27 DEF Refresh
<1>28. ASSUME HelperReturns PROVE Moves(Service)
  BY <1>28 DEF HelperReturns
<1>29. ASSUME NEW w \in Workers, NapEnds(w) PROVE Moves(w)
  BY <1>29 DEF NapEnds
<1>30. ASSUME NEW w \in Workers, BecomeIdle(w) PROVE Moves(w)
  BY <1>30 DEF BecomeIdle
<1>31. ASSUME NEW w \in Workers, Offer(w) PROVE Moves(w)
  BY <1>31 DEF Offer
<1>32. ASSUME NEW w \in Workers, Rest(w) PROVE Moves(w)
  BY <1>32 DEF Rest
<1>33. ASSUME NEW o \in Owners, StartEnter(o) PROVE Moves(o)
  BY <1>33 DEF StartEnter, QueueDispatcher
<1>34. ASSUME NEW o \in Owners, WaitFlag(o) PROVE Moves(o)
  BY <1>34 DEF WaitFlag
<1>35. ASSUME NEW o \in Owners, WaitSkips(o) PROVE Moves(o)
  BY <1>35 DEF WaitSkips, WaitEnds
<1>36. ASSUME NEW o \in Owners, WaitWakes(o) PROVE Moves(o)
  BY <1>36 DEF WaitWakes, WaitEnds
<1>37. ASSUME NEW o \in Owners, WaitUnflag(o) PROVE Moves(o)
  BY <1>37 DEF WaitUnflag
<1>38. ASSUME NEW o \in Owners, StopRelease(o) PROVE Moves(o)
  BY <1>38 DEF StopRelease
<1>39. ASSUME NEW o \in Owners, StopSchedule(o) PROVE Moves(o)
  BY <1>39 DEF StopSchedule, Schedule, CallWake
<1>40. ASSUME NEW t \in Threads, CreateEvent(t) PROVE Moves(t)
  BY <1>40 DEF CreateEvent, MayCreate, MayCreate
<1>41. ASSUME NEW t \in Threads, DestroyForeign(t) PROVE Moves(t)
  BY <1>41 DEF DestroyForeign, Destroy, DestroyUnchanged, CallWake
<1>42. ASSUME NEW t \in Threads, DestroyInCall(t) PROVE Moves(t)
  BY <1>42 DEF DestroyInCall, Destroy, DestroyUnchanged, CallWake
<1>43. ASSUME NEW w \in Workers, CallYields(w) PROVE Moves(w)
  BY <1>43 DEF CallYields
<1>44. ASSUME NEW o \in Owners, StartClaim(o) PROVE Moves(o)
  BY <1>44 DEF StartClaim
<1>45. ASSUME NEW o \in Owners, WaitBegin(o) PROVE Moves(o)
  BY <1>45 DEF WaitBegin
<1>46. ASSUME NEW o \in Owners, WaitTimesOut(o) PROVE Moves(o)
  BY <1>46 DEF WaitTimesOut, WaitEnds
<1>47. ASSUME NEW o \in Owners, StopDequeue(o) PROVE Moves(o)
  BY <1>47 DEF StopDequeue
<1>48. ASSUME NEW o \in Owners, DestroyOwned(o) PROVE Moves(o)
  BY <1>48 DEF DestroyOwned, Destroy, DestroyUnchanged, CallWake
<1>49. ASSUME OtherIO PROVE Moves(Service)
  BY <1>49 DEF OtherIO, EpollReturns
<1>50. ASSUME QueueIOEvent PROVE Moves(Service)
  BY <1>50 DEF QueueIOEvent, Queue, Schedule, CallWake
<1>51. ASSUME Tick PROVE ControlTyped'
  BY <1>51 DEF Tick
<1>52. ASSUME UNCHANGED vars PROVE ControlTyped'
  BY <1>52 DEF vars
<1> HIDE ConstantsAssumption DEF TypeOK, ControlTyped, Moves, Labels, HelperLabels,
        RunLabels, WakeLabels, Afters, Backs, Threads, Runners, Servers
<1> QED
  BY <1>1, <1>2, <1>3, <1>4, <1>5, <1>6, <1>7, <1>8, <1>9, <1>10, <1>11, <1>12,
     <1>13, <1>14, <1>15, <1>16, <1>17, <1>18, <1>19, <1>20, <1>21, <1>22, <1>23, <1>24,
     <1>25, <1>26, <1>27, <1>28, <1>29, <1>30, <1>31, <1>32, <1>33, <1>34, <1>35, <1>36,
     <1>37, <1>38, <1>39, <1>40, <1>41, <1>42, <1>43, <1>44, <1>45, <1>46, <1>47, <1>48,
     <1>49, <1>50, <1>51, <1>52, MovesTyped
     DEF Next, Program, Choice, WakeStep, RunStep, HelperStep, ServiceStep,
         WorkerStep, OwnerStep, TypeOK, Runners, Servers, Threads

-----------------------------------------------------------------------------
(* Stages *)

\* t goes to stage l, the others stay where they are.
StagesTo(t, l) ==
  /\ Stage(t)' = l /\ pc'[t] # "post" /\ pc'[t] \in WakeLabels \cup {"nap", l}
  /\ \A u \in Threads \ {t} : Stage(u)' = Stage(u) /\ pc'[u] = pc[u] /\ after'[u] = after[u]

Plain == {"next", "call", "done", "return", "free", "io", "held", "release", "flag", "block",
          "enter", "unlink", "stopped"}

LEMMA StageOf ==
  ASSUME NEW t
  PROVE  /\ pc[t] \in WakeLabels \cup {"offer"} /\ after[t] \notin {"post", "nap"}
              => Stage(t) = after[t]
         /\ pc[t] \in WakeLabels \cup {"offer"} /\ after[t] = "nap" => Stage(t) = "call"
         /\ pc[t] = "post" => Stage(t) = IF t \in Posters THEN "free" ELSE "call"
         /\ pc[t] = "nap" => Stage(t) = "call"
         /\ pc[t] \notin WakeLabels \cup {"offer", "post", "nap"} => Stage(t) = pc[t]
BY DEF Stage, WakeLabels

LEMMA StageOthers ==
  ASSUME NEW t, pc'[t] = pc[t], after'[t] = after[t]
  PROVE  Stage(t)' = Stage(t)
BY DEF Stage

LEMMA GotoStage ==
  ASSUME ControlTyped, NEW t \in Threads, NEW l \in Plain,
         Goto(t, l), UNCHANGED after
  PROVE  StagesTo(t, l)
<1>1. pc'[t] = l /\ \A u \in Threads \ {t} : pc'[u] = pc[u]
  BY DEF ControlTyped
<1>2. Stage(t)' = l
  BY <1>1 DEF Stage, WakeLabels, Plain
<1>3. \A u \in Threads \ {t} : Stage(u)' = Stage(u)
  BY <1>1, StageOthers
<1> QED
  BY <1>1, <1>2, <1>3 DEF StagesTo, Plain

LEMMA CallWakeStage ==
  ASSUME ControlTyped, NEW t \in Threads, NEW l \in Plain, NEW keep, CallWake(t, l, keep)
  PROVE  StagesTo(t, l)
<1>1. pc'[t] = "wake" /\ after'[t] = l
  BY DEF CallWake, ControlTyped
<1>2. \A u \in Threads \ {t} : pc'[u] = pc[u] /\ after'[u] = after[u]
  BY DEF CallWake, ControlTyped
<1>3. Stage(t)' = l
  BY <1>1 DEF Stage, WakeLabels, Plain
<1>4. \A u \in Threads \ {t} : Stage(u)' = Stage(u)
  BY <1>2, StageOthers
<1> QED
  BY <1>1, <1>2, <1>3, <1>4 DEF StagesTo, WakeLabels

LEMMA ScheduleStage ==
  ASSUME ControlTyped, NEW t \in Threads, NEW l \in Plain, NEW d, NEW q, NEW when, NEW keep,
         Schedule(t, d, q, when, l, keep)
  PROVE  StagesTo(t, l)
BY GotoStage, CallWakeStage DEF Schedule

LEMMA QueueStage ==
  ASSUME ControlTyped, NEW t \in Threads, NEW l \in Plain, NEW d, NEW e, NEW when,
         Queue(t, d, e, when, l)
  PROVE  StagesTo(t, l)
BY GotoStage, ScheduleStage DEF Queue

LEMMA DestroyStage ==
  ASSUME ControlTyped, NEW t \in Threads, NEW l \in Plain, NEW d, Destroy(t, d, l)
  PROVE  StagesTo(t, l)
BY GotoStage, CallWakeStage DEF Destroy

LEMMA RemoveStage ==
  ASSUME ControlTyped, NEW t \in Threads, RemoveEvent(t)
  PROVE  StagesTo(t, "free")
<1>1. pc[t] = "free"
  BY DEF RemoveEvent
<1>2. CASE UNCHANGED <<pc, after>>
  BY <1>1, <1>2, StageOthers DEF StagesTo, Stage, WakeLabels
<1>3. CASE \E d, e, q : Schedule(t, d, q, due, "free", TRUE)
  BY <1>3, ScheduleStage DEF Plain
<1>4. \/ UNCHANGED <<pc, after>>
      \/ \E d, e, q : Schedule(t, d, q, due, "free", TRUE)
  BY DEF RemoveEvent, RemoveFrom
<1> QED
  BY <1>2, <1>3, <1>4

\* The steps of mprWakeEventService do not change where its caller is.
LEMMA WakeStage ==
  ASSUME ControlTyped, NEW t \in Threads, WakeStep(t)
  PROVE  StagesTo(t, Stage(t)) /\ UNCHANGED after
<1>1. UNCHANGED after
  BY DEF WakeStep, TestWaiting, TestRequested, SetRequested, WriteBreak, WakeUnchanged
<1>2. pc[t] \in WakeLabels /\ pc' \in {[pc EXCEPT ![t] = l] : l \in WakeLabels \cup {after[t]}}
  BY DEF WakeStep, TestWaiting, TestRequested, SetRequested, WriteBreak, WakeDone, WakeLabels
<1>3. \A u \in Threads \ {t} : pc'[u] = pc[u]
  BY <1>2 DEF ControlTyped
<1>4. after[t] \in {"next", "return", "done", "io", "nap", "rest", "free"}
  BY DEF ControlTyped, Afters
<1>5. pc'[t] \in WakeLabels \cup {after[t]}
  BY <1>2 DEF ControlTyped
<1>6. Stage(t)' = Stage(t) /\ (after[t] # "nap" => Stage(t) = after[t])
  BY <1>1, <1>2, <1>4, <1>5 DEF Stage, WakeLabels
<1> QED
  BY <1>1, <1>3, <1>4, <1>5, <1>6, StageOthers DEF StagesTo, WakeLabels

LEMMA SameWork ==
  ASSUME NEW u, HasWork(u), Stage(u)' = Stage(u), pc'[u] = pc[u],
         disp'[u] = disp[u], cur'[u] = cur[u], made'[u] = made[u], target'[u] = target[u]
  PROVE  HasWork(u)'
BY DEF HasWork


-----------------------------------------------------------------------------
(* Who works on what *)

\* A thread always has the dispatcher and the event that its stage needs.
LEMMA WorkSetStep ==
  ASSUME TypeOK, WorkSet, JobHolders, [Next]_vars
  PROVE  WorkSet'
<1>1. ASSUME NEW t \in Threads, WakeStep(t) PROVE WorkSet'
  <2>1. StagesTo(t, Stage(t))
    BY <1>1, WakeStage DEF TypeOK
  <2>2. UNCHANGED <<disp, cur, made, target>>
    BY <1>1 DEF WakeStep, TestWaiting, TestRequested, SetRequested, WriteBreak, WakeUnchanged
  <2> QED
    BY <2>1, <2>2 DEF WorkSet, HasWork, StagesTo
<1>2. ASSUME NEW t \in Threads, PostEvent(t) PROVE WorkSet'
  <2>1. Stage(t) = IF t \in Posters THEN "free" ELSE "call"
    BY <1>2, StageOf DEF PostEvent
  <2>2. StagesTo(t, Resume(t))
    BY <1>2, QueueStage DEF PostEvent, Resume, Plain, TypeOK
  <2>3. /\ UNCHANGED <<disp, cur>>
        /\ \A u \in Threads \ {t} : made'[u] = made[u] /\ target'[u] = target[u]
    BY <1>2 DEF PostEvent, TypeOK, DataTyped
  <2>4. HasWork(t)'
    BY <1>2, <2>1, <2>2, <2>3 DEF Resume, WorkSet, HasWork, StagesTo, UsesDispatcher
  <2>5. ASSUME NEW u \in Threads \ {t}
        PROVE  HasWork(u)'
    BY <2>2, <2>3, SameWork DEF WorkSet, StagesTo
  <2> QED
    BY <1>2, <2>4, <2>5 DEF WorkSet
<1>3. ASSUME NEW t \in Runners, NextEvent(t) PROVE WorkSet'
  <2>1. t \in Threads /\ Stage(t) = "next" /\ disp[t] \in Dispatchers
    BY <1>3, StageOf, DispTyped DEF NextEvent, WakeLabels, UsesDispatcher, Runners, Servers, Threads
  <2>2. /\ UNCHANGED <<after, disp, made, target>>
        /\ \A u \in Threads \ {t} : pc'[u] = pc[u] /\ cur'[u] = cur[u]
    BY <1>3, <2>1 DEF NextEvent, TypeOK, DataTyped, ControlTyped
  <2>3. ASSUME NEW u \in Threads \ {t}
        PROVE  HasWork(u)'
    BY <2>2, StageOthers, SameWork DEF WorkSet
  <2>4. CASE eventQ[disp[t]] # <<>> /\ due[eventQ[disp[t]][1]] <= now
    <3>1. pc'[t] = "call" /\ cur'[t] = Head(eventQ[disp[t]])
      BY <1>3, <2>1, <2>4 DEF NextEvent, TypeOK, DataTyped, ControlTyped
    <3>2. Head(eventQ[disp[t]]) \in Events
      BY <2>1, <2>4 DEF TypeOK, DataTyped
    <3>3. HasWork(t)'
      BY <2>1, <2>2, <3>1, <3>2 DEF HasWork
    <3> QED
      BY <2>1, <2>3, <3>3 DEF WorkSet
  <2>5. CASE ~(eventQ[disp[t]] # <<>> /\ due[eventQ[disp[t]][1]] <= now)
    <3>1. pc'[t] \in {"release", "flag", "block"} /\ cur'[t] = cur[t]
      BY <1>3, <2>1, <2>5 DEF NextEvent, TypeOK, ControlTyped, Backs
    <3>2. Stage(t)' = pc'[t]
      BY <3>1 DEF Stage, WakeLabels
    <3>3. HasWork(t)'
      BY <2>1, <2>2, <3>1, <3>2 DEF HasWork
    <3> QED
      BY <2>1, <2>3, <3>3 DEF WorkSet
  <2> QED
    BY <2>4, <2>5
<1>4. ASSUME NEW t \in Runners, CallDone(t) PROVE WorkSet'
  <2>1. t \in Threads /\ Stage(t) = "done" /\ disp[t] \in Dispatchers
    BY <1>4, StageOf, DispTyped DEF CallDone, WakeLabels, UsesDispatcher, Runners, Servers, Threads
  <2>2. /\ UNCHANGED <<disp, made, target>>
        /\ \A u \in Threads \ {t} : cur'[u] = cur[u]
    BY <1>4, <2>1 DEF CallDone, TypeOK, DataTyped
  <2>3. \E l \in {"next", "release", "flag", "block"} : StagesTo(t, l)
    <3>1. back[t] \in {"release", "flag", "block"}
      BY <2>1 DEF TypeOK, ControlTyped, Backs
    <3>2. CASE Goto(t, back[t]) /\ UNCHANGED after
      BY <2>1, <3>1, <3>2, GotoStage DEF TypeOK, Plain
    <3>3. CASE Goto(t, "next") /\ UNCHANGED after
      BY <2>1, <3>3, GotoStage DEF TypeOK, Plain
    <3>4. CASE \E d, q, when : Schedule(t, d, q, when, "next", TRUE)
      BY <2>1, <3>4, ScheduleStage DEF TypeOK, Plain
    <3> QED
      BY <1>4, <3>2, <3>3, <3>4 DEF CallDone
  <2>4. HasWork(t)'
    BY <2>1, <2>2, <2>3 DEF HasWork, StagesTo
  <2>5. ASSUME NEW u \in Threads \ {t}
        PROVE  HasWork(u)'
    BY <2>2, <2>3, SameWork DEF WorkSet, StagesTo
  <2> QED
    BY <2>4, <2>5 DEF WorkSet
<1>5. ASSUME NEW t \in Servers, Reclaim(t) PROVE WorkSet'
  <2>1. t \in Threads /\ job[t] \in Dispatchers
    BY <1>5, ConstantsAssumption
       DEF Reclaim, JobHolders, TypeOK, DataTyped, Servers, Threads
  <2>2. /\ UNCHANGED <<after, cur, made, target>>
        /\ \A u \in Threads \ {t} : pc'[u] = pc[u] /\ disp'[u] = disp[u]
        /\ pc'[t] \in {"return", "next"} /\ disp'[t] = job[t]
    BY <1>5, <2>1 DEF Reclaim, TypeOK, DataTyped, ControlTyped
  <2>3. HasWork(t)'
    BY <2>1, <2>2 DEF HasWork, Stage, WakeLabels, UsesDispatcher
  <2>4. ASSUME NEW u \in Threads \ {t}
        PROVE  HasWork(u)'
    BY <2>2, StageOthers, SameWork DEF WorkSet
  <2> QED
    BY <2>3, <2>4 DEF WorkSet
<1>6. ASSUME NEW t \in Servers, Resched(t) PROVE WorkSet'
  <2>1. t \in Threads
    BY <1>6 DEF Servers, Threads
  <2>2. StagesTo(t, "return")
    BY <1>6, <2>1, GotoStage, ScheduleStage DEF Resched, Plain, TypeOK
  <2>3. UNCHANGED <<disp, cur, made, target>>
    BY <1>6 DEF Resched
  <2> QED
    BY <2>2, <2>3 DEF WorkSet, HasWork, StagesTo, UsesDispatcher
<1>7. ASSUME ScanReady PROVE WorkSet'
  <2>1. PICK d \in Candidates :
          \/ Goto(Service, "count") /\ UNCHANGED disp
          \/ Goto(Service, "enlist") /\ disp' = [disp EXCEPT ![Service] = d]
    BY <1>7 DEF ScanReady
  <2>2. /\ UNCHANGED <<after, cur, made, target>>
        /\ \A u \in Threads \ {Service} : pc'[u] = pc[u] /\ disp'[u] = disp[u]
        /\ \/ pc'[Service] = "count"
           \/ pc'[Service] = "enlist" /\ disp'[Service] \in Dispatchers
    <3>1. Service \in Threads /\ d \in Dispatchers
      BY DEF Threads, Candidates, FirstOf, On
    <3>2. UNCHANGED <<after, cur, made, target>>
      BY <1>7 DEF ScanReady
    <3> QED
      BY <2>1, <3>1, <3>2 DEF TypeOK, DataTyped, ControlTyped
  <2>3. HasWork(Service)'
    BY <2>2 DEF HasWork, Stage, WakeLabels, UsesDispatcher
  <2>4. ASSUME NEW u \in Threads \ {Service}
        PROVE  HasWork(u)'
    BY <2>2, StageOthers, SameWork DEF WorkSet
  <2> QED
    BY <2>3, <2>4 DEF WorkSet
<1>8. ASSUME NEW w \in Workers, Offer(w) PROVE WorkSet'
  <2>1. w \in Threads /\ after[w] \in {"next", "return", "done", "nap", "rest"}
    BY <1>8, ConstantsAssumption DEF Threads, TypeOK, ControlTyped, Afters
  <2>2. /\ pc[w] = "offer" /\ pc'[w] \in {"wake", after[w]}
        /\ \A u \in Threads \ {w} : pc'[u] = pc[u]
        /\ UNCHANGED <<after, disp, cur, made, target>>
    BY <1>8, <2>1 DEF Offer, TypeOK, ControlTyped
  <2>3. Stage(w)' = Stage(w) /\ pc'[w] # "post"
    BY <2>1, <2>2 DEF Stage, WakeLabels
  <2> QED
    BY <2>1, <2>2, <2>3, StageOthers DEF WorkSet, HasWork
<1>9. ASSUME NEW o \in Owners, StartEnter(o) PROVE WorkSet'
  <2>1. o \in Threads /\ Stage(o) = "enter"
    BY <1>9, StageOf DEF StartEnter, WakeLabels, Threads
  <2>2. StagesTo(o, "held")
    BY <1>9, <2>1, GotoStage DEF StartEnter, Plain, TypeOK
  <2>3. UNCHANGED <<disp, cur, made, target>>
    BY <1>9 DEF StartEnter
  <2> QED
    BY <2>1, <2>2, <2>3 DEF WorkSet, HasWork, StagesTo, UsesDispatcher
<1>10. ASSUME NEW o \in Owners, WaitFlag(o) PROVE WorkSet'
  <2>1. o \in Threads /\ Stage(o) = "flag"
    BY <1>10, StageOf DEF WaitFlag, WakeLabels, Threads
  <2>2. \E l \in {"held", "block", "next"} : StagesTo(o, l)
    BY <1>10, <2>1, GotoStage DEF WaitFlag, Plain, TypeOK
  <2>3. UNCHANGED <<disp, cur, made, target>>
    BY <1>10 DEF WaitFlag
  <2> QED
    BY <2>1, <2>2, <2>3 DEF WorkSet, HasWork, StagesTo, UsesDispatcher
<1>11. ASSUME NEW o \in Owners, StopSchedule(o) PROVE WorkSet'
  <2>1. o \in Threads
    BY <1>11 DEF Threads
  <2>2. StagesTo(o, "free")
    BY <1>11, <2>1, GotoStage, ScheduleStage DEF StopSchedule, Plain, TypeOK
  <2>3. UNCHANGED <<disp, cur, made, target>>
    BY <1>11 DEF StopSchedule
  <2> QED
    BY <2>2, <2>3 DEF WorkSet, HasWork, StagesTo, UsesDispatcher
<1>12. ASSUME NEW t \in Threads, CreateEvent(t) PROVE WorkSet'
  <2>1. /\ Stage(t) = IF t \in Posters THEN "free" ELSE "call"
        /\ t \in Posters \/ t \in Runners
    BY <1>12, StageOf, ConstantsAssumption DEF CreateEvent, MayCreate, WakeLabels, Runners, Servers
  <2>2. /\ pc' = [pc EXCEPT ![t] = "post"] /\ UNCHANGED <<after, disp, cur>>
        /\ \A u \in Threads \ {t} : pc'[u] = pc[u] /\ made'[u] = made[u] /\ target'[u] = target[u]
    BY <1>12 DEF CreateEvent, TypeOK, DataTyped, ControlTyped
  <2>3. made'[t] \in Events /\ target'[t] \in Dispatchers
    BY <1>12, ConstantsAssumption DEF CreateEvent, TypeOK, DataTyped
  <2>4. HasWork(t)'
    <3>1. Stage(t)' = Stage(t)
      BY <1>12, <2>1, <2>2 DEF Stage, WakeLabels, TypeOK, ControlTyped
    <3> QED
      BY <1>12, <2>1, <2>2, <2>3, <3>1 DEF WorkSet, HasWork
  <2>5. ASSUME NEW u \in Threads \ {t}
        PROVE  HasWork(u)'
    BY <2>2, StageOthers, SameWork DEF WorkSet
  <2> QED
    BY <2>4, <2>5 DEF WorkSet
<1>13. ASSUME NEW t \in Threads, RemoveEvent(t) PROVE WorkSet'
  <2>1. StagesTo(t, "free")
    BY <1>13, RemoveStage DEF TypeOK
  <2>2. UNCHANGED <<disp, cur, made, target>>
    BY <1>13 DEF RemoveEvent
  <2> QED
    BY <1>13, <2>1, <2>2 DEF WorkSet, HasWork, StagesTo, UsesDispatcher
<1>14. ASSUME NEW t \in Threads, DestroyForeign(t) PROVE WorkSet'
  <2>1. StagesTo(t, "free")
    BY <1>14, DestroyStage DEF DestroyForeign, Plain, TypeOK
  <2>2. UNCHANGED <<disp, cur, made, target>>
    BY <1>14 DEF DestroyForeign, DestroyUnchanged
  <2> QED
    BY <1>14, <2>1, <2>2 DEF WorkSet, HasWork, StagesTo, UsesDispatcher
<1>15. ASSUME NEW t \in Threads, DestroyInCall(t) PROVE WorkSet'
  <2>1. t \in Threads /\ Stage(t) = "call"
    BY <1>15, StageOf DEF DestroyInCall, WakeLabels, Runners, Servers, Threads
  <2>2. StagesTo(t, "done")
    BY <1>15, <2>1, DestroyStage DEF DestroyInCall, Plain, TypeOK
  <2>3. UNCHANGED <<disp, cur, made, target>>
    BY <1>15 DEF DestroyInCall, DestroyUnchanged
  <2> QED
    BY <2>1, <2>2, <2>3 DEF WorkSet, HasWork, StagesTo, UsesDispatcher
<1>16. ASSUME NEW o \in Owners, DestroyOwned(o) PROVE WorkSet'
  <2>1. o \in Threads
    BY <1>16 DEF Threads
  <2>2. StagesTo(o, "free")
    BY <1>16, <2>1, DestroyStage DEF DestroyOwned, Plain, TypeOK
  <2>3. UNCHANGED <<disp, cur, made, target>>
    BY <1>16 DEF DestroyOwned, DestroyUnchanged
  <2> QED
    BY <2>2, <2>3 DEF WorkSet, HasWork, StagesTo, UsesDispatcher
<1>17. ASSUME QueueIOEvent PROVE WorkSet'
  <2>1. StagesTo(Service, "io")
    BY <1>17, QueueStage DEF QueueIOEvent, Plain, TypeOK, Threads
  <2>2. UNCHANGED <<disp, cur, made, target>>
    BY <1>17 DEF QueueIOEvent
  <2> QED
    BY <2>1, <2>2 DEF WorkSet, HasWork, StagesTo, UsesDispatcher
<1> USE ConstantsAssumption DEF TypeOK, ControlTyped, DataTyped, WorkSet, HasWork,
        Stage, WakeLabels, UsesDispatcher, Threads, Runners, Servers
<1>18. ASSUME NEW t \in Runners, CallReturns(t) PROVE WorkSet'
  BY SMTT(30), ZenonT(60), <1>18 DEF CallReturns
<1>19. ASSUME NEW t \in Servers, Release(t) PROVE WorkSet'
  BY <1>19 DEF Release
<1>20. ASSUME NEW t \in Servers, Unlink(t) PROVE WorkSet'
  BY <1>20 DEF Unlink
<1>21. ASSUME ScanEmpty PROVE WorkSet'
  BY <1>21 DEF ScanEmpty
<1>22. ASSUME Enlist PROVE WorkSet'
  BY SMTT(30), ZenonT(60), <1>22 DEF Enlist, QueueDispatcher
<1>23. ASSUME StartIdleWorker PROVE WorkSet'
  BY <1>23 DEF StartIdleWorker, Handover
<1>24. ASSUME StartNewWorker PROVE WorkSet'
  BY SMTT(60), <1>24 DEF StartNewWorker, Handover
<1>25. ASSUME NoWorker PROVE WorkSet'
  BY SMTT(30), ZenonT(60), <1>25 DEF NoWorker
<1>26. ASSUME Park PROVE WorkSet'
  BY <1>26 DEF Park, QueueDispatcher
<1>27. ASSUME CheckCount PROVE WorkSet'
  BY <1>27 DEF CheckCount
<1>28. ASSUME Doze PROVE WorkSet'
  BY SMTT(60), <1>28 DEF Doze, IdleTicks, On, Lesser, Forever
<1>29. ASSUME Wakes PROVE WorkSet'
  BY SMTT(30), ZenonT(60), <1>29 DEF Wakes, EpollReturns
<1>30. ASSUME ClearWaiting PROVE WorkSet'
  BY <1>30 DEF ClearWaiting
<1>31. ASSUME Drain PROVE WorkSet'
  BY SMTT(30), ZenonT(60), <1>31 DEF Drain
<1>32. ASSUME ResetWake PROVE WorkSet'
  BY <1>32 DEF ResetWake
<1>33. ASSUME Refresh PROVE WorkSet'
  BY <1>33 DEF Refresh
<1>34. ASSUME HelperReturns PROVE WorkSet'
  BY SMTT(30), ZenonT(60), <1>34 DEF HelperReturns
<1>35. ASSUME NEW w \in Workers, NapEnds(w) PROVE WorkSet'
  BY <1>35 DEF NapEnds
<1>36. ASSUME NEW w \in Workers, BecomeIdle(w) PROVE WorkSet'
  BY SMTT(30), ZenonT(60), <1>36 DEF BecomeIdle
<1>37. ASSUME NEW w \in Workers, Rest(w) PROVE WorkSet'
  BY SMTT(30), ZenonT(60), <1>37 DEF Rest
<1>38. ASSUME NEW o \in Owners, WaitSkips(o) PROVE WorkSet'
  BY SMTT(60), <1>38 DEF WaitSkips, WaitEnds
<1>39. ASSUME NEW o \in Owners, WaitWakes(o) PROVE WorkSet'
  BY SMTT(60), <1>39 DEF WaitWakes, WaitEnds
<1>40. ASSUME NEW o \in Owners, WaitUnflag(o) PROVE WorkSet'
  BY SMTT(30), ZenonT(60), <1>40 DEF WaitUnflag
<1>41. ASSUME NEW o \in Owners, StopRelease(o) PROVE WorkSet'
  BY SMTT(30), ZenonT(60), <1>41 DEF StopRelease
<1>42. ASSUME NEW w \in Workers, CallYields(w) PROVE WorkSet'
  BY SMTT(30), ZenonT(60), <1>42 DEF CallYields
<1>43. ASSUME NEW o \in Owners, StartClaim(o) PROVE WorkSet'
  BY SMTT(30), ZenonT(60), <1>43 DEF StartClaim
<1>44. ASSUME NEW o \in Owners, WaitBegin(o) PROVE WorkSet'
  BY SMTT(60), <1>44 DEF WaitBegin
<1>45. ASSUME NEW o \in Owners, WaitTimesOut(o) PROVE WorkSet'
  BY SMTT(60), <1>45 DEF WaitTimesOut, WaitEnds
<1>46. ASSUME NEW o \in Owners, StopDequeue(o) PROVE WorkSet'
  BY SMTT(30), ZenonT(60), <1>46 DEF StopDequeue
<1>47. ASSUME OtherIO PROVE WorkSet'
  BY SMTT(30), ZenonT(60), <1>47 DEF OtherIO, EpollReturns
<1>48. ASSUME Tick PROVE WorkSet'
  BY <1>48 DEF Tick
<1>49. ASSUME UNCHANGED vars PROVE WorkSet'
  BY <1>49 DEF vars
<1> HIDE ConstantsAssumption DEF TypeOK, ControlTyped, DataTyped, WorkSet, HasWork,
        Stage, WakeLabels, UsesDispatcher, Threads, Runners, Servers
<1> QED
  BY <1>1, <1>2, <1>3, <1>4, <1>5, <1>6, <1>7, <1>8, <1>9, <1>10, <1>11, <1>12,
     <1>13, <1>14, <1>15, <1>16, <1>17, <1>18, <1>19, <1>20, <1>21, <1>22, <1>23, <1>24,
     <1>25, <1>26, <1>27, <1>28, <1>29, <1>30, <1>31, <1>32, <1>33, <1>34, <1>35, <1>36,
     <1>37, <1>38, <1>39, <1>40, <1>41, <1>42, <1>43, <1>44, <1>45, <1>46, <1>47, <1>48,
     <1>49
     DEF Next, Program, Choice, RunStep, HelperStep, ServiceStep, WorkerStep,
         OwnerStep


\* A step that hands no job around leaves the jobs where they are.
LEMMA SameJobs ==
  ASSUME JobHolders, NEW t \in Threads, NEW l, StagesTo(t, l),
         {pc[t], l} \cap {"enlist", "start", "claim"} = {},
         Stage(t) = "rest" => l = "rest",
         UNCHANGED <<job, idle, idleCond, disp>>
  PROVE  JobHolders'
<1>1. /\ pc'[Service] \in {"enlist", "start", "claim"} <=> pc[Service] \in {"enlist", "start", "claim"}
      /\ pc'[Service] \in {"enlist", "start"} => pc'[Service] = pc[Service]
  BY DEF StagesTo, Threads, WakeLabels
<1>2. ASSUME NEW w \in Workers
      PROVE  /\ pc'[w] = "claim" <=> pc[w] = "claim"
             /\ Stage(w) = "rest" => Stage(w)' = "rest"
  BY DEF StagesTo, Threads, WakeLabels
<1> QED
  BY <1>1, <1>2 DEF JobHolders


\* A reserved dispatcher is with the service, or with the worker it was handed to.
LEMMA JobHoldersStep ==
  ASSUME TypeOK, WorkSet, JobHolders, [Next]_vars
  PROVE  JobHolders'
<1>1. ASSUME NEW t \in Threads, WakeStep(t) PROVE JobHolders'
  <2>1. StagesTo(t, Stage(t))
    BY <1>1, WakeStage DEF TypeOK
  <2>2. UNCHANGED <<job, idle, idleCond, disp>>
    BY <1>1 DEF WakeStep, TestWaiting, TestRequested, SetRequested, WriteBreak, WakeUnchanged
  <2>3. {pc[t], Stage(t)} \cap {"enlist", "start", "claim"} = {}
    BY <1>1 DEF WakeStep, TestWaiting, TestRequested, SetRequested, WriteBreak, TypeOK,
              ControlTyped, Afters, Stage, WakeLabels
  <2> QED
    BY <2>1, <2>2, <2>3, SameJobs
<1>2. ASSUME NEW t \in Threads, PostEvent(t) PROVE JobHolders'
  <2>1. t \in Threads
    BY <1>2 DEF Threads
  <2>2. StagesTo(t, Resume(t))
    BY <1>2, <2>1, QueueStage DEF PostEvent, Plain, TypeOK, Resume
  <2>3. pc[t] \notin {"enlist", "start", "claim"} /\ Stage(t) # "rest"
    BY <1>2 DEF PostEvent, Stage, WakeLabels
  <2>4. UNCHANGED <<job, idle, idleCond, disp>>
    BY <1>2 DEF PostEvent
  <2> QED
    BY <2>1, <2>2, <2>3, <2>4, SameJobs DEF Resume
<1>3. ASSUME NEW t \in Runners, NextEvent(t) PROVE JobHolders'
  <2>1. t \in Threads /\ back[t] \in {"release", "flag", "block"}
    BY <1>3 DEF Threads, Runners, Servers, TypeOK, ControlTyped, Backs
  <2>2. \E l \in {"call", "release", "flag", "block"} : StagesTo(t, l)
    <3>1. CASE Goto(t, back[t]) /\ UNCHANGED after
      BY <2>1, <3>1, GotoStage DEF TypeOK, Plain
    <3>2. CASE Goto(t, "call") /\ UNCHANGED after
      BY <2>1, <3>2, GotoStage DEF TypeOK, Plain
    <3> QED
      BY <1>3, <3>1, <3>2 DEF NextEvent
  <2>3. pc[t] \notin {"enlist", "start", "claim"} /\ Stage(t) # "rest"
    BY <1>3 DEF NextEvent, Stage, WakeLabels
  <2>4. UNCHANGED <<job, idle, idleCond, disp>>
    BY <1>3 DEF NextEvent
  <2> QED
    BY <2>1, <2>2, <2>3, <2>4, SameJobs
<1>4. ASSUME NEW t \in Runners, CallDone(t) PROVE JobHolders'
  <2>1. t \in Threads /\ back[t] \in {"release", "flag", "block"}
    BY <1>4 DEF Threads, Runners, Servers, TypeOK, ControlTyped, Backs
  <2>2. \E l \in {"next", "release", "flag", "block"} : StagesTo(t, l)
    <3>1. CASE Goto(t, back[t]) /\ UNCHANGED after
      BY <2>1, <3>1, GotoStage DEF TypeOK, Plain
    <3>2. CASE Goto(t, "next") /\ UNCHANGED after
      BY <2>1, <3>2, GotoStage DEF TypeOK, Plain
    <3>3. CASE \E d, q, when : Schedule(t, d, q, when, "next", TRUE)
      BY <2>1, <3>3, ScheduleStage DEF TypeOK, Plain
    <3> QED
      BY <1>4, <3>1, <3>2, <3>3 DEF CallDone
  <2>3. pc[t] \notin {"enlist", "start", "claim"} /\ Stage(t) # "rest"
    BY <1>4 DEF CallDone, Stage, WakeLabels
  <2>4. UNCHANGED <<job, idle, idleCond, disp>>
    BY <1>4 DEF CallDone
  <2> QED
    BY <2>1, <2>2, <2>3, <2>4, SameJobs
<1>5. ASSUME NEW t \in Servers, Resched(t) PROVE JobHolders'
  <2>1. t \in Threads
    BY <1>5 DEF Threads, Servers
  <2>2. StagesTo(t, "return")
    BY <1>5, <2>1, GotoStage, ScheduleStage DEF Resched, Plain, TypeOK
  <2>3. pc[t] \notin {"enlist", "start", "claim"} /\ Stage(t) # "rest"
    BY <1>5 DEF Resched, Stage, WakeLabels
  <2>4. UNCHANGED <<job, idle, idleCond, disp>>
    BY <1>5 DEF Resched
  <2> QED
    BY <2>1, <2>2, <2>3, <2>4, SameJobs
<1>6. ASSUME NEW w \in Workers, Offer(w) PROVE JobHolders'
  <2>1. w \in Threads /\ after[w] \in {"next", "return", "done", "nap", "rest"}
    BY <1>6, ConstantsAssumption DEF Threads, TypeOK, ControlTyped, Afters
  <2>2. /\ pc[w] = "offer" /\ pc'[w] \in {"wake", after[w]}
        /\ \A u \in Threads \ {w} : pc'[u] = pc[u]
        /\ UNCHANGED <<after, job, idle, idleCond, disp>>
    BY <1>6, <2>1 DEF Offer, TypeOK, ControlTyped
  <2>3. Stage(w)' = Stage(w)
    BY <2>1, <2>2 DEF Stage, WakeLabels
  <2>4. \A u \in Threads : Stage(u)' = Stage(u)
    BY <2>2, <2>3, StageOthers
  <2> QED
    BY <1>6, <2>1, <2>2, <2>4, ConstantsAssumption DEF JobHolders, Threads
<1>7. ASSUME NEW o \in Owners, StopSchedule(o) PROVE JobHolders'
  <2>1. o \in Threads
    BY <1>7 DEF Threads
  <2>2. StagesTo(o, "free")
    BY <1>7, <2>1, GotoStage, ScheduleStage DEF StopSchedule, Plain, TypeOK
  <2>3. pc[o] \notin {"enlist", "start", "claim"} /\ Stage(o) # "rest"
    BY <1>7 DEF StopSchedule, Stage, WakeLabels
  <2>4. UNCHANGED <<job, idle, idleCond, disp>>
    BY <1>7 DEF StopSchedule
  <2> QED
    BY <2>1, <2>2, <2>3, <2>4, SameJobs
<1>8. ASSUME NEW t \in Threads, CreateEvent(t) PROVE JobHolders'
  <2>1. pc[t] \in {"free", "call"}
    BY <1>8 DEF CreateEvent, MayCreate
  <2>2. /\ pc'[t] = "post" /\ \A u \in Threads \ {t} : pc'[u] = pc[u]
        /\ UNCHANGED <<after, job, idle, idleCond, disp>>
    BY <1>8 DEF CreateEvent, TypeOK, ControlTyped
  <2>3. \A u \in Threads \ {t} : Stage(u)' = Stage(u)
    BY <2>2, StageOthers
  <2>4. Stage(t) # "rest"
    BY <2>1 DEF Stage, WakeLabels
  <2> QED
    BY <2>1, <2>2, <2>3, <2>4 DEF JobHolders, Threads
<1>9. ASSUME NEW t \in Threads, RemoveEvent(t) PROVE JobHolders'
  <2>1. StagesTo(t, "free")
    BY <1>9, RemoveStage DEF TypeOK
  <2>2. pc[t] \notin {"enlist", "start", "claim"} /\ Stage(t) # "rest"
    BY <1>9 DEF RemoveEvent, Stage, WakeLabels
  <2>3. UNCHANGED <<job, idle, idleCond, disp>>
    BY <1>9 DEF RemoveEvent
  <2> QED
    BY <1>9, <2>1, <2>2, <2>3, SameJobs
<1>10. ASSUME NEW t \in Threads, DestroyForeign(t) PROVE JobHolders'
  <2>1. t \in Threads
    BY <1>10 DEF Threads
  <2>2. StagesTo(t, "free")
    BY <1>10, <2>1, DestroyStage DEF DestroyForeign, Plain, TypeOK
  <2>3. pc[t] \notin {"enlist", "start", "claim"} /\ Stage(t) # "rest"
    BY <1>10 DEF DestroyForeign, Stage, WakeLabels
  <2>4. UNCHANGED <<job, idle, idleCond, disp>>
    BY <1>10 DEF DestroyForeign, DestroyUnchanged
  <2> QED
    BY <2>1, <2>2, <2>3, <2>4, SameJobs
<1>11. ASSUME NEW t \in Threads, DestroyInCall(t) PROVE JobHolders'
  <2>1. t \in Threads
    BY <1>11 DEF Threads, Runners, Servers
  <2>2. StagesTo(t, "done")
    BY <1>11, <2>1, DestroyStage DEF DestroyInCall, Plain, TypeOK
  <2>3. pc[t] \notin {"enlist", "start", "claim"} /\ Stage(t) # "rest"
    BY <1>11 DEF DestroyInCall, Stage, WakeLabels
  <2>4. UNCHANGED <<job, idle, idleCond, disp>>
    BY <1>11 DEF DestroyInCall, DestroyUnchanged
  <2> QED
    BY <2>1, <2>2, <2>3, <2>4, SameJobs
<1>12. ASSUME NEW o \in Owners, DestroyOwned(o) PROVE JobHolders'
  <2>1. o \in Threads
    BY <1>12 DEF Threads
  <2>2. StagesTo(o, "free")
    BY <1>12, <2>1, DestroyStage DEF DestroyOwned, Plain, TypeOK
  <2>3. pc[o] \notin {"enlist", "start", "claim"} /\ Stage(o) # "rest"
    BY <1>12 DEF DestroyOwned, Stage, WakeLabels
  <2>4. UNCHANGED <<job, idle, idleCond, disp>>
    BY <1>12 DEF DestroyOwned, DestroyUnchanged
  <2> QED
    BY <2>1, <2>2, <2>3, <2>4, SameJobs
<1>13. ASSUME QueueIOEvent PROVE JobHolders'
  <2>1. Service \in Threads
    BY <1>13 DEF Threads
  <2>2. StagesTo(Service, "io")
    BY <1>13, <2>1, QueueStage DEF QueueIOEvent, Plain, TypeOK
  <2>3. pc[Service] \notin {"enlist", "start", "claim"} /\ Stage(Service) # "rest"
    BY <1>13 DEF QueueIOEvent, Stage, WakeLabels
  <2>4. UNCHANGED <<job, idle, idleCond, disp>>
    BY <1>13 DEF QueueIOEvent
  <2> QED
    BY <2>1, <2>2, <2>3, <2>4, SameJobs
<1> USE ConstantsAssumption DEF TypeOK, ControlTyped, DataTyped, WorkSet, HasWork,
        JobHolders, Stage, WakeLabels, UsesDispatcher, Labels, HelperLabels, RunLabels,
        Threads, Runners, Servers
<1>14. ASSUME NEW t \in Runners, CallReturns(t) PROVE JobHolders'
  BY SMTT(60), <1>14 DEF CallReturns
<1>15. ASSUME NEW t \in Servers, Reclaim(t) PROVE JobHolders'
  BY SMTT(30), ZenonT(60), <1>15 DEF Reclaim
<1>16. ASSUME NEW t \in Servers, Release(t) PROVE JobHolders'
  BY SMTT(30), ZenonT(60), <1>16 DEF Release
<1>17. ASSUME NEW t \in Servers, Unlink(t) PROVE JobHolders'
  BY SMTT(30), ZenonT(60), <1>17 DEF Unlink
<1>18. ASSUME ScanReady PROVE JobHolders'
  BY SMTT(60), <1>18 DEF ScanReady, QueueDispatcher, Candidates, FirstOf, On
<1>19. ASSUME ScanEmpty PROVE JobHolders'
  BY <1>19 DEF ScanEmpty
<1>20. ASSUME Enlist PROVE JobHolders'
  BY SMTT(60), <1>20 DEF Enlist, QueueDispatcher
<1>21. ASSUME StartIdleWorker PROVE JobHolders'
  BY SMTT(60), <1>21 DEF StartIdleWorker, Handover
<1>22. ASSUME StartNewWorker PROVE JobHolders'
  BY <1>22 DEF StartNewWorker, Handover
<1>23. ASSUME NoWorker PROVE JobHolders'
  BY <1>23 DEF NoWorker
<1>24. ASSUME Park PROVE JobHolders'
  BY <1>24 DEF Park, QueueDispatcher
<1>25. ASSUME CheckCount PROVE JobHolders'
  BY <1>25 DEF CheckCount
<1>26. ASSUME Doze PROVE JobHolders'
  BY SMTT(60), <1>26 DEF Doze, IdleTicks, On, Lesser, Forever
<1>27. ASSUME Wakes PROVE JobHolders'
  BY <1>27 DEF Wakes, EpollReturns
<1>28. ASSUME ClearWaiting PROVE JobHolders'
  BY <1>28 DEF ClearWaiting
<1>29. ASSUME Drain PROVE JobHolders'
  BY <1>29 DEF Drain
<1>30. ASSUME ResetWake PROVE JobHolders'
  BY <1>30 DEF ResetWake
<1>31. ASSUME Refresh PROVE JobHolders'
  BY <1>31 DEF Refresh
<1>32. ASSUME HelperReturns PROVE JobHolders'
  BY <1>32 DEF HelperReturns
<1>33. ASSUME NEW w \in Workers, NapEnds(w) PROVE JobHolders'
  BY <1>33 DEF NapEnds
<1>34. ASSUME NEW w \in Workers, BecomeIdle(w) PROVE JobHolders'
  BY SMTT(30), ZenonT(60), <1>34 DEF BecomeIdle
<1>35. ASSUME NEW w \in Workers, Rest(w) PROVE JobHolders'
  BY SMTT(60), <1>35 DEF Rest
<1>36. ASSUME NEW o \in Owners, StartEnter(o) PROVE JobHolders'
  BY <1>36 DEF StartEnter, QueueDispatcher
<1>37. ASSUME NEW o \in Owners, WaitFlag(o) PROVE JobHolders'
  BY SMTT(60), <1>37 DEF WaitFlag
<1>38. ASSUME NEW o \in Owners, WaitSkips(o) PROVE JobHolders'
  BY <1>38 DEF WaitSkips, WaitEnds
<1>39. ASSUME NEW o \in Owners, WaitWakes(o) PROVE JobHolders'
  BY SMTT(30), ZenonT(60), <1>39 DEF WaitWakes, WaitEnds
<1>40. ASSUME NEW o \in Owners, WaitUnflag(o) PROVE JobHolders'
  BY <1>40 DEF WaitUnflag
<1>41. ASSUME NEW o \in Owners, StopRelease(o) PROVE JobHolders'
  BY <1>41 DEF StopRelease
<1>42. ASSUME NEW w \in Workers, CallYields(w) PROVE JobHolders'
  BY <1>42 DEF CallYields
<1>43. ASSUME NEW o \in Owners, StartClaim(o) PROVE JobHolders'
  BY SMTT(60), <1>43 DEF StartClaim
<1>44. ASSUME NEW o \in Owners, WaitBegin(o) PROVE JobHolders'
  BY <1>44 DEF WaitBegin
<1>45. ASSUME NEW o \in Owners, WaitTimesOut(o) PROVE JobHolders'
  BY SMTT(30), ZenonT(60), <1>45 DEF WaitTimesOut, WaitEnds
<1>46. ASSUME NEW o \in Owners, StopDequeue(o) PROVE JobHolders'
  BY <1>46 DEF StopDequeue
<1>47. ASSUME OtherIO PROVE JobHolders'
  BY <1>47 DEF OtherIO, EpollReturns
<1>48. ASSUME Tick PROVE JobHolders'
  BY <1>48 DEF Tick
<1>49. ASSUME UNCHANGED vars PROVE JobHolders'
  BY <1>49 DEF vars
<1> HIDE ConstantsAssumption DEF TypeOK, ControlTyped, DataTyped, WorkSet, HasWork,
        JobHolders, Stage, WakeLabels, UsesDispatcher, Labels, HelperLabels, RunLabels,
        Threads, Runners, Servers
<1> QED
  BY <1>1, <1>2, <1>3, <1>4, <1>5, <1>6, <1>7, <1>8, <1>9, <1>10, <1>11, <1>12,
     <1>13, <1>14, <1>15, <1>16, <1>17, <1>18, <1>19, <1>20, <1>21, <1>22, <1>23, <1>24,
     <1>25, <1>26, <1>27, <1>28, <1>29, <1>30, <1>31, <1>32, <1>33, <1>34, <1>35, <1>36,
     <1>37, <1>38, <1>39, <1>40, <1>41, <1>42, <1>43, <1>44, <1>45, <1>46, <1>47, <1>48,
     <1>49
     DEF Next, Program, Choice, RunStep, HelperStep, ServiceStep, WorkerStep,
         OwnerStep


\* A step that changes no owner field keeps the owners of whoever goes on
\* working on the same dispatcher.
LEMMA SameOwners ==
  ASSUME OwnerHolds, NEW t \in Threads, NEW l, StagesTo(t, l), UNCHANGED <<owner, disp>>,
         t \in Servers => (l \in {"next", "call", "done", "release"}
                             => Stage(t) \in {"next", "call", "done", "release"}),
         t \in Owners => (l \in UsesDispatcher \ {"stopped"}
                             => Stage(t) \in UsesDispatcher \ {"stopped"})
  PROVE  OwnerHolds'
BY DEF OwnerHolds, StagesTo, Threads, Servers


\* A dispatcher's owner field names the thread that works on it.
LEMMA OwnerHoldsStep ==
  ASSUME TypeOK, WorkSet, JobHolders, ReservedOnce, OwnerHolds, [Next]_vars
  PROVE  OwnerHolds'
<1>1. ASSUME NEW t \in Threads, WakeStep(t) PROVE OwnerHolds'
  <2>1. StagesTo(t, Stage(t))
    BY <1>1, WakeStage DEF TypeOK
  <2>2. UNCHANGED <<owner, disp>>
    BY <1>1 DEF WakeStep, TestWaiting, TestRequested, SetRequested, WriteBreak, WakeUnchanged
  <2> QED
    BY <1>1, <2>1, <2>2, SameOwners
<1>2. ASSUME NEW t \in Threads, PostEvent(t) PROVE OwnerHolds'
  <2>1. t \in Threads
    BY <1>2 DEF Threads
  <2>2. StagesTo(t, Resume(t))
    BY <1>2, <2>1, QueueStage DEF PostEvent, Plain, TypeOK, Resume
  <2>3. Stage(t) = IF t \in Posters THEN "free" ELSE "call"
    BY <1>2, StageOf DEF PostEvent, WakeLabels
  <2>4. UNCHANGED <<owner, disp>>
    BY <1>2 DEF PostEvent
  <2> QED
    BY <1>2, <2>1, <2>2, <2>3, <2>4, SameOwners, ConstantsAssumption
       DEF UsesDispatcher, Servers, Runners, Resume
<1>3. ASSUME NEW t \in Runners, NextEvent(t) PROVE OwnerHolds'
  <2>1. t \in Threads /\ back[t] \in Backs(t)
    BY <1>3 DEF Threads, Runners, Servers, TypeOK, ControlTyped
  <2>2. \E l \in {"call", back[t]} : StagesTo(t, l)
    <3>1. CASE Goto(t, back[t]) /\ UNCHANGED after
      BY <2>1, <3>1, GotoStage DEF TypeOK, Plain, Backs
    <3>2. CASE Goto(t, "call") /\ UNCHANGED after
      BY <2>1, <3>2, GotoStage DEF TypeOK, Plain
    <3> QED
      BY <1>3, <3>1, <3>2 DEF NextEvent
  <2>3. Stage(t) = "next"
    BY <1>3, StageOf DEF NextEvent, WakeLabels
  <2>4. UNCHANGED <<owner, disp>>
    BY <1>3 DEF NextEvent
  <2> QED
    BY <2>1, <2>2, <2>3, <2>4, SameOwners DEF Backs, UsesDispatcher
<1>4. ASSUME NEW t \in Runners, CallDone(t) PROVE OwnerHolds'
  <2>1. t \in Threads /\ back[t] \in Backs(t)
    BY <1>4 DEF Threads, Runners, Servers, TypeOK, ControlTyped
  <2>2. \E l \in {"next", back[t]} : StagesTo(t, l)
    <3>1. CASE Goto(t, back[t]) /\ UNCHANGED after
      BY <2>1, <3>1, GotoStage DEF TypeOK, Plain, Backs
    <3>2. CASE Goto(t, "next") /\ UNCHANGED after
      BY <2>1, <3>2, GotoStage DEF TypeOK, Plain
    <3>3. CASE \E d, q, when : Schedule(t, d, q, when, "next", TRUE)
      BY <2>1, <3>3, ScheduleStage DEF TypeOK, Plain
    <3> QED
      BY <1>4, <3>1, <3>2, <3>3 DEF CallDone
  <2>3. Stage(t) = "done"
    BY <1>4, StageOf DEF CallDone, WakeLabels
  <2>4. UNCHANGED <<owner, disp>>
    BY <1>4 DEF CallDone
  <2> QED
    BY <2>1, <2>2, <2>3, <2>4, SameOwners DEF Backs, UsesDispatcher
<1>5. ASSUME NEW t \in Servers, Reclaim(t) PROVE OwnerHolds'
  <2>1. t \in Threads /\ job[t] \in Dispatchers
    BY <1>5, ConstantsAssumption
       DEF Reclaim, JobHolders, TypeOK, DataTyped, Servers, Threads
  <2>2. \A u \in Threads \ {t} : Stage(u)' = Stage(u) /\ disp'[u] = disp[u]
    BY <1>5, <2>1, StageOthers DEF Reclaim, TypeOK, DataTyped, ControlTyped
  <2>3. CASE job[t] \in destroyed \/ owner[job[t]] # Reserved
    <3>1. StagesTo(t, "return") /\ UNCHANGED owner
      BY <1>5, <2>1, <2>3, GotoStage DEF Reclaim, Plain, TypeOK
    <3> QED
      BY <1>5, <2>2, <3>1, ConstantsAssumption
         DEF OwnerHolds, StagesTo, Servers, Threads
  <2>4. CASE ~(job[t] \in destroyed \/ owner[job[t]] # Reserved)
    <3>1. StagesTo(t, "next")
      BY <1>5, <2>1, <2>4, GotoStage DEF Reclaim, Plain, TypeOK
    <3>2. /\ owner'[job[t]] = t /\ disp'[t] = job[t] /\ owner[job[t]] = Reserved
          /\ \A x \in Dispatchers \ {job[t]} : owner'[x] = owner[x]
      BY <1>5, <2>1, <2>4 DEF Reclaim, TypeOK, DataTyped
    <3>3. ASSUME NEW u \in Threads \ {t}, owner[disp[u]] = u, disp[u] \in Dispatchers
          PROVE  owner'[disp'[u]] = u
      BY <2>2, <3>2, <3>3, ConstantsAssumption
    <3>4. ASSUME NEW u \in Servers, Stage(u)' \in {"next", "call", "done", "release"}
          PROVE  owner'[disp'[u]] = u
      BY <2>2, <3>2, <3>3, <3>4
         DEF OwnerHolds, WorkSet, HasWork, UsesDispatcher, Servers, Threads
    <3>5. ASSUME NEW u \in Owners, Stage(u)' \in UsesDispatcher \ {"stopped"}
          PROVE  owner'[disp'[u]] = u
      <4>1. u \in Threads \ {t}
        BY <1>5, ConstantsAssumption DEF Servers, Threads
      <4> QED
        BY <2>2, <3>3, <3>5, <4>1 DEF OwnerHolds, WorkSet, HasWork
    <3> QED
      BY <3>4, <3>5 DEF OwnerHolds
  <2> QED
    BY <2>3, <2>4
<1>6. ASSUME NEW t \in Servers, Release(t) PROVE OwnerHolds'
  <2>1. t \in Threads /\ disp[t] \in Dispatchers /\ owner[disp[t]] = t
    BY <1>6, DispTyped, StageOf DEF Release, UsesDispatcher, OwnerHolds, WakeLabels, Servers, Threads
  <2>2. StagesTo(t, "unlink")
    BY <1>6, <2>1, GotoStage DEF Release, Plain, TypeOK
  <2>3. /\ UNCHANGED disp
        /\ \A x \in Dispatchers \ {disp[t]} : owner'[x] = owner[x]
    BY <1>6, <2>1 DEF Release, TypeOK, DataTyped
  <2>4. ASSUME NEW u \in Threads \ {t}, owner[disp[u]] = u, disp[u] \in Dispatchers
        PROVE  owner'[disp'[u]] = u
    BY <2>1, <2>3, <2>4
  <2>5. ASSUME NEW u \in Servers, Stage(u)' \in {"next", "call", "done", "release"}
        PROVE  owner'[disp'[u]] = u
    <3>1. u \in Threads \ {t} /\ Stage(u) = Stage(u)'
      BY <2>2, <2>5 DEF Servers, Threads, StagesTo
    <3> QED
      BY <2>4, <2>5, <3>1 DEF OwnerHolds, WorkSet, HasWork, UsesDispatcher
  <2>6. ASSUME NEW u \in Owners, Stage(u)' \in UsesDispatcher \ {"stopped"}
        PROVE  owner'[disp'[u]] = u
    <3>1. u \in Threads \ {t} /\ Stage(u) = Stage(u)'
      BY <1>6, <2>2, <2>6, ConstantsAssumption DEF Threads, Servers, StagesTo
    <3> QED
      BY <2>4, <2>6, <3>1 DEF OwnerHolds, WorkSet, HasWork
  <2> QED
    BY <2>5, <2>6 DEF OwnerHolds
<1>7. ASSUME NEW t \in Servers, Resched(t) PROVE OwnerHolds'
  <2>1. t \in Threads
    BY <1>7 DEF Threads, Servers
  <2>2. StagesTo(t, "return")
    BY <1>7, <2>1, GotoStage, ScheduleStage DEF Resched, Plain, TypeOK
  <2>3. Stage(t) = "resched"
    BY <1>7, StageOf DEF Resched, WakeLabels
  <2>4. UNCHANGED <<owner, disp>>
    BY <1>7 DEF Resched
  <2> QED
    BY <1>7, <2>1, <2>2, <2>3, <2>4, SameOwners, ConstantsAssumption
       DEF UsesDispatcher, Servers, Runners
<1>8. ASSUME ScanReady PROVE OwnerHolds'
  <2>1. PICK d \in Candidates :
          \/ Goto(Service, "count") /\ UNCHANGED <<owner, disp>>
          \/ /\ owner[d] = None /\ owner' = [owner EXCEPT ![d] = Reserved]
             /\ disp' = [disp EXCEPT ![Service] = d] /\ Goto(Service, "enlist")
    BY <1>8 DEF ScanReady
  <2>2. Service \in Threads /\ Service \notin Owners /\ d \in Dispatchers
    BY ConstantsAssumption DEF Threads, Candidates, FirstOf, On
  <2>3. /\ pc'[Service] \in {"count", "enlist"}
        /\ \A u \in Threads \ {Service} : pc'[u] = pc[u] /\ disp'[u] = disp[u]
        /\ \A x \in Dispatchers : owner[x] # None => owner'[x] = owner[x]
        /\ UNCHANGED after
    BY SMTT(30), ZenonT(60), <1>8, <2>1, <2>2 DEF ScanReady, TypeOK, DataTyped, ControlTyped
  <2>4. \A u \in Threads \ {Service} : Stage(u)' = Stage(u)
    BY <2>3, StageOthers
  <2>5. Stage(Service)' \in {"count", "enlist"}
    BY <2>3 DEF Stage, WakeLabels
  <2>6. ASSUME NEW u \in Threads \ {Service}, owner[disp[u]] = u, disp[u] \in Dispatchers
        PROVE  owner'[disp'[u]] = u
    BY <2>3, <2>6, ConstantsAssumption
  <2>7. ASSUME NEW u \in Servers, Stage(u)' \in {"next", "call", "done", "release"}
        PROVE  owner'[disp'[u]] = u
    BY <2>4, <2>5, <2>6, <2>7
       DEF OwnerHolds, WorkSet, HasWork, UsesDispatcher, Servers, Threads
  <2>8. ASSUME NEW u \in Owners, Stage(u)' \in UsesDispatcher \ {"stopped"}
        PROVE  owner'[disp'[u]] = u
    BY <2>2, <2>4, <2>6, <2>8 DEF OwnerHolds, WorkSet, HasWork, Threads
  <2> QED
    BY <2>7, <2>8 DEF OwnerHolds
<1>9. ASSUME StartNewWorker PROVE OwnerHolds'
  <2>1. PICK w \in Workers : pc' = [pc EXCEPT ![w] = "claim", ![Service] = "scan"]
    BY <1>9 DEF StartNewWorker
  <2>2. UNCHANGED <<owner, disp, after>>
    BY <1>9 DEF StartNewWorker
  <2>3. ASSUME NEW u \in Threads
        PROVE  Stage(u)' \in {Stage(u), "claim", "scan"}
    <3>1. pc'[u] \in {pc[u], "claim", "scan"}
      BY <2>1 DEF TypeOK, ControlTyped
    <3> QED
      BY <2>2, <3>1 DEF Stage, WakeLabels
  <2> QED
    BY <2>2, <2>3 DEF OwnerHolds, UsesDispatcher, Servers, Threads
<1>10. ASSUME NEW o \in Owners, WaitFlag(o) PROVE OwnerHolds'
  <2>1. o \in Threads /\ Stage(o) = "flag"
    BY <1>10, StageOf DEF WaitFlag, WakeLabels, Threads
  <2>2. \E l \in {"held", "block", "next"} : StagesTo(o, l)
    BY <1>10, <2>1, GotoStage DEF WaitFlag, Plain, TypeOK
  <2>3. UNCHANGED <<owner, disp>> /\ o \notin Servers
    BY <1>10, ConstantsAssumption DEF WaitFlag, Servers
  <2> QED
    BY <2>1, <2>2, <2>3, SameOwners DEF UsesDispatcher
<1>11. ASSUME NEW o \in Owners, StopRelease(o) PROVE OwnerHolds'
  <2>1. o \in Threads /\ disp[o] \in Dispatchers /\ owner[disp[o]] = o
    BY <1>11, DispTyped, StageOf DEF StopRelease, UsesDispatcher, OwnerHolds, WakeLabels, Servers, Threads
  <2>2. StagesTo(o, "stopped")
    BY <1>11, <2>1, GotoStage DEF StopRelease, Plain, TypeOK
  <2>3. /\ UNCHANGED disp
        /\ \A x \in Dispatchers \ {disp[o]} : owner'[x] = owner[x]
    BY <1>11, <2>1 DEF StopRelease, TypeOK, DataTyped
  <2>4. ASSUME NEW u \in Threads \ {o}, owner[disp[u]] = u, disp[u] \in Dispatchers
        PROVE  owner'[disp'[u]] = u
    BY <2>1, <2>3, <2>4
  <2>5. ASSUME NEW u \in Servers, Stage(u)' \in {"next", "call", "done", "release"}
        PROVE  owner'[disp'[u]] = u
    <3>1. u \in Threads \ {o} /\ Stage(u) = Stage(u)'
      BY <2>2, <2>5 DEF Servers, Threads, StagesTo
    <3> QED
      BY <2>4, <2>5, <3>1 DEF OwnerHolds, WorkSet, HasWork, UsesDispatcher
  <2>6. ASSUME NEW u \in Owners, Stage(u)' \in UsesDispatcher \ {"stopped"}
        PROVE  owner'[disp'[u]] = u
    <3>1. u \in Threads \ {o} /\ Stage(u) = Stage(u)'
      BY <1>11, <2>2, <2>6, ConstantsAssumption DEF Threads, Servers, StagesTo
    <3> QED
      BY <2>4, <2>6, <3>1 DEF OwnerHolds, WorkSet, HasWork
  <2> QED
    BY <2>5, <2>6 DEF OwnerHolds
<1>12. ASSUME NEW o \in Owners, StopSchedule(o) PROVE OwnerHolds'
  <2>1. o \in Threads
    BY <1>12 DEF Threads
  <2>2. StagesTo(o, "free")
    BY <1>12, <2>1, GotoStage, ScheduleStage DEF StopSchedule, Plain, TypeOK
  <2>3. Stage(o) = "stopped"
    BY <1>12, StageOf DEF StopSchedule, WakeLabels
  <2>4. UNCHANGED <<owner, disp>>
    BY <1>12 DEF StopSchedule
  <2> QED
    BY <1>12, <2>1, <2>2, <2>3, <2>4, SameOwners, ConstantsAssumption
       DEF UsesDispatcher, Servers, Runners
<1>13. ASSUME NEW t \in Threads, CreateEvent(t) PROVE OwnerHolds'
  <2>1. Stage(t) = IF t \in Posters THEN "free" ELSE "call"
    BY <1>13, StageOf, ConstantsAssumption DEF CreateEvent, MayCreate, WakeLabels, Runners, Servers
  <2>2. /\ pc'[t] = "post" /\ \A u \in Threads \ {t} : pc'[u] = pc[u]
        /\ UNCHANGED <<after, owner, disp>>
    BY <1>13 DEF CreateEvent, TypeOK, ControlTyped
  <2>3. \A u \in Threads : Stage(u)' = Stage(u)
    <3>1. Stage(t)' = IF t \in Posters THEN "free" ELSE "call"
      BY <2>2 DEF Stage, WakeLabels
    <3> QED
      BY <2>1, <2>2, <3>1, StageOthers
  <2> QED
    BY <2>2, <2>3 DEF OwnerHolds, Servers, Threads
<1>14. ASSUME NEW t \in Threads, RemoveEvent(t) PROVE OwnerHolds'
  <2>1. StagesTo(t, "free") /\ t \notin Owners /\ t \notin Servers
    BY <1>14, RemoveStage, ConstantsAssumption DEF TypeOK, RemoveEvent, Servers
  <2>2. UNCHANGED <<owner, disp>>
    BY <1>14 DEF RemoveEvent
  <2> QED
    BY <1>14, <2>1, <2>2, SameOwners
<1>15. ASSUME NEW t \in Threads, DestroyForeign(t) PROVE OwnerHolds'
  <2>1. t \in Threads
    BY <1>15 DEF Threads
  <2>2. StagesTo(t, "free")
    BY <1>15, <2>1, DestroyStage DEF DestroyForeign, Plain, TypeOK
  <2>3. t \in Posters
    BY <1>15, StageOf DEF DestroyForeign, WakeLabels
  <2>4. UNCHANGED <<owner, disp>>
    BY <1>15 DEF DestroyForeign, DestroyUnchanged
  <2> QED
    BY <1>15, <2>1, <2>2, <2>3, <2>4, SameOwners, ConstantsAssumption
       DEF UsesDispatcher, Servers, Runners
<1>16. ASSUME NEW t \in Threads, DestroyInCall(t) PROVE OwnerHolds'
  <2>1. t \in Threads
    BY <1>16 DEF Threads, Runners, Servers
  <2>2. StagesTo(t, "done")
    BY <1>16, <2>1, DestroyStage DEF DestroyInCall, Plain, TypeOK
  <2>3. Stage(t) = "call"
    BY <1>16, StageOf DEF DestroyInCall, WakeLabels
  <2>4. UNCHANGED <<owner, disp>>
    BY <1>16 DEF DestroyInCall, DestroyUnchanged
  <2> QED
    BY <1>16, <2>1, <2>2, <2>3, <2>4, SameOwners, ConstantsAssumption
       DEF UsesDispatcher, Servers, Runners
<1>17. ASSUME NEW o \in Owners, StartClaim(o) PROVE OwnerHolds'
  <2>1. PICK d \in Dispatchers \ (destroyed \cup {Main}) :
          /\ owner[d] \in {None, o}
          /\ owner' = [owner EXCEPT ![d] = o]
          /\ disp' = [disp EXCEPT ![o] = d]
    BY <1>17 DEF StartClaim
  <2>2. o \in Threads /\ StagesTo(o, "enter")
    BY <1>17, GotoStage DEF StartClaim, Plain, Threads, TypeOK
  <2>3. /\ owner'[d] = o /\ \A x \in Dispatchers \ {d} : owner'[x] = owner[x]
        /\ disp'[o] = d /\ \A u \in Threads \ {o} : disp'[u] = disp[u]
    BY <2>1, <2>2 DEF TypeOK, DataTyped
  <2>4. ASSUME NEW u \in Threads \ {o}, owner[disp[u]] = u, disp[u] \in Dispatchers
        PROVE  owner'[disp'[u]] = u
    BY <2>1, <2>3, <2>4, ConstantsAssumption
  <2>5. ASSUME NEW t \in Servers, Stage(t)' \in {"next", "call", "done", "release"}
        PROVE  owner'[disp'[t]] = t
    <3>1. t \in Threads \ {o} /\ Stage(t) = Stage(t)'
      BY <1>17, <2>2, <2>5, ConstantsAssumption DEF Servers, Threads, StagesTo
    <3> QED
      BY <2>4, <2>5, <3>1 DEF OwnerHolds, WorkSet, HasWork, UsesDispatcher
  <2>6. ASSUME NEW u \in Owners, Stage(u)' \in UsesDispatcher \ {"stopped"}
        PROVE  owner'[disp'[u]] = u
    <3>1. CASE u = o
      BY <2>3, <3>1
    <3>2. CASE u # o
      BY <2>2, <2>4, <2>6, <3>2 DEF OwnerHolds, WorkSet, HasWork, StagesTo, Threads
    <3> QED
      BY <3>1, <3>2
  <2> QED
    BY <2>5, <2>6 DEF OwnerHolds
<1>18. ASSUME NEW o \in Owners, DestroyOwned(o) PROVE OwnerHolds'
  <2>1. o \in Threads
    BY <1>18 DEF Threads
  <2>2. StagesTo(o, "free")
    BY <1>18, <2>1, DestroyStage DEF DestroyOwned, Plain, TypeOK
  <2>3. Stage(o) = "held"
    BY <1>18, StageOf DEF DestroyOwned, WakeLabels
  <2>4. UNCHANGED <<owner, disp>>
    BY <1>18 DEF DestroyOwned, DestroyUnchanged
  <2> QED
    BY <1>18, <2>1, <2>2, <2>3, <2>4, SameOwners, ConstantsAssumption
       DEF UsesDispatcher, Servers, Runners
<1>19. ASSUME QueueIOEvent PROVE OwnerHolds'
  <2>1. Service \in Threads
    BY <1>19 DEF Threads
  <2>2. StagesTo(Service, "io")
    BY <1>19, <2>1, QueueStage DEF QueueIOEvent, Plain, TypeOK
  <2>3. Stage(Service) = "io"
    BY <1>19, StageOf DEF QueueIOEvent, WakeLabels
  <2>4. UNCHANGED <<owner, disp>>
    BY <1>19 DEF QueueIOEvent
  <2> QED
    BY <1>19, <2>1, <2>2, <2>3, <2>4, SameOwners, ConstantsAssumption
       DEF UsesDispatcher, Servers, Runners
<1> USE ConstantsAssumption DEF TypeOK, ControlTyped, DataTyped, WorkSet, HasWork,
        JobHolders, OwnerHolds, ReservedOnce, Stage, WakeLabels, UsesDispatcher, Labels,
        HelperLabels, RunLabels, Afters, Backs, Threads, Runners, Servers
<1>20. ASSUME NEW t \in Runners, CallReturns(t) PROVE OwnerHolds'
  BY SMTT(30), ZenonT(60), <1>20 DEF CallReturns
<1>21. ASSUME NEW t \in Servers, Unlink(t) PROVE OwnerHolds'
  BY <1>21 DEF Unlink
<1>22. ASSUME ScanEmpty PROVE OwnerHolds'
  BY <1>22 DEF ScanEmpty
<1>23. ASSUME Enlist PROVE OwnerHolds'
  BY <1>23 DEF Enlist, QueueDispatcher
<1>24. ASSUME StartIdleWorker PROVE OwnerHolds'
  BY SMTT(30), ZenonT(60), <1>24 DEF StartIdleWorker, Handover
<1>25. ASSUME NoWorker PROVE OwnerHolds'
  BY SMTT(30), ZenonT(60), <1>25 DEF NoWorker
<1>26. ASSUME Park PROVE OwnerHolds'
  BY <1>26 DEF Park, QueueDispatcher
<1>27. ASSUME CheckCount PROVE OwnerHolds'
  BY <1>27 DEF CheckCount
<1>28. ASSUME Doze PROVE OwnerHolds'
  BY SMTT(60), <1>28 DEF Doze, IdleTicks, On, Lesser, Forever
<1>29. ASSUME Wakes PROVE OwnerHolds'
  BY <1>29 DEF Wakes, EpollReturns
<1>30. ASSUME ClearWaiting PROVE OwnerHolds'
  BY <1>30 DEF ClearWaiting
<1>31. ASSUME Drain PROVE OwnerHolds'
  BY <1>31 DEF Drain
<1>32. ASSUME ResetWake PROVE OwnerHolds'
  BY <1>32 DEF ResetWake
<1>33. ASSUME Refresh PROVE OwnerHolds'
  BY <1>33 DEF Refresh
<1>34. ASSUME HelperReturns PROVE OwnerHolds'
  BY SMTT(30), ZenonT(60), <1>34 DEF HelperReturns
<1>35. ASSUME NEW w \in Workers, NapEnds(w) PROVE OwnerHolds'
  BY <1>35 DEF NapEnds
<1>36. ASSUME NEW w \in Workers, BecomeIdle(w) PROVE OwnerHolds'
  BY <1>36 DEF BecomeIdle
<1>37. ASSUME NEW w \in Workers, Offer(w) PROVE OwnerHolds'
  BY SMTT(60), <1>37 DEF Offer
<1>38. ASSUME NEW w \in Workers, Rest(w) PROVE OwnerHolds'
  BY <1>38 DEF Rest
<1>39. ASSUME NEW o \in Owners, StartEnter(o) PROVE OwnerHolds'
  BY SMTT(60), <1>39 DEF StartEnter, QueueDispatcher
<1>40. ASSUME NEW o \in Owners, WaitSkips(o) PROVE OwnerHolds'
  BY <1>40 DEF WaitSkips, WaitEnds
<1>41. ASSUME NEW o \in Owners, WaitWakes(o) PROVE OwnerHolds'
  BY <1>41 DEF WaitWakes, WaitEnds
<1>42. ASSUME NEW o \in Owners, WaitUnflag(o) PROVE OwnerHolds'
  BY <1>42 DEF WaitUnflag
<1>43. ASSUME NEW w \in Workers, CallYields(w) PROVE OwnerHolds'
  BY <1>43 DEF CallYields
<1>44. ASSUME NEW o \in Owners, WaitBegin(o) PROVE OwnerHolds'
  BY SMTT(60), <1>44 DEF WaitBegin
<1>45. ASSUME NEW o \in Owners, WaitTimesOut(o) PROVE OwnerHolds'
  BY <1>45 DEF WaitTimesOut, WaitEnds
<1>46. ASSUME NEW o \in Owners, StopDequeue(o) PROVE OwnerHolds'
  BY SMTT(30), ZenonT(60), <1>46 DEF StopDequeue
<1>47. ASSUME OtherIO PROVE OwnerHolds'
  BY <1>47 DEF OtherIO, EpollReturns
<1>48. ASSUME Tick PROVE OwnerHolds'
  BY <1>48 DEF Tick
<1>49. ASSUME UNCHANGED vars PROVE OwnerHolds'
  BY <1>49 DEF vars
<1> HIDE ConstantsAssumption DEF TypeOK, ControlTyped, DataTyped, WorkSet, HasWork,
        JobHolders, OwnerHolds, ReservedOnce, Stage, WakeLabels, UsesDispatcher, Labels,
        HelperLabels, RunLabels, Afters, Backs, Threads, Runners, Servers
<1> QED
  BY <1>1, <1>2, <1>3, <1>4, <1>5, <1>6, <1>7, <1>8, <1>9, <1>10, <1>11, <1>12,
     <1>13, <1>14, <1>15, <1>16, <1>17, <1>18, <1>19, <1>20, <1>21, <1>22, <1>23, <1>24,
     <1>25, <1>26, <1>27, <1>28, <1>29, <1>30, <1>31, <1>32, <1>33, <1>34, <1>35, <1>36,
     <1>37, <1>38, <1>39, <1>40, <1>41, <1>42, <1>43, <1>44, <1>45, <1>46, <1>47, <1>48,
     <1>49
     DEF Next, Program, Choice, RunStep, HelperStep, ServiceStep, WorkerStep,
         OwnerStep


\* No step makes a second job of one reservation, or takes the reservation away.
LEMMA ReservedOnceStep ==
  ASSUME TypeOK, WorkSet, JobHolders, ReservedOnce, OwnerHolds, [Next]_vars
  PROVE  ReservedOnce'
<1>1. ASSUME NEW t \in Threads, WakeStep(t) PROVE ReservedOnce'
  BY <1>1 DEF WakeStep, TestWaiting, TestRequested, SetRequested, WriteBreak, WakeUnchanged,
          ReservedOnce
<1>2. ASSUME NEW t \in Servers, Release(t) PROVE ReservedOnce'
  <2>1. t \in Threads /\ disp[t] \in Dispatchers /\ owner[disp[t]] = t /\ t # Reserved
    BY <1>2, DispTyped, StageOf, ConstantsAssumption
       DEF Release, UsesDispatcher, OwnerHolds, WakeLabels, Servers, Threads
  <2>2. UNCHANGED job /\ \A x \in Dispatchers \ {disp[t]} : owner'[x] = owner[x]
    BY <1>2, <2>1 DEF Release, TypeOK, DataTyped
  <2>3. \A u \in Servers : job[u] \in Dispatchers \cup {None}
    BY DEF TypeOK, DataTyped, Servers, Threads
  <2> QED
    BY <2>1, <2>2, <2>3 DEF ReservedOnce
<1>3. ASSUME ScanReady PROVE ReservedOnce'
  <2>1. PICK d \in Candidates :
          \/ UNCHANGED <<owner, job>>
          \/ /\ owner[d] = None /\ owner' = [owner EXCEPT ![d] = Reserved]
             /\ job' = [job EXCEPT ![Service] = d]
    BY <1>3 DEF ScanReady
  <2>2. Service \in Threads /\ d \in Dispatchers /\ None # Reserved
    BY ConstantsAssumption DEF Threads, Candidates, FirstOf, On
  <2>3. CASE UNCHANGED <<owner, job>>
    BY <2>3 DEF ReservedOnce
  <2>4. CASE /\ owner[d] = None /\ owner' = [owner EXCEPT ![d] = Reserved]
             /\ job' = [job EXCEPT ![Service] = d]
    <3>1. /\ owner'[d] = Reserved /\ \A x \in Dispatchers \ {d} : owner'[x] = owner[x]
          /\ job'[Service] = d /\ \A u \in Threads \ {Service} : job'[u] = job[u]
      BY <2>2, <2>4 DEF TypeOK, DataTyped
    <3>2. \A u \in Servers : job[u] # None => job[u] \in Dispatchers \ {d} /\ u \in Threads
      BY <2>2, <2>4 DEF ReservedOnce, TypeOK, DataTyped, Servers, Threads
    <3> QED
      BY <2>2, <3>1, <3>2 DEF ReservedOnce, Servers, Threads
  <2> QED
    BY <2>1, <2>3, <2>4
<1>4. ASSUME StartIdleWorker PROVE ReservedOnce'
  <2>1. PICK w \in Workers : Handover(w)
    BY <1>4 DEF StartIdleWorker, TypeOK, DataTyped
  <2>2. job[Service] = disp[Service] /\ job[Service] # None
    BY <1>4 DEF StartIdleWorker, JobHolders
  <2>3. /\ job'[w] = job[Service] /\ job'[Service] = None /\ UNCHANGED owner
        /\ \A u \in Threads \ {w, Service} : job'[u] = job[u]
    BY SMTT(60), <1>4, <2>1, <2>2, ConstantsAssumption DEF StartIdleWorker, Handover, TypeOK, DataTyped, Threads
  <2> QED
    BY <2>1, <2>2, <2>3 DEF ReservedOnce, Servers, Threads
<1>5. ASSUME StartNewWorker PROVE ReservedOnce'
  <2>1. PICK w \in Workers : Handover(w)
    BY <1>5 DEF StartNewWorker, TypeOK, DataTyped
  <2>2. job[Service] = disp[Service] /\ job[Service] # None
    BY <1>5 DEF StartNewWorker, JobHolders
  <2>3. /\ job'[w] = job[Service] /\ job'[Service] = None /\ UNCHANGED owner
        /\ \A u \in Threads \ {w, Service} : job'[u] = job[u]
    BY SMTT(30), ZenonT(60), <1>5, <2>1, <2>2, ConstantsAssumption DEF StartNewWorker, Handover, TypeOK, DataTyped, Threads
  <2> QED
    BY <2>1, <2>2, <2>3 DEF ReservedOnce, Servers, Threads
<1>6. ASSUME NEW o \in Owners, StopRelease(o) PROVE ReservedOnce'
  <2>1. o \in Threads /\ disp[o] \in Dispatchers /\ owner[disp[o]] = o /\ o # Reserved
    BY <1>6, DispTyped, StageOf, ConstantsAssumption
       DEF StopRelease, UsesDispatcher, OwnerHolds, WakeLabels, Servers, Threads
  <2>2. UNCHANGED job /\ \A x \in Dispatchers \ {disp[o]} : owner'[x] = owner[x]
    BY <1>6, <2>1 DEF StopRelease, TypeOK, DataTyped
  <2>3. \A u \in Servers : job[u] \in Dispatchers \cup {None}
    BY DEF TypeOK, DataTyped, Servers, Threads
  <2> QED
    BY <2>1, <2>2, <2>3 DEF ReservedOnce
<1> USE ConstantsAssumption DEF TypeOK, ControlTyped, DataTyped, WorkSet, HasWork,
        JobHolders, OwnerHolds, ReservedOnce, Stage, WakeLabels, UsesDispatcher,
        Threads, Runners, Servers
<1>7. ASSUME NEW t \in Threads, PostEvent(t) PROVE ReservedOnce'
  BY <1>7 DEF PostEvent, Queue, Resume, Schedule, CallWake
<1>8. ASSUME NEW t \in Runners, NextEvent(t) PROVE ReservedOnce'
  BY <1>8 DEF NextEvent
<1>9. ASSUME NEW t \in Runners, CallReturns(t) PROVE ReservedOnce'
  BY <1>9 DEF CallReturns
<1>10. ASSUME NEW t \in Runners, CallDone(t) PROVE ReservedOnce'
  BY <1>10 DEF CallDone, Schedule, CallWake
<1>11. ASSUME NEW t \in Servers, Reclaim(t) PROVE ReservedOnce'
  BY SMTT(60), <1>11 DEF Reclaim
<1>12. ASSUME NEW t \in Servers, Unlink(t) PROVE ReservedOnce'
  BY <1>12 DEF Unlink
<1>13. ASSUME NEW t \in Servers, Resched(t) PROVE ReservedOnce'
  BY <1>13 DEF Resched, Schedule, CallWake
<1>14. ASSUME ScanEmpty PROVE ReservedOnce'
  BY <1>14 DEF ScanEmpty
<1>15. ASSUME Enlist PROVE ReservedOnce'
  BY <1>15 DEF Enlist, QueueDispatcher
<1>16. ASSUME NoWorker PROVE ReservedOnce'
  BY <1>16 DEF NoWorker
<1>17. ASSUME Park PROVE ReservedOnce'
  BY <1>17 DEF Park, QueueDispatcher
<1>18. ASSUME CheckCount PROVE ReservedOnce'
  BY <1>18 DEF CheckCount
<1>19. ASSUME Doze PROVE ReservedOnce'
  BY <1>19 DEF Doze, IdleTicks, On, Lesser, Forever
<1>20. ASSUME Wakes PROVE ReservedOnce'
  BY <1>20 DEF Wakes, EpollReturns
<1>21. ASSUME ClearWaiting PROVE ReservedOnce'
  BY <1>21 DEF ClearWaiting
<1>22. ASSUME Drain PROVE ReservedOnce'
  BY <1>22 DEF Drain
<1>23. ASSUME ResetWake PROVE ReservedOnce'
  BY <1>23 DEF ResetWake
<1>24. ASSUME Refresh PROVE ReservedOnce'
  BY <1>24 DEF Refresh
<1>25. ASSUME HelperReturns PROVE ReservedOnce'
  BY <1>25 DEF HelperReturns
<1>26. ASSUME NEW w \in Workers, NapEnds(w) PROVE ReservedOnce'
  BY <1>26 DEF NapEnds
<1>27. ASSUME NEW w \in Workers, BecomeIdle(w) PROVE ReservedOnce'
  BY <1>27 DEF BecomeIdle
<1>28. ASSUME NEW w \in Workers, Offer(w) PROVE ReservedOnce'
  BY <1>28 DEF Offer
<1>29. ASSUME NEW w \in Workers, Rest(w) PROVE ReservedOnce'
  BY <1>29 DEF Rest
<1>30. ASSUME NEW o \in Owners, StartEnter(o) PROVE ReservedOnce'
  BY <1>30 DEF StartEnter, QueueDispatcher
<1>31. ASSUME NEW o \in Owners, WaitFlag(o) PROVE ReservedOnce'
  BY <1>31 DEF WaitFlag
<1>32. ASSUME NEW o \in Owners, WaitSkips(o) PROVE ReservedOnce'
  BY <1>32 DEF WaitSkips, WaitEnds
<1>33. ASSUME NEW o \in Owners, WaitWakes(o) PROVE ReservedOnce'
  BY <1>33 DEF WaitWakes, WaitEnds
<1>34. ASSUME NEW o \in Owners, WaitUnflag(o) PROVE ReservedOnce'
  BY <1>34 DEF WaitUnflag
<1>35. ASSUME NEW o \in Owners, StopSchedule(o) PROVE ReservedOnce'
  BY <1>35 DEF StopSchedule, Schedule, CallWake
<1>36. ASSUME NEW t \in Threads, CreateEvent(t) PROVE ReservedOnce'
  BY <1>36 DEF CreateEvent, MayCreate
<1>37. ASSUME NEW t \in Threads, RemoveEvent(t) PROVE ReservedOnce'
  BY <1>37 DEF RemoveEvent, RemoveFrom, Schedule, CallWake
<1>38. ASSUME NEW t \in Threads, DestroyForeign(t) PROVE ReservedOnce'
  BY <1>38 DEF DestroyForeign, Destroy, DestroyUnchanged, CallWake
<1>39. ASSUME NEW t \in Threads, DestroyInCall(t) PROVE ReservedOnce'
  BY <1>39 DEF DestroyInCall, Destroy, DestroyUnchanged, CallWake
<1>40. ASSUME NEW w \in Workers, CallYields(w) PROVE ReservedOnce'
  BY <1>40 DEF CallYields
<1>41. ASSUME NEW o \in Owners, StartClaim(o) PROVE ReservedOnce'
  BY <1>41, SMTT(60) DEF StartClaim
<1>42. ASSUME NEW o \in Owners, WaitBegin(o) PROVE ReservedOnce'
  BY <1>42 DEF WaitBegin
<1>43. ASSUME NEW o \in Owners, WaitTimesOut(o) PROVE ReservedOnce'
  BY <1>43 DEF WaitTimesOut, WaitEnds
<1>44. ASSUME NEW o \in Owners, StopDequeue(o) PROVE ReservedOnce'
  BY <1>44 DEF StopDequeue
<1>45. ASSUME NEW o \in Owners, DestroyOwned(o) PROVE ReservedOnce'
  BY <1>45 DEF DestroyOwned, Destroy, DestroyUnchanged, CallWake
<1>46. ASSUME OtherIO PROVE ReservedOnce'
  BY <1>46 DEF OtherIO, EpollReturns
<1>47. ASSUME QueueIOEvent PROVE ReservedOnce'
  BY <1>47 DEF QueueIOEvent, Queue, Schedule, CallWake
<1>48. ASSUME Tick PROVE ReservedOnce'
  BY <1>48 DEF Tick
<1>49. ASSUME UNCHANGED vars PROVE ReservedOnce'
  BY <1>49 DEF vars
<1> HIDE ConstantsAssumption DEF TypeOK, ControlTyped, DataTyped, WorkSet, HasWork,
        JobHolders, OwnerHolds, ReservedOnce, Stage, WakeLabels, UsesDispatcher,
        Threads, Runners, Servers
<1> QED
  BY <1>1, <1>2, <1>3, <1>4, <1>5, <1>6, <1>7, <1>8, <1>9, <1>10, <1>11, <1>12,
     <1>13, <1>14, <1>15, <1>16, <1>17, <1>18, <1>19, <1>20, <1>21, <1>22, <1>23, <1>24,
     <1>25, <1>26, <1>27, <1>28, <1>29, <1>30, <1>31, <1>32, <1>33, <1>34, <1>35, <1>36,
     <1>37, <1>38, <1>39, <1>40, <1>41, <1>42, <1>43, <1>44, <1>45, <1>46, <1>47, <1>48,
     <1>49
     DEF Next, Program, Choice, RunStep, HelperStep, ServiceStep, WorkerStep,
         OwnerStep


-----------------------------------------------------------------------------
(* Waking the service *)

\* Where the thread is after a callback: in its loop again, or out of it.
LEMMA CallDoneStage ==
  ASSUME TypeOK, NEW t \in Runners, CallDone(t)
  PROVE  t \in Threads /\ \E l \in {"next", "release", "flag", "block"} : StagesTo(t, l)
<1>1. t \in Threads /\ back[t] \in {"release", "flag", "block"}
  BY DEF TypeOK, ControlTyped, Backs, Runners, Servers, Threads
<1>2. CASE Goto(t, back[t]) /\ UNCHANGED after
  BY <1>1, <1>2, GotoStage DEF TypeOK, Plain
<1>3. CASE Goto(t, "next") /\ UNCHANGED after
  BY <1>1, <1>3, GotoStage DEF TypeOK, Plain
<1>4. CASE \E d, q, when : Schedule(t, d, q, when, "next", TRUE)
  BY <1>1, <1>4, ScheduleStage DEF TypeOK, Plain
<1> QED
  BY <1>1, <1>2, <1>3, <1>4 DEF CallDone

\* Steps to an ordinary place leave what the service waits for as it is.
LEMMA StagesKeepWaiting ==
  ASSUME WaitingInv, NEW t \in Threads, NEW l \in Plain, StagesTo(t, l),
         pc[t] \notin {"sleep", "awake"}, UNCHANGED waiting
  PROVE  WaitingInv'
<1>1. pc'[t] \notin {"sleep", "awake"}
  BY DEF StagesTo, Plain, WakeLabels
<1> QED
  BY <1>1 DEF StagesTo, WaitingInv, Threads

LEMMA StagesKeepFlag ==
  ASSUME WakeFlagBacked, NEW t \in Threads, NEW l, StagesTo(t, l),
         pc[t] # "write", Stage(t) # "io", UNCHANGED <<wakeRequested, breakFd>>
  PROVE  WakeFlagBacked'
BY DEF WakeFlagBacked, StagesTo, Threads

\* es->waiting stays in step with the service thread.
LEMMA WaitingStep ==
  ASSUME TypeOK, WaitingInv, [Next]_vars
  PROVE  WaitingInv'
<1>1. ASSUME NEW t \in Threads, WakeStep(t) PROVE WaitingInv'
  <2>1. \A u \in Threads \ {t} : pc'[u] = pc[u]
    BY <1>1, WakeStage DEF TypeOK, StagesTo
  <2>2. waiting' = waiting
    BY <1>1 DEF WakeStep, TestWaiting, TestRequested, SetRequested, WriteBreak, WakeUnchanged
  <2>3. /\ pc[t] \notin {"sleep", "awake"} /\ pc'[t] \notin {"sleep", "awake"}
    BY <1>1 DEF WakeStep, TestWaiting, TestRequested, SetRequested, WriteBreak, WakeDone,
              TypeOK, ControlTyped, Afters
  <2> QED
    BY <1>1, <2>1, <2>2, <2>3 DEF WaitingInv, Threads
<1>2. ASSUME NEW t \in Threads, PostEvent(t) PROVE WaitingInv'
  <2>1. StagesTo(t, Resume(t)) /\ Resume(t) \in Plain
    BY <1>2, QueueStage DEF PostEvent, Resume, Plain, TypeOK
  <2>2. pc[t] \notin {"sleep", "awake"} /\ UNCHANGED waiting
    BY <1>2 DEF PostEvent
  <2> QED
    BY <2>1, <2>2, StagesKeepWaiting
<1>5. ASSUME NEW t \in Runners, CallDone(t) PROVE WaitingInv'
  <2>1. pc[t] \notin {"sleep", "awake"} /\ UNCHANGED waiting
    BY <1>5 DEF CallDone
  <2> QED
    BY <1>5, <2>1, CallDoneStage, StagesKeepWaiting DEF Plain
<1> USE ConstantsAssumption DEF TypeOK, ControlTyped, DataTyped, WaitingInv, Labels,
        HelperLabels, RunLabels, WakeLabels, Afters, Backs, Threads, Runners, Servers
<1>3. ASSUME NEW t \in Runners, NextEvent(t) PROVE WaitingInv'
  BY <1>3 DEF NextEvent
<1>4. ASSUME NEW t \in Runners, CallReturns(t) PROVE WaitingInv'
  BY <1>4 DEF CallReturns
<1>6. ASSUME NEW t \in Servers, Reclaim(t) PROVE WaitingInv'
  BY <1>6 DEF Reclaim
<1>7. ASSUME NEW t \in Servers, Release(t) PROVE WaitingInv'
  BY <1>7 DEF Release
<1>8. ASSUME NEW t \in Servers, Unlink(t) PROVE WaitingInv'
  BY <1>8 DEF Unlink
<1>9. ASSUME NEW t \in Servers, Resched(t) PROVE WaitingInv'
  BY <1>9 DEF Resched, Schedule, CallWake
<1>10. ASSUME ScanReady PROVE WaitingInv'
  BY <1>10 DEF ScanReady, QueueDispatcher, Candidates, FirstOf, On
<1>11. ASSUME ScanEmpty PROVE WaitingInv'
  BY <1>11 DEF ScanEmpty
<1>12. ASSUME Enlist PROVE WaitingInv'
  BY <1>12 DEF Enlist, QueueDispatcher
<1>13. ASSUME StartIdleWorker PROVE WaitingInv'
  BY <1>13 DEF StartIdleWorker, Handover
<1>14. ASSUME StartNewWorker PROVE WaitingInv'
  BY <1>14 DEF StartNewWorker, Handover
<1>15. ASSUME NoWorker PROVE WaitingInv'
  BY <1>15 DEF NoWorker
<1>16. ASSUME Park PROVE WaitingInv'
  BY <1>16 DEF Park, QueueDispatcher
<1>17. ASSUME CheckCount PROVE WaitingInv'
  BY <1>17 DEF CheckCount
<1>18. ASSUME Doze PROVE WaitingInv'
  BY <1>18 DEF Doze, IdleTicks, On, Lesser, Forever
<1>19. ASSUME Wakes PROVE WaitingInv'
  BY <1>19 DEF Wakes, EpollReturns
<1>20. ASSUME ClearWaiting PROVE WaitingInv'
  BY <1>20 DEF ClearWaiting
<1>21. ASSUME Drain PROVE WaitingInv'
  BY <1>21 DEF Drain
<1>22. ASSUME ResetWake PROVE WaitingInv'
  BY <1>22 DEF ResetWake
<1>23. ASSUME Refresh PROVE WaitingInv'
  BY <1>23 DEF Refresh
<1>24. ASSUME HelperReturns PROVE WaitingInv'
  BY <1>24 DEF HelperReturns
<1>25. ASSUME NEW w \in Workers, NapEnds(w) PROVE WaitingInv'
  BY <1>25 DEF NapEnds
<1>26. ASSUME NEW w \in Workers, BecomeIdle(w) PROVE WaitingInv'
  BY <1>26 DEF BecomeIdle
<1>27. ASSUME NEW w \in Workers, Offer(w) PROVE WaitingInv'
  BY <1>27 DEF Offer
<1>28. ASSUME NEW w \in Workers, Rest(w) PROVE WaitingInv'
  BY <1>28 DEF Rest
<1>29. ASSUME NEW o \in Owners, StartEnter(o) PROVE WaitingInv'
  BY <1>29 DEF StartEnter, QueueDispatcher
<1>30. ASSUME NEW o \in Owners, WaitFlag(o) PROVE WaitingInv'
  BY <1>30 DEF WaitFlag
<1>31. ASSUME NEW o \in Owners, WaitSkips(o) PROVE WaitingInv'
  BY <1>31 DEF WaitSkips, WaitEnds
<1>32. ASSUME NEW o \in Owners, WaitWakes(o) PROVE WaitingInv'
  BY <1>32 DEF WaitWakes, WaitEnds
<1>33. ASSUME NEW o \in Owners, WaitUnflag(o) PROVE WaitingInv'
  BY <1>33 DEF WaitUnflag
<1>34. ASSUME NEW o \in Owners, StopRelease(o) PROVE WaitingInv'
  BY <1>34 DEF StopRelease
<1>35. ASSUME NEW o \in Owners, StopSchedule(o) PROVE WaitingInv'
  BY <1>35 DEF StopSchedule, Schedule, CallWake
<1>36. ASSUME NEW t \in Threads, CreateEvent(t) PROVE WaitingInv'
  BY <1>36 DEF CreateEvent, MayCreate, MayCreate
<1>37. ASSUME NEW t \in Threads, RemoveEvent(t) PROVE WaitingInv'
  BY <1>37 DEF RemoveEvent, RemoveFrom, Schedule, CallWake
<1>38. ASSUME NEW t \in Threads, DestroyForeign(t) PROVE WaitingInv'
  BY <1>38 DEF DestroyForeign, Destroy, DestroyUnchanged, CallWake
<1>39. ASSUME NEW t \in Threads, DestroyInCall(t) PROVE WaitingInv'
  BY <1>39 DEF DestroyInCall, Destroy, DestroyUnchanged, CallWake
<1>40. ASSUME NEW w \in Workers, CallYields(w) PROVE WaitingInv'
  BY <1>40 DEF CallYields
<1>41. ASSUME NEW o \in Owners, StartClaim(o) PROVE WaitingInv'
  BY <1>41 DEF StartClaim
<1>42. ASSUME NEW o \in Owners, WaitBegin(o) PROVE WaitingInv'
  BY <1>42 DEF WaitBegin
<1>43. ASSUME NEW o \in Owners, WaitTimesOut(o) PROVE WaitingInv'
  BY <1>43 DEF WaitTimesOut, WaitEnds
<1>44. ASSUME NEW o \in Owners, StopDequeue(o) PROVE WaitingInv'
  BY <1>44 DEF StopDequeue
<1>45. ASSUME NEW o \in Owners, DestroyOwned(o) PROVE WaitingInv'
  BY <1>45 DEF DestroyOwned, Destroy, DestroyUnchanged, CallWake
<1>46. ASSUME OtherIO PROVE WaitingInv'
  BY <1>46 DEF OtherIO, EpollReturns
<1>47. ASSUME QueueIOEvent PROVE WaitingInv'
  BY <1>47 DEF QueueIOEvent, Queue, Schedule, CallWake
<1>48. ASSUME Tick PROVE WaitingInv'
  BY <1>48 DEF Tick
<1>49. ASSUME UNCHANGED vars PROVE WaitingInv'
  BY <1>49 DEF vars
<1> HIDE ConstantsAssumption DEF TypeOK, ControlTyped, DataTyped, WaitingInv, Labels,
        HelperLabels, RunLabels, WakeLabels, Afters, Backs, Threads, Runners, Servers
<1> QED
  BY <1>1, <1>2, <1>3, <1>4, <1>5, <1>6, <1>7, <1>8, <1>9, <1>10, <1>11, <1>12,
     <1>13, <1>14, <1>15, <1>16, <1>17, <1>18, <1>19, <1>20, <1>21, <1>22, <1>23, <1>24,
     <1>25, <1>26, <1>27, <1>28, <1>29, <1>30, <1>31, <1>32, <1>33, <1>34, <1>35, <1>36,
     <1>37, <1>38, <1>39, <1>40, <1>41, <1>42, <1>43, <1>44, <1>45, <1>46, <1>47, <1>48,
     <1>49
     DEF Next, Program, Choice, RunStep, HelperStep, ServiceStep, WorkerStep,
         OwnerStep


\* wakeRequested stays backed by a write that was made or is about to be.
LEMMA WakeFlagStep ==
  ASSUME TypeOK, WaitingInv, WakeFlagBacked, [Next]_vars
  PROVE  WakeFlagBacked'
<1>1. ASSUME NEW t \in Threads, DestroyForeign(t) PROVE WakeFlagBacked'
  <2>1. t \in Threads /\ pc[t] \notin {"io", "write"}
    BY <1>1 DEF DestroyForeign, Threads
  <2>2. StagesTo(t, "free")
    BY <1>1, <2>1, DestroyStage DEF DestroyForeign, Plain, TypeOK
  <2>3. UNCHANGED <<wakeRequested, breakFd>> /\ Stage(t) # "io"
    BY <1>1 DEF DestroyForeign, DestroyUnchanged, Stage, WakeLabels
  <2> QED
    BY <2>1, <2>2, <2>3 DEF WakeFlagBacked, StagesTo, Threads
<1>2. ASSUME NEW t \in Threads, DestroyInCall(t) PROVE WakeFlagBacked'
  <2>1. t \in Threads /\ pc[t] \notin {"io", "write"}
    BY <1>2 DEF DestroyInCall, Threads, Runners, Servers
  <2>2. StagesTo(t, "done")
    BY <1>2, <2>1, DestroyStage DEF DestroyInCall, Plain, TypeOK
  <2>3. UNCHANGED <<wakeRequested, breakFd>> /\ Stage(t) # "io"
    BY <1>2 DEF DestroyInCall, DestroyUnchanged, Stage, WakeLabels
  <2> QED
    BY <2>1, <2>2, <2>3 DEF WakeFlagBacked, StagesTo, Threads
<1>3. ASSUME NEW o \in Owners, DestroyOwned(o) PROVE WakeFlagBacked'
  <2>1. o \in Threads /\ pc[o] \notin {"io", "write"}
    BY <1>3 DEF DestroyOwned, Threads
  <2>2. StagesTo(o, "free")
    BY <1>3, <2>1, DestroyStage DEF DestroyOwned, Plain, TypeOK
  <2>3. UNCHANGED <<wakeRequested, breakFd>> /\ Stage(o) # "io"
    BY <1>3 DEF DestroyOwned, DestroyUnchanged, Stage, WakeLabels
  <2> QED
    BY <2>1, <2>2, <2>3 DEF WakeFlagBacked, StagesTo, Threads
<1>8. ASSUME NEW t \in Threads, PostEvent(t) PROVE WakeFlagBacked'
  <2>1. StagesTo(t, Resume(t))
    BY <1>8, QueueStage DEF PostEvent, Resume, Plain, TypeOK
  <2>2. pc[t] # "write" /\ Stage(t) # "io" /\ UNCHANGED <<wakeRequested, breakFd>>
    BY <1>8 DEF PostEvent, Stage, WakeLabels, poolVars, ioVars
  <2> QED
    BY <2>1, <2>2, StagesKeepFlag
<1>11. ASSUME NEW t \in Runners, CallDone(t) PROVE WakeFlagBacked'
  <2>1. pc[t] # "write" /\ Stage(t) # "io" /\ UNCHANGED <<wakeRequested, breakFd>>
    BY <1>11 DEF CallDone, Stage, WakeLabels, poolVars, ioVars
  <2> QED
    BY <1>11, <2>1, CallDoneStage, StagesKeepFlag
<1> USE ConstantsAssumption DEF TypeOK, ControlTyped, DataTyped, WaitingInv,
        WakeFlagBacked, Stage, Labels, HelperLabels, RunLabels, WakeLabels, Afters,
        Backs, Threads, Runners, Servers
<1>4. ASSUME NEW t \in Threads, TestWaiting(t) PROVE WakeFlagBacked'
  BY <1>4 DEF TestWaiting, WakeUnchanged, WakeDone
<1>5. ASSUME NEW t \in Threads, TestRequested(t) PROVE WakeFlagBacked'
  BY <1>5 DEF TestRequested, WakeUnchanged, WakeDone
<1>6. ASSUME NEW t \in Threads, SetRequested(t) PROVE WakeFlagBacked'
  BY <1>6 DEF SetRequested, WakeUnchanged, WakeDone
<1>7. ASSUME NEW t \in Threads, WriteBreak(t) PROVE WakeFlagBacked'
  BY <1>7 DEF WriteBreak, WakeUnchanged, WakeDone
<1>9. ASSUME NEW t \in Runners, NextEvent(t) PROVE WakeFlagBacked'
  BY SMTT(60), <1>9 DEF NextEvent
<1>10. ASSUME NEW t \in Runners, CallReturns(t) PROVE WakeFlagBacked'
  BY <1>10 DEF CallReturns
<1>12. ASSUME NEW t \in Servers, Reclaim(t) PROVE WakeFlagBacked'
  BY <1>12 DEF Reclaim
<1>13. ASSUME NEW t \in Servers, Release(t) PROVE WakeFlagBacked'
  BY <1>13 DEF Release
<1>14. ASSUME NEW t \in Servers, Unlink(t) PROVE WakeFlagBacked'
  BY <1>14 DEF Unlink
<1>15. ASSUME NEW t \in Servers, Resched(t) PROVE WakeFlagBacked'
  BY <1>15 DEF Resched, Schedule, CallWake
<1>16. ASSUME ScanReady PROVE WakeFlagBacked'
  BY SMTT(60), <1>16 DEF ScanReady, QueueDispatcher, Candidates, FirstOf, On
<1>17. ASSUME ScanEmpty PROVE WakeFlagBacked'
  BY <1>17 DEF ScanEmpty
<1>18. ASSUME Enlist PROVE WakeFlagBacked'
  BY <1>18 DEF Enlist, QueueDispatcher
<1>19. ASSUME StartIdleWorker PROVE WakeFlagBacked'
  BY <1>19 DEF StartIdleWorker, Handover
<1>20. ASSUME StartNewWorker PROVE WakeFlagBacked'
  BY <1>20 DEF StartNewWorker, Handover
<1>21. ASSUME NoWorker PROVE WakeFlagBacked'
  BY <1>21 DEF NoWorker
<1>22. ASSUME Park PROVE WakeFlagBacked'
  BY <1>22 DEF Park, QueueDispatcher
<1>23. ASSUME CheckCount PROVE WakeFlagBacked'
  BY <1>23 DEF CheckCount
<1>24. ASSUME Doze PROVE WakeFlagBacked'
  BY <1>24 DEF Doze, IdleTicks, On, Lesser, Forever
<1>25. ASSUME Wakes PROVE WakeFlagBacked'
  BY <1>25 DEF Wakes, EpollReturns
<1>26. ASSUME ClearWaiting PROVE WakeFlagBacked'
  BY <1>26 DEF ClearWaiting
<1>27. ASSUME Drain PROVE WakeFlagBacked'
  BY <1>27 DEF Drain
<1>28. ASSUME ResetWake PROVE WakeFlagBacked'
  BY <1>28 DEF ResetWake
<1>29. ASSUME Refresh PROVE WakeFlagBacked'
  BY <1>29 DEF Refresh
<1>30. ASSUME HelperReturns PROVE WakeFlagBacked'
  BY <1>30 DEF HelperReturns
<1>31. ASSUME NEW w \in Workers, NapEnds(w) PROVE WakeFlagBacked'
  BY <1>31 DEF NapEnds
<1>32. ASSUME NEW w \in Workers, BecomeIdle(w) PROVE WakeFlagBacked'
  BY <1>32 DEF BecomeIdle
<1>33. ASSUME NEW w \in Workers, Offer(w) PROVE WakeFlagBacked'
  BY <1>33 DEF Offer
<1>34. ASSUME NEW w \in Workers, Rest(w) PROVE WakeFlagBacked'
  BY <1>34 DEF Rest
<1>35. ASSUME NEW o \in Owners, StartEnter(o) PROVE WakeFlagBacked'
  BY <1>35 DEF StartEnter, QueueDispatcher
<1>36. ASSUME NEW o \in Owners, WaitFlag(o) PROVE WakeFlagBacked'
  BY <1>36 DEF WaitFlag
<1>37. ASSUME NEW o \in Owners, WaitSkips(o) PROVE WakeFlagBacked'
  BY <1>37 DEF WaitSkips, WaitEnds
<1>38. ASSUME NEW o \in Owners, WaitWakes(o) PROVE WakeFlagBacked'
  BY <1>38 DEF WaitWakes, WaitEnds
<1>39. ASSUME NEW o \in Owners, WaitUnflag(o) PROVE WakeFlagBacked'
  BY <1>39 DEF WaitUnflag
<1>40. ASSUME NEW o \in Owners, StopRelease(o) PROVE WakeFlagBacked'
  BY <1>40 DEF StopRelease
<1>41. ASSUME NEW o \in Owners, StopSchedule(o) PROVE WakeFlagBacked'
  BY <1>41 DEF StopSchedule, Schedule, CallWake
<1>42. ASSUME NEW t \in Threads, CreateEvent(t) PROVE WakeFlagBacked'
  BY <1>42 DEF CreateEvent, MayCreate, MayCreate
<1>43. ASSUME NEW t \in Threads, RemoveEvent(t) PROVE WakeFlagBacked'
  BY SMTT(30), ZenonT(60), <1>43 DEF RemoveEvent, RemoveFrom, Schedule, CallWake
<1>44. ASSUME NEW w \in Workers, CallYields(w) PROVE WakeFlagBacked'
  BY <1>44 DEF CallYields
<1>45. ASSUME NEW o \in Owners, StartClaim(o) PROVE WakeFlagBacked'
  BY <1>45 DEF StartClaim
<1>46. ASSUME NEW o \in Owners, WaitBegin(o) PROVE WakeFlagBacked'
  BY <1>46 DEF WaitBegin
<1>47. ASSUME NEW o \in Owners, WaitTimesOut(o) PROVE WakeFlagBacked'
  BY <1>47 DEF WaitTimesOut, WaitEnds
<1>48. ASSUME NEW o \in Owners, StopDequeue(o) PROVE WakeFlagBacked'
  BY <1>48 DEF StopDequeue
<1>49. ASSUME OtherIO PROVE WakeFlagBacked'
  BY <1>49 DEF OtherIO, EpollReturns
<1>50. ASSUME QueueIOEvent PROVE WakeFlagBacked'
  BY <1>50 DEF QueueIOEvent, Queue, Schedule, CallWake
<1>51. ASSUME Tick PROVE WakeFlagBacked'
  BY <1>51 DEF Tick
<1>52. ASSUME UNCHANGED vars PROVE WakeFlagBacked'
  BY <1>52 DEF vars
<1> HIDE ConstantsAssumption DEF TypeOK, ControlTyped, DataTyped, WaitingInv,
        WakeFlagBacked, Stage, Labels, HelperLabels, RunLabels, WakeLabels, Afters,
        Backs, Threads, Runners, Servers
<1> QED
  BY <1>1, <1>2, <1>3, <1>4, <1>5, <1>6, <1>7, <1>8, <1>9, <1>10, <1>11, <1>12,
     <1>13, <1>14, <1>15, <1>16, <1>17, <1>18, <1>19, <1>20, <1>21, <1>22, <1>23, <1>24,
     <1>25, <1>26, <1>27, <1>28, <1>29, <1>30, <1>31, <1>32, <1>33, <1>34, <1>35, <1>36,
     <1>37, <1>38, <1>39, <1>40, <1>41, <1>42, <1>43, <1>44, <1>45, <1>46, <1>47, <1>48,
     <1>49, <1>50, <1>51, <1>52
     DEF Next, Program, Choice, WakeStep, RunStep, HelperStep, ServiceStep,
         WorkerStep, OwnerStep


\* A wake under way is not lost by a step of a thread that is not delivering one.
LEMMA SameWake ==
  ASSUME WakeComing, NEW t \in Threads, NEW l, StagesTo(t, l), pc[t] \notin WakeLabels,
         breakFd' = breakFd
  PROVE  WakeComing'
BY DEF WakeComing, StagesTo

\* A step that wakes the service if it makes a dispatcher ready loses no wakeup.
LEMMA StillWoken ==
  ASSUME NoLostWakeup, WaitingInv, NEW t \in Threads, NEW l \in Plain, StagesTo(t, l),
         pc[t] \notin WakeLabels \cup {"sleep"},
         waiting => On("ready")' \subseteq On("ready") \/ pc'[t] = "wake",
         UNCHANGED <<breakFd, sleepUntil, clock>>
  PROVE  NoLostWakeup'
<1> SUFFICES ASSUME pc'[Service] = "sleep", On("ready")' # {}
             PROVE  WakeComing' \/ sleepUntil' <= clock'
  BY DEF NoLostWakeup
<1>1. t # Service
  BY DEF StagesTo, Plain, WakeLabels
<1>2. pc[Service] = "sleep" /\ waiting
  BY <1>1 DEF StagesTo, WaitingInv, Threads
<1>3. CASE On("ready")' \subseteq On("ready")
  <2>1. WakeComing \/ sleepUntil <= clock
    BY <1>2, <1>3 DEF NoLostWakeup
  <2> QED
    BY <2>1, SameWake
<1>4. CASE pc'[t] = "wake"
  BY <1>4 DEF WakeComing, WakeLabels
<1> QED
  BY <1>2, <1>3, <1>4

LEMMA ScheduleWakes ==
  ASSUME TypeOK, NEW t \in Threads, NEW d \in Dispatchers, NEW q, NEW when, NEW l, NEW keep,
         Schedule(t, d, q, when, l, keep), waiting
  PROVE  On("ready")' \subseteq On("ready") \/ pc'[t] = "wake"
<1>1. \A x \in Dispatchers \ {d} : place'[x] = place[x]
  BY DEF Schedule, QueueDispatcher, TypeOK, DataTyped
<1>2. place'[d] = "ready" => place[d] = "ready" \/ pc'[t] = "wake"
  BY SMTT(60) DEF Schedule, QueueDispatcher, CallWake, TypeOK, DataTyped, ControlTyped
<1> QED
  BY <1>1, <1>2 DEF On

LEMMA DestroyWakes ==
  ASSUME TypeOK, NEW d \in Dispatchers, NEW t, NEW l, Destroy(t, d, l)
  PROVE  On("ready")' \subseteq On("ready")
BY DEF Destroy, On, TypeOK, DataTyped


\* No step leaves the service asleep with a ready dispatcher and no wake coming.
LEMMA NoLostWakeupStep ==
  ASSUME TypeOK, WorkSet, WaitingInv, WakeFlagBacked, NoLostWakeup, [Next]_vars
  PROVE  NoLostWakeup'
<1>1. ASSUME NEW t \in Threads, TestWaiting(t) PROVE NoLostWakeup'
  <2> SUFFICES ASSUME pc'[Service] = "sleep", On("ready")' # {}
               PROVE  WakeComing' \/ sleepUntil' <= clock'
    BY DEF NoLostWakeup
  <2>1. UNCHANGED <<place, breakFd, sleepUntil, clock>>
    BY <1>1 DEF TestWaiting, WakeUnchanged
  <2>2. t # Service
    BY <1>1 DEF TestWaiting, WaitingInv, WakeDone, TypeOK, ControlTyped, Afters
  <2>3. pc[Service] = "sleep" /\ waiting
    BY <1>1, <2>2 DEF TestWaiting, WaitingInv, WakeDone, TypeOK, ControlTyped, Threads
  <2>4. pc'[t] = "test"
    BY <1>1, <2>3 DEF TestWaiting, TypeOK, ControlTyped
  <2> QED
    BY <1>1, <2>4 DEF WakeComing, WakeLabels
<1>2. ASSUME NEW t \in Threads, PostEvent(t) PROVE NoLostWakeup'
  <2>1. t \in Threads /\ pc[t] \notin WakeLabels \cup {"sleep"}
    BY <1>2 DEF PostEvent, Threads, WakeLabels
  <2>2. StagesTo(t, Resume(t))
    BY <1>2, <2>1, QueueStage DEF PostEvent, Plain, TypeOK, Resume
  <2>3. waiting => On("ready")' \subseteq On("ready") \/ pc'[t] = "wake"
    <3>1. target[t] \in Dispatchers
      BY <1>2 DEF PostEvent, WorkSet, HasWork
    <3> QED
      BY <1>2, <3>1, ScheduleWakes DEF PostEvent, Queue, On
  <2>4. UNCHANGED <<breakFd, sleepUntil, clock>>
    BY <1>2 DEF PostEvent
  <2> QED
    BY <2>1, <2>2, <2>3, <2>4, StillWoken DEF Plain, Resume
<1>3. ASSUME NEW t \in Runners, CallDone(t) PROVE NoLostWakeup'
  <2>1. t \in Threads /\ pc[t] \notin WakeLabels \cup {"sleep"} /\ disp[t] \in Dispatchers
    BY <1>3, DispTyped DEF CallDone, Threads, Runners, Servers, WakeLabels, UsesDispatcher
  <2>2. \E l \in {"next", "release", "flag", "block"} : StagesTo(t, l)
    <3>1. back[t] \in {"release", "flag", "block"}
      BY <2>1 DEF TypeOK, ControlTyped, Backs
    <3>2. CASE Goto(t, back[t]) /\ UNCHANGED after
      BY <2>1, <3>1, <3>2, GotoStage DEF TypeOK, Plain
    <3>3. CASE Goto(t, "next") /\ UNCHANGED after
      BY <2>1, <3>3, GotoStage DEF TypeOK, Plain
    <3>4. CASE \E d, q, when : Schedule(t, d, q, when, "next", TRUE)
      BY <2>1, <3>4, ScheduleStage DEF TypeOK, Plain
    <3> QED
      BY <1>3, <3>2, <3>3, <3>4 DEF CallDone
  <2>3. waiting => On("ready")' \subseteq On("ready") \/ pc'[t] = "wake"
    <3>1. UNCHANGED place \/ \E q, when : Schedule(t, disp[t], q, when, "next", TRUE)
      BY <1>3 DEF CallDone
    <3> QED
      BY <2>1, <3>1, ScheduleWakes DEF On
  <2>4. UNCHANGED <<breakFd, sleepUntil, clock>>
    BY <1>3 DEF CallDone
  <2> QED
    BY <2>1, <2>2, <2>3, <2>4, StillWoken DEF Plain
<1>4. ASSUME NEW t \in Servers, Resched(t) PROVE NoLostWakeup'
  <2>1. t \in Threads /\ pc[t] \notin WakeLabels \cup {"sleep"}
    BY <1>4 DEF Resched, Threads, WakeLabels, Servers
  <2>2. StagesTo(t, "return")
    BY <1>4, <2>1, GotoStage, ScheduleStage DEF Resched, Plain, TypeOK
  <2>3. waiting => On("ready")' \subseteq On("ready") \/ pc'[t] = "wake"
    <3>1. disp[t] \in Dispatchers
      BY <1>4, <2>1, DispTyped DEF Resched, UsesDispatcher
    <3> QED
      BY <1>4, <2>1, <3>1, ScheduleWakes DEF Resched, On
  <2>4. UNCHANGED <<breakFd, sleepUntil, clock>>
    BY <1>4 DEF Resched
  <2> QED
    BY <2>1, <2>2, <2>3, <2>4, StillWoken DEF Plain
<1>5. ASSUME NEW o \in Owners, StopSchedule(o) PROVE NoLostWakeup'
  <2>1. o \in Threads /\ pc[o] \notin WakeLabels \cup {"sleep"}
    BY <1>5 DEF StopSchedule, Threads, WakeLabels
  <2>2. StagesTo(o, "free")
    BY <1>5, <2>1, GotoStage, ScheduleStage DEF StopSchedule, Plain, TypeOK
  <2>3. waiting => On("ready")' \subseteq On("ready") \/ pc'[o] = "wake"
    <3>1. disp[o] \in Dispatchers
      BY <1>5, <2>1, DispTyped DEF StopSchedule, UsesDispatcher
    <3> QED
      BY <1>5, <2>1, <3>1, ScheduleWakes DEF StopSchedule, On
  <2>4. UNCHANGED <<breakFd, sleepUntil, clock>>
    BY <1>5 DEF StopSchedule
  <2> QED
    BY <2>1, <2>2, <2>3, <2>4, StillWoken DEF Plain
<1>6. ASSUME NEW t \in Threads, RemoveEvent(t) PROVE NoLostWakeup'
  <2>1. pc[t] \notin WakeLabels \cup {"sleep"}
    BY <1>6 DEF RemoveEvent, WakeLabels
  <2>2. StagesTo(t, "free")
    BY <1>6, RemoveStage DEF TypeOK
  <2>3. waiting => On("ready")' \subseteq On("ready") \/ pc'[t] = "wake"
    <3>1. PICK d \in Dispatchers :
            UNCHANGED place \/ \E q : Schedule(t, d, q, due, "free", TRUE)
      BY <1>6 DEF RemoveEvent, RemoveFrom
    <3> QED
      BY <1>6, <3>1, ScheduleWakes DEF On
  <2>4. UNCHANGED <<breakFd, sleepUntil, clock>>
    BY <1>6 DEF RemoveEvent
  <2> QED
    BY <1>6, <2>1, <2>2, <2>3, <2>4, StillWoken DEF Plain
<1>7. ASSUME NEW t \in Threads, DestroyForeign(t) PROVE NoLostWakeup'
  <2>1. t \in Threads /\ pc[t] \notin WakeLabels \cup {"sleep"}
    BY <1>7 DEF DestroyForeign, Threads, WakeLabels
  <2>2. StagesTo(t, "free")
    BY <1>7, <2>1, DestroyStage DEF DestroyForeign, Plain, TypeOK
  <2>3. On("ready")' \subseteq On("ready")
    BY <1>7, DestroyWakes DEF DestroyForeign
  <2>4. UNCHANGED <<breakFd, sleepUntil, clock>>
    BY <1>7 DEF DestroyForeign, DestroyUnchanged
  <2> QED
    BY <2>1, <2>2, <2>3, <2>4, StillWoken DEF Plain
<1>8. ASSUME NEW t \in Threads, DestroyInCall(t) PROVE NoLostWakeup'
  <2>1. t \in Threads /\ pc[t] \notin WakeLabels \cup {"sleep"}
    BY <1>8 DEF DestroyInCall, Threads, WakeLabels, Runners, Servers
  <2>2. StagesTo(t, "done")
    BY <1>8, <2>1, DestroyStage DEF DestroyInCall, Plain, TypeOK
  <2>3. On("ready")' \subseteq On("ready")
    <3>1. disp[t] \in Dispatchers
      BY <1>8, <2>1, DispTyped DEF DestroyInCall, UsesDispatcher
    <3> QED
      BY <1>8, <3>1, DestroyWakes DEF DestroyInCall
  <2>4. UNCHANGED <<breakFd, sleepUntil, clock>>
    BY <1>8 DEF DestroyInCall, DestroyUnchanged
  <2> QED
    BY <2>1, <2>2, <2>3, <2>4, StillWoken DEF Plain
<1>9. ASSUME NEW o \in Owners, DestroyOwned(o) PROVE NoLostWakeup'
  <2>1. o \in Threads /\ pc[o] \notin WakeLabels \cup {"sleep"}
    BY <1>9 DEF DestroyOwned, Threads, WakeLabels
  <2>2. StagesTo(o, "free")
    BY <1>9, <2>1, DestroyStage DEF DestroyOwned, Plain, TypeOK
  <2>3. On("ready")' \subseteq On("ready")
    <3>1. disp[o] \in Dispatchers
      BY <1>9, <2>1, DispTyped DEF DestroyOwned, UsesDispatcher
    <3> QED
      BY <1>9, <3>1, DestroyWakes DEF DestroyOwned
  <2>4. UNCHANGED <<breakFd, sleepUntil, clock>>
    BY <1>9 DEF DestroyOwned, DestroyUnchanged
  <2> QED
    BY <2>1, <2>2, <2>3, <2>4, StillWoken DEF Plain
<1> USE ConstantsAssumption DEF TypeOK, ControlTyped, DataTyped, WorkSet, HasWork,
        WaitingInv, WakeFlagBacked, NoLostWakeup, WakeComing, On, Stage, UsesDispatcher,
        Labels, HelperLabels, RunLabels, WakeLabels, Afters, Backs, Threads, Runners,
        Servers
<1>10. ASSUME NEW t \in Threads, TestRequested(t) PROVE NoLostWakeup'
  BY <1>10 DEF TestRequested, WakeUnchanged, WakeDone
<1>11. ASSUME NEW t \in Threads, SetRequested(t) PROVE NoLostWakeup'
  BY <1>11 DEF SetRequested, WakeUnchanged, WakeDone
<1>12. ASSUME NEW t \in Threads, WriteBreak(t) PROVE NoLostWakeup'
  BY <1>12 DEF WriteBreak, WakeUnchanged, WakeDone
<1>13. ASSUME NEW t \in Runners, NextEvent(t) PROVE NoLostWakeup'
  BY <1>13, SMTT(60) DEF NextEvent
<1>14. ASSUME NEW t \in Runners, CallReturns(t) PROVE NoLostWakeup'
  BY <1>14 DEF CallReturns
<1>15. ASSUME NEW t \in Servers, Reclaim(t) PROVE NoLostWakeup'
  BY <1>15 DEF Reclaim
<1>16. ASSUME NEW t \in Servers, Release(t) PROVE NoLostWakeup'
  BY <1>16 DEF Release
<1>17. ASSUME NEW t \in Servers, Unlink(t) PROVE NoLostWakeup'
  BY <1>17 DEF Unlink
<1>18. ASSUME ScanReady PROVE NoLostWakeup'
  BY <1>18 DEF ScanReady, QueueDispatcher, Candidates, FirstOf
<1>19. ASSUME ScanEmpty PROVE NoLostWakeup'
  BY <1>19 DEF ScanEmpty
<1>20. ASSUME Enlist PROVE NoLostWakeup'
  BY <1>20 DEF Enlist, QueueDispatcher
<1>21. ASSUME StartIdleWorker PROVE NoLostWakeup'
  BY <1>21 DEF StartIdleWorker, Handover
<1>22. ASSUME StartNewWorker PROVE NoLostWakeup'
  BY <1>22 DEF StartNewWorker, Handover
<1>23. ASSUME NoWorker PROVE NoLostWakeup'
  BY <1>23 DEF NoWorker
<1>24. ASSUME Park PROVE NoLostWakeup'
  BY <1>24 DEF Park, QueueDispatcher
<1>25. ASSUME CheckCount PROVE NoLostWakeup'
  BY <1>25 DEF CheckCount
<1>26. ASSUME Doze PROVE NoLostWakeup'
  BY <1>26 DEF Doze, IdleTicks, Lesser, Forever
<1>27. ASSUME Wakes PROVE NoLostWakeup'
  BY <1>27 DEF Wakes, EpollReturns
<1>28. ASSUME ClearWaiting PROVE NoLostWakeup'
  BY <1>28 DEF ClearWaiting
<1>29. ASSUME Drain PROVE NoLostWakeup'
  BY <1>29 DEF Drain
<1>30. ASSUME ResetWake PROVE NoLostWakeup'
  BY <1>30 DEF ResetWake
<1>31. ASSUME Refresh PROVE NoLostWakeup'
  BY <1>31 DEF Refresh
<1>32. ASSUME HelperReturns PROVE NoLostWakeup'
  BY <1>32 DEF HelperReturns
<1>33. ASSUME NEW w \in Workers, NapEnds(w) PROVE NoLostWakeup'
  BY <1>33 DEF NapEnds
<1>34. ASSUME NEW w \in Workers, BecomeIdle(w) PROVE NoLostWakeup'
  BY <1>34 DEF BecomeIdle
<1>35. ASSUME NEW w \in Workers, Offer(w) PROVE NoLostWakeup'
  BY <1>35 DEF Offer
<1>36. ASSUME NEW w \in Workers, Rest(w) PROVE NoLostWakeup'
  BY <1>36 DEF Rest
<1>37. ASSUME NEW o \in Owners, StartEnter(o) PROVE NoLostWakeup'
  BY <1>37 DEF StartEnter, QueueDispatcher
<1>38. ASSUME NEW o \in Owners, WaitFlag(o) PROVE NoLostWakeup'
  BY <1>38 DEF WaitFlag
<1>39. ASSUME NEW o \in Owners, WaitSkips(o) PROVE NoLostWakeup'
  BY <1>39 DEF WaitSkips, WaitEnds
<1>40. ASSUME NEW o \in Owners, WaitWakes(o) PROVE NoLostWakeup'
  BY <1>40 DEF WaitWakes, WaitEnds
<1>41. ASSUME NEW o \in Owners, WaitUnflag(o) PROVE NoLostWakeup'
  BY <1>41 DEF WaitUnflag
<1>42. ASSUME NEW o \in Owners, StopRelease(o) PROVE NoLostWakeup'
  BY <1>42 DEF StopRelease
<1>43. ASSUME NEW t \in Threads, CreateEvent(t) PROVE NoLostWakeup'
  BY SMTT(60), <1>43 DEF CreateEvent, MayCreate, MayCreate
<1>44. ASSUME NEW w \in Workers, CallYields(w) PROVE NoLostWakeup'
  BY <1>44 DEF CallYields
<1>45. ASSUME NEW o \in Owners, StartClaim(o) PROVE NoLostWakeup'
  BY <1>45 DEF StartClaim
<1>46. ASSUME NEW o \in Owners, WaitBegin(o) PROVE NoLostWakeup'
  BY <1>46 DEF WaitBegin
<1>47. ASSUME NEW o \in Owners, WaitTimesOut(o) PROVE NoLostWakeup'
  BY <1>47 DEF WaitTimesOut, WaitEnds
<1>48. ASSUME NEW o \in Owners, StopDequeue(o) PROVE NoLostWakeup'
  BY <1>48 DEF StopDequeue
<1>49. ASSUME OtherIO PROVE NoLostWakeup'
  BY <1>49 DEF OtherIO, EpollReturns
<1>50. ASSUME QueueIOEvent PROVE NoLostWakeup'
  BY <1>50 DEF QueueIOEvent, Queue, Schedule, CallWake
<1>51. ASSUME Tick PROVE NoLostWakeup'
  BY <1>51 DEF Tick
<1>52. ASSUME UNCHANGED vars PROVE NoLostWakeup'
  BY <1>52 DEF vars
<1> HIDE ConstantsAssumption DEF TypeOK, ControlTyped, DataTyped, WorkSet, HasWork,
        WaitingInv, WakeFlagBacked, NoLostWakeup, WakeComing, On, Stage, UsesDispatcher,
        Labels, HelperLabels, RunLabels, WakeLabels, Afters, Backs, Threads, Runners,
        Servers
<1> QED
  BY <1>1, <1>2, <1>3, <1>4, <1>5, <1>6, <1>7, <1>8, <1>9, <1>10, <1>11, <1>12,
     <1>13, <1>14, <1>15, <1>16, <1>17, <1>18, <1>19, <1>20, <1>21, <1>22, <1>23, <1>24,
     <1>25, <1>26, <1>27, <1>28, <1>29, <1>30, <1>31, <1>32, <1>33, <1>34, <1>35, <1>36,
     <1>37, <1>38, <1>39, <1>40, <1>41, <1>42, <1>43, <1>44, <1>45, <1>46, <1>47, <1>48,
     <1>49, <1>50, <1>51, <1>52
     DEF Next, Program, Choice, WakeStep, RunStep, HelperStep, ServiceStep,
         WorkerStep, OwnerStep


-----------------------------------------------------------------------------
(* The theorems *)

LEMMA InitInv == Init => IndInv
<1> SUFFICES ASSUME Init PROVE IndInv
  OBVIOUS
<1>1. DataTyped
  <2>1. /\ MaxTime \in Nat /\ None \notin Threads
        /\ destroyed = {} /\ \A d \in Dispatchers : eventQ[d] = <<>>
    BY ConstantsAssumption DEF Init
  <2>2. eventQ \in [Dispatchers -> Seq(Events)]
    <3>1. <<>> \in Seq(Events)
      OBVIOUS
    <3> QED
      BY <3>1 DEF Init
  <2>3. /\ place \in [Dispatchers -> Places] /\ owner \in [Dispatchers -> Threads \cup {None, Reserved}]
        /\ due \in [Events -> Nat] /\ estate \in [Events -> EventStates]
        /\ deadline \in [Owners -> Nat]
    BY DEF Init, Places, EventStates
  <2>4. /\ ran \in [Threads -> BOOLEAN] /\ disp \in [Threads -> Dispatchers \cup {None}]
        /\ cur \in [Threads -> Events \cup {None}] /\ job \in [Threads -> Dispatchers \cup {None}]
        /\ made \in [Threads -> Events \cup {None}]
        /\ target \in [Threads -> Dispatchers \cup {None}]
    BY DEF Init
  <2>5. rank \in [Dispatchers -> 1 .. Cardinality(Dispatchers)]
    BY DEF Init
  <2>6. clock \in 0 .. MaxTime /\ now \in 0 .. MaxTime /\ willAwake \in Nat /\ sleepUntil \in Nat
    BY <2>1 DEF Init
  <2>7. /\ waiting \in BOOLEAN /\ counted \in BOOLEAN
        /\ wakeRequested \in BOOLEAN /\ breakFd \in BOOLEAN /\ sawBreak \in BOOLEAN
    BY DEF Init
  <2>8. /\ lock \in Threads \cup {None} /\ destroyed \subseteq Dispatchers \ {Main}
        /\ waitFlag \subseteq Dispatchers /\ dcond \subseteq Dispatchers
        /\ idle \subseteq Workers /\ busy \subseteq Workers
        /\ napping \subseteq Workers /\ idleCond \subseteq Workers
    BY DEF Init
  <2> QED
    BY <2>2, <2>3, <2>4, <2>5, <2>6, <2>7, <2>8 DEF DataTyped
<1>2. ControlTyped
  <2>1. ASSUME NEW t \in Threads
        PROVE  pc[t] \in Labels(t) /\ after[t] \in Afters(t) /\ back[t] \in Backs(t)
    BY ConstantsAssumption
       DEF Init, Labels, Afters, Backs, Threads, Servers
  <2> QED
    BY <2>1 DEF Init, ControlTyped
<1>3. \A t \in Threads : Stage(t) = pc[t] /\ pc[t] \in {"scan", "unborn", "free"}
  BY DEF Init, Stage, WakeLabels
<1>4. WorkSet
  BY <1>3 DEF WorkSet, HasWork, UsesDispatcher
<1>5. JobHolders /\ ReservedOnce
  BY <1>3, ConstantsAssumption DEF Init, JobHolders, ReservedOnce, Servers, Threads
<1>6. OwnerHolds
  BY <1>3 DEF OwnerHolds, UsesDispatcher, Servers, Threads
<1>7. WaitingInv /\ WakeFlagBacked /\ NoLostWakeup
  BY <1>3 DEF Init, WaitingInv, WakeFlagBacked, NoLostWakeup, Threads
<1> QED
  BY <1>1, <1>2, <1>4, <1>5, <1>6, <1>7 DEF IndInv, TypeOK

LEMMA NextInv == IndInv /\ [Next]_vars => IndInv'
<1> SUFFICES ASSUME IndInv, [Next]_vars PROVE IndInv'
  OBVIOUS
<1>1. TypeOK'
  BY DataTypedStep, ControlTypedStep DEF IndInv, TypeOK
<1>2. WorkSet'
  BY WorkSetStep DEF IndInv
<1>3. JobHolders'
  BY JobHoldersStep DEF IndInv
<1>4. ReservedOnce' /\ OwnerHolds'
  BY ReservedOnceStep, OwnerHoldsStep DEF IndInv
<1>5. WaitingInv' /\ WakeFlagBacked' /\ NoLostWakeup'
  BY WaitingStep, WakeFlagStep, NoLostWakeupStep DEF IndInv
<1> QED
  BY <1>1, <1>2, <1>3, <1>4, <1>5 DEF IndInv

\* IndInv holds in every reachable state of the event service.
THEOREM Inductive == Spec => []IndInv
<1>1. Init => IndInv
  BY InitInv
<1>2. IndInv /\ [Next]_vars => IndInv'
  BY NextInv
<1> QED
  BY <1>1, <1>2, PTL DEF Spec

\* All variables keep their types, and every thread stays in its own program:
\* a call to mprWakeEventService or dispatchEvents returns to its caller.
THEOREM TypeCorrect == Spec => []TypeOK
<1>1. IndInv => TypeOK
  BY DEF IndInv
<1> QED
  BY <1>1, Inductive, PTL

\* The thread that runs a dispatcher's events owns the dispatcher, whatever
\* claims, stops, destroys and handovers interleave (claimDispatcher,
\* reclaimDispatcher, releaseDispatcher).
THEOREM Ownership == Spec => []OwnedWhileDispatching
<1>1. IndInv => OwnedWhileDispatching
  BY DEF IndInv, OwnerHolds, OwnedWhileDispatching, Dispatching, Runners, UsesDispatcher
<1> QED
  BY <1>1, Inductive, PTL

\* The events of a dispatcher never run on two threads at once, for any number
\* of workers, dispatchers, events, owners and posters.
THEOREM Serialization == Spec => []Serialized
<1>1. IndInv => Serialized
  BY DEF IndInv, OwnerHolds, Serialized, Dispatching, Runners, UsesDispatcher
<1> QED
  BY <1>1, Inductive, PTL

\* A reservation is one thread's, until that thread takes it.
THEOREM Reservation == Spec => []ReservedOnce
<1>1. IndInv => ReservedOnce
  BY DEF IndInv
<1> QED
  BY <1>1, Inductive, PTL

\* The flag that suppresses a write to the eventfd is always backed by one.
THEOREM WakeFlag == Spec => []WakeFlagBacked
<1>1. IndInv => WakeFlagBacked
  BY DEF IndInv
<1> QED
  BY <1>1, Inductive, PTL

\* The service thread does not sleep with a ready dispatcher and no wake coming.
THEOREM WakeupSafety == Spec => []NoLostWakeup
<1>1. IndInv => NoLostWakeup
  BY DEF IndInv
<1> QED
  BY <1>1, Inductive, PTL

=============================================================================
