-------------------------- MODULE EventQueueProofs --------------------------
(***************************************************************************)
(* The event queues of the event service, for any number of threads,       *)
(* dispatchers and events: what a step does to the queues, the invariant   *)
(* QueueInv of their contents, where a dispatcher with events is kept, and *)
(* when the service thread may sleep: not while a dispatcher is pending,   *)
(* and not past the time when the next event is due.  The same for the     *)
(* owner that waits on a dispatcher.  And that the event service           *)
(* implements SerialExecutor: every step of a thread is a step of the      *)
(* executor of one dispatcher, or leaves all executors as they are.        *)
(***************************************************************************)
EXTENDS EventServiceProofs

USE DEF Free, Goto, esVars, dpVars, evVars, ioVars, makeVars, thVars, poolVars

\* The events of a queue are in the order of the times when they are due.
SortedBy(q, when) == \A i, j \in DOMAIN q : i < j => when[q[i]] <= when[q[j]]

QueuesSorted == \A d \in Dispatchers : SortedBy(eventQ[d], due)

\* Every event on a queue is a queued one,
Linked ==
  \A d \in Dispatchers : \A i \in DOMAIN eventQ[d] : estate[eventQ[d][i]] = "queued"

\* is on no other place of a queue,
NoTwice ==
  \A d, x \in Dispatchers : \A i \in DOMAIN eventQ[d] : \A j \in DOMAIN eventQ[x] :
    eventQ[d][i] = eventQ[x][j] => d = x /\ i = j

\* and every queued event is on a queue.
NoneLoose ==
  \A e \in Events : estate[e] = "queued" =>
    \E d \in Dispatchers : \E i \in DOMAIN eventQ[d] : eventQ[d][i] = e

\* The event that a thread is about to queue is made, and is no other thread's.
Posting ==
  \A t \in Threads : pc[t] = "post" =>
    /\ made[t] \in Events /\ estate[made[t]] = "made"
    /\ \A u \in Threads : pc[u] = "post" /\ made[u] = made[t] => u = t

QueueInv == QueuesSorted /\ Linked /\ NoTwice /\ NoneLoose /\ Posting

-----------------------------------------------------------------------------
(* Insertion and removal *)

\* r is q with e behind its first n events.
Inserted(r, q, e, n) ==
  /\ Len(r) = Len(q) + 1 /\ r[n + 1] = e
  /\ \A i \in 1 .. n : r[i] = q[i]
  /\ \A i \in n + 1 .. Len(q) : r[i + 1] = q[i]

\* r is q without its event at i.
Removed(r, q, i) ==
  /\ Len(r) = Len(q) - 1
  /\ \A j \in 1 .. i - 1 : r[j] = q[j]
  /\ \A j \in i .. Len(q) - 1 : r[j] = q[j + 1]

\* A set of positions that has all those before its members is 1 .. n.
LEMMA Prefix ==
  ASSUME NEW L \in Nat, NEW S \in SUBSET (1 .. L),
         \A x \in S : \A y \in 1 .. x : y \in S
  PROVE  Cardinality(S) \in 0 .. L /\ S = 1 .. Cardinality(S)
<1>1. IsFiniteSet(1 .. L) /\ Cardinality(1 .. L) = L
  BY FS_Interval
<1>2. IsFiniteSet(S) /\ Cardinality(S) <= L
  <2>1. IsFiniteSet(S) /\ Cardinality(S) <= Cardinality(1 .. L)
    BY <1>1, FS_Subset, ZenonT(60)
  <2> QED
    BY <1>1, <2>1
<1>3. Cardinality(S) \in 0 .. L
  BY <1>2, FS_CardinalityType
<1>4. ASSUME NEW x \in S PROVE x <= Cardinality(S)
  <2>1. x \in 1 .. L /\ 1 .. x \in SUBSET S
    OBVIOUS
  <2>2. Cardinality(1 .. x) = x
    BY <2>1, FS_Interval
  <2>3. Cardinality(1 .. x) <= Cardinality(S)
    BY <1>2, <2>1, FS_Subset
  <2> QED
    BY <2>2, <2>3
<1>5. S \in SUBSET (1 .. Cardinality(S))
  BY <1>3, <1>4
<1>6. IsFiniteSet(1 .. Cardinality(S)) /\ Cardinality(1 .. Cardinality(S)) = Cardinality(S)
  BY <1>3, FS_Interval
<1>7. S = 1 .. Cardinality(S)
  BY <1>5, <1>6, FS_Subset
<1> QED
  BY <1>3, <1>7

\* InsertEvent puts the event behind those that are due no later, and in front of
\* the others.
LEMMA InsertShape ==
  ASSUME NEW q \in Seq(Events), NEW e \in Events, NEW when \in Nat,
         due \in [Events -> Nat], SortedBy(q, due)
  PROVE  \E n \in 0 .. Len(q) :
           /\ Inserted(InsertEvent(q, e, when), q, e, n)
           /\ \A i \in 1 .. n : due[q[i]] <= when
           /\ \A i \in n + 1 .. Len(q) : due[q[i]] > when
<1> DEFINE S == {i \in DOMAIN q : due[q[i]] <= when}
           n == Cardinality(S)
<1>1. Len(q) \in Nat /\ DOMAIN q = 1 .. Len(q) /\ \A i \in 1 .. Len(q) : due[q[i]] \in Nat
  OBVIOUS
<1>2. ASSUME NEW x \in S, NEW y \in 1 .. x PROVE y \in S
  <2>1. x \in 1 .. Len(q) /\ y \in 1 .. Len(q) /\ due[q[x]] <= when
    BY <1>1
  <2>2. due[q[y]] <= due[q[x]]
    BY <1>1, <2>1 DEF SortedBy
  <2> QED
    BY <1>1, <2>1, <2>2
<1>3. S \in SUBSET (1 .. Len(q))
  BY <1>1
<1> HIDE DEF S
<1>4. n \in 0 .. Len(q) /\ S = 1 .. n
  BY <1>1, <1>2, <1>3, Prefix
<1> HIDE DEF n
<1>5. \A i \in 1 .. Len(q) : due[q[i]] <= when <=> i \in 1 .. n
  BY <1>1, <1>4 DEF S
<1>6. (\A i \in 1 .. n : due[q[i]] <= when) /\ \A i \in n + 1 .. Len(q) : due[q[i]] > when
  BY <1>1, <1>4, <1>5
<1> DEFINE front == SubSeq(q, 1, n)
           rear == SubSeq(q, n + 1, Len(q))
<1>7. front \in Seq(Events) /\ Len(front) = n /\ \A i \in 1 .. n : front[i] = q[i]
  <2>1. n \in Int /\ \A i \in 1 .. n : q[i] \in Events
    BY <1>1, <1>4
  <2> QED
    BY <1>4, <2>1, SubSeqProperties
<1>14. /\ rear \in Seq(Events) /\ Len(rear) = IF n + 1 <= Len(q) THEN Len(q) - (n + 1) + 1 ELSE 0
       /\ \A i \in 1 .. Len(q) - (n + 1) + 1 : rear[i] = q[n + 1 + i - 1]
  <2>1. n + 1 \in Int /\ Len(q) \in Int /\ \A i \in n + 1 .. Len(q) : q[i] \in Events
    BY <1>1, <1>4
  <2> QED
    BY <2>1, SubSeqProperties
<1> HIDE DEF front, rear
<1>8. rear \in Seq(Events) /\ Len(rear) = Len(q) - n /\ \A i \in 1 .. Len(q) - n : rear[i] = q[n + i]
  <2>3. n \in Nat /\ Len(q) \in Nat /\ n <= Len(q)
    BY <1>1, <1>4
  <2>4. Len(rear) = IF n + 1 <= Len(q) THEN Len(q) - (n + 1) + 1 ELSE 0
    BY <1>14
  <2>1. Len(rear) = Len(q) - n
    BY <2>3, <2>4
  <2>2. ASSUME NEW i \in 1 .. Len(q) - n PROVE rear[i] = q[n + i]
    <3>1. i \in 1 .. Len(q) - (n + 1) + 1 /\ n + 1 + i - 1 = n + i
      BY <1>1, <1>4
    <3> QED
      BY <1>14, <3>1
  <2> QED
    BY <1>14, <2>1, <2>2
<1> DEFINE half == front \o <<e>>
<1>9. half \in Seq(Events) /\ Len(half) = n + 1 /\ half[n + 1] = e /\ \A i \in 1 .. n : half[i] = q[i]
  <2>1. <<e>> \in Seq(Events) /\ Len(<<e>>) = 1 /\ <<e>>[1] = e
    OBVIOUS
  <2>2. /\ half \in Seq(Events) /\ Len(half) = Len(front) + 1
        /\ \A i \in 1 .. Len(front) + 1 : half[i] = IF i <= Len(front) THEN front[i] ELSE <<e>>[i - Len(front)]
    BY <1>7, <2>1, ConcatProperties
  <2>3. Len(half) = n + 1 /\ n + 1 \in 1 .. Len(front) + 1 /\ ~(n + 1 <= Len(front))
    BY <1>1, <1>4, <1>7, <2>1, <2>2
  <2>4. half[n + 1] = <<e>>[(n + 1) - Len(front)] /\ (n + 1) - Len(front) = 1
    BY <1>1, <1>4, <1>7, <2>2, <2>3
  <2>5. ASSUME NEW i \in 1 .. n PROVE half[i] = q[i]
    BY <1>1, <1>4, <1>7, <2>2
  <2> QED
    BY <2>1, <2>2, <2>3, <2>4, <2>5
<1> HIDE DEF half
<1> DEFINE r == half \o rear
<1>10. /\ Len(r) = Len(half) + Len(rear)
       /\ \A i \in 1 .. Len(half) + Len(rear) : r[i] = IF i <= Len(half) THEN half[i] ELSE rear[i - Len(half)]
  BY <1>8, <1>9, ConcatProperties
<1> HIDE DEF r
<1>11. Len(r) = Len(q) + 1 /\ r[n + 1] = e /\ \A i \in 1 .. n : r[i] = q[i]
  <2>1. ASSUME NEW i \in 1 .. n + 1 PROVE r[i] = half[i]
    <3>1. i \in 1 .. Len(half) + Len(rear) /\ i <= Len(half)
      BY <1>1, <1>4, <1>8, <1>9
    <3> QED
      BY <1>10, <3>1
  <2>2. Len(r) = Len(q) + 1 /\ n + 1 \in 1 .. n + 1
    BY <1>1, <1>4, <1>8, <1>9, <1>10
  <2> QED
    BY <1>4, <1>9, <2>1, <2>2
<1>12. ASSUME NEW i \in n + 1 .. Len(q) PROVE r[i + 1] = q[i]
  <2>1. i + 1 \in 1 .. Len(half) + Len(rear) /\ ~(i + 1 <= Len(half)) /\ i - n \in 1 .. Len(q) - n
    BY <1>1, <1>4, <1>8, <1>9
  <2>2. r[i + 1] = rear[(i + 1) - (n + 1)]
    BY <1>9, <1>10, <2>1
  <2>3. (i + 1) - (n + 1) = i - n /\ n + (i - n) = i
    BY <1>1, <1>4
  <2> QED
    BY <1>8, <2>1, <2>2, <2>3
<1>13. r = InsertEvent(q, e, when)
  BY DEF InsertEvent, r, half, front, rear, n, S
<1> QED
  BY <1>4, <1>6, <1>11, <1>12, <1>13 DEF Inserted

LEMMA InsertNotEmpty ==
  ASSUME NEW q \in Seq(Events), NEW e \in Events, NEW when
  PROVE  InsertEvent(q, e, when) # <<>>
<1>0. IsFiniteSet(1 .. Len(q)) /\ Cardinality(1 .. Len(q)) = Len(q)
  <2>1. Len(q) \in Nat
    OBVIOUS
  <2> QED
    BY <2>1, FS_Interval, SMTT(30), ZenonT(60)
<1> DEFINE S == {i \in DOMAIN q : due[q[i]] <= when}
           n == Cardinality(S)
<1>1. n \in 0 .. Len(q) /\ Len(q) \in Nat
  <2>1. Len(q) \in Nat /\ S \in SUBSET (1 .. Len(q))
    OBVIOUS
  <2>2. IsFiniteSet(S) /\ n <= Len(q)
    BY <1>0, <2>1, FS_Subset
  <2> QED
    BY <2>1, <2>2, FS_CardinalityType
<1> HIDE DEF S, n
<1> DEFINE front == SubSeq(q, 1, n)
           rear == SubSeq(q, n + 1, Len(q))
<1>2. front \in Seq(Events) /\ rear \in Seq(Events)
  <2>1. n \in Int /\ n + 1 \in Int /\ Len(q) \in Int /\ \A i \in 1 .. Len(q) : q[i] \in Events
    BY <1>1
  <2>2. (\A i \in 1 .. n : q[i] \in Events) /\ \A i \in n + 1 .. Len(q) : q[i] \in Events
    BY <1>1, <2>1
  <2> QED
    BY <2>1, <2>2, SubSeqProperties
<1> HIDE DEF front, rear
<1>3. front \o <<e>> \in Seq(Events) /\ front \o <<e>> # <<>>
  <2>1. <<e>> \in Seq(Events) /\ <<e>> # <<>>
    OBVIOUS
  <2> QED
    BY <1>2, <2>1, ConcatProperties, ConcatEqualIffEmpty
<1>4. (front \o <<e>>) \o rear # <<>>
  BY <1>2, <1>3, ConcatEqualIffEmpty
<1> QED
  BY <1>4 DEF InsertEvent, front, rear, n, S

LEMMA RemoveAtShape ==
  ASSUME NEW q \in Seq(Events), NEW i \in DOMAIN q
  PROVE  Removed(RemoveAt(q, i), q, i)
<1>1. Len(q) \in Nat /\ i \in 1 .. Len(q) /\ \A j \in 1 .. Len(q) : q[j] \in Events
  OBVIOUS
<1> DEFINE front == SubSeq(q, 1, i - 1)
           rear == SubSeq(q, i + 1, Len(q))
<1>2. front \in Seq(Events) /\ Len(front) = i - 1 /\ \A j \in 1 .. i - 1 : front[j] = q[j]
  <2>1. \A j \in 1 .. i - 1 : q[j] \in Events
    BY <1>1
  <2> QED
    BY <1>1, <2>1, SubSeqProperties
<1>3. rear \in Seq(Events) /\ Len(rear) = Len(q) - i /\ \A j \in 1 .. Len(q) - i : rear[j] = q[i + j]
  <2>1. \A j \in i + 1 .. Len(q) : q[j] \in Events
    BY <1>1
  <2>2. /\ rear \in Seq(Events) /\ Len(rear) = IF i + 1 <= Len(q) THEN Len(q) - (i + 1) + 1 ELSE 0
        /\ \A j \in 1 .. Len(q) - (i + 1) + 1 : rear[j] = q[i + 1 + j - 1]
    BY <1>1, <2>1, SubSeqProperties
  <2> QED
    BY <1>1, <2>2
<1> HIDE DEF front, rear
<1> DEFINE r == front \o rear
<1>4. /\ Len(r) = Len(front) + Len(rear)
      /\ \A j \in 1 .. Len(front) + Len(rear) : r[j] = IF j <= Len(front) THEN front[j] ELSE rear[j - Len(front)]
  BY <1>2, <1>3, ConcatProperties
<1> HIDE DEF r
<1>5. Len(r) = Len(q) - 1 /\ \A j \in 1 .. i - 1 : r[j] = q[j]
  <2>1. Len(front) + Len(rear) = Len(q) - 1 /\ Len(front) = i - 1
    BY <1>1, <1>2, <1>3
  <2>2. ASSUME NEW j \in 1 .. i - 1 PROVE r[j] = q[j]
    <3>1. j \in 1 .. Len(front) + Len(rear) /\ j <= Len(front)
      BY <1>1, <2>1
    <3>2. r[j] = front[j]
      BY <1>4, <3>1
    <3> QED
      BY <1>2, <3>2
  <2> QED
    BY <1>4, <2>1, <2>2
<1>6. ASSUME NEW j \in i .. Len(q) - 1 PROVE r[j] = q[j + 1]
  <2>1. Len(front) + Len(rear) = Len(q) - 1 /\ Len(front) = i - 1
    BY <1>1, <1>2, <1>3
  <2>2. j \in 1 .. Len(front) + Len(rear) /\ ~(j <= Len(front))
    BY <1>1, <2>1
  <2>3. r[j] = rear[j - (i - 1)]
    BY <1>4, <2>1, <2>2
  <2>4. j - (i - 1) \in 1 .. Len(q) - i /\ i + (j - (i - 1)) = j + 1
    BY <1>1
  <2>5. rear[j - (i - 1)] = q[i + (j - (i - 1))]
    BY <1>3, <2>4
  <2> QED
    BY <2>3, <2>4, <2>5
<1>7. r = RemoveAt(q, i)
  BY DEF RemoveAt, r, front, rear
<1> QED
  BY <1>5, <1>6, <1>7 DEF Removed

LEMMA TailShape ==
  ASSUME NEW q \in Seq(Events), q # <<>>
  PROVE  Removed(Tail(q), q, 1) /\ 1 \in DOMAIN q
<1>1. Len(q) \in Nat \ {0} /\ DOMAIN q = 1 .. Len(q)
  BY EmptySeq
<1>2. Len(Tail(q)) = Len(q) - 1 /\ \A i \in 1 .. Len(Tail(q)) : Tail(q)[i] = q[i + 1]
  BY HeadTailProperties
<1> QED
  BY <1>1, <1>2 DEF Removed

-----------------------------------------------------------------------------
(* What a step does to the queues *)

\* No thread gets an event to queue that it did not have.
Posts == \A u \in Threads : pc'[u] = "post" => pc[u] = "post" /\ made'[u] = made[u]

\* Only the time of event e may change.
OnlyDue(e) == \A x \in Events \ {e} : due'[x] = due[x]

\* No thread has e to queue after the step.
NotPosted(e) == \A u \in Threads : pc'[u] = "post" => made[u] # e

Steady == UNCHANGED evVars /\ Posts

Creates(t, e) ==
  /\ estate[e] = "new" /\ estate' = [estate EXCEPT ![e] = "made"]
  /\ UNCHANGED eventQ /\ OnlyDue(e)
  /\ made'[t] = e /\ \A u \in Threads \ {t} : pc'[u] = pc[u] /\ made'[u] = made[u]

\* An event that is not queued is dropped, over or removed.
Ends(e) ==
  /\ estate[e] \in {"new", "made", "running"} /\ estate'[e] \in {"dropped", "over", "removed"}
  /\ \A x \in Events \ {e} : estate'[x] = estate[x]
  /\ UNCHANGED eventQ /\ OnlyDue(e) /\ Posts /\ NotPosted(e)

Puts(d, e) ==
  /\ estate[e] \in {"new", "made", "running"} /\ estate' = [estate EXCEPT ![e] = "queued"]
  /\ eventQ' = [eventQ EXCEPT ![d] = InsertEvent(eventQ[d], e, due'[e])]
  /\ OnlyDue(e) /\ Posts /\ NotPosted(e)

\* The event at i of d is taken to be run, or is removed.
Takes(d, i) ==
  /\ estate'[eventQ[d][i]] \in {"running", "removed"}
  /\ \A x \in Events \ {eventQ[d][i]} : estate'[x] = estate[x]
  /\ Removed(eventQ'[d], eventQ[d], i)
  /\ \A x \in Dispatchers \ {d} : eventQ'[x] = eventQ[x]
  /\ UNCHANGED due /\ Posts

Empties(d) ==
  /\ eventQ' = [eventQ EXCEPT ![d] = <<>>]
  /\ estate' = [e \in Events |-> IF \E i \in DOMAIN eventQ[d] : eventQ[d][i] = e THEN "removed"
                                 ELSE estate[e]]
  /\ UNCHANGED due /\ Posts

QueueChange ==
  \/ Steady
  \/ \E t \in Threads, e \in Events : Creates(t, e)
  \/ \E e \in Events : Ends(e)
  \/ \E d \in Dispatchers, e \in Events : Puts(d, e)
  \/ \E d \in Dispatchers : \E i \in DOMAIN eventQ[d] : Takes(d, i)
  \/ \E d \in Dispatchers : Empties(d)

LEMMA PostsTo ==
  ASSUME NEW t \in Threads, NEW l, StagesTo(t, l), \A u \in Threads \ {t} : made'[u] = made[u]
  PROVE  Posts
BY DEF Posts, StagesTo

\* mprQueueEvent drops or inserts the event.
LEMMA QueueChanges ==
  ASSUME TypeOK, NEW t \in Threads, NEW l, StagesTo(t, l), NEW d \in Dispatchers,
         NEW e \in Events, Queue(t, d, e, due', l), estate[e] \in {"new", "made"},
         OnlyDue(e), NotPosted(e), \A u \in Threads \ {t} : made'[u] = made[u]
  PROVE  Ends(e) \/ Puts(d, e)
<1>1. Posts
  BY PostsTo
<1>2. CASE d \in destroyed
  <2>1. estate' = [estate EXCEPT ![e] = "dropped"] /\ UNCHANGED eventQ
    BY <1>2 DEF Queue
  <2> QED
    BY <1>1, <2>1 DEF Ends, TypeOK, DataTyped
<1>3. CASE d \notin destroyed
  BY <1>1, <1>3 DEF Queue, Puts
<1> QED
  BY <1>2, <1>3

LEMMA RemoveChanges ==
  ASSUME TypeOK, Linked, Posting, NEW t \in Threads, RemoveEvent(t)
  PROVE  QueueChange
<1>1. StagesTo(t, "free") /\ UNCHANGED <<made, due>>
  BY RemoveStage DEF TypeOK, RemoveEvent
<1>2. Posts
  BY <1>1, PostsTo
<1>3. PICK d \in Dispatchers :
        \/ \E i \in DOMAIN eventQ[d] : RemoveFrom(t, d, eventQ[d][i], RemoveAt(eventQ[d], i))
        \/ \E u \in Runners : /\ cur[u] # None /\ disp[u] = d /\ estate[cur[u]] = "running"
                              /\ RemoveFrom(t, d, cur[u], eventQ[d])
  BY DEF RemoveEvent
<1>4. ASSUME NEW i \in DOMAIN eventQ[d], RemoveFrom(t, d, eventQ[d][i], RemoveAt(eventQ[d], i))
      PROVE  Takes(d, i)
  <2>1. eventQ[d] \in Seq(Events) /\ eventQ[d][i] \in Events
    BY DEF TypeOK, DataTyped
  <2>2. Removed(RemoveAt(eventQ[d], i), eventQ[d], i)
    BY <2>1, RemoveAtShape
  <2>3. /\ estate' = [estate EXCEPT ![eventQ[d][i]] = "removed"]
        /\ eventQ' = [eventQ EXCEPT ![d] = RemoveAt(eventQ[d], i)]
    BY <1>4 DEF RemoveFrom
  <2>4. eventQ'[d] = RemoveAt(eventQ[d], i) /\ \A x \in Dispatchers \ {d} : eventQ'[x] = eventQ[x]
    BY <2>3 DEF TypeOK, DataTyped
  <2>5. /\ estate'[eventQ[d][i]] = "removed"
        /\ \A x \in Events \ {eventQ[d][i]} : estate'[x] = estate[x]
    BY <2>1, <2>3 DEF TypeOK, DataTyped
  <2> QED
    BY <1>1, <1>2, <2>2, <2>4, <2>5 DEF Takes
<1>5. ASSUME NEW u \in Runners, cur[u] # None, disp[u] = d, estate[cur[u]] = "running",
             RemoveFrom(t, d, cur[u], eventQ[d])
      PROVE  cur[u] \in Events /\ Ends(cur[u])
  <2>1. cur[u] \in Events
    BY <1>5 DEF TypeOK, DataTyped, Runners, Servers, Threads
  <2>2. estate' = [estate EXCEPT ![cur[u]] = "removed"] /\ eventQ' = [eventQ EXCEPT ![d] = eventQ[d]]
    BY <1>5 DEF RemoveFrom
  <2>3. UNCHANGED eventQ
    BY <2>2 DEF TypeOK, DataTyped
  <2>4. estate'[cur[u]] = "removed" /\ \A x \in Events \ {cur[u]} : estate'[x] = estate[x]
    BY <2>1, <2>2 DEF TypeOK, DataTyped
  <2>5. NotPosted(cur[u])
    BY <1>2, <1>5 DEF NotPosted, Posts, Posting
  <2> QED
    BY <1>1, <1>2, <1>5, <2>1, <2>3, <2>4, <2>5 DEF Ends, OnlyDue
<1> QED
  BY <1>3, <1>4, <1>5 DEF QueueChange

LEMMA DestroyChanges ==
  ASSUME TypeOK, NEW t \in Threads, NEW l \in Plain, NEW d \in Dispatchers, Destroy(t, d, l),
         DestroyUnchanged
  PROVE  Empties(d)
<1>1. StagesTo(t, l)
  BY DestroyStage DEF TypeOK
<1>2. UNCHANGED <<due, made>>
  BY DEF DestroyUnchanged
<1>3. Posts
  BY <1>1, <1>2, PostsTo
<1> QED
  BY <1>2, <1>3 DEF Destroy, Empties

LEMMA TakeChanges ==
  ASSUME TypeOK, WorkSet, NEW t \in Runners, NextEvent(t)
  PROVE  QueueChange
<1>1. t \in Threads /\ disp[t] \in Dispatchers
  BY DispTyped DEF NextEvent, UsesDispatcher, Runners, Servers, Threads
<1>2. Posts
  <2>1. pc' = [pc EXCEPT ![t] = pc'[t]] /\ pc'[t] # "post" /\ UNCHANGED made
    BY <1>1 DEF NextEvent, TypeOK, ControlTyped, Backs
  <2> QED
    BY <1>1, <2>1 DEF Posts, TypeOK, ControlTyped
<1> DEFINE d == disp[t]
<1>3. CASE eventQ[d] # <<>> /\ due[eventQ[d][1]] <= now
  <2>1. eventQ[d] \in Seq(Events) /\ Head(eventQ[d]) = eventQ[d][1]
    BY <1>1, <1>3 DEF TypeOK, DataTyped
  <2>2. Removed(Tail(eventQ[d]), eventQ[d], 1) /\ 1 \in DOMAIN eventQ[d]
    BY <1>3, <2>1, TailShape
  <2>3. /\ eventQ' = [eventQ EXCEPT ![d] = Tail(@)] /\ UNCHANGED due
        /\ estate' = [estate EXCEPT ![Head(eventQ[d])] = "running"]
    BY <1>3 DEF NextEvent
  <2>4. eventQ'[d] = Tail(eventQ[d]) /\ \A x \in Dispatchers \ {d} : eventQ'[x] = eventQ[x]
    BY <1>1, <2>3 DEF TypeOK, DataTyped
  <2>5. eventQ[d][1] \in Events
    BY <2>1, <2>2
  <2>6. /\ estate'[eventQ[d][1]] = "running"
        /\ \A x \in Events \ {eventQ[d][1]} : estate'[x] = estate[x]
    BY <2>1, <2>3, <2>5 DEF TypeOK, DataTyped
  <2>7. Takes(d, 1)
    BY <1>2, <2>2, <2>3, <2>4, <2>6 DEF Takes
  <2> QED
    BY <1>1, <2>2, <2>7 DEF QueueChange
<1>4. CASE ~(eventQ[d] # <<>> /\ due[eventQ[d][1]] <= now)
  BY <1>2, <1>4 DEF NextEvent, QueueChange, Steady
<1> QED
  BY <1>3, <1>4

LEMMA CallDoneChanges ==
  ASSUME TypeOK, WorkSet, Posting, NEW t \in Runners, CallDone(t)
  PROVE  QueueChange
<1>1. /\ t \in Threads /\ disp[t] \in Dispatchers /\ cur[t] \in Events
      /\ estate[cur[t]] \in EventStates
  BY DispTyped, CurTyped DEF CallDone, UsesDispatcher, Runners, Servers, Threads, TypeOK, DataTyped
<1>2. Posts
  <2>1. \E l : StagesTo(t, l)
    <3>1. back[t] \in {"release", "flag", "block"}
      BY <1>1 DEF TypeOK, ControlTyped, Backs
    <3>2. CASE Goto(t, back[t]) /\ UNCHANGED after
      BY <1>1, <3>1, <3>2, GotoStage DEF TypeOK, Plain
    <3>3. CASE Goto(t, "next") /\ UNCHANGED after
      BY <1>1, <3>3, GotoStage DEF TypeOK, Plain
    <3>4. CASE \E d, q, when : Schedule(t, d, q, when, "next", TRUE)
      BY <1>1, <3>4, ScheduleStage DEF TypeOK, Plain
    <3> QED
      BY <3>2, <3>3, <3>4 DEF CallDone
  <2>2. UNCHANGED made
    BY DEF CallDone
  <2> QED
    BY <1>1, <2>1, <2>2, PostsTo
<1> DEFINE e == cur[t]
           when == [due EXCEPT ![e] = now + 1]
<1>3. CASE disp[t] \notin destroyed /\ e \in Continuous /\ estate[e] = "running"
  <2>1. /\ due' = when /\ estate' = [estate EXCEPT ![e] = "queued"]
        /\ eventQ' = [eventQ EXCEPT ![disp[t]] = InsertEvent(eventQ[disp[t]], e, when[e])]
    BY <1>3 DEF CallDone
  <2>2. OnlyDue(e)
    BY <1>1, <2>1 DEF OnlyDue, TypeOK, DataTyped
  <2>3. NotPosted(e)
    BY <1>2, <1>3 DEF NotPosted, Posts, Posting
  <2>4. Puts(disp[t], e)
    BY <1>2, <1>3, <2>1, <2>2, <2>3 DEF Puts
  <2> QED
    BY <1>1, <2>4 DEF QueueChange
<1>4. CASE ~(disp[t] \notin destroyed /\ e \in Continuous /\ estate[e] = "running")
  <2>1. /\ UNCHANGED <<eventQ, due>>
        /\ estate' = [estate EXCEPT ![e] = IF @ = "running" THEN "over" ELSE @]
    BY <1>4 DEF CallDone
  <2>2. CASE estate[e] = "running"
    <3>1. estate'[e] = "over" /\ \A x \in Events \ {e} : estate'[x] = estate[x]
      BY <1>1, <2>1, <2>2 DEF TypeOK, DataTyped
    <3>2. NotPosted(e)
      BY <1>2, <2>2 DEF NotPosted, Posts, Posting
    <3>3. Ends(e)
      BY <1>2, <2>1, <2>2, <3>1, <3>2 DEF Ends, OnlyDue
    <3> QED
      BY <1>1, <3>3 DEF QueueChange
  <2>3. CASE estate[e] # "running"
    <3>1. UNCHANGED estate
      BY <1>1, <2>1, <2>3 DEF TypeOK, DataTyped
    <3> QED
      BY <1>2, <2>1, <3>1 DEF QueueChange, Steady
  <2> QED
    BY <2>2, <2>3
<1> QED
  BY <1>3, <1>4


\* Every step of the service is one of these.
LEMMA QueueStep ==
  ASSUME TypeOK, WorkSet, Linked, Posting, [Next]_vars
  PROVE  QueueChange
<1>1. ASSUME NEW t \in Threads, WakeStep(t) PROVE QueueChange
  <2>1. UNCHANGED <<evVars, made>>
    BY <1>1 DEF WakeStep, TestWaiting, TestRequested, SetRequested, WriteBreak, WakeUnchanged
  <2>2. Posts
    BY <1>1, <2>1, WakeStage, PostsTo DEF TypeOK
  <2> QED
    BY <2>1, <2>2 DEF QueueChange, Steady
<1>2. ASSUME NEW t \in Threads, PostEvent(t) PROVE QueueChange
  <2>1. target[t] \in Dispatchers /\ made[t] \in Events /\ pc[t] = "post"
    BY <1>2 DEF PostEvent, WorkSet, HasWork
  <2>2. StagesTo(t, Resume(t))
    BY <1>2, QueueStage DEF PostEvent, Plain, TypeOK, Resume
  <2>3. Queue(t, target[t], made[t], due', Resume(t)) /\ OnlyDue(made[t])
    BY <1>2 DEF PostEvent, OnlyDue
  <2>4. \A u \in Threads \ {t} : made'[u] = made[u]
    BY <1>2 DEF PostEvent, TypeOK, DataTyped
  <2>5. NotPosted(made[t])
    <3>1. ASSUME NEW u \in Threads, pc'[u] = "post" PROVE u # t /\ pc[u] = "post"
      BY <2>2, <3>1 DEF StagesTo
    <3> QED
      BY <2>1, <3>1 DEF NotPosted, Posting
  <2>6. Ends(made[t]) \/ Puts(target[t], made[t])
    BY <2>1, <2>2, <2>3, <2>4, <2>5, QueueChanges DEF Posting
  <2> QED
    BY <2>1, <2>6 DEF QueueChange
<1>3. ASSUME QueueIOEvent PROVE QueueChange
  <2>1. PICK e \in IOEvents, d \in Dispatchers :
          /\ estate[e] = "new" /\ due' = [due EXCEPT ![e] = clock]
          /\ Queue(Service, d, e, due', "io")
    BY <1>3 DEF QueueIOEvent
  <2>2. e \in Events /\ Service \in Threads
    BY ConstantsAssumption DEF Threads
  <2>3. StagesTo(Service, "io") /\ UNCHANGED made
    BY <1>3, <2>1, <2>2, QueueStage DEF QueueIOEvent, Plain, TypeOK
  <2>4. OnlyDue(e)
    BY <2>1, <2>2 DEF OnlyDue, TypeOK, DataTyped
  <2>5. NotPosted(e)
    BY <2>1, <2>2, <2>3, PostsTo DEF NotPosted, Posts, Posting
  <2>6. Ends(e) \/ Puts(d, e)
    BY <2>1, <2>2, <2>3, <2>4, <2>5, QueueChanges
  <2> QED
    BY <2>2, <2>6 DEF QueueChange
<1>4. ASSUME NEW t \in Threads, CreateEvent(t) PROVE QueueChange
  <2>1. PICK e \in Events \ IOEvents, period \in 0 .. MaxPeriod :
          /\ estate[e] = "new" /\ estate' = [estate EXCEPT ![e] = "made"]
          /\ due' = [due EXCEPT ![e] = clock + period] /\ made' = [made EXCEPT ![t] = e]
    BY <1>4 DEF CreateEvent
  <2>2. OnlyDue(e)
    BY <2>1 DEF OnlyDue, TypeOK, DataTyped
  <2>3. pc' = [pc EXCEPT ![t] = "post"] /\ UNCHANGED eventQ
    BY <1>4 DEF CreateEvent
  <2>4. made'[t] = e /\ \A u \in Threads \ {t} : pc'[u] = pc[u] /\ made'[u] = made[u]
    BY <2>1, <2>3 DEF TypeOK, DataTyped, ControlTyped
  <2> QED
    BY <2>1, <2>2, <2>3, <2>4 DEF QueueChange, Creates
<1>5. ASSUME NEW t \in Threads, RemoveEvent(t) PROVE QueueChange
  BY <1>5, RemoveChanges
<1>6. ASSUME NEW t \in Threads, DestroyForeign(t) PROVE QueueChange
  BY <1>6, DestroyChanges DEF DestroyForeign, Plain, QueueChange
<1>7. ASSUME NEW t \in Threads, DestroyInCall(t) PROVE QueueChange
  <2>1. disp[t] \in Dispatchers
    BY <1>7, DispTyped DEF DestroyInCall, UsesDispatcher
  <2> QED
    BY <1>7, <2>1, DestroyChanges DEF DestroyInCall, Plain, QueueChange
<1>8. ASSUME NEW o \in Owners, DestroyOwned(o) PROVE QueueChange
  <2>1. o \in Threads /\ disp[o] \in Dispatchers
    BY <1>8, DispTyped DEF DestroyOwned, UsesDispatcher, Threads
  <2> QED
    BY <1>8, <2>1, DestroyChanges DEF DestroyOwned, Plain, QueueChange
<1>9. ASSUME NEW t \in Runners, NextEvent(t) PROVE QueueChange
  BY <1>9, TakeChanges
<1>10. ASSUME NEW t \in Runners, CallDone(t) PROVE QueueChange
  BY <1>10, CallDoneChanges
<1>11. ASSUME NEW t \in Servers, Resched(t) PROVE QueueChange
  <2>1. t \in Threads
    BY <1>11 DEF Servers, Threads
  <2>2. StagesTo(t, "return") /\ UNCHANGED <<evVars, made>>
    BY <1>11, <2>1, GotoStage, ScheduleStage DEF Resched, Plain, TypeOK
  <2> QED
    BY <2>1, <2>2, PostsTo DEF QueueChange, Steady
<1>12. ASSUME NEW o \in Owners, StopSchedule(o) PROVE QueueChange
  <2>1. o \in Threads
    BY <1>12 DEF Threads
  <2>2. StagesTo(o, "free") /\ UNCHANGED <<evVars, made>>
    BY <1>12, <2>1, GotoStage, ScheduleStage DEF StopSchedule, Plain, TypeOK
  <2> QED
    BY <2>1, <2>2, PostsTo DEF QueueChange, Steady
<1> USE DEF QueueChange, Steady, Posts, TypeOK, ControlTyped, Threads, Runners, Servers
<1>13. ASSUME NEW t \in Runners, CallReturns(t) PROVE QueueChange
  BY <1>13 DEF CallReturns
<1>14. ASSUME NEW t \in Servers, Reclaim(t) PROVE QueueChange
  BY <1>14 DEF Reclaim
<1>15. ASSUME NEW t \in Servers, Release(t) PROVE QueueChange
  BY <1>15 DEF Release
<1>16. ASSUME NEW t \in Servers, Unlink(t) PROVE QueueChange
  BY <1>16 DEF Unlink
<1>17. ASSUME ScanReady PROVE QueueChange
  BY <1>17 DEF ScanReady
<1>18. ASSUME ScanEmpty PROVE QueueChange
  BY <1>18 DEF ScanEmpty
<1>19. ASSUME Enlist PROVE QueueChange
  BY <1>19 DEF Enlist
<1>20. ASSUME StartIdleWorker PROVE QueueChange
  BY <1>20 DEF StartIdleWorker
<1>21. ASSUME StartNewWorker PROVE QueueChange
  BY <1>21 DEF StartNewWorker
<1>22. ASSUME NoWorker PROVE QueueChange
  BY <1>22 DEF NoWorker
<1>23. ASSUME Park PROVE QueueChange
  BY <1>23 DEF Park
<1>24. ASSUME CheckCount PROVE QueueChange
  BY <1>24 DEF CheckCount
<1>25. ASSUME Doze PROVE QueueChange
  BY <1>25 DEF Doze
<1>26. ASSUME Wakes PROVE QueueChange
  BY <1>26 DEF Wakes, EpollReturns
<1>27. ASSUME ClearWaiting PROVE QueueChange
  BY <1>27 DEF ClearWaiting
<1>28. ASSUME Drain PROVE QueueChange
  BY <1>28 DEF Drain
<1>29. ASSUME ResetWake PROVE QueueChange
  BY <1>29 DEF ResetWake
<1>30. ASSUME Refresh PROVE QueueChange
  BY <1>30 DEF Refresh
<1>31. ASSUME HelperReturns PROVE QueueChange
  BY <1>31 DEF HelperReturns
<1>32. ASSUME NEW w \in Workers, NapEnds(w) PROVE QueueChange
  BY <1>32 DEF NapEnds
<1>33. ASSUME NEW w \in Workers, BecomeIdle(w) PROVE QueueChange
  BY <1>33 DEF BecomeIdle
<1>34. ASSUME NEW w \in Workers, Offer(w) PROVE QueueChange
  BY <1>34, ConstantsAssumption DEF Offer, Afters
<1>35. ASSUME NEW w \in Workers, Rest(w) PROVE QueueChange
  BY <1>35 DEF Rest
<1>36. ASSUME NEW o \in Owners, StartEnter(o) PROVE QueueChange
  BY <1>36 DEF StartEnter
<1>37. ASSUME NEW o \in Owners, WaitFlag(o) PROVE QueueChange
  BY <1>37 DEF WaitFlag
<1>38. ASSUME NEW o \in Owners, WaitSkips(o) PROVE QueueChange
  BY <1>38 DEF WaitSkips, WaitEnds
<1>39. ASSUME NEW o \in Owners, WaitWakes(o) PROVE QueueChange
  BY <1>39 DEF WaitWakes, WaitEnds
<1>40. ASSUME NEW o \in Owners, WaitUnflag(o) PROVE QueueChange
  BY <1>40 DEF WaitUnflag
<1>41. ASSUME NEW o \in Owners, StopRelease(o) PROVE QueueChange
  BY <1>41 DEF StopRelease
<1>42. ASSUME NEW w \in Workers, CallYields(w) PROVE QueueChange
  BY <1>42 DEF CallYields
<1>43. ASSUME NEW o \in Owners, StartClaim(o) PROVE QueueChange
  BY <1>43 DEF StartClaim
<1>44. ASSUME NEW o \in Owners, WaitBegin(o) PROVE QueueChange
  BY <1>44 DEF WaitBegin
<1>45. ASSUME NEW o \in Owners, WaitTimesOut(o) PROVE QueueChange
  BY <1>45 DEF WaitTimesOut, WaitEnds
<1>46. ASSUME NEW o \in Owners, StopDequeue(o) PROVE QueueChange
  BY <1>46 DEF StopDequeue
<1>47. ASSUME OtherIO PROVE QueueChange
  BY <1>47 DEF OtherIO, EpollReturns
<1>48. ASSUME Tick PROVE QueueChange
  BY <1>48 DEF Tick
<1>49. ASSUME UNCHANGED vars PROVE QueueChange
  BY <1>49 DEF vars
<1> HIDE DEF QueueChange, Steady, Posts, TypeOK, ControlTyped, Threads, Runners, Servers
<1> QED
  BY <1>1, <1>2, <1>3, <1>4, <1>5, <1>6, <1>7, <1>8, <1>9, <1>10, <1>11, <1>12,
     <1>13, <1>14, <1>15, <1>16, <1>17, <1>18, <1>19, <1>20, <1>21, <1>22, <1>23, <1>24,
     <1>25, <1>26, <1>27, <1>28, <1>29, <1>30, <1>31, <1>32, <1>33, <1>34, <1>35, <1>36,
     <1>37, <1>38, <1>39, <1>40, <1>41, <1>42, <1>43, <1>44, <1>45, <1>46, <1>47, <1>48,
     <1>49
     DEF Next, Program, Choice, RunStep, HelperStep, ServiceStep, WorkerStep, OwnerStep

-----------------------------------------------------------------------------
(* No step breaks the queues *)

\* What InDueOrder says of a step
Ordered ==
  \A d \in Dispatchers : \A i, j \in DOMAIN eventQ'[d] : i < j =>
    LET early == eventQ'[d][i]
        late == eventQ'[d][j]
    IN  /\ due'[early] <= due'[late]
        /\ due'[early] = due'[late] /\ Contains(eventQ[d], late) => Contains(eventQ[d], early)

\* What RemovedStaysRemoved says of a step
Final ==
  \A e \in Events : estate[e] \in {"removed", "dropped", "over"} => estate'[e] = estate[e]

QueuesTyped ==
  /\ eventQ \in [Dispatchers -> Seq(Events)] /\ due \in [Events -> Nat]
  /\ estate \in [Events -> EventStates]

LEMMA QueueFacts ==
  ASSUME QueuesTyped, NEW d \in Dispatchers
  PROVE  /\ Len(eventQ[d]) \in Nat /\ DOMAIN eventQ[d] = 1 .. Len(eventQ[d])
         /\ eventQ[d] \in Seq(Events)
         /\ \A i \in 1 .. Len(eventQ[d]) : eventQ[d][i] \in Events /\ due[eventQ[d][i]] \in Nat
BY DEF QueuesTyped

\* A sorted queue whose events were all on it before is in order.
LEMMA StillOrdered ==
  ASSUME QueuesTyped, QueuesTyped', QueuesSorted',
         \A d \in Dispatchers : \A i \in DOMAIN eventQ'[d] :
           \E j \in DOMAIN eventQ[d] : eventQ'[d][i] = eventQ[d][j]
  PROVE  Ordered
BY QueueFacts DEF Ordered, QueuesSorted, SortedBy, Contains

\* Events come into being, or end, beside the queues.
LEMMA BesideStep ==
  ASSUME QueuesTyped, QueuesTyped', QueueInv, NEW e \in Events, estate[e] # "queued",
         estate'[e] # "queued", \A x \in Events \ {e} : estate'[x] = estate[x],
         UNCHANGED eventQ, OnlyDue(e)
  PROVE  QueuesSorted' /\ Linked' /\ NoTwice' /\ NoneLoose' /\ Ordered
<1>1. ASSUME NEW d \in Dispatchers, NEW i \in DOMAIN eventQ[d]
      PROVE  eventQ[d][i] \in Events \ {e}
  BY QueueFacts DEF QueueInv, Linked
<1>2. QueuesSorted'
  BY <1>1 DEF QueueInv, QueuesSorted, SortedBy, OnlyDue
<1>3. Linked'
  BY <1>1 DEF QueueInv, Linked
<1>4. NoTwice' /\ NoneLoose'
  BY DEF QueueInv, NoTwice, NoneLoose
<1>5. Ordered
  BY <1>2, StillOrdered
<1> QED
  BY <1>2, <1>3, <1>4, <1>5

LEMMA CreatesStep ==
  ASSUME QueuesTyped, QueuesTyped', QueueInv, NEW t \in Threads, NEW e \in Events, Creates(t, e)
  PROVE  QueueInv' /\ Ordered /\ Final
<1>1. estate'[e] = "made" /\ \A x \in Events \ {e} : estate'[x] = estate[x]
  BY DEF Creates, QueuesTyped
<1>2. QueuesSorted' /\ Linked' /\ NoTwice' /\ NoneLoose' /\ Ordered
  BY <1>1, BesideStep DEF Creates
<1>3. Posting'
  <2>1. ASSUME NEW u \in Threads, pc'[u] = "post", u # t
        PROVE  made'[u] # e /\ pc[u] = "post" /\ made'[u] = made[u] /\ estate'[made[u]] = "made"
    <3>1. pc[u] = "post" /\ made'[u] = made[u] /\ estate[made[u]] = "made"
      BY <2>1 DEF Creates, QueueInv, Posting
    <3>2. made[u] # e
      BY <3>1 DEF Creates
    <3>3. made[u] \in Events
      BY <3>1 DEF QueueInv, Posting
    <3> QED
      BY <1>1, <3>1, <3>2, <3>3
  <2> QED
    BY <1>1, <2>1 DEF Creates, QueueInv, Posting
<1>4. Final
  BY <1>1 DEF Final, Creates
<1> QED
  BY <1>2, <1>3, <1>4 DEF QueueInv

LEMMA PostingStep ==
  ASSUME QueueInv, Posts, \A u \in Threads : pc'[u] = "post" => estate'[made[u]] = "made"
  PROVE  Posting'
BY DEF Posts, QueueInv, Posting

LEMMA EndsStep ==
  ASSUME QueuesTyped, QueuesTyped', QueueInv, NEW e \in Events, Ends(e)
  PROVE  QueueInv' /\ Ordered /\ Final
<1>1. estate[e] # "queued" /\ estate'[e] # "queued"
  BY DEF Ends
<1>2. QueuesSorted' /\ Linked' /\ NoTwice' /\ NoneLoose' /\ Ordered
  BY <1>1, BesideStep DEF Ends
<1>3. Posting'
  <2>1. ASSUME NEW u \in Threads, pc'[u] = "post" PROVE estate'[made[u]] = "made"
    BY <2>1 DEF Ends, Posts, NotPosted, QueueInv, Posting
  <2> QED
    BY <2>1, PostingStep DEF Ends
<1>4. Final
  BY DEF Final, Ends
<1> QED
  BY <1>2, <1>3, <1>4 DEF QueueInv

LEMMA PutsStep ==
  ASSUME QueuesTyped, QueuesTyped', QueueInv, NEW d \in Dispatchers, NEW e \in Events, Puts(d, e)
  PROVE  QueueInv' /\ Ordered /\ Final
<1> DEFINE q == eventQ[d]
           r == eventQ'[d]
<1>1. /\ r = InsertEvent(q, e, due'[e]) /\ \A x \in Dispatchers \ {d} : eventQ'[x] = eventQ[x]
      /\ estate'[e] = "queued" /\ \A x \in Events \ {e} : estate'[x] = estate[x]
  BY DEF Puts, QueuesTyped
<1>2. q \in Seq(Events) /\ Len(q) \in Nat /\ DOMAIN q = 1 .. Len(q) /\ due'[e] \in Nat
  BY QueueFacts DEF QueuesTyped
<1>3. PICK n \in 0 .. Len(q) :
        /\ Inserted(r, q, e, n)
        /\ \A i \in 1 .. n : due[q[i]] <= due'[e]
        /\ \A i \in n + 1 .. Len(q) : due[q[i]] > due'[e]
  <2>1. SortedBy(q, due) /\ due \in [Events -> Nat]
    BY DEF QueueInv, QueuesSorted, QueuesTyped
  <2>2. \E n \in 0 .. Len(q) :
          /\ Inserted(InsertEvent(q, e, due'[e]), q, e, n)
          /\ \A i \in 1 .. n : due[q[i]] <= due'[e]
          /\ \A i \in n + 1 .. Len(q) : due[q[i]] > due'[e]
    <3> HIDE DEF q
    <3> QED
      BY <1>2, <2>1, InsertShape
  <2> QED
    BY <1>1, <2>2
<1>4. DOMAIN r = 1 .. Len(q) + 1 /\ n + 1 \in DOMAIN r /\ n \in Nat
  <2>1. Len(r) = Len(q) + 1 /\ DOMAIN r = 1 .. Len(r)
    BY <1>3, QueueFacts DEF Inserted, QueuesTyped
  <2> QED
    BY <1>2, <1>3, <2>1
<1>5. ASSUME NEW x \in Dispatchers, NEW i \in DOMAIN eventQ[x]
      PROVE  /\ eventQ[x][i] \in Events \ {e} /\ due[eventQ[x][i]] \in Nat
             /\ due'[eventQ[x][i]] = due[eventQ[x][i]]
             /\ estate'[eventQ[x][i]] = "queued"
  <2>1. eventQ[x][i] \in Events /\ due[eventQ[x][i]] \in Nat
    BY QueueFacts
  <2>2. estate[eventQ[x][i]] = "queued"
    BY DEF QueueInv, Linked
  <2> QED
    BY <1>1, <2>1, <2>2 DEF Puts, OnlyDue
\* where an event of the new queue comes from
<1>6. ASSUME NEW k \in DOMAIN r
      PROVE  \/ k = n + 1 /\ r[k] = e
             \/ k \in 1 .. n /\ k \in DOMAIN q /\ r[k] = q[k]
             \/ k - 1 \in n + 1 .. Len(q) /\ k - 1 \in DOMAIN q /\ r[k] = q[k - 1]
  <2>1. CASE k <= n
    BY <1>2, <1>3, <1>4, <2>1 DEF Inserted
  <2>2. CASE k = n + 1
    BY <1>3, <2>2 DEF Inserted
  <2>3. CASE k > n + 1
    <3>1. k - 1 \in n + 1 .. Len(q) /\ k - 1 \in DOMAIN q /\ (k - 1) + 1 = k
      BY <1>2, <1>3, <1>4, <2>3
    <3> QED
      BY <1>3, <3>1 DEF Inserted
  <2> QED
    BY <1>4, <2>1, <2>2, <2>3
<1> HIDE DEF r
<1>7. ASSUME NEW i \in DOMAIN r, NEW j \in DOMAIN r, i < j
      PROVE  /\ due'[r[i]] <= due'[r[j]]
             /\ due'[r[i]] = due'[r[j]] /\ r[j] # e => r[i] # e
  <2>1. CASE r[i] = e /\ i = n + 1
    <3>1. j - 1 \in n + 1 .. Len(q) /\ j - 1 \in DOMAIN q /\ r[j] = q[j - 1]
      BY <1>4, <1>6, <1>7, <2>1
    <3> QED
      BY <1>2, <1>3, <1>5, <2>1, <3>1
  <2>2. CASE r[j] = e /\ j = n + 1
    <3>1. i \in 1 .. n /\ i \in DOMAIN q /\ r[i] = q[i]
      BY <1>4, <1>6, <1>7, <2>2
    <3> QED
      BY <1>2, <1>3, <1>5, <2>2, <3>1
  <2>3. CASE ~(r[i] = e /\ i = n + 1) /\ ~(r[j] = e /\ j = n + 1)
    <3>1. PICK a \in DOMAIN q : r[i] = q[a] /\ ((a = i /\ i \in 1 .. n) \/ (a = i - 1 /\ a \in n + 1 .. Len(q)))
      BY <1>6, <2>3
    <3>2. PICK b \in DOMAIN q : r[j] = q[b] /\ ((b = j /\ j \in 1 .. n) \/ (b = j - 1 /\ b \in n + 1 .. Len(q)))
      BY <1>6, <2>3
    <3>3. a < b
      BY <1>2, <1>4, <1>7, <3>1, <3>2
    <3>4. due[q[a]] <= due[q[b]]
      BY <3>3 DEF QueueInv, QueuesSorted, SortedBy
    <3>5. due'[q[a]] = due[q[a]] /\ due'[q[b]] = due[q[b]] /\ q[a] # e
      BY <1>5
    <3> QED
      BY <3>1, <3>2, <3>4, <3>5
  <2> QED
    BY <1>6, <2>1, <2>2, <2>3
<1>8. QueuesSorted'
  <2>1. ASSUME NEW x \in Dispatchers PROVE SortedBy(eventQ[x], due)'
    <3>1. CASE x = d
      BY <1>7, <3>1 DEF SortedBy, r
    <3>2. CASE x # d
      BY <1>1, <1>5, <3>2 DEF SortedBy, QueueInv, QueuesSorted
    <3> QED
      BY <3>1, <3>2
  <2> QED
    BY <2>1 DEF QueuesSorted
<1>9. Linked'
  <2>1. ASSUME NEW x \in Dispatchers, NEW i \in DOMAIN eventQ'[x]
        PROVE  estate'[eventQ'[x][i]] = "queued"
    <3>1. CASE x = d
      BY <1>1, <1>5, <1>6, <3>1 DEF r
    <3>2. CASE x # d
      BY <1>1, <1>5, <3>2
    <3> QED
      BY <3>1, <3>2
  <2> QED
    BY <2>1 DEF Linked
<1>10. NoTwice'
  <2>1. ASSUME NEW x \in Dispatchers \ {d}, NEW i \in DOMAIN r, NEW j \in DOMAIN eventQ[x]
        PROVE  r[i] # eventQ[x][j]
    BY <1>5, <1>6 DEF QueueInv, NoTwice
  <2>2. ASSUME NEW i \in DOMAIN r, NEW j \in DOMAIN r, r[i] = r[j]
        PROVE  i = j
    <3>1. r[i] = e => i = n + 1
      BY <1>5, <1>6
    <3>2. r[j] = e => j = n + 1
      BY <1>5, <1>6
    <3>3. CASE r[i] # e
      <4>1. PICK a \in DOMAIN q : r[i] = q[a] /\ ((a = i /\ i \in 1 .. n) \/ (a = i - 1 /\ a \in n + 1 .. Len(q)))
        BY <1>6, <3>3
      <4>2. PICK b \in DOMAIN q : r[j] = q[b] /\ ((b = j /\ j \in 1 .. n) \/ (b = j - 1 /\ b \in n + 1 .. Len(q)))
        BY <1>6, <2>2, <3>3
      <4>3. a = b
        <5>1. q[a] = q[b]
          BY <2>2, <4>1, <4>2
        <5> QED
          BY <5>1 DEF QueueInv, NoTwice
      <4> QED
        BY <1>2, <1>4, <4>1, <4>2, <4>3
    <3> QED
      BY <2>2, <3>1, <3>2, <3>3
  <2>3. ASSUME NEW x \in Dispatchers, NEW y \in Dispatchers,
               NEW i \in DOMAIN eventQ'[x], NEW j \in DOMAIN eventQ'[y],
               eventQ'[x][i] = eventQ'[y][j]
        PROVE  x = y /\ i = j
    <3>1. CASE x = d /\ y = d
      BY <2>2, <2>3, <3>1 DEF r
    <3>2. CASE x = d /\ y # d
      BY <1>1, <2>1, <2>3, <3>2 DEF r
    <3>3. CASE x # d /\ y = d
      BY <1>1, <2>1, <2>3, <3>3 DEF r
    <3>4. CASE x # d /\ y # d
      BY <1>1, <2>3, <3>4 DEF QueueInv, NoTwice
    <3> QED
      BY <3>1, <3>2, <3>3, <3>4
  <2> QED
    BY <2>3 DEF NoTwice
<1>11. NoneLoose'
  <2>1. ASSUME NEW a \in Events, estate'[a] = "queued", a # e
        PROVE  \E x \in Dispatchers : \E i \in DOMAIN eventQ'[x] : eventQ'[x][i] = a
    <3>0. estate[a] = "queued"
      BY <1>1, <2>1
    <3>5. PICK x \in Dispatchers : \E i \in DOMAIN eventQ[x] : eventQ[x][i] = a
      BY <3>0 DEF QueueInv, NoneLoose
    <3>1. PICK i \in 1 .. Len(eventQ[x]) : eventQ[x][i] = a
      BY <3>5, QueueFacts
    <3>2. CASE x # d
      BY <1>1, <3>1, <3>2, QueueFacts
    <3>3. CASE x = d /\ i <= n
      <4>1. i \in DOMAIN r /\ r[i] = q[i]
        BY <1>2, <1>3, <1>4, <3>1, <3>3 DEF Inserted
      <4> QED
        BY <3>1, <3>3, <4>1 DEF r
    <3>4. CASE x = d /\ i > n
      <4>1. i + 1 \in DOMAIN r /\ i \in n + 1 .. Len(q)
        BY <1>2, <1>4, <3>1, <3>4
      <4>2. r[i + 1] = q[i]
        BY <1>3, <4>1 DEF Inserted
      <4> QED
        BY <3>1, <3>4, <4>1, <4>2 DEF r
    <3> QED
      BY <1>4, <3>1, <3>2, <3>3, <3>4
  <2>2. \E i \in DOMAIN r : r[i] = e
    BY <1>3, <1>4 DEF Inserted
  <2> QED
    BY <2>1, <2>2 DEF NoneLoose, r
<1>12. Posting'
  <2>1. ASSUME NEW u \in Threads, pc'[u] = "post" PROVE estate'[made[u]] = "made"
    BY <1>1, <2>1 DEF Puts, Posts, NotPosted, QueueInv, Posting
  <2> QED
    BY <2>1, PostingStep DEF Puts
<1>13. Ordered
  <2>1. ASSUME NEW i \in DOMAIN r, NEW j \in DOMAIN r, i < j, due'[r[i]] = due'[r[j]],
               Contains(q, r[j])
        PROVE  Contains(q, r[i])
    <3>1. r[j] # e
      BY <1>2, <1>5, <2>1 DEF Contains
    <3>2. r[i] # e
      BY <1>7, <2>1, <3>1
    <3>3. \E a \in DOMAIN q : r[i] = q[a]
      BY <1>6, <3>2
    <3> QED
      BY <1>2, <3>3 DEF Contains
  <2>2. ASSUME NEW x \in Dispatchers, NEW i \in DOMAIN eventQ'[x], NEW j \in DOMAIN eventQ'[x], i < j
        PROVE  /\ due'[eventQ'[x][i]] <= due'[eventQ'[x][j]]
               /\ due'[eventQ'[x][i]] = due'[eventQ'[x][j]] /\ Contains(eventQ[x], eventQ'[x][j])
                    => Contains(eventQ[x], eventQ'[x][i])
    <3>1. CASE x = d
      BY <1>7, <2>1, <2>2, <3>1 DEF r
    <3>2. CASE x # d
      <4>1. due'[eventQ'[x][i]] <= due'[eventQ'[x][j]]
        BY <1>8, <2>2 DEF QueuesSorted, SortedBy
      <4>2. Contains(eventQ[x], eventQ'[x][i])
        BY <1>1, <3>2, QueueFacts DEF Contains
      <4> QED
        BY <4>1, <4>2
    <3> QED
      BY <3>1, <3>2
  <2> QED
    BY <2>2 DEF Ordered
<1>14. Final
  BY <1>1 DEF Final, Puts
<1> QED
  BY <1>8, <1>9, <1>10, <1>11, <1>12, <1>13, <1>14 DEF QueueInv

LEMMA TakesStep ==
  ASSUME QueuesTyped, QueuesTyped', QueueInv, NEW d \in Dispatchers, NEW i \in DOMAIN eventQ[d],
         Takes(d, i)
  PROVE  QueueInv' /\ Ordered /\ Final
<1> DEFINE q == eventQ[d]
           r == eventQ'[d]
           a == eventQ[d][i]
<1>1. q \in Seq(Events) /\ Len(q) \in Nat /\ DOMAIN q = 1 .. Len(q) /\ i \in 1 .. Len(q) /\ a \in Events
  BY QueueFacts
<1>2. /\ Removed(r, q, i) /\ UNCHANGED due
      /\ \A x \in Dispatchers \ {d} : eventQ'[x] = eventQ[x]
      /\ estate'[a] \in {"running", "removed"} /\ \A x \in Events \ {a} : estate'[x] = estate[x]
  BY DEF Takes
<1>3. DOMAIN r = 1 .. Len(q) - 1
  BY <1>2, QueueFacts DEF Removed, QueuesTyped
<1>4. ASSUME NEW x \in Dispatchers, NEW j \in DOMAIN eventQ[x], x # d \/ j # i
      PROVE  eventQ[x][j] \in Events \ {a} /\ estate'[eventQ[x][j]] = "queued"
  <2>1. eventQ[x][j] \in Events /\ estate[eventQ[x][j]] = "queued"
    BY QueueFacts DEF QueueInv, Linked
  <2>2. eventQ[x][j] # a
    BY <1>4 DEF QueueInv, NoTwice
  <2> QED
    BY <1>2, <2>1, <2>2
\* where an event of the new queue comes from
<1>5. ASSUME NEW k \in DOMAIN r
      PROVE  \/ k \in 1 .. i - 1 /\ k \in DOMAIN q /\ r[k] = q[k]
             \/ k \in i .. Len(q) - 1 /\ k + 1 \in DOMAIN q /\ r[k] = q[k + 1]
  <2>1. CASE k < i
    <3>1. k \in 1 .. i - 1 /\ k \in DOMAIN q
      BY <1>1, <1>3, <2>1
    <3> QED
      BY <1>2, <3>1 DEF Removed
  <2>2. CASE k >= i
    <3>1. k \in i .. Len(q) - 1 /\ k + 1 \in DOMAIN q
      BY <1>1, <1>3, <2>2
    <3> QED
      BY <1>2, <3>1 DEF Removed
  <2> QED
    BY <1>1, <1>3, <2>1, <2>2
<1>6. ASSUME NEW k \in DOMAIN r
      PROVE  \E b \in DOMAIN q : b # i /\ r[k] = q[b] /\ ((b = k /\ k < i) \/ (b = k + 1 /\ k >= i))
  <2>1. CASE k \in 1 .. i - 1 /\ k \in DOMAIN q /\ r[k] = q[k]
    <3>1. k # i /\ k < i
      BY <1>1, <2>1
    <3> QED
      BY <2>1, <3>1
  <2>2. CASE k \in i .. Len(q) - 1 /\ k + 1 \in DOMAIN q /\ r[k] = q[k + 1]
    <3>1. k + 1 # i /\ k >= i
      BY <1>1, <2>2
    <3> QED
      BY <2>2, <3>1
  <2> QED
    BY <1>5, <2>1, <2>2
<1> HIDE DEF r
<1>7. QueuesSorted'
  <2>1. ASSUME NEW k \in DOMAIN r, NEW j \in DOMAIN r, k < j PROVE due[r[k]] <= due[r[j]]
    <3>1. PICK b \in DOMAIN q : r[k] = q[b] /\ ((b = k /\ k < i) \/ (b = k + 1 /\ k >= i))
      BY <1>6
    <3>2. PICK c \in DOMAIN q : r[j] = q[c] /\ ((c = j /\ j < i) \/ (c = j + 1 /\ j >= i))
      BY <1>6
    <3>3. b < c
      BY <1>1, <1>3, <2>1, <3>1, <3>2
    <3> QED
      BY <3>1, <3>2, <3>3 DEF QueueInv, QueuesSorted, SortedBy
  <2>2. ASSUME NEW x \in Dispatchers PROVE SortedBy(eventQ[x], due)'
    <3>1. CASE x = d
      BY <1>2, <2>1, <3>1 DEF SortedBy, r
    <3>2. CASE x # d
      BY <1>2, <3>2 DEF SortedBy, QueueInv, QueuesSorted
    <3> QED
      BY <3>1, <3>2
  <2> QED
    BY <2>2 DEF QueuesSorted
<1>8. Linked'
  <2>1. ASSUME NEW x \in Dispatchers, NEW j \in DOMAIN eventQ'[x]
        PROVE  estate'[eventQ'[x][j]] = "queued"
    <3>1. CASE x = d
      BY <1>4, <1>6, <3>1 DEF r
    <3>2. CASE x # d
      BY <1>2, <1>4, <3>2
    <3> QED
      BY <3>1, <3>2
  <2> QED
    BY <2>1 DEF Linked
<1>9. NoTwice'
  <2>1. ASSUME NEW x \in Dispatchers \ {d}, NEW k \in DOMAIN r, NEW j \in DOMAIN eventQ[x]
        PROVE  r[k] # eventQ[x][j]
    BY <1>6 DEF QueueInv, NoTwice
  <2>2. ASSUME NEW k \in DOMAIN r, NEW j \in DOMAIN r, r[k] = r[j]
        PROVE  k = j
    <3>1. PICK b \in DOMAIN q : r[k] = q[b] /\ ((b = k /\ k < i) \/ (b = k + 1 /\ k >= i))
      BY <1>6
    <3>2. PICK c \in DOMAIN q : r[j] = q[c] /\ ((c = j /\ j < i) \/ (c = j + 1 /\ j >= i))
      BY <1>6
    <3>3. q[b] = q[c]
      BY <2>2, <3>1, <3>2
    <3>4. b = c
      BY <3>3 DEF QueueInv, NoTwice
    <3> QED
      BY <1>1, <1>3, <3>1, <3>2, <3>4
  <2>3. ASSUME NEW x \in Dispatchers, NEW y \in Dispatchers,
               NEW k \in DOMAIN eventQ'[x], NEW j \in DOMAIN eventQ'[y],
               eventQ'[x][k] = eventQ'[y][j]
        PROVE  x = y /\ k = j
    <3>1. CASE x = d /\ y = d
      BY <2>2, <2>3, <3>1 DEF r
    <3>2. CASE x = d /\ y # d
      BY <1>2, <2>1, <2>3, <3>2 DEF r
    <3>3. CASE x # d /\ y = d
      BY <1>2, <2>1, <2>3, <3>3 DEF r
    <3>4. CASE x # d /\ y # d
      BY <1>2, <2>3, <3>4 DEF QueueInv, NoTwice
    <3> QED
      BY <3>1, <3>2, <3>3, <3>4
  <2> QED
    BY <2>3 DEF NoTwice
<1>10. NoneLoose'
  <2>1. ASSUME NEW e \in Events, estate'[e] = "queued"
        PROVE  \E x \in Dispatchers : \E j \in DOMAIN eventQ'[x] : eventQ'[x][j] = e
    <3>1. e # a /\ estate[e] = "queued"
      BY <1>2, <2>1
    <3>2. PICK x \in Dispatchers : \E j \in DOMAIN eventQ[x] : eventQ[x][j] = e
      BY <3>1 DEF QueueInv, NoneLoose
    <3>3. PICK j \in 1 .. Len(eventQ[x]) : eventQ[x][j] = e
      BY <3>2, QueueFacts
    <3>4. CASE x # d
      BY <1>2, <3>3, <3>4, QueueFacts
    <3>5. CASE x = d /\ j < i
      <4>1. j \in DOMAIN r /\ j \in 1 .. i - 1
        BY <1>1, <1>3, <3>3, <3>5
      <4>2. r[j] = q[j]
        BY <1>2, <4>1 DEF Removed
      <4> QED
        BY <3>3, <3>5, <4>1, <4>2 DEF r
    <3>6. CASE x = d /\ j > i
      <4>1. j - 1 \in DOMAIN r /\ j - 1 \in i .. Len(q) - 1 /\ (j - 1) + 1 = j
        BY <1>1, <1>3, <3>3, <3>6
      <4>2. r[j - 1] = q[(j - 1) + 1]
        BY <1>2, <4>1 DEF Removed
      <4> QED
        BY <3>3, <3>6, <4>1, <4>2 DEF r
    <3> QED
      BY <1>1, <3>1, <3>3, <3>4, <3>5, <3>6
  <2> QED
    BY <2>1 DEF NoneLoose
<1>11. estate[a] = "queued"
  BY <1>1 DEF QueueInv, Linked
<1>12. Posting'
  <2>1. ASSUME NEW u \in Threads, pc'[u] = "post" PROVE estate'[made[u]] = "made"
    BY <1>2, <1>11, <2>1 DEF Takes, Posts, QueueInv, Posting
  <2> QED
    BY <2>1, PostingStep DEF Takes
<1>13. Ordered
  <2>1. ASSUME NEW x \in Dispatchers, NEW k \in DOMAIN eventQ'[x]
        PROVE  \E j \in DOMAIN eventQ[x] : eventQ'[x][k] = eventQ[x][j]
    BY <1>2, <1>6 DEF r
  <2> QED
    BY <1>7, <2>1, StillOrdered
<1>14. Final
  BY <1>2, <1>11 DEF Final
<1> QED
  BY <1>7, <1>8, <1>9, <1>10, <1>12, <1>13, <1>14 DEF QueueInv

LEMMA EmptiesStep ==
  ASSUME QueuesTyped, QueuesTyped', QueueInv, NEW d \in Dispatchers, Empties(d)
  PROVE  QueueInv' /\ Ordered /\ Final
<1>1. /\ eventQ'[d] = <<>> /\ \A x \in Dispatchers \ {d} : eventQ'[x] = eventQ[x]
      /\ UNCHANGED due /\ DOMAIN eventQ'[d] = {}
  <2>1. eventQ'[d] = <<>> /\ \A x \in Dispatchers \ {d} : eventQ'[x] = eventQ[x]
    BY DEF Empties, QueuesTyped
  <2>2. DOMAIN (<<>>) = {}
    OBVIOUS
  <2> QED
    BY <2>1, <2>2 DEF Empties
<1>2. \A e \in Events : estate'[e] = IF \E i \in DOMAIN eventQ[d] : eventQ[d][i] = e THEN "removed"
                                     ELSE estate[e]
  BY DEF Empties
<1>3. ASSUME NEW x \in Dispatchers, NEW k \in DOMAIN eventQ'[x]
      PROVE  x # d /\ k \in DOMAIN eventQ[x] /\ eventQ'[x][k] = eventQ[x][k] /\ eventQ[x][k] \in Events
  BY <1>1, QueueFacts
<1>4. QueuesSorted'
  BY <1>1, <1>3 DEF QueueInv, QueuesSorted, SortedBy
<1>5. Linked'
  <2>1. ASSUME NEW x \in Dispatchers, NEW k \in DOMAIN eventQ'[x]
        PROVE  estate'[eventQ'[x][k]] = "queued"
    <3>1. estate[eventQ[x][k]] = "queued" /\ ~\E i \in DOMAIN eventQ[d] : eventQ[d][i] = eventQ[x][k]
      BY <1>3 DEF QueueInv, Linked, NoTwice
    <3> QED
      BY <1>2, <1>3, <3>1
  <2> QED
    BY <2>1 DEF Linked
<1>6. NoTwice'
  BY <1>3 DEF QueueInv, NoTwice
<1>7. NoneLoose'
  <2>1. ASSUME NEW e \in Events, estate'[e] = "queued"
        PROVE  \E x \in Dispatchers : \E j \in DOMAIN eventQ'[x] : eventQ'[x][j] = e
    <3>1. estate[e] = "queued" /\ ~\E i \in DOMAIN eventQ[d] : eventQ[d][i] = e
      BY <1>2, <2>1
    <3>2. PICK x \in Dispatchers : \E j \in DOMAIN eventQ[x] : eventQ[x][j] = e
      BY <3>1 DEF QueueInv, NoneLoose
    <3> QED
      BY <1>1, <3>1, <3>2
  <2> QED
    BY <2>1 DEF NoneLoose
<1>8. ASSUME NEW e \in Events, estate[e] # "queued" PROVE estate'[e] = estate[e]
  BY <1>2, <1>8 DEF QueueInv, Linked
<1>9. Posting'
  <2>1. ASSUME NEW u \in Threads, pc'[u] = "post" PROVE estate'[made[u]] = "made"
    BY <1>8, <2>1 DEF Empties, Posts, QueueInv, Posting
  <2> QED
    BY <2>1, PostingStep DEF Empties
<1>10. Ordered
  BY <1>3, <1>4, StillOrdered
<1>11. Final
  BY <1>8 DEF Final
<1> QED
  BY <1>4, <1>5, <1>6, <1>7, <1>9, <1>10, <1>11 DEF QueueInv

LEMMA SteadyStep ==
  ASSUME QueuesTyped, QueuesTyped', QueueInv, Steady
  PROVE  QueueInv' /\ Ordered /\ Final
<1>1. UNCHANGED <<eventQ, due, estate>> /\ Posts
  BY DEF Steady
<1>2. QueuesSorted' /\ Linked' /\ NoTwice' /\ NoneLoose'
  BY <1>1 DEF QueueInv, QueuesSorted, SortedBy, Linked, NoTwice, NoneLoose
<1>3. Posting'
  BY <1>1, PostingStep DEF Posts, QueueInv, Posting
<1>4. Ordered
  BY <1>1, <1>2, StillOrdered
<1> QED
  BY <1>1, <1>2, <1>3, <1>4 DEF QueueInv, Final

\* The queues are right after every step, and the step did what it may.
LEMMA QueueInvStep ==
  ASSUME TypeOK, DataTyped', WorkSet, QueueInv, [Next]_vars
  PROVE  QueueInv' /\ Ordered /\ Final
<1>1. QueueChange
  BY QueueStep DEF QueueInv
<1>2. QueuesTyped /\ QueuesTyped'
  BY DEF QueuesTyped, TypeOK, DataTyped
<1> QED
  BY <1>1, <1>2, SteadyStep, CreatesStep, EndsStep, PutsStep, TakesStep, EmptiesStep
     DEF QueueChange

LEMMA InitQueues == Init => QueueInv
<1> SUFFICES ASSUME Init PROVE QueueInv
  OBVIOUS
<1>1. \A d \in Dispatchers : eventQ[d] = <<>> /\ DOMAIN eventQ[d] = {}
  <2>1. DOMAIN (<<>>) = {}
    OBVIOUS
  <2> QED
    BY <2>1 DEF Init
<1>2. \A e \in Events : estate[e] = "new"
  BY DEF Init
<1>3. \A t \in Threads : pc[t] # "post"
  BY DEF Init
<1> QED
  BY <1>1, <1>2, <1>3
     DEF QueueInv, QueuesSorted, SortedBy, Linked, NoTwice, NoneLoose, Posting

\* QueueInv holds in every reachable state: the queues are sorted, and their
\* events are the queued ones, each on one place.
THEOREM QueuesRight == Spec => []QueueInv
<1>1. Init => QueueInv
  BY InitQueues
<1>2. IndInv /\ IndInv' /\ QueueInv /\ [Next]_vars => QueueInv'
  BY QueueInvStep DEF IndInv, TypeOK
<1> QED
  BY <1>1, <1>2, Inductive, PTL DEF Spec

\* Each queued event is on one queue, once, and no other event is on any: the
\* links that mprQueueEvent, mprGetNextEvent, mprRemoveEvent and freeEvents make
\* and break never leave an event linked twice, or a queued one unlinked.
THEOREM OnOneQueue == Spec => []QueuedOnce
<1>1. ASSUME QueueInv, NEW e \in Events
      PROVE  LET slots == {s \in UNION {{d} \X DOMAIN eventQ[d] : d \in Dispatchers} :
                             eventQ[s[1]][s[2]] = e}
             IN  Cardinality(slots) = IF estate[e] = "queued" THEN 1 ELSE 0
  <2> DEFINE slots == {s \in UNION {{d} \X DOMAIN eventQ[d] : d \in Dispatchers} :
                         eventQ[s[1]][s[2]] = e}
  <2>1. ASSUME NEW s \in slots
        PROVE  /\ s[1] \in Dispatchers /\ s[2] \in DOMAIN eventQ[s[1]] /\ s = <<s[1], s[2]>>
               /\ eventQ[s[1]][s[2]] = e
    <3>1. PICK d \in Dispatchers : s \in {d} \X DOMAIN eventQ[d]
      OBVIOUS
    <3>2. s[1] = d /\ s[2] \in DOMAIN eventQ[d] /\ s = <<s[1], s[2]>> /\ eventQ[s[1]][s[2]] = e
      BY <3>1
    <3> QED
      BY <3>2
  <2>2. CASE estate[e] = "queued"
    <3>1. PICK d \in Dispatchers : \E i \in DOMAIN eventQ[d] : eventQ[d][i] = e
      BY <1>1, <2>2 DEF QueueInv, NoneLoose
    <3>2. PICK i \in DOMAIN eventQ[d] : eventQ[d][i] = e
      BY <3>1
    <3>3. <<d, i>> \in slots
      BY <3>2
    <3>4. ASSUME NEW s \in slots PROVE s = <<d, i>>
      <4>1. s[1] = d /\ s[2] = i
        BY <1>1, <2>1, <3>2 DEF QueueInv, NoTwice
      <4> QED
        BY <2>1, <4>1
    <3>5. slots = {<<d, i>>}
      BY <3>3, <3>4
    <3> QED
      BY <2>2, <3>5, FS_Singleton
  <2>3. CASE estate[e] # "queued"
    <3>1. slots = {}
      BY <1>1, <2>1, <2>3 DEF QueueInv, Linked
    <3> QED
      BY <2>3, <3>1, FS_EmptySet
  <2> QED
    BY <2>2, <2>3
<1>2. QueueInv => QueuedOnce
  BY <1>1 DEF QueuedOnce
<1> QED
  BY <1>2, QueuesRight, PTL

\* Every step keeps the queues in the order their events are due, and puts an
\* event behind those due at the same time (mprQueueEvent).
THEOREM DueOrder == Spec => InDueOrder
<1>1. IndInv /\ IndInv' /\ QueueInv /\ [Next]_vars => Ordered
  BY QueueInvStep DEF IndInv, TypeOK
<1>2. Ordered => [\A d \in Dispatchers : \A i, j \in DOMAIN eventQ'[d] : i < j =>
       LET early == eventQ'[d][i]
           late == eventQ'[d][j]
       IN  /\ due'[early] <= due'[late]
           /\ due'[early] = due'[late] /\ Contains(eventQ[d], late) =>
                Contains(eventQ[d], early)]_vars
  BY DEF Ordered
<1> QED
  BY <1>1, <1>2, Inductive, QueuesRight, PTL DEF Spec, InDueOrder

\* An event that was removed, was dropped or is over stays so, whatever its
\* callback, a continuous event's requeueing and mprRemoveEvent interleave to.
THEOREM RemovedForGood == Spec => RemovedStaysRemoved
<1>1. IndInv /\ IndInv' /\ QueueInv /\ [Next]_vars => Final
  BY QueueInvStep DEF IndInv, TypeOK
<1>2. Final => [\A e \in Events : estate[e] \in {"removed", "dropped", "over"} =>
       estate'[e] = estate[e]]_vars
  BY DEF Final
<1> QED
  BY <1>1, <1>2, Inductive, QueuesRight, PTL DEF Spec, RemovedStaysRemoved

-----------------------------------------------------------------------------
(* Where a dispatcher with events is *)

Served == {"run", "ready", "wait", "pending"}

\* The stages of a thread that is about to queue its dispatcher
Fetching == {"resched", "stop", "stopped", "enter"}

LEMMA ScheduleServes ==
  ASSUME TypeOK, NEW t \in Threads, NEW d \in Dispatchers, NEW q, NEW when, NEW l, NEW keep,
         Schedule(t, d, q, when, l, keep), q # <<>>
  PROVE  place'[d] \in Served
BY DEF Schedule, QueueDispatcher, TypeOK, DataTyped, Served

LEMMA ScheduleMoves ==
  ASSUME TypeOK, NEW t \in Threads, NEW d \in Dispatchers, NEW q, NEW when, NEW l, NEW keep,
         Schedule(t, d, q, when, l, keep)
  PROVE  \A x \in Dispatchers \ {d} : place'[x] = place[x]
BY DEF Schedule, QueueDispatcher, TypeOK, DataTyped

\* A step that leaves d served, empty or destroyed, and does nothing else.
LEMMA StillPlaced ==
  ASSUME NoForgottenDispatcher, NEW d \in Dispatchers, NEW t \in Threads, NEW l, StagesTo(t, l),
         UNCHANGED disp, destroyed \subseteq destroyed',
         \A x \in Dispatchers \ {d} : place'[x] = place[x] /\ eventQ'[x] = eventQ[x],
         Stage(t) \in Fetching => disp[t] = d,
         d \in destroyed' \/ eventQ'[d] = <<>> \/ place'[d] \in Served
  PROVE  NoForgottenDispatcher'
<1> SUFFICES ASSUME NEW x \in Dispatchers, eventQ'[x] # <<>>, x \notin destroyed'
             PROVE  \/ place'[x] \in {"run", "ready", "wait", "pending"}
                    \/ \E u \in Threads : disp'[u] = x /\ Stage(u)' \in {"resched", "stop", "stopped", "enter"}
  BY DEF NoForgottenDispatcher
<1>1. CASE x = d
  BY <1>1 DEF Served
<1>2. CASE x # d
  <2>1. \/ place[x] \in {"run", "ready", "wait", "pending"}
        \/ \E u \in Threads : disp[u] = x /\ Stage(u) \in {"resched", "stop", "stopped", "enter"}
    BY <1>2 DEF NoForgottenDispatcher
  <2>2. ASSUME NEW u \in Threads, disp[u] = x, Stage(u) \in {"resched", "stop", "stopped", "enter"}
        PROVE  Stage(u)' = Stage(u)
    <3>1. u # t
      BY <1>2, <2>2 DEF Fetching
    <3> QED
      BY <3>1 DEF StagesTo
  <2> QED
    BY <1>2, <2>1, <2>2
<1> QED
  BY <1>1, <1>2

\* A step that moves no dispatcher and fills no queue.
LEMMA NothingMoved ==
  ASSUME NoForgottenDispatcher, UNCHANGED place, destroyed \subseteq destroyed',
         \A x \in Dispatchers : eventQ'[x] # <<>> => eventQ[x] # <<>>,
         \A u \in Threads : Stage(u) \in Fetching => Stage(u)' \in Fetching /\ disp'[u] = disp[u]
  PROVE  NoForgottenDispatcher'
<1> SUFFICES ASSUME NEW x \in Dispatchers, eventQ'[x] # <<>>, x \notin destroyed'
             PROVE  \/ place'[x] \in {"run", "ready", "wait", "pending"}
                    \/ \E u \in Threads : disp'[u] = x /\ Stage(u)' \in {"resched", "stop", "stopped", "enter"}
  BY DEF NoForgottenDispatcher
<1>1. \/ place[x] \in {"run", "ready", "wait", "pending"}
      \/ \E u \in Threads : disp[u] = x /\ Stage(u) \in {"resched", "stop", "stopped", "enter"}
  BY DEF NoForgottenDispatcher
<1> QED
  BY <1>1 DEF Fetching

\* A step of t alone that moves no dispatcher.
LEMMA Quiet ==
  ASSUME NoForgottenDispatcher, NEW t \in Threads, UNCHANGED <<place, eventQ, destroyed>>,
         \A u \in Threads \ {t} : pc'[u] = pc[u] /\ after'[u] = after[u] /\ disp'[u] = disp[u],
         Stage(t) \in Fetching => Stage(t)' \in Fetching /\ disp'[t] = disp[t]
  PROVE  NoForgottenDispatcher'
<1>1. ASSUME NEW u \in Threads, Stage(u) \in Fetching
      PROVE  Stage(u)' \in Fetching /\ disp'[u] = disp[u]
  BY <1>1, StageOthers
<1> QED
  BY <1>1, NothingMoved

\* A step of t that puts d where it is served, or takes it from there to fetch it.
LEMMA Placed ==
  ASSUME NoForgottenDispatcher, NEW t \in Threads, NEW d, UNCHANGED <<eventQ, destroyed>>,
         \A x \in Dispatchers \ {d} : place'[x] = place[x],
         \A u \in Threads \ {t} : pc'[u] = pc[u] /\ after'[u] = after[u] /\ disp'[u] = disp[u],
         Stage(t) \in Fetching => disp[t] = d,
         place'[d] \in Served \/ (Stage(t)' \in Fetching /\ disp'[t] = d)
  PROVE  NoForgottenDispatcher'
<1> SUFFICES ASSUME NEW x \in Dispatchers, eventQ'[x] # <<>>, x \notin destroyed'
             PROVE  \/ place'[x] \in {"run", "ready", "wait", "pending"}
                    \/ \E u \in Threads : disp'[u] = x /\ Stage(u)' \in {"resched", "stop", "stopped", "enter"}
  BY DEF NoForgottenDispatcher
<1>1. CASE x = d
  BY <1>1 DEF Served, Fetching
<1>2. CASE x # d
  <2>1. \/ place[x] \in {"run", "ready", "wait", "pending"}
        \/ \E u \in Threads : disp[u] = x /\ Stage(u) \in {"resched", "stop", "stopped", "enter"}
    BY <1>2 DEF NoForgottenDispatcher
  <2>2. ASSUME NEW u \in Threads, disp[u] = x, Stage(u) \in {"resched", "stop", "stopped", "enter"}
        PROVE  Stage(u)' = Stage(u) /\ disp'[u] = disp[u]
    <3>1. u # t
      BY <1>2, <2>2 DEF Fetching
    <3> QED
      BY <3>1, StageOthers
  <2> QED
    BY <1>2, <2>1, <2>2
<1> QED
  BY <1>1, <1>2

LEMMA QueuePlaced ==
  ASSUME TypeOK, NoForgottenDispatcher, NEW t \in Threads, NEW l \in Plain, NEW d \in Dispatchers,
         NEW e \in Events, NEW when, Queue(t, d, e, when, l), Stage(t) \notin Fetching,
         UNCHANGED <<disp, destroyed>>
  PROVE  NoForgottenDispatcher'
<1>1. StagesTo(t, l)
  BY QueueStage DEF TypeOK
<1>2. CASE d \in destroyed
  BY <1>1, <1>2, StillPlaced DEF Queue
<1>3. CASE d \notin destroyed
  <2> DEFINE q == InsertEvent(eventQ[d], e, when[e])
  <2>1. eventQ' = [eventQ EXCEPT ![d] = q] /\ Schedule(t, d, q, when, l, TRUE)
    BY <1>3 DEF Queue
  <2>2. q # <<>>
    BY InsertNotEmpty DEF TypeOK, DataTyped
  <2> HIDE DEF q
  <2>3. place'[d] \in Served
    BY <2>1, <2>2, ScheduleServes
  <2>5. \A x \in Dispatchers \ {d} : place'[x] = place[x]
    BY <2>1, ScheduleMoves
  <2>4. \A x \in Dispatchers \ {d} : eventQ'[x] = eventQ[x]
    BY <2>1 DEF TypeOK, DataTyped
  <2> QED
    BY <1>1, <2>3, <2>4, <2>5, StillPlaced
<1> QED
  BY <1>2, <1>3

LEMMA DestroyPlaced ==
  ASSUME TypeOK, NoForgottenDispatcher, NEW t \in Threads, NEW l \in Plain, NEW d \in Dispatchers,
         Destroy(t, d, l), DestroyUnchanged, Stage(t) \notin Fetching
  PROVE  NoForgottenDispatcher'
<1>1. StagesTo(t, l) /\ UNCHANGED disp
  BY DestroyStage DEF TypeOK, DestroyUnchanged
<1>2. /\ d \in destroyed' /\ destroyed \subseteq destroyed'
      /\ \A x \in Dispatchers \ {d} : place'[x] = place[x] /\ eventQ'[x] = eventQ[x]
  BY DEF Destroy, TypeOK, DataTyped
<1> QED
  BY <1>1, <1>2, StillPlaced

\* A dispatcher that is not destroyed is scheduled by the thread that took it
\* from a queue.
LEMMA SchedulePlaced ==
  ASSUME TypeOK, NoForgottenDispatcher, NEW t \in Threads, NEW l \in Plain, NEW d \in Dispatchers,
         disp[t] = d, StagesTo(t, l), UNCHANGED <<disp, destroyed, eventQ>>,
         \/ d \in destroyed /\ UNCHANGED place
         \/ \E keep \in BOOLEAN : Schedule(t, d, eventQ[d], due, l, keep)
  PROVE  NoForgottenDispatcher'
<1>1. CASE d \in destroyed /\ UNCHANGED place
  BY <1>1, StillPlaced
<1>2. CASE \E keep \in BOOLEAN : Schedule(t, d, eventQ[d], due, l, keep)
  <2>1. eventQ[d] # <<>> => place'[d] \in Served
    BY <1>2, ScheduleServes
  <2>2. \A x \in Dispatchers \ {d} : place'[x] = place[x]
    BY <1>2, ScheduleMoves
  <2> QED
    BY <2>1, <2>2, StillPlaced
<1> QED
  BY <1>1, <1>2

LEMMA RemovePlaced ==
  ASSUME TypeOK, NoForgottenDispatcher, NEW t \in Threads, RemoveEvent(t)
  PROVE  NoForgottenDispatcher'
<1>1. /\ StagesTo(t, "free") /\ UNCHANGED <<disp, destroyed>> /\ Stage(t) \notin Fetching
      /\ t \in Threads
  BY RemoveStage, StageOf DEF TypeOK, RemoveEvent, Fetching, WakeLabels
<1>2. PICK d \in Dispatchers : \E e, q :
        RemoveFrom(t, d, e, q) /\ (q # <<>> => eventQ[d] # <<>>)
  <2>1. ASSUME NEW d \in Dispatchers, NEW i \in DOMAIN eventQ[d] PROVE eventQ[d] # <<>>
    <3>1. DOMAIN (<<>>) = {}
      OBVIOUS
    <3> QED
      BY <3>1
  <2> QED
    BY <2>1 DEF RemoveEvent
<1>3. PICK e, q : RemoveFrom(t, d, e, q) /\ (q # <<>> => eventQ[d] # <<>>)
  BY <1>2
<1>4. eventQ'[d] = q /\ \A x \in Dispatchers \ {d} : eventQ'[x] = eventQ[x]
  BY <1>3 DEF RemoveFrom, TypeOK, DataTyped
<1>5. CASE q # <<>> /\ Schedule(t, d, q, due, "free", TRUE)
  <2>1. place'[d] \in Served
    BY <1>5, ScheduleServes
  <2>2. \A x \in Dispatchers \ {d} : place'[x] = place[x]
    BY <1>5, ScheduleMoves
  <2> QED
    BY <1>1, <1>4, <2>1, <2>2, StillPlaced
<1>6. CASE UNCHANGED place
  <2>1. \A u \in Threads : Stage(u) \in Fetching => Stage(u)' \in Fetching
    BY <1>1 DEF StagesTo
  <2>2. \A x \in Dispatchers : eventQ'[x] # <<>> => eventQ[x] # <<>>
    BY <1>3, <1>4
  <2> QED
    BY <1>1, <1>6, <2>1, <2>2, NothingMoved
<1> QED
  BY <1>3, <1>5, <1>6 DEF RemoveFrom

\* No step forgets a dispatcher.
LEMMA NoForgottenStep ==
  ASSUME TypeOK, WorkSet, NoForgottenDispatcher, [Next]_vars
  PROVE  NoForgottenDispatcher'
<1>1. ASSUME NEW t \in Threads, WakeStep(t) PROVE NoForgottenDispatcher'
  <2>1. UNCHANGED <<place, destroyed, eventQ, disp>>
    BY <1>1 DEF WakeStep, TestWaiting, TestRequested, SetRequested, WriteBreak, WakeUnchanged
  <2>2. StagesTo(t, Stage(t))
    BY <1>1, WakeStage DEF TypeOK
  <2> QED
    BY <2>1, <2>2, NothingMoved DEF StagesTo
<1>2. ASSUME NEW t \in Threads, PostEvent(t) PROVE NoForgottenDispatcher'
  <2>1. target[t] \in Dispatchers /\ made[t] \in Events /\ Stage(t) \in {"free", "call"}
    BY <1>2, StageOf DEF PostEvent, WorkSet, HasWork
  <2> QED
    BY <1>2, <2>1, QueuePlaced DEF PostEvent, Resume, Plain, Fetching
<1>3. ASSUME QueueIOEvent PROVE NoForgottenDispatcher'
  <2>1. PICK e \in IOEvents, d \in Dispatchers : Queue(Service, d, e, due', "io")
    BY <1>3 DEF QueueIOEvent
  <2>2. e \in Events /\ Service \in Threads /\ Stage(Service) = "io"
    BY <1>3, StageOf, ConstantsAssumption DEF Threads, QueueIOEvent, WakeLabels
  <2> QED
    BY <1>3, <2>1, <2>2, QueuePlaced DEF QueueIOEvent, Plain, Fetching
<1>4. ASSUME NEW t \in Threads, RemoveEvent(t) PROVE NoForgottenDispatcher'
  BY <1>4, RemovePlaced
<1>5. ASSUME NEW t \in Threads, DestroyForeign(t) PROVE NoForgottenDispatcher'
  <2>1. Stage(t) \notin Fetching
    BY <1>5, StageOf DEF DestroyForeign, Fetching, WakeLabels
  <2> QED
    BY <1>5, <2>1, DestroyPlaced DEF DestroyForeign, Plain
<1>6. ASSUME NEW t \in Threads, DestroyInCall(t) PROVE NoForgottenDispatcher'
  <2>1. Stage(t) \notin Fetching /\ disp[t] \in Dispatchers
    BY <1>6, StageOf, DispTyped DEF DestroyInCall, UsesDispatcher, Fetching, WakeLabels
  <2> QED
    BY <1>6, <2>1, DestroyPlaced DEF DestroyInCall, Plain
<1>7. ASSUME NEW o \in Owners, DestroyOwned(o) PROVE NoForgottenDispatcher'
  <2>1. o \in Threads
    BY DEF Threads
  <2>2. Stage(o) \notin Fetching /\ disp[o] \in Dispatchers
    BY <1>7, <2>1, StageOf, DispTyped DEF DestroyOwned, UsesDispatcher, Fetching, WakeLabels
  <2> QED
    BY <1>7, <2>1, <2>2, DestroyPlaced DEF DestroyOwned, Plain
<1>8. ASSUME NEW t \in Runners, NextEvent(t) PROVE NoForgottenDispatcher'
  <2>1. t \in Threads /\ disp[t] \in Dispatchers /\ Stage(t) \notin Fetching
    BY <1>8, StageOf, DispTyped
       DEF NextEvent, UsesDispatcher, Fetching, WakeLabels, Threads, Runners, Servers
  <2>2. UNCHANGED <<place, destroyed, disp, after>> /\ \A u \in Threads \ {t} : pc'[u] = pc[u]
    BY <1>8, <2>1 DEF NextEvent, TypeOK, ControlTyped
  <2>3. \A x \in Dispatchers : eventQ'[x] # <<>> => eventQ[x] # <<>>
    BY <1>8, <2>1 DEF NextEvent, TypeOK, DataTyped
  <2> QED
    BY <2>1, <2>2, <2>3, StageOthers, NothingMoved
<1>9. ASSUME NEW t \in Runners, CallDone(t) PROVE NoForgottenDispatcher'
  <2>1. /\ t \in Threads /\ disp[t] \in Dispatchers /\ Stage(t) \notin Fetching
        /\ cur[t] \in Events /\ back[t] \in {"release", "flag", "block"}
    BY <1>9, StageOf, DispTyped, CurTyped
       DEF CallDone, UsesDispatcher, Fetching, WakeLabels, Threads, Runners, Servers,
           TypeOK, ControlTyped, Backs
  <2>2. UNCHANGED <<destroyed, disp>>
    BY <1>9 DEF CallDone
  <2>3. CASE \E l \in {"next", back[t]} : Goto(t, l) /\ UNCHANGED <<after, place, eventQ>>
    <3>1. PICK l \in {"next", back[t]} : Goto(t, l) /\ UNCHANGED <<after, place, eventQ>>
      BY <2>3
    <3>2. \A u \in Threads \ {t} : Stage(u)' = Stage(u)
      BY <2>1, <3>1, GotoStage DEF Plain, StagesTo, TypeOK
    <3> QED
      BY <2>1, <2>2, <3>1, <3>2, NothingMoved
  <2>4. CASE \E w : LET q == InsertEvent(eventQ[disp[t]], cur[t], w)
                    IN  /\ eventQ' = [eventQ EXCEPT ![disp[t]] = q]
                        /\ \E when : Schedule(t, disp[t], q, when, "next", TRUE)
    <3>1. PICK w : LET q == InsertEvent(eventQ[disp[t]], cur[t], w)
                   IN  /\ eventQ' = [eventQ EXCEPT ![disp[t]] = q]
                       /\ \E when : Schedule(t, disp[t], q, when, "next", TRUE)
      BY <2>4
    <3> DEFINE q == InsertEvent(eventQ[disp[t]], cur[t], w)
    <3>2. q # <<>>
      BY <2>1, InsertNotEmpty DEF TypeOK, DataTyped
    <3>3. PICK when : Schedule(t, disp[t], q, when, "next", TRUE)
      BY <3>1
    <3>4. eventQ' = [eventQ EXCEPT ![disp[t]] = q]
      BY <3>1
    <3> HIDE DEF q
    <3>5. StagesTo(t, "next")
      BY <2>1, <3>3, ScheduleStage DEF Plain, TypeOK
    <3>6. /\ place'[disp[t]] \in Served
          /\ \A x \in Dispatchers \ {disp[t]} : place'[x] = place[x] /\ eventQ'[x] = eventQ[x]
      <4>1. place'[disp[t]] \in Served
        BY <2>1, <3>2, <3>3, ScheduleServes
      <4>2. \A x \in Dispatchers \ {disp[t]} : place'[x] = place[x]
        BY <2>1, <3>3, ScheduleMoves
      <4> QED
        BY <2>1, <3>4, <4>1, <4>2 DEF TypeOK, DataTyped
    <3> QED
      BY <2>1, <2>2, <3>5, <3>6, StillPlaced
  <2>5. \/ \E l \in {"next", back[t]} : Goto(t, l) /\ UNCHANGED <<after, place, eventQ>>
        \/ \E w : LET q == InsertEvent(eventQ[disp[t]], cur[t], w)
                  IN  /\ eventQ' = [eventQ EXCEPT ![disp[t]] = q]
                      /\ \E when : Schedule(t, disp[t], q, when, "next", TRUE)
    BY <1>9 DEF CallDone
  <2> QED
    BY <2>3, <2>4, <2>5
<1>10. ASSUME NEW t \in Servers, Resched(t) PROVE NoForgottenDispatcher'
  <2>1. t \in Threads
    BY <1>10 DEF Servers, Threads
  <2>2. disp[t] \in Dispatchers
    BY <1>10, <2>1, DispTyped DEF Resched, UsesDispatcher
  <2>3. StagesTo(t, "return") /\ UNCHANGED <<disp, destroyed, eventQ>>
    BY <1>10, <2>1, GotoStage, ScheduleStage DEF Resched, Plain, TypeOK
  <2> QED
    BY <1>10, <2>1, <2>2, <2>3, SchedulePlaced DEF Resched, Plain
<1>11. ASSUME NEW o \in Owners, StopSchedule(o) PROVE NoForgottenDispatcher'
  <2>1. o \in Threads
    BY <1>11 DEF Threads
  <2>2. disp[o] \in Dispatchers
    BY <1>11, <2>1, DispTyped DEF StopSchedule, UsesDispatcher
  <2>3. StagesTo(o, "free") /\ UNCHANGED <<disp, destroyed, eventQ>>
    BY <1>11, <2>1, GotoStage, ScheduleStage DEF StopSchedule, Plain, TypeOK
  <2> QED
    BY <1>11, <2>1, <2>2, <2>3, SchedulePlaced DEF StopSchedule, Plain
<1>12. ASSUME NEW t \in Runners, CallReturns(t) PROVE NoForgottenDispatcher'
  <2>1. t \in Threads
    BY ConstantsAssumption DEF Threads, Runners, Servers
  <2>2. Stage(t) \notin Fetching
    BY <1>12, <2>1, StageOf DEF CallReturns, WakeLabels, Fetching, TypeOK, ControlTyped, Afters
  <2>3. /\ UNCHANGED <<place, eventQ, destroyed>>
        /\ \A u \in Threads \ {t} : pc'[u] = pc[u] /\ after'[u] = after[u] /\ disp'[u] = disp[u]
    BY <1>12, <2>1 DEF CallReturns, TypeOK, ControlTyped, DataTyped
  <2> QED
    BY <2>1, <2>2, <2>3, Quiet
<1>13. ASSUME NEW t \in Servers, Reclaim(t) PROVE NoForgottenDispatcher'
  <2>1. t \in Threads
    BY ConstantsAssumption DEF Threads, Runners, Servers
  <2>2. Stage(t) \notin Fetching
    BY <1>13, <2>1, StageOf DEF Reclaim, WakeLabels, Fetching, TypeOK, ControlTyped, Afters
  <2>3. /\ UNCHANGED <<place, eventQ, destroyed>>
        /\ \A u \in Threads \ {t} : pc'[u] = pc[u] /\ after'[u] = after[u] /\ disp'[u] = disp[u]
    BY <1>13, <2>1 DEF Reclaim, TypeOK, ControlTyped, DataTyped
  <2> QED
    BY <2>1, <2>2, <2>3, Quiet
<1>14. ASSUME NEW t \in Servers, Release(t) PROVE NoForgottenDispatcher'
  <2>1. t \in Threads
    BY ConstantsAssumption DEF Threads, Runners, Servers
  <2>2. Stage(t) \notin Fetching
    BY <1>14, <2>1, StageOf DEF Release, WakeLabels, Fetching, TypeOK, ControlTyped, Afters
  <2>3. /\ UNCHANGED <<place, eventQ, destroyed>>
        /\ \A u \in Threads \ {t} : pc'[u] = pc[u] /\ after'[u] = after[u] /\ disp'[u] = disp[u]
    BY <1>14, <2>1 DEF Release, TypeOK, ControlTyped, DataTyped
  <2> QED
    BY <2>1, <2>2, <2>3, Quiet
<1>15. ASSUME NEW t \in Servers, Unlink(t) PROVE NoForgottenDispatcher'
  <2>1. t \in Threads
    BY ConstantsAssumption DEF Threads, Runners, Servers
  <2>2. disp[t] \in Dispatchers
    BY <1>15, <2>1, DispTyped DEF Unlink, UsesDispatcher
  <2>3. /\ UNCHANGED <<eventQ, destroyed, disp>>
        /\ \A x \in Dispatchers \ {disp[t]} : place'[x] = place[x]
        /\ \A u \in Threads \ {t} : pc'[u] = pc[u] /\ after'[u] = after[u]
    BY <1>15, <2>1 DEF Unlink, TypeOK, ControlTyped, DataTyped
  <2>4. Stage(t)' \in Fetching
    BY <1>15, <2>1 DEF Unlink, TypeOK, ControlTyped, Stage, WakeLabels, Fetching
  <2> QED
    BY <2>1, <2>2, <2>3, <2>4, Placed
<1>16. ASSUME ScanReady PROVE NoForgottenDispatcher'
  <2>1. PICK d \in Candidates : IF place[d] = "wait" THEN QueueDispatcher(d, "ready") ELSE UNCHANGED <<place, rank>>
    BY <1>16 DEF ScanReady
  <2>2. d \in Dispatchers /\ place[d] \in {"pending", "ready", "wait"} /\ Service \in Threads
    BY DEF Candidates, FirstOf, On, Threads
  <2>3. place'[d] \in Served /\ \A x \in Dispatchers \ {d} : place'[x] = place[x]
    BY <2>1, <2>2 DEF QueueDispatcher, Served, TypeOK, DataTyped
  <2>4. Stage(Service) \notin Fetching
    BY <1>16, StageOf DEF ScanReady, WakeLabels, Fetching
  <2>5. /\ UNCHANGED <<eventQ, destroyed, after>>
        /\ \A u \in Threads \ {Service} : pc'[u] = pc[u]
    BY <1>16, <2>2 DEF ScanReady, TypeOK, ControlTyped
  <2>6. \A u \in Threads \ {Service} : disp'[u] = disp[u]
    BY <1>16, <2>2 DEF ScanReady, TypeOK, DataTyped
  <2> QED
    BY <2>2, <2>3, <2>4, <2>5, <2>6, Placed
<1>17. ASSUME ScanEmpty PROVE NoForgottenDispatcher'
  <2>1. Service \in Threads
    BY ConstantsAssumption DEF Threads, Runners, Servers
  <2>2. Stage(Service) \notin Fetching
    BY <1>17, <2>1, StageOf DEF ScanEmpty, WakeLabels, Fetching, TypeOK, ControlTyped, Afters
  <2>3. /\ UNCHANGED <<place, eventQ, destroyed>>
        /\ \A u \in Threads \ {Service} : pc'[u] = pc[u] /\ after'[u] = after[u] /\ disp'[u] = disp[u]
    BY <1>17, <2>1 DEF ScanEmpty, TypeOK, ControlTyped, DataTyped
  <2> QED
    BY <2>1, <2>2, <2>3, Quiet
<1>18. ASSUME Enlist PROVE NoForgottenDispatcher'
  <2>1. Service \in Threads
    BY ConstantsAssumption DEF Threads, Runners, Servers
  <2>2. disp[Service] \in Dispatchers
    BY <1>18, <2>1, DispTyped DEF Enlist, UsesDispatcher
  <2>3. /\ UNCHANGED <<eventQ, destroyed, disp>>
        /\ \A x \in Dispatchers \ {disp[Service]} : place'[x] = place[x]
        /\ \A u \in Threads \ {Service} : pc'[u] = pc[u] /\ after'[u] = after[u]
    BY <1>18, <2>1 DEF Enlist, QueueDispatcher, TypeOK, ControlTyped, DataTyped
  <2>4. place'[disp[Service]] \in Served
    BY <1>18, <2>2 DEF Enlist, QueueDispatcher, Served, TypeOK, DataTyped
  <2> QED
    BY <2>1, <2>2, <2>3, <2>4, Placed
<1>19. ASSUME StartIdleWorker PROVE NoForgottenDispatcher'
  <2>1. Service \in Threads
    BY ConstantsAssumption DEF Threads, Runners, Servers
  <2>2. Stage(Service) \notin Fetching
    BY <1>19, <2>1, StageOf DEF StartIdleWorker, WakeLabels, Fetching, TypeOK, ControlTyped, Afters
  <2>3. /\ UNCHANGED <<place, eventQ, destroyed>>
        /\ \A u \in Threads \ {Service} : pc'[u] = pc[u] /\ after'[u] = after[u] /\ disp'[u] = disp[u]
    BY <1>19, <2>1 DEF StartIdleWorker, TypeOK, ControlTyped, DataTyped
  <2> QED
    BY <2>1, <2>2, <2>3, Quiet
<1>20. ASSUME StartNewWorker PROVE NoForgottenDispatcher'
  <2>1. PICK w \in Workers : pc[w] = "unborn" /\ pc' = [pc EXCEPT ![w] = "claim", ![Service] = "scan"]
    BY <1>20 DEF StartNewWorker
  <2>2. Stage(Service) \notin Fetching /\ Stage(w) \notin Fetching
    BY <1>20, <2>1, StageOf DEF StartNewWorker, WakeLabels, Fetching
  <2>3. UNCHANGED <<place, eventQ, destroyed, after, disp>>
    BY <1>20 DEF StartNewWorker
  <2>4. \A u \in Threads \ {Service, w} : pc'[u] = pc[u]
    BY <2>1 DEF TypeOK, ControlTyped
  <2>5. ASSUME NEW u \in Threads, Stage(u) \in Fetching PROVE Stage(u)' \in Fetching
    BY <2>2, <2>3, <2>4, <2>5, StageOthers
  <2> QED
    BY <2>3, <2>5, NothingMoved
<1>21. ASSUME NoWorker PROVE NoForgottenDispatcher'
  <2>1. Service \in Threads
    BY ConstantsAssumption DEF Threads, Runners, Servers
  <2>2. Stage(Service) \notin Fetching
    BY <1>21, <2>1, StageOf DEF NoWorker, WakeLabels, Fetching, TypeOK, ControlTyped, Afters
  <2>3. /\ UNCHANGED <<place, eventQ, destroyed>>
        /\ \A u \in Threads \ {Service} : pc'[u] = pc[u] /\ after'[u] = after[u] /\ disp'[u] = disp[u]
    BY <1>21, <2>1 DEF NoWorker, TypeOK, ControlTyped, DataTyped
  <2> QED
    BY <2>1, <2>2, <2>3, Quiet
<1>22. ASSUME Park PROVE NoForgottenDispatcher'
  <2>1. Service \in Threads
    BY ConstantsAssumption DEF Threads, Runners, Servers
  <2>2. disp[Service] \in Dispatchers
    BY <1>22, <2>1, DispTyped DEF Park, UsesDispatcher
  <2>3. /\ UNCHANGED <<eventQ, destroyed, disp>>
        /\ \A x \in Dispatchers \ {disp[Service]} : place'[x] = place[x]
        /\ \A u \in Threads \ {Service} : pc'[u] = pc[u] /\ after'[u] = after[u]
    BY <1>22, <2>1 DEF Park, QueueDispatcher, TypeOK, ControlTyped, DataTyped
  <2>4. place'[disp[Service]] \in Served
    BY <1>22, <2>2 DEF Park, QueueDispatcher, Served, TypeOK, DataTyped
  <2> QED
    BY <2>1, <2>2, <2>3, <2>4, Placed
<1>23. ASSUME CheckCount PROVE NoForgottenDispatcher'
  <2>1. Service \in Threads
    BY ConstantsAssumption DEF Threads, Runners, Servers
  <2>2. Stage(Service) \notin Fetching
    BY <1>23, <2>1, StageOf DEF CheckCount, WakeLabels, Fetching, TypeOK, ControlTyped, Afters
  <2>3. /\ UNCHANGED <<place, eventQ, destroyed>>
        /\ \A u \in Threads \ {Service} : pc'[u] = pc[u] /\ after'[u] = after[u] /\ disp'[u] = disp[u]
    BY <1>23, <2>1 DEF CheckCount, TypeOK, ControlTyped, DataTyped
  <2> QED
    BY <2>1, <2>2, <2>3, Quiet
<1>24. ASSUME Doze PROVE NoForgottenDispatcher'
  <2>1. Service \in Threads
    BY ConstantsAssumption DEF Threads, Runners, Servers
  <2>2. Stage(Service) \notin Fetching
    BY <1>24, <2>1, StageOf DEF Doze, WakeLabels, Fetching, TypeOK, ControlTyped, Afters
  <2>3. /\ UNCHANGED <<place, eventQ, destroyed>>
        /\ \A u \in Threads \ {Service} : pc'[u] = pc[u] /\ after'[u] = after[u] /\ disp'[u] = disp[u]
    BY <1>24, <2>1 DEF Doze, TypeOK, ControlTyped, DataTyped
  <2> QED
    BY <2>1, <2>2, <2>3, Quiet
<1>25. ASSUME Wakes PROVE NoForgottenDispatcher'
  <2>1. Service \in Threads
    BY ConstantsAssumption DEF Threads, Runners, Servers
  <2>2. Stage(Service) \notin Fetching
    BY <1>25, <2>1, StageOf DEF Wakes, EpollReturns, WakeLabels, Fetching, TypeOK, ControlTyped, Afters
  <2>3. /\ UNCHANGED <<place, eventQ, destroyed>>
        /\ \A u \in Threads \ {Service} : pc'[u] = pc[u] /\ after'[u] = after[u] /\ disp'[u] = disp[u]
    BY <1>25, <2>1 DEF Wakes, EpollReturns, TypeOK, ControlTyped, DataTyped
  <2> QED
    BY <2>1, <2>2, <2>3, Quiet
<1>26. ASSUME ClearWaiting PROVE NoForgottenDispatcher'
  <2>1. Service \in Threads
    BY ConstantsAssumption DEF Threads, Runners, Servers
  <2>2. Stage(Service) \notin Fetching
    BY <1>26, <2>1, StageOf DEF ClearWaiting, WakeLabels, Fetching, TypeOK, ControlTyped, Afters
  <2>3. /\ UNCHANGED <<place, eventQ, destroyed>>
        /\ \A u \in Threads \ {Service} : pc'[u] = pc[u] /\ after'[u] = after[u] /\ disp'[u] = disp[u]
    BY <1>26, <2>1 DEF ClearWaiting, TypeOK, ControlTyped, DataTyped
  <2> QED
    BY <2>1, <2>2, <2>3, Quiet
<1>27. ASSUME Drain PROVE NoForgottenDispatcher'
  <2>1. Service \in Threads
    BY ConstantsAssumption DEF Threads, Runners, Servers
  <2>2. Stage(Service) \notin Fetching
    BY <1>27, <2>1, StageOf DEF Drain, WakeLabels, Fetching, TypeOK, ControlTyped, Afters
  <2>3. /\ UNCHANGED <<place, eventQ, destroyed>>
        /\ \A u \in Threads \ {Service} : pc'[u] = pc[u] /\ after'[u] = after[u] /\ disp'[u] = disp[u]
    BY <1>27, <2>1 DEF Drain, TypeOK, ControlTyped, DataTyped
  <2> QED
    BY <2>1, <2>2, <2>3, Quiet
<1>28. ASSUME ResetWake PROVE NoForgottenDispatcher'
  <2>1. Service \in Threads
    BY ConstantsAssumption DEF Threads, Runners, Servers
  <2>2. Stage(Service) \notin Fetching
    BY <1>28, <2>1, StageOf DEF ResetWake, WakeLabels, Fetching, TypeOK, ControlTyped, Afters
  <2>3. /\ UNCHANGED <<place, eventQ, destroyed>>
        /\ \A u \in Threads \ {Service} : pc'[u] = pc[u] /\ after'[u] = after[u] /\ disp'[u] = disp[u]
    BY <1>28, <2>1 DEF ResetWake, TypeOK, ControlTyped, DataTyped
  <2> QED
    BY <2>1, <2>2, <2>3, Quiet
<1>29. ASSUME Refresh PROVE NoForgottenDispatcher'
  <2>1. Service \in Threads
    BY ConstantsAssumption DEF Threads, Runners, Servers
  <2>2. Stage(Service) \notin Fetching
    BY <1>29, <2>1, StageOf DEF Refresh, WakeLabels, Fetching, TypeOK, ControlTyped, Afters
  <2>3. /\ UNCHANGED <<place, eventQ, destroyed>>
        /\ \A u \in Threads \ {Service} : pc'[u] = pc[u] /\ after'[u] = after[u] /\ disp'[u] = disp[u]
    BY <1>29, <2>1 DEF Refresh, TypeOK, ControlTyped, DataTyped
  <2> QED
    BY <2>1, <2>2, <2>3, Quiet
<1>30. ASSUME HelperReturns PROVE NoForgottenDispatcher'
  <2>1. Service \in Threads
    BY ConstantsAssumption DEF Threads, Runners, Servers
  <2>2. Stage(Service) \notin Fetching
    BY <1>30, <2>1, StageOf DEF HelperReturns, WakeLabels, Fetching, TypeOK, ControlTyped, Afters
  <2>3. /\ UNCHANGED <<place, eventQ, destroyed>>
        /\ \A u \in Threads \ {Service} : pc'[u] = pc[u] /\ after'[u] = after[u] /\ disp'[u] = disp[u]
    BY <1>30, <2>1 DEF HelperReturns, TypeOK, ControlTyped, DataTyped
  <2> QED
    BY <2>1, <2>2, <2>3, Quiet
<1>31. ASSUME NEW w \in Workers, NapEnds(w) PROVE NoForgottenDispatcher'
  <2>1. w \in Threads
    BY ConstantsAssumption DEF Threads, Runners, Servers
  <2>2. Stage(w) \notin Fetching
    BY <1>31, <2>1, StageOf DEF NapEnds, WakeLabels, Fetching, TypeOK, ControlTyped, Afters
  <2>3. /\ UNCHANGED <<place, eventQ, destroyed>>
        /\ \A u \in Threads \ {w} : pc'[u] = pc[u] /\ after'[u] = after[u] /\ disp'[u] = disp[u]
    BY <1>31, <2>1 DEF NapEnds, TypeOK, ControlTyped, DataTyped
  <2> QED
    BY <2>1, <2>2, <2>3, Quiet
<1>32. ASSUME NEW w \in Workers, BecomeIdle(w) PROVE NoForgottenDispatcher'
  <2>1. w \in Threads
    BY ConstantsAssumption DEF Threads, Runners, Servers
  <2>2. Stage(w) \notin Fetching
    BY <1>32, <2>1, StageOf DEF BecomeIdle, WakeLabels, Fetching, TypeOK, ControlTyped, Afters
  <2>3. /\ UNCHANGED <<place, eventQ, destroyed>>
        /\ \A u \in Threads \ {w} : pc'[u] = pc[u] /\ after'[u] = after[u] /\ disp'[u] = disp[u]
    BY <1>32, <2>1 DEF BecomeIdle, TypeOK, ControlTyped, DataTyped
  <2> QED
    BY <2>1, <2>2, <2>3, Quiet
<1>33. ASSUME NEW w \in Workers, Offer(w) PROVE NoForgottenDispatcher'
  <2>1. w \in Threads
    BY ConstantsAssumption DEF Threads, Runners, Servers
  <2>2. Stage(w) \notin Fetching
    BY <1>33, <2>1, StageOf DEF Offer, WakeLabels, Fetching, TypeOK, ControlTyped, Afters
  <2>3. /\ UNCHANGED <<place, eventQ, destroyed>>
        /\ \A u \in Threads \ {w} : pc'[u] = pc[u] /\ after'[u] = after[u] /\ disp'[u] = disp[u]
    BY <1>33, <2>1 DEF Offer, TypeOK, ControlTyped, DataTyped
  <2> QED
    BY <2>1, <2>2, <2>3, Quiet
<1>34. ASSUME NEW w \in Workers, Rest(w) PROVE NoForgottenDispatcher'
  <2>1. w \in Threads
    BY ConstantsAssumption DEF Threads, Runners, Servers
  <2>2. Stage(w) \notin Fetching
    BY <1>34, <2>1, StageOf DEF Rest, WakeLabels, Fetching, TypeOK, ControlTyped, Afters
  <2>3. /\ UNCHANGED <<place, eventQ, destroyed>>
        /\ \A u \in Threads \ {w} : pc'[u] = pc[u] /\ after'[u] = after[u] /\ disp'[u] = disp[u]
    BY <1>34, <2>1 DEF Rest, TypeOK, ControlTyped, DataTyped
  <2> QED
    BY <2>1, <2>2, <2>3, Quiet
<1>35. ASSUME NEW o \in Owners, StartEnter(o) PROVE NoForgottenDispatcher'
  <2>1. o \in Threads
    BY ConstantsAssumption DEF Threads, Runners, Servers
  <2>2. disp[o] \in Dispatchers
    BY <1>35, <2>1, DispTyped DEF StartEnter, UsesDispatcher
  <2>3. /\ UNCHANGED <<eventQ, destroyed, disp>>
        /\ \A x \in Dispatchers \ {disp[o]} : place'[x] = place[x]
        /\ \A u \in Threads \ {o} : pc'[u] = pc[u] /\ after'[u] = after[u]
    BY <1>35, <2>1 DEF StartEnter, QueueDispatcher, TypeOK, ControlTyped, DataTyped
  <2>4. place'[disp[o]] \in Served
    BY <1>35, <2>2 DEF StartEnter, QueueDispatcher, Served, TypeOK, DataTyped
  <2> QED
    BY <2>1, <2>2, <2>3, <2>4, Placed
<1>36. ASSUME NEW o \in Owners, WaitFlag(o) PROVE NoForgottenDispatcher'
  <2>1. o \in Threads
    BY ConstantsAssumption DEF Threads, Runners, Servers
  <2>2. Stage(o) \notin Fetching
    BY <1>36, <2>1, StageOf DEF WaitFlag, WakeLabels, Fetching, TypeOK, ControlTyped, Afters
  <2>3. /\ UNCHANGED <<place, eventQ, destroyed>>
        /\ \A u \in Threads \ {o} : pc'[u] = pc[u] /\ after'[u] = after[u] /\ disp'[u] = disp[u]
    BY <1>36, <2>1 DEF WaitFlag, TypeOK, ControlTyped, DataTyped
  <2> QED
    BY <2>1, <2>2, <2>3, Quiet
<1>37. ASSUME NEW o \in Owners, WaitSkips(o) PROVE NoForgottenDispatcher'
  <2>1. o \in Threads
    BY ConstantsAssumption DEF Threads, Runners, Servers
  <2>2. Stage(o) \notin Fetching
    BY <1>37, <2>1, StageOf DEF WaitSkips, WaitEnds, WakeLabels, Fetching, TypeOK, ControlTyped, Afters
  <2>3. /\ UNCHANGED <<place, eventQ, destroyed>>
        /\ \A u \in Threads \ {o} : pc'[u] = pc[u] /\ after'[u] = after[u] /\ disp'[u] = disp[u]
    BY <1>37, <2>1 DEF WaitSkips, WaitEnds, TypeOK, ControlTyped, DataTyped
  <2> QED
    BY <2>1, <2>2, <2>3, Quiet
<1>38. ASSUME NEW o \in Owners, WaitWakes(o) PROVE NoForgottenDispatcher'
  <2>1. o \in Threads
    BY ConstantsAssumption DEF Threads, Runners, Servers
  <2>2. Stage(o) \notin Fetching
    BY <1>38, <2>1, StageOf DEF WaitWakes, WaitEnds, WakeLabels, Fetching, TypeOK, ControlTyped, Afters
  <2>3. /\ UNCHANGED <<place, eventQ, destroyed>>
        /\ \A u \in Threads \ {o} : pc'[u] = pc[u] /\ after'[u] = after[u] /\ disp'[u] = disp[u]
    BY <1>38, <2>1 DEF WaitWakes, WaitEnds, TypeOK, ControlTyped, DataTyped
  <2> QED
    BY <2>1, <2>2, <2>3, Quiet
<1>39. ASSUME NEW o \in Owners, WaitUnflag(o) PROVE NoForgottenDispatcher'
  <2>1. o \in Threads
    BY ConstantsAssumption DEF Threads, Runners, Servers
  <2>2. Stage(o) \notin Fetching
    BY <1>39, <2>1, StageOf DEF WaitUnflag, WakeLabels, Fetching, TypeOK, ControlTyped, Afters
  <2>3. /\ UNCHANGED <<place, eventQ, destroyed>>
        /\ \A u \in Threads \ {o} : pc'[u] = pc[u] /\ after'[u] = after[u] /\ disp'[u] = disp[u]
    BY <1>39, <2>1 DEF WaitUnflag, TypeOK, ControlTyped, DataTyped
  <2> QED
    BY <2>1, <2>2, <2>3, Quiet
<1>40. ASSUME NEW o \in Owners, StopRelease(o) PROVE NoForgottenDispatcher'
  <2>1. o \in Threads
    BY ConstantsAssumption DEF Threads, Runners, Servers
  <2>2. Stage(o)' \in Fetching /\ disp'[o] = disp[o]
    BY <1>40, <2>1 DEF StopRelease, TypeOK, ControlTyped, Stage, WakeLabels, Fetching
  <2>3. /\ UNCHANGED <<place, eventQ, destroyed>>
        /\ \A u \in Threads \ {o} : pc'[u] = pc[u] /\ after'[u] = after[u] /\ disp'[u] = disp[u]
    BY <1>40, <2>1 DEF StopRelease, TypeOK, ControlTyped, DataTyped
  <2> QED
    BY <2>1, <2>2, <2>3, Quiet
<1>41. ASSUME NEW t \in Threads, CreateEvent(t) PROVE NoForgottenDispatcher'
  <2>1. t \in Threads
    BY ConstantsAssumption DEF Threads, Runners, Servers
  <2>2. Stage(t) \notin Fetching
    BY <1>41, <2>1, StageOf DEF CreateEvent, MayCreate, WakeLabels, Fetching, TypeOK, ControlTyped, Afters
  <2>3. /\ UNCHANGED <<place, eventQ, destroyed>>
        /\ \A u \in Threads \ {t} : pc'[u] = pc[u] /\ after'[u] = after[u] /\ disp'[u] = disp[u]
    BY <1>41, <2>1 DEF CreateEvent, MayCreate, TypeOK, ControlTyped, DataTyped
  <2> QED
    BY <2>1, <2>2, <2>3, Quiet
<1>42. ASSUME NEW w \in Workers, CallYields(w) PROVE NoForgottenDispatcher'
  <2>1. w \in Threads
    BY ConstantsAssumption DEF Threads, Runners, Servers
  <2>2. Stage(w) \notin Fetching
    BY <1>42, <2>1, StageOf DEF CallYields, WakeLabels, Fetching, TypeOK, ControlTyped, Afters
  <2>3. /\ UNCHANGED <<place, eventQ, destroyed>>
        /\ \A u \in Threads \ {w} : pc'[u] = pc[u] /\ after'[u] = after[u] /\ disp'[u] = disp[u]
    BY <1>42, <2>1 DEF CallYields, TypeOK, ControlTyped, DataTyped
  <2> QED
    BY <2>1, <2>2, <2>3, Quiet
<1>43. ASSUME NEW o \in Owners, StartClaim(o) PROVE NoForgottenDispatcher'
  <2>1. o \in Threads
    BY ConstantsAssumption DEF Threads, Runners, Servers
  <2>2. Stage(o) \notin Fetching
    BY <1>43, <2>1, StageOf DEF StartClaim, WakeLabels, Fetching, TypeOK, ControlTyped, Afters
  <2>3. /\ UNCHANGED <<place, eventQ, destroyed>>
        /\ \A u \in Threads \ {o} : pc'[u] = pc[u] /\ after'[u] = after[u] /\ disp'[u] = disp[u]
    BY <1>43, <2>1 DEF StartClaim, TypeOK, ControlTyped, DataTyped
  <2> QED
    BY <2>1, <2>2, <2>3, Quiet
<1>44. ASSUME NEW o \in Owners, WaitBegin(o) PROVE NoForgottenDispatcher'
  <2>1. o \in Threads
    BY ConstantsAssumption DEF Threads, Runners, Servers
  <2>2. Stage(o) \notin Fetching
    BY <1>44, <2>1, StageOf DEF WaitBegin, WakeLabels, Fetching, TypeOK, ControlTyped, Afters
  <2>3. /\ UNCHANGED <<place, eventQ, destroyed>>
        /\ \A u \in Threads \ {o} : pc'[u] = pc[u] /\ after'[u] = after[u] /\ disp'[u] = disp[u]
    BY <1>44, <2>1 DEF WaitBegin, TypeOK, ControlTyped, DataTyped
  <2> QED
    BY <2>1, <2>2, <2>3, Quiet
<1>45. ASSUME NEW o \in Owners, WaitTimesOut(o) PROVE NoForgottenDispatcher'
  <2>1. o \in Threads
    BY ConstantsAssumption DEF Threads, Runners, Servers
  <2>2. Stage(o) \notin Fetching
    BY <1>45, <2>1, StageOf DEF WaitTimesOut, WaitEnds, WakeLabels, Fetching, TypeOK, ControlTyped, Afters
  <2>3. /\ UNCHANGED <<place, eventQ, destroyed>>
        /\ \A u \in Threads \ {o} : pc'[u] = pc[u] /\ after'[u] = after[u] /\ disp'[u] = disp[u]
    BY <1>45, <2>1 DEF WaitTimesOut, WaitEnds, TypeOK, ControlTyped, DataTyped
  <2> QED
    BY <2>1, <2>2, <2>3, Quiet
<1>46. ASSUME NEW o \in Owners, StopDequeue(o) PROVE NoForgottenDispatcher'
  <2>1. o \in Threads
    BY ConstantsAssumption DEF Threads, Runners, Servers
  <2>2. disp[o] \in Dispatchers
    BY <1>46, <2>1, DispTyped DEF StopDequeue, UsesDispatcher
  <2>3. /\ UNCHANGED <<eventQ, destroyed, disp>>
        /\ \A x \in Dispatchers \ {disp[o]} : place'[x] = place[x]
        /\ \A u \in Threads \ {o} : pc'[u] = pc[u] /\ after'[u] = after[u]
    BY <1>46, <2>1 DEF StopDequeue, TypeOK, ControlTyped, DataTyped
  <2>4. Stage(o)' \in Fetching
    BY <1>46, <2>1 DEF StopDequeue, TypeOK, ControlTyped, Stage, WakeLabels, Fetching
  <2> QED
    BY <2>1, <2>2, <2>3, <2>4, Placed
<1>47. ASSUME OtherIO PROVE NoForgottenDispatcher'
  <2>1. Service \in Threads
    BY ConstantsAssumption DEF Threads, Runners, Servers
  <2>2. Stage(Service) \notin Fetching
    BY <1>47, <2>1, StageOf DEF OtherIO, EpollReturns, WakeLabels, Fetching, TypeOK, ControlTyped, Afters
  <2>3. /\ UNCHANGED <<place, eventQ, destroyed>>
        /\ \A u \in Threads \ {Service} : pc'[u] = pc[u] /\ after'[u] = after[u] /\ disp'[u] = disp[u]
    BY <1>47, <2>1 DEF OtherIO, EpollReturns, TypeOK, ControlTyped, DataTyped
  <2> QED
    BY <2>1, <2>2, <2>3, Quiet
<1>48. ASSUME Tick \/ UNCHANGED vars PROVE NoForgottenDispatcher'
  <2>1. UNCHANGED <<place, eventQ, destroyed, disp, pc, after>>
    BY <1>48 DEF Tick, vars
  <2>2. \A u \in Threads : Stage(u)' = Stage(u)
    BY <2>1, StageOthers
  <2> QED
    BY <2>1, <2>2, NothingMoved
<1> QED
  BY <1>1, <1>2, <1>3, <1>4, <1>5, <1>6, <1>7, <1>8, <1>9, <1>10,
     <1>11, <1>12, <1>13, <1>14, <1>15, <1>16, <1>17, <1>18, <1>19, <1>20,
     <1>21, <1>22, <1>23, <1>24, <1>25, <1>26, <1>27, <1>28, <1>29, <1>30,
     <1>31, <1>32, <1>33, <1>34, <1>35, <1>36, <1>37, <1>38, <1>39, <1>40,
     <1>41, <1>42, <1>43, <1>44, <1>45, <1>46, <1>47, <1>48
     DEF Next, Program, Choice, RunStep, HelperStep, ServiceStep, WorkerStep, OwnerStep

\* A dispatcher with events is on a queue that the service thread or its owner
\* serves, or its thread is about to queue it, however the release of one
\* thread, the claim of another and the queueing of a third interleave.
THEOREM NoneForgotten == Spec => []NoForgottenDispatcher
<1>1. Init => NoForgottenDispatcher
  BY DEF Init, NoForgottenDispatcher
<1>2. IndInv /\ NoForgottenDispatcher /\ [Next]_vars => NoForgottenDispatcher'
  BY NoForgottenStep DEF IndInv
<1> QED
  BY <1>1, <1>2, Inductive, PTL DEF Spec

-----------------------------------------------------------------------------
(* The sleep of the service thread *)

\* Only mprWaitForIO puts the service thread to sleep.
LEMMA ServiceDozes ==
  ASSUME TypeOK, Program(Service) \/ Choice(Service) \/ OtherIO \/ QueueIOEvent,
         pc'[Service] = "sleep"
  PROVE  Doze
<1>1. Service \in Threads /\ Service \notin Workers \cup Owners \cup Posters
  BY ConstantsAssumption DEF Threads
<1>2. ASSUME StagesTo(Service, Stage(Service)), pc[Service] \in WakeLabels PROVE FALSE
  <2>1. after[Service] \in {"next", "return", "done", "io"}
    BY <1>1 DEF TypeOK, ControlTyped, Afters
  <2> QED
    BY <1>2, <2>1, StageOf DEF StagesTo, WakeLabels
<1>3. ASSUME NEW l \in Plain, StagesTo(Service, l) PROVE FALSE
  BY <1>3 DEF StagesTo, Plain, WakeLabels
<1>4. ASSUME WakeStep(Service) PROVE Doze
  <2>1. pc[Service] \in WakeLabels
    BY <1>4 DEF WakeStep, TestWaiting, TestRequested, SetRequested, WriteBreak, WakeLabels
  <2> QED
    BY <1>1, <1>2, <1>4, <2>1, WakeStage DEF TypeOK
<1>5. ASSUME PostEvent(Service) PROVE Doze
  BY <1>1, <1>5, <1>3, QueueStage DEF PostEvent, Resume, Plain, TypeOK
<1>6. ASSUME CallDone(Service) PROVE Doze
  <2>1. Service \in Runners
    BY DEF Runners, Servers
  <2> QED
    BY <1>3, <1>6, <2>1, CallDoneStage DEF Plain
<1>7. ASSUME Resched(Service) PROVE Doze
  BY <1>1, <1>7, <1>3, GotoStage, ScheduleStage DEF Resched, Plain, TypeOK
<1>8. ASSUME RemoveEvent(Service) PROVE Doze
  BY <1>1, <1>8 DEF RemoveEvent
<1>9. ASSUME DestroyForeign(Service) PROVE Doze
  BY <1>1, <1>9 DEF DestroyForeign
<1>10. ASSUME DestroyInCall(Service) PROVE Doze
  BY <1>1, <1>10, <1>3, DestroyStage DEF DestroyInCall, Plain, TypeOK
<1>11. ASSUME QueueIOEvent PROVE Doze
  BY <1>1, <1>11, <1>3, QueueStage DEF QueueIOEvent, Plain, TypeOK
<1>12. ASSUME NextEvent(Service) PROVE Doze
  BY <1>1, <1>12 DEF NextEvent, Backs, TypeOK, ControlTyped
<1>13. ASSUME CallReturns(Service) PROVE Doze
  BY <1>1, <1>13 DEF CallReturns, TypeOK, ControlTyped
<1>14. ASSUME Reclaim(Service) PROVE Doze
  BY <1>1, <1>14 DEF Reclaim, TypeOK, ControlTyped
<1>15. ASSUME Release(Service) PROVE Doze
  BY <1>1, <1>15 DEF Release, TypeOK, ControlTyped
<1>16. ASSUME Unlink(Service) PROVE Doze
  BY <1>1, <1>16 DEF Unlink, TypeOK, ControlTyped
<1>17. ASSUME CreateEvent(Service) PROVE Doze
  BY <1>1, <1>17 DEF CreateEvent, TypeOK, ControlTyped
<1>18. ASSUME ScanReady PROVE Doze
  BY <1>1, <1>18 DEF ScanReady, TypeOK, ControlTyped
<1>19. ASSUME ScanEmpty PROVE Doze
  BY <1>1, <1>19 DEF ScanEmpty, TypeOK, ControlTyped
<1>20. ASSUME Enlist PROVE Doze
  BY <1>1, <1>20 DEF Enlist, TypeOK, ControlTyped
<1>21. ASSUME StartIdleWorker PROVE Doze
  BY <1>1, <1>21 DEF StartIdleWorker, TypeOK, ControlTyped
<1>22. ASSUME StartNewWorker PROVE Doze
  BY <1>1, <1>22 DEF StartNewWorker, TypeOK, ControlTyped
<1>23. ASSUME NoWorker PROVE Doze
  BY <1>1, <1>23 DEF NoWorker, TypeOK, ControlTyped
<1>24. ASSUME Park PROVE Doze
  BY <1>1, <1>24 DEF Park, TypeOK, ControlTyped
<1>25. ASSUME CheckCount PROVE Doze
  BY <1>1, <1>25 DEF CheckCount, TypeOK, ControlTyped
<1>26. ASSUME Wakes PROVE Doze
  BY <1>1, <1>26 DEF Wakes, EpollReturns, TypeOK, ControlTyped
<1>27. ASSUME OtherIO PROVE Doze
  BY <1>1, <1>27 DEF OtherIO, EpollReturns, TypeOK, ControlTyped
<1>28. ASSUME ClearWaiting PROVE Doze
  BY <1>1, <1>28 DEF ClearWaiting, TypeOK, ControlTyped
<1>29. ASSUME Drain PROVE Doze
  BY <1>1, <1>29 DEF Drain, TypeOK, ControlTyped
<1>30. ASSUME ResetWake PROVE Doze
  BY <1>1, <1>30 DEF ResetWake, TypeOK, ControlTyped
<1>31. ASSUME Refresh PROVE Doze
  BY <1>1, <1>31 DEF Refresh, TypeOK, ControlTyped
<1>32. ASSUME HelperReturns PROVE Doze
  BY <1>1, <1>32 DEF HelperReturns, TypeOK, ControlTyped
<1> QED
  BY <1>1, <1>2, <1>3, <1>4, <1>5, <1>6, <1>7, <1>8, <1>9, <1>10,
     <1>11, <1>12, <1>13, <1>14, <1>15, <1>16, <1>17, <1>18, <1>19, <1>20,
     <1>21, <1>22, <1>23, <1>24, <1>25, <1>26, <1>27, <1>28, <1>29, <1>30,
     <1>31, <1>32
     DEF Program, Choice, RunStep, HelperStep, ServiceStep

\* What a step of another thread t leaves alone
Aside(t) ==
  /\ \A u \in Threads \ {t} : pc'[u] = pc[u]
  /\ UNCHANGED <<clock, sleepUntil, willAwake>>
  /\ WakeStep(t) \/ (pc[t] \notin WakeLabels /\ breakFd' = breakFd)

LEMMA OthersStep ==
  ASSUME TypeOK, NEW t \in Threads \ {Service}, Program(t) \/ Choice(t)
  PROVE  Aside(t)
<1>1. ASSUME WakeStep(t) PROVE Aside(t)
  <2>1. \A u \in Threads \ {t} : pc'[u] = pc[u]
    BY <1>1, WakeStage DEF TypeOK, StagesTo
  <2> QED
    BY <1>1, <2>1 DEF Aside, WakeStep, TestWaiting, TestRequested, SetRequested, WriteBreak, WakeUnchanged
<1>2. ASSUME RemoveEvent(t) PROVE Aside(t)
  <2>1. \A u \in Threads \ {t} : pc'[u] = pc[u]
    BY <1>2, RemoveStage DEF TypeOK, StagesTo
  <2> QED
    BY <1>2, <2>1 DEF Aside, RemoveEvent, WakeLabels
<1>3. ASSUME t \in Runners, CallDone(t) PROVE Aside(t)
  <2>1. \A u \in Threads \ {t} : pc'[u] = pc[u]
    BY <1>3, CallDoneStage DEF StagesTo
  <2> QED
    BY <1>3, <2>1 DEF Aside, CallDone, WakeLabels
<1>4. ASSUME PostEvent(t) PROVE Aside(t)
  <2>1. \A u \in Threads \ {t} : pc'[u] = pc[u]
    BY <1>4, QueueStage DEF PostEvent, TypeOK, StagesTo, Resume, Plain
  <2> QED
    BY <1>4, <2>1 DEF Aside, PostEvent, WakeLabels
<1>5. ASSUME t \in Servers, Resched(t) PROVE Aside(t)
  <2>1. \A u \in Threads \ {t} : pc'[u] = pc[u]
    BY <1>5, GotoStage, ScheduleStage DEF Resched, TypeOK, StagesTo, Plain
  <2> QED
    BY <1>5, <2>1 DEF Aside, Resched, WakeLabels
<1>6. ASSUME t \in Owners, StopSchedule(t) PROVE Aside(t)
  <2>1. \A u \in Threads \ {t} : pc'[u] = pc[u]
    BY <1>6, GotoStage, ScheduleStage DEF StopSchedule, TypeOK, StagesTo, Plain
  <2> QED
    BY <1>6, <2>1 DEF Aside, StopSchedule, WakeLabels
<1>7. ASSUME DestroyForeign(t) PROVE Aside(t)
  <2>1. \A u \in Threads \ {t} : pc'[u] = pc[u]
    BY <1>7, DestroyStage DEF DestroyForeign, DestroyUnchanged, TypeOK, StagesTo, Plain
  <2> QED
    BY <1>7, <2>1 DEF Aside, DestroyForeign, DestroyUnchanged, WakeLabels
<1>8. ASSUME DestroyInCall(t) PROVE Aside(t)
  <2>1. \A u \in Threads \ {t} : pc'[u] = pc[u]
    BY <1>8, DestroyStage DEF DestroyInCall, DestroyUnchanged, TypeOK, StagesTo, Plain
  <2> QED
    BY <1>8, <2>1 DEF Aside, DestroyInCall, DestroyUnchanged, WakeLabels
<1>9. ASSUME t \in Owners, DestroyOwned(t) PROVE Aside(t)
  <2>1. \A u \in Threads \ {t} : pc'[u] = pc[u]
    BY <1>9, DestroyStage DEF DestroyOwned, DestroyUnchanged, TypeOK, StagesTo, Plain
  <2> QED
    BY <1>9, <2>1 DEF Aside, DestroyOwned, DestroyUnchanged, WakeLabels
<1>10. ASSUME t \in Runners, NextEvent(t) PROVE Aside(t)
  BY <1>10 DEF Aside, NextEvent, WakeLabels, TypeOK, ControlTyped
<1>11. ASSUME t \in Runners, CallReturns(t) PROVE Aside(t)
  BY <1>11 DEF Aside, CallReturns, WakeLabels, TypeOK, ControlTyped
<1>12. ASSUME t \in Servers, Reclaim(t) PROVE Aside(t)
  BY <1>12 DEF Aside, Reclaim, WakeLabels, TypeOK, ControlTyped
<1>13. ASSUME t \in Servers, Release(t) PROVE Aside(t)
  BY <1>13 DEF Aside, Release, WakeLabels, TypeOK, ControlTyped
<1>14. ASSUME t \in Servers, Unlink(t) PROVE Aside(t)
  BY <1>14 DEF Aside, Unlink, WakeLabels, TypeOK, ControlTyped
<1>15. ASSUME t \in Workers, NapEnds(t) PROVE Aside(t)
  BY <1>15 DEF Aside, NapEnds, WakeLabels, TypeOK, ControlTyped
<1>16. ASSUME t \in Workers, BecomeIdle(t) PROVE Aside(t)
  BY <1>16 DEF Aside, BecomeIdle, WakeLabels, TypeOK, ControlTyped
<1>17. ASSUME t \in Workers, Offer(t) PROVE Aside(t)
  BY <1>17 DEF Aside, Offer, WakeLabels, TypeOK, ControlTyped
<1>18. ASSUME t \in Workers, Rest(t) PROVE Aside(t)
  BY <1>18 DEF Aside, Rest, WakeLabels, TypeOK, ControlTyped
<1>19. ASSUME t \in Owners, StartEnter(t) PROVE Aside(t)
  BY <1>19 DEF Aside, StartEnter, WakeLabels, TypeOK, ControlTyped
<1>20. ASSUME t \in Owners, WaitFlag(t) PROVE Aside(t)
  BY <1>20 DEF Aside, WaitFlag, WakeLabels, TypeOK, ControlTyped
<1>21. ASSUME t \in Owners, WaitSkips(t) PROVE Aside(t)
  BY <1>21 DEF Aside, WaitSkips, WaitEnds, WakeLabels, TypeOK, ControlTyped
<1>22. ASSUME t \in Owners, WaitWakes(t) PROVE Aside(t)
  BY <1>22 DEF Aside, WaitWakes, WaitEnds, WakeLabels, TypeOK, ControlTyped
<1>23. ASSUME t \in Owners, WaitUnflag(t) PROVE Aside(t)
  BY <1>23 DEF Aside, WaitUnflag, WakeLabels, TypeOK, ControlTyped
<1>24. ASSUME t \in Owners, StopRelease(t) PROVE Aside(t)
  BY <1>24 DEF Aside, StopRelease, WakeLabels, TypeOK, ControlTyped
<1>25. ASSUME CreateEvent(t) PROVE Aside(t)
  BY <1>25 DEF Aside, CreateEvent, MayCreate, WakeLabels, TypeOK, ControlTyped
<1>26. ASSUME t \in Workers, CallYields(t) PROVE Aside(t)
  BY <1>26 DEF Aside, CallYields, WakeLabels, TypeOK, ControlTyped
<1>27. ASSUME t \in Owners, StartClaim(t) PROVE Aside(t)
  BY <1>27 DEF Aside, StartClaim, WakeLabels, TypeOK, ControlTyped
<1>28. ASSUME t \in Owners, WaitBegin(t) PROVE Aside(t)
  BY <1>28 DEF Aside, WaitBegin, WakeLabels, TypeOK, ControlTyped
<1>29. ASSUME t \in Owners, WaitTimesOut(t) PROVE Aside(t)
  BY <1>29 DEF Aside, WaitTimesOut, WaitEnds, WakeLabels, TypeOK, ControlTyped
<1>30. ASSUME t \in Owners, StopDequeue(t) PROVE Aside(t)
  BY <1>30 DEF Aside, StopDequeue, WakeLabels, TypeOK, ControlTyped
<1> QED
  BY <1>1, <1>2, <1>3, <1>4, <1>5, <1>6, <1>7, <1>8, <1>9, <1>10,
     <1>11, <1>12, <1>13, <1>14, <1>15, <1>16, <1>17, <1>18, <1>19, <1>20,
     <1>21, <1>22, <1>23, <1>24, <1>25, <1>26, <1>27, <1>28, <1>29, <1>30
     DEF Program, Choice, RunStep, HelperStep, WorkerStep, OwnerStep

\* A step after which the service sleeps
LEMMA SleepStep ==
  ASSUME TypeOK, [Next]_vars, pc'[Service] = "sleep"
  PROVE  \/ Doze
         \/ /\ pc[Service] = "sleep"
            /\ \/ Tick \/ UNCHANGED vars
               \/ \E t \in Threads \ {Service} : (Program(t) \/ Choice(t)) /\ Aside(t)
<1>1. Service \in Threads
  BY DEF Threads
<1>2. CASE Tick \/ UNCHANGED vars
  BY <1>2 DEF Tick, vars
<1>3. CASE OtherIO \/ QueueIOEvent \/ Program(Service) \/ Choice(Service)
  BY <1>3, ServiceDozes
<1>4. ASSUME NEW t \in Threads \ {Service}, Program(t) \/ Choice(t)
      PROVE  Aside(t) /\ pc[Service] = "sleep"
  BY <1>1, <1>4, OthersStep DEF Aside
<1> QED
  BY <1>2, <1>3, <1>4 DEF Next

\* The service is being woken, or its sleep is over.
Woken == WakeComing \/ sleepUntil <= clock

\* A wake that is under way while the service sleeps stays under way.
LEMMA WakeStays ==
  ASSUME TypeOK, WaitingInv, WakeFlagBacked, Woken, pc[Service] = "sleep",
         NEW t \in Threads \ {Service}, Aside(t)
  PROVE  Woken'
<1>1. CASE sleepUntil <= clock
  BY <1>1 DEF Aside, Woken
<1>2. CASE breakFd
  BY <1>2 DEF Aside, Woken, WakeComing, WakeStep, TestWaiting, TestRequested, SetRequested,
              WriteBreak, WakeUnchanged
<1>3. ASSUME NEW u \in Threads, pc[u] \in WakeLabels PROVE Woken'
  <2>1. CASE u # t
    BY <1>3, <2>1 DEF Aside, Woken, WakeComing
  <2>2. CASE u = t
    <3>1. WakeStep(t)
      BY <1>3, <2>2 DEF Aside
    <3>2. CASE TestWaiting(t)
      <4>1. pc'[t] = "test"
        BY <3>2 DEF TestWaiting, WaitingInv, TypeOK, ControlTyped
      <4> QED
        BY <4>1 DEF Woken, WakeComing, WakeLabels
    <3>3. CASE TestRequested(t)
      <4>1. CASE wakeRequested
        <5>1. Stage(Service) # "io"
          BY StageOf DEF WakeLabels
        <5>2. breakFd \/ \E w \in Threads : pc[w] = "write"
          BY <4>1, <5>1 DEF WakeFlagBacked
        <5>3. ASSUME NEW w \in Threads, pc[w] = "write" PROVE Woken'
          <6>1. w # t
            BY <3>3, <5>3 DEF TestRequested
          <6> QED
            BY <5>3, <6>1 DEF Aside, Woken, WakeComing, WakeLabels
        <5> QED
          BY <1>2, <5>2, <5>3
      <4>2. CASE ~wakeRequested
        <5>1. pc'[t] = "set"
          BY <3>3, <4>2 DEF TestRequested, TypeOK, ControlTyped
        <5> QED
          BY <5>1 DEF Woken, WakeComing, WakeLabels
      <4> QED
        BY <4>1, <4>2
    <3>4. CASE SetRequested(t)
      <4>1. pc'[t] = "write"
        BY <3>4 DEF SetRequested, TypeOK, ControlTyped
      <4> QED
        BY <4>1 DEF Woken, WakeComing, WakeLabels
    <3>5. CASE WriteBreak(t)
      BY <3>5 DEF WriteBreak, Woken, WakeComing
    <3> QED
      BY <3>1, <3>2, <3>3, <3>4, <3>5 DEF WakeStep
  <2> QED
    BY <2>1, <2>2
<1> QED
  BY <1>1, <1>2, <1>3 DEF Woken, WakeComing

-----------------------------------------------------------------------------
(* Pending dispatchers *)

LEMMA SchedulePending ==
  ASSUME TypeOK, NEW t \in Threads, NEW d \in Dispatchers, NEW q, NEW when, NEW l, NEW keep,
         Schedule(t, d, q, when, l, keep)
  PROVE  On("pending")' \subseteq On("pending")
BY DEF Schedule, QueueDispatcher, On, TypeOK, DataTyped

\* A step of t that concerns neither the worker pool nor the pending dispatchers
Apart(t) ==
  /\ On("pending")' \subseteq On("pending")
  /\ UNCHANGED <<idle, busy, napping>> /\ pc[t] # "offer"

\* The steps that concern the pool while the service sleeps
PoolStep(t) == NapEnds(t) \/ BecomeIdle(t) \/ Offer(t) \/ CallYields(t)

LEMMA ApartStep ==
  ASSUME TypeOK, WorkSet, NEW t \in Threads \ {Service}, Program(t) \/ Choice(t)
  PROVE  Apart(t) \/ (t \in Workers /\ PoolStep(t))
<1>1. ASSUME WakeStep(t) PROVE Apart(t)
  BY <1>1 DEF Apart, On, WakeStep, TestWaiting, TestRequested, SetRequested, WriteBreak, WakeUnchanged
<1>2. ASSUME RemoveEvent(t) PROVE Apart(t)
  <2>1. PICK d \in Dispatchers : UNCHANGED place \/ \E q : Schedule(t, d, q, due, "free", TRUE)
    BY <1>2 DEF RemoveEvent, RemoveFrom
  <2>2. On("pending")' \subseteq On("pending")
    BY <2>1, SchedulePending DEF On
  <2> QED
    BY <1>2, <2>2 DEF Apart, RemoveEvent
<1>3. ASSUME t \in Runners, CallDone(t) PROVE Apart(t)
  <2>1. disp[t] \in Dispatchers
    BY <1>3, DispTyped DEF CallDone, UsesDispatcher
  <2>2. UNCHANGED place \/ \E q, when : Schedule(t, disp[t], q, when, "next", TRUE)
    BY <1>3 DEF CallDone
  <2>3. On("pending")' \subseteq On("pending")
    BY <2>1, <2>2, SchedulePending DEF On
  <2> QED
    BY <1>3, <2>3 DEF Apart, CallDone
<1>4. ASSUME PostEvent(t) PROVE Apart(t)
  <2>1. target[t] \in Dispatchers
    BY <1>4 DEF PostEvent, WorkSet, HasWork
  <2>2. UNCHANGED place \/ \E q : Schedule(t, target[t], q, due, Resume(t), TRUE)
    BY <1>4 DEF PostEvent, Queue
  <2>3. On("pending")' \subseteq On("pending")
    BY <2>1, <2>2, SchedulePending DEF On
  <2> QED
    BY <1>4, <2>3 DEF Apart, PostEvent
<1>5. ASSUME t \in Servers, Resched(t) PROVE Apart(t)
  <2>1. disp[t] \in Dispatchers
    BY <1>5, DispTyped DEF Resched, UsesDispatcher
  <2>2. UNCHANGED place \/ Schedule(t, disp[t], eventQ[disp[t]], due, "return", FALSE)
    BY <1>5 DEF Resched
  <2>3. On("pending")' \subseteq On("pending")
    BY <2>1, <2>2, SchedulePending DEF On
  <2> QED
    BY <1>5, <2>3 DEF Apart, Resched
<1>6. ASSUME t \in Owners, StopSchedule(t) PROVE Apart(t)
  <2>1. disp[t] \in Dispatchers
    BY <1>6, DispTyped DEF StopSchedule, UsesDispatcher
  <2>2. UNCHANGED place \/ Schedule(t, disp[t], eventQ[disp[t]], due, "free", FALSE)
    BY <1>6 DEF StopSchedule
  <2>3. On("pending")' \subseteq On("pending")
    BY <2>1, <2>2, SchedulePending DEF On
  <2> QED
    BY <1>6, <2>3 DEF Apart, StopSchedule
<1>7. ASSUME DestroyForeign(t) PROVE Apart(t)
  BY <1>7 DEF Apart, DestroyForeign, Destroy, DestroyUnchanged, On, TypeOK, DataTyped
<1>8. ASSUME DestroyInCall(t) PROVE Apart(t)
  BY <1>8 DEF Apart, DestroyInCall, Destroy, DestroyUnchanged, On, TypeOK, DataTyped
<1>9. ASSUME t \in Owners, DestroyOwned(t) PROVE Apart(t)
  BY <1>9 DEF Apart, DestroyOwned, Destroy, DestroyUnchanged, On, TypeOK, DataTyped
<1>10. ASSUME t \in Runners, NextEvent(t) PROVE Apart(t)
  BY <1>10 DEF Apart, On, NextEvent
<1>11. ASSUME t \in Runners, CallReturns(t) PROVE Apart(t)
  BY <1>11 DEF Apart, On, CallReturns
<1>12. ASSUME t \in Servers, Reclaim(t) PROVE Apart(t)
  BY <1>12 DEF Apart, On, Reclaim
<1>13. ASSUME t \in Servers, Release(t) PROVE Apart(t)
  BY <1>13 DEF Apart, On, Release
<1>14. ASSUME t \in Servers, Unlink(t) PROVE Apart(t)
  BY <1>14 DEF Apart, On, Unlink, TypeOK, DataTyped
<1>15. ASSUME t \in Workers, Rest(t) PROVE Apart(t)
  BY <1>15 DEF Apart, On, Rest
<1>16. ASSUME t \in Owners, StartEnter(t) PROVE Apart(t)
  BY <1>16 DEF Apart, On, StartEnter, QueueDispatcher, TypeOK, DataTyped
<1>17. ASSUME t \in Owners, WaitFlag(t) PROVE Apart(t)
  BY <1>17 DEF Apart, On, WaitFlag
<1>18. ASSUME t \in Owners, WaitSkips(t) PROVE Apart(t)
  BY <1>18 DEF Apart, On, WaitSkips, WaitEnds
<1>19. ASSUME t \in Owners, WaitWakes(t) PROVE Apart(t)
  BY <1>19 DEF Apart, On, WaitWakes, WaitEnds
<1>20. ASSUME t \in Owners, WaitUnflag(t) PROVE Apart(t)
  BY <1>20 DEF Apart, On, WaitUnflag
<1>21. ASSUME t \in Owners, StopRelease(t) PROVE Apart(t)
  BY <1>21 DEF Apart, On, StopRelease
<1>22. ASSUME CreateEvent(t) PROVE Apart(t)
  BY <1>22 DEF Apart, On, CreateEvent, MayCreate
<1>23. ASSUME t \in Owners, StartClaim(t) PROVE Apart(t)
  BY <1>23 DEF Apart, On, StartClaim
<1>24. ASSUME t \in Owners, WaitBegin(t) PROVE Apart(t)
  BY <1>24 DEF Apart, On, WaitBegin
<1>25. ASSUME t \in Owners, WaitTimesOut(t) PROVE Apart(t)
  BY <1>25 DEF Apart, On, WaitTimesOut, WaitEnds
<1>26. ASSUME t \in Owners, StopDequeue(t) PROVE Apart(t)
  BY <1>26 DEF Apart, On, StopDequeue, TypeOK, DataTyped
<1> QED
  BY <1>1, <1>2, <1>3, <1>4, <1>5, <1>6, <1>7, <1>8, <1>9, <1>10,
     <1>11, <1>12, <1>13, <1>14, <1>15, <1>16, <1>17, <1>18, <1>19, <1>20,
     <1>21, <1>22, <1>23, <1>24, <1>25, <1>26
     DEF Program, Choice, RunStep, HelperStep, WorkerStep, OwnerStep, PoolStep

\* A worker that ends its nap makes no worker available.
LEMMA NapLowers ==
  ASSUME TypeOK, NEW w \in Workers, NapEnds(w), AvailableWorkers' > 0
  PROVE  AvailableWorkers > 0
<1>1. /\ IsFiniteSet(Workers) /\ idle \in SUBSET Workers /\ busy \in SUBSET Workers
      /\ napping \in SUBSET Workers /\ napping \ {w} \in SUBSET napping
  BY ConstantsAssumption DEF TypeOK, DataTyped
<1>2. IsFiniteSet(idle) /\ IsFiniteSet(busy) /\ IsFiniteSet(napping) /\ IsFiniteSet(napping \ {w})
  BY <1>1, FS_Subset
<1>3. Cardinality(napping \ {w}) <= Cardinality(napping)
  BY <1>1, <1>2, FS_Subset
<1> DEFINE I == Cardinality(idle)
           B == Cardinality(busy)
           N == Cardinality(napping)
           M == Cardinality(napping \ {w})
           W == Cardinality(Workers)
<1>4. I \in Nat /\ B \in Nat /\ N \in Nat /\ M \in Nat /\ W \in Nat /\ Cores \in Nat /\ M <= N
  BY <1>1, <1>2, <1>3, FS_CardinalityType, ConstantsAssumption
<1>5. idle' = idle /\ busy' = busy /\ napping' = napping \ {w}
  BY DEF NapEnds
<1>6. AvailableWorkers' = IF Cores - (B - M) <= 0 THEN 0 ELSE I + Lesser(W - B - I, Cores - (B - M))
  BY <1>5 DEF AvailableWorkers
<1>7. AvailableWorkers = IF Cores - (B - N) <= 0 THEN 0 ELSE I + Lesser(W - B - I, Cores - (B - N))
  BY DEF AvailableWorkers
<1> HIDE DEF I, B, N, M, W
<1> DEFINE p == Cores - (B - M)
           s == Cores - (B - N)
           r == W - B - I
<1>8. p \in Int /\ s \in Int /\ r \in Int /\ p <= s
  BY <1>4
<1>9. AvailableWorkers' = IF p <= 0 THEN 0 ELSE I + Lesser(r, p)
  BY <1>6
<1>10. AvailableWorkers = IF s <= 0 THEN 0 ELSE I + Lesser(r, s)
  BY <1>7
<1> HIDE DEF p, s, r
<1>11. ~(p <= 0) /\ ~(s <= 0)
  BY <1>8, <1>9
<1>12. Lesser(r, p) <= Lesser(r, s) /\ Lesser(r, p) \in Int /\ Lesser(r, s) \in Int
  BY <1>8 DEF Lesser
<1>13. AvailableWorkers' = I + Lesser(r, p) /\ AvailableWorkers = I + Lesser(r, s)
  BY <1>9, <1>10, <1>11
<1> QED
  BY <1>4, <1>12, <1>13

\* No step leaves the service asleep over a pending dispatcher that a worker
\* could run.
LEMMA NoStrandedStep ==
  ASSUME TypeOK, WorkSet, WaitingInv, WakeFlagBacked, NoStrandedPending, [Next]_vars
  PROVE  NoStrandedPending'
<1> DEFINE Offered == \E w \in Workers : pc[w] = "offer"
<1> SUFFICES ASSUME pc'[Service] = "sleep", On("pending")' # {}, AvailableWorkers' > 0
             PROVE  Woken' \/ Offered'
  BY DEF NoStrandedPending, Woken
<1>1. CASE Doze
  <2>1. On("pending")' = On("pending") /\ AvailableWorkers' = AvailableWorkers
    BY <1>1 DEF Doze, On, AvailableWorkers
  <2>2. sleepUntil' = clock /\ clock' = clock
    BY <1>1, <2>1 DEF Doze
  <2>3. clock \in Int
    BY ConstantsAssumption DEF TypeOK, DataTyped
  <2> QED
    BY <2>2, <2>3 DEF Woken
<1>2. CASE pc[Service] = "sleep" /\ (Tick \/ UNCHANGED vars)
  <2>1. /\ On("pending")' = On("pending") /\ AvailableWorkers' = AvailableWorkers
        /\ UNCHANGED <<pc, breakFd, sleepUntil>>
    BY <1>2 DEF Tick, vars, On, AvailableWorkers
  <2>2. Woken \/ Offered
    BY <1>2, <2>1 DEF NoStrandedPending, Woken
  <2>3. sleepUntil <= clock => sleepUntil' <= clock'
    BY <1>2, ConstantsAssumption DEF Tick, vars, TypeOK, DataTyped
  <2> QED
    BY <2>1, <2>2, <2>3 DEF Woken, WakeComing
<1>3. ASSUME pc[Service] = "sleep", NEW t \in Threads \ {Service}, Program(t) \/ Choice(t), Aside(t)
      PROVE  Woken' \/ Offered'
  <2>1. ASSUME Woken PROVE Woken'
    BY <1>3, <2>1, WakeStays
  <2>2. CASE Apart(t)
    <3>1. On("pending") # {} /\ AvailableWorkers > 0
      BY <2>2 DEF Apart, AvailableWorkers
    <3>2. Woken \/ Offered
      BY <1>3, <3>1 DEF NoStrandedPending, Woken
    <3>3. Offered => Offered'
      BY <1>3, <2>2 DEF Apart, Aside, Threads
    <3> QED
      BY <2>1, <3>2, <3>3
  <2>3. CASE t \in Workers /\ NapEnds(t)
    <3>1. On("pending") # {} /\ AvailableWorkers > 0
      BY <2>3, NapLowers DEF NapEnds, On
    <3>2. Woken \/ Offered
      BY <1>3, <3>1 DEF NoStrandedPending, Woken
    <3>3. Offered => Offered'
      BY <1>3, <2>3 DEF NapEnds, Aside, Threads
    <3> QED
      BY <2>1, <3>2, <3>3
  <2>4. CASE t \in Workers /\ (BecomeIdle(t) \/ CallYields(t))
    BY <2>4 DEF BecomeIdle, CallYields, TypeOK, ControlTyped
  <2>5. CASE t \in Workers /\ Offer(t)
    <3>1. On("pending")' = On("pending")
      BY <2>5 DEF Offer, On
    <3>2. pc'[t] = "wake"
      BY <2>5, <3>1 DEF Offer, TypeOK, ControlTyped
    <3> QED
      BY <3>2 DEF Woken, WakeComing, WakeLabels
  <2> QED
    BY <1>3, <2>2, <2>3, <2>4, <2>5, ApartStep DEF PoolStep
<1> QED
  BY <1>1, <1>2, <1>3, SleepStep

\* The service does not sleep over a pending dispatcher while a worker is
\* available, unless that worker is about to wake it (mprWakePendingDispatchers).
THEOREM NoneStranded == Spec => []NoStrandedPending
<1>1. Init => NoStrandedPending
  BY DEF Init, NoStrandedPending, Threads
<1>2. IndInv /\ NoStrandedPending /\ [Next]_vars => NoStrandedPending'
  BY NoStrandedStep DEF IndInv
<1> QED
  BY <1>1, <1>2, Inductive, PTL DEF Spec

-----------------------------------------------------------------------------
(* Events due while the service sleeps *)

\* The first event of d is due before the service gets up.
Early(d) == place[d] = "wait" /\ eventQ[d] # <<>> /\ due[eventQ[d][1]] < willAwake

NoneEarlier == \A d \in Dispatchers : Early(d)' => Early(d)

LEMMA FirstTyped ==
  ASSUME QueuesTyped, NEW d \in Dispatchers, eventQ[d] # <<>>
  PROVE  /\ 1 \in DOMAIN eventQ[d] /\ eventQ[d][1] \in Events /\ due[eventQ[d][1]] \in Nat
         /\ Len(eventQ[d]) \in Nat /\ Len(eventQ[d]) >= 1
<1>1. eventQ[d] \in Seq(Events)
  BY DEF QueuesTyped
<1>2. Len(eventQ[d]) \in Nat /\ Len(eventQ[d]) >= 1 /\ 1 \in DOMAIN eventQ[d]
  BY <1>1
<1> QED
  BY <1>2, QueueFacts

\* The events on the queues keep their times.
LEMMA DueKept ==
  ASSUME QueuesTyped, Linked, QueueChange, NEW d \in Dispatchers, eventQ[d] # <<>>
  PROVE  due'[eventQ[d][1]] = due[eventQ[d][1]]
<1>1. eventQ[d][1] \in Events /\ estate[eventQ[d][1]] = "queued"
  BY FirstTyped DEF Linked
<1>2. due' = due \/ \E e \in Events : estate[e] # "queued" /\ OnlyDue(e)
  BY DEF QueueChange, Steady, Creates, Ends, Puts, Takes, Empties
<1> QED
  BY <1>1, <1>2 DEF OnlyDue

\* The first event is not due earlier than the first one was, when none is queued.
LEMMA LaterHead ==
  ASSUME QueuesTyped, QueuesTyped', QueueInv, QueueChange, NEW d \in Dispatchers,
         \A e \in Events : estate'[e] = "queued" => estate[e] = "queued", eventQ'[d] # <<>>
  PROVE  eventQ[d] # <<>> /\ due[eventQ[d][1]] <= due'[eventQ'[d][1]]
<1>1. /\ due'[eventQ'[d][1]] \in Nat /\ Len(eventQ'[d]) \in Nat /\ Len(eventQ'[d]) >= 1
  <2>1. eventQ'[d] \in Seq(Events) /\ due' \in [Events -> Nat]
    BY DEF QueuesTyped
  <2>2. Len(eventQ'[d]) \in Nat /\ Len(eventQ'[d]) >= 1 /\ eventQ'[d][1] \in Events
    BY <2>1
  <2> QED
    BY <2>1, <2>2
<1>2. CASE eventQ'[d] = eventQ[d]
  <2>1. due'[eventQ[d][1]] = due[eventQ[d][1]]
    BY <1>2, DueKept DEF QueueInv
  <2> QED
    BY <1>1, <1>2, <2>1
<1>3. ASSUME NEW x \in Dispatchers, NEW i \in DOMAIN eventQ[x], Takes(x, i), eventQ'[d] # eventQ[d]
      PROVE  eventQ[d] # <<>> /\ due[eventQ[d][1]] <= due'[eventQ'[d][1]]
  <2>1. x = d /\ Removed(eventQ'[d], eventQ[d], i) /\ due' = due
    BY <1>3 DEF Takes
  <2> DEFINE q == eventQ[d]
             r == eventQ'[d]
  <2>2. /\ q \in Seq(Events) /\ Len(q) \in Nat /\ DOMAIN q = 1 .. Len(q) /\ i \in 1 .. Len(q)
        /\ Len(r) \in Nat /\ Len(r) >= 1
    BY <1>1, <1>3, <2>1, QueueFacts
  <2>3. Len(r) = Len(q) - 1 /\ Len(q) >= 2 /\ 1 \in 1 .. Len(q) /\ 2 \in 1 .. Len(q) /\ q # <<>>
    BY <2>1, <2>2 DEF Removed
  <2>4. r[1] = q[1] \/ r[1] = q[2]
    <3>1. CASE i = 1
      <4>1. 1 \in i .. Len(q) - 1
        BY <2>2, <2>3, <3>1
      <4> QED
        BY <2>1, <4>1 DEF Removed
    <3>2. CASE i # 1
      <4>1. 1 \in 1 .. i - 1
        BY <2>2, <3>2
      <4> QED
        BY <2>1, <4>1 DEF Removed
    <3> QED
      BY <3>1, <3>2
  <2>5. due[q[1]] <= due[q[2]] /\ due[q[1]] \in Nat /\ due[q[2]] \in Nat
    <3>1. due[q[1]] \in Nat /\ due[q[2]] \in Nat
      BY <2>3, QueueFacts
    <3>2. due[q[1]] <= due[q[2]]
      BY <2>2, <2>3 DEF QueueInv, QueuesSorted, SortedBy
    <3> QED
      BY <3>1, <3>2
  <2>6. due[q[1]] <= due[r[1]]
    BY <2>4, <2>5
  <2> QED
    BY <2>1, <2>3, <2>6
<1>4. ASSUME NEW x \in Dispatchers, NEW e \in Events, Puts(x, e) PROVE FALSE
  BY <1>4 DEF Puts, QueuesTyped
<1>5. ASSUME NEW x \in Dispatchers, Empties(x) PROVE eventQ'[d] = eventQ[d]
  BY <1>5 DEF Empties, QueuesTyped
<1>6. \/ eventQ' = eventQ \/ \E x \in Dispatchers : Empties(x)
      \/ \E x \in Dispatchers, e \in Events : Puts(x, e)
      \/ \E x \in Dispatchers : \E i \in DOMAIN eventQ[x] : Takes(x, i)
  BY DEF QueueChange, Steady, Creates, Ends
<1> QED
  BY <1>2, <1>3, <1>4, <1>5, <1>6

\* A step that takes or empties leaves events that are due no earlier.
LEMMA LaterHeads ==
  ASSUME QueuesTyped, QueuesTyped', QueueInv, QueueChange, UNCHANGED <<place, willAwake>>,
         willAwake \in Nat, \A e \in Events : estate'[e] = "queued" => estate[e] = "queued"
  PROVE  NoneEarlier
<1> SUFFICES ASSUME NEW d \in Dispatchers, Early(d)'
             PROVE  Early(d)
  BY DEF NoneEarlier
<1>1. place[d] = "wait" /\ eventQ'[d] # <<>> /\ due'[eventQ'[d][1]] < willAwake
  BY DEF Early
<1>2. eventQ[d] # <<>> /\ due[eventQ[d][1]] <= due'[eventQ'[d][1]]
  BY <1>1, LaterHead
<1>3. due[eventQ[d][1]] \in Nat
  BY <1>2, FirstTyped
<1>4. due'[eventQ'[d][1]] \in Nat
  <2>1. eventQ'[d] \in Seq(Events) /\ due' \in [Events -> Nat]
    BY DEF QueuesTyped
  <2>2. eventQ'[d][1] \in Events
    BY <1>1, <2>1
  <2> QED
    BY <2>1, <2>2
<1>5. due[eventQ[d][1]] < willAwake
  BY <1>1, <1>2, <1>3, <1>4
<1> QED
  BY <1>1, <1>2, <1>5 DEF Early

\* A step that puts no dispatcher on the waitQ and no event on a queue.
LEMMA SameHeads ==
  ASSUME QueuesTyped, Linked, QueueChange, UNCHANGED willAwake,
         \A d \in Dispatchers : place'[d] = "wait" => place[d] = "wait",
         \A d \in Dispatchers : eventQ'[d] # <<>> => eventQ'[d] = eventQ[d]
  PROVE  NoneEarlier
<1> SUFFICES ASSUME NEW d \in Dispatchers, Early(d)'
             PROVE  Early(d)
  BY DEF NoneEarlier
<1>1. place[d] = "wait" /\ eventQ[d] # <<>> /\ eventQ'[d] = eventQ[d] /\ due'[eventQ[d][1]] < willAwake
  BY DEF Early
<1>2. due'[eventQ[d][1]] = due[eventQ[d][1]]
  BY <1>1, DueKept
<1> QED
  BY <1>1, <1>2 DEF Early

\* mprScheduleDispatcher wakes the service for an event that is due early.
LEMMA ScheduleAlarm ==
  ASSUME TypeOK, NEW t \in Threads, NEW d \in Dispatchers, NEW l, NEW keep,
         Schedule(t, d, eventQ'[d], due', l, keep), UNCHANGED willAwake
  PROVE  ~Early(d)' \/ pc'[t] = "wake"
<1> DEFINE q == eventQ'[d]
<1>1. CASE place[d] = "run"
  BY <1>1 DEF Schedule, Early
<1>2. CASE place[d] # "run" /\ q # <<>> /\ due'[q[1]] > clock /\ due'[q[1]] < willAwake
  <2>1. CallWake(t, l, keep)
    BY <1>2 DEF Schedule
  <2> QED
    BY <2>1 DEF CallWake, TypeOK, ControlTyped
<1>3. CASE place[d] # "run" /\ q # <<>> /\ ~(due'[q[1]] > clock)
  <2>1. place' = [place EXCEPT ![d] = "ready"]
    BY <1>3 DEF Schedule, QueueDispatcher
  <2> QED
    BY <2>1 DEF Early, TypeOK, DataTyped
<1> QED
  BY <1>1, <1>2, <1>3 DEF Early

LEMMA ScheduleHeads ==
  ASSUME TypeOK, QueuesTyped, Linked, QueueChange, NEW t \in Threads, NEW d \in Dispatchers, NEW l, NEW keep,
         Schedule(t, d, eventQ'[d], due', l, keep), UNCHANGED willAwake,
         \A x \in Dispatchers \ {d} : eventQ'[x] = eventQ[x]
  PROVE  NoneEarlier \/ pc'[t] = "wake"
<1>1. \A x \in Dispatchers \ {d} : place'[x] = place[x]
  BY ScheduleMoves
<1>2. ASSUME NEW x \in Dispatchers \ {d}, Early(x)' PROVE Early(x)
  <2>1. place[x] = "wait" /\ eventQ[x] # <<>> /\ eventQ'[x] = eventQ[x] /\ due'[eventQ[x][1]] < willAwake
    BY <1>1, <1>2 DEF Early
  <2>2. due'[eventQ[x][1]] = due[eventQ[x][1]]
    BY <2>1, DueKept
  <2> QED
    BY <2>1, <2>2 DEF Early
<1>3. ~Early(d)' \/ pc'[t] = "wake"
  BY ScheduleAlarm
<1> QED
  BY <1>2, <1>3 DEF NoneEarlier

\* While the service sleeps, an event comes to be due early only with a wake.
LEMMA EarlyStep ==
  ASSUME TypeOK, DataTyped', WorkSet, QueueInv, QueueChange, NEW t \in Threads \ {Service},
         Program(t) \/ Choice(t), Aside(t)
  PROVE  NoneEarlier \/ pc'[t] = "wake"
<1> DEFINE Goal == NoneEarlier \/ pc'[t] = "wake"
<1>1. QueuesTyped /\ QueuesTyped' /\ Linked /\ UNCHANGED willAwake /\ willAwake \in Nat
  BY DEF QueuesTyped, TypeOK, DataTyped, QueueInv, Aside
<1>2. ASSUME UNCHANGED <<place, eventQ>> PROVE Goal
  BY <1>1, <1>2, SameHeads
<1>3. ASSUME NEW d \in Dispatchers, NEW l, NEW keep, Schedule(t, d, eventQ'[d], due', l, keep),
             \A x \in Dispatchers \ {d} : eventQ'[x] = eventQ[x]
      PROVE  Goal
  BY <1>1, <1>3, ScheduleHeads
<1>4. ASSUME NEW d \in Dispatchers, NEW l, Destroy(t, d, l) PROVE Goal
  <2>1. \A x \in Dispatchers : eventQ'[x] # <<>> => eventQ'[x] = eventQ[x]
    BY <1>1, <1>4 DEF Destroy, QueuesTyped
  <2>2. \A x \in Dispatchers : place'[x] = "wait" => place[x] = "wait"
    BY <1>4 DEF Destroy, TypeOK, DataTyped
  <2> QED
    BY <1>1, <2>1, <2>2, SameHeads
<1>5. ASSUME UNCHANGED eventQ, NEW d, NEW p, p # "wait", place' = [place EXCEPT ![d] = p] PROVE Goal
  <2>1. \A x \in Dispatchers : place'[x] = "wait" => place[x] = "wait"
    BY <1>5 DEF TypeOK, DataTyped
  <2> QED
    BY <1>1, <1>5, <2>1, SameHeads
<1> HIDE DEF Goal
<1>6. ASSUME WakeStep(t) PROVE Goal
  BY <1>2, <1>6 DEF WakeStep, TestWaiting, TestRequested, SetRequested, WriteBreak, WakeUnchanged
<1>7. ASSUME RemoveEvent(t) PROVE Goal
  <2>0. PICK d \in Dispatchers : \E e, q : RemoveFrom(t, d, e, q)
    BY <1>7 DEF RemoveEvent
  <2>1. PICK e, q : RemoveFrom(t, d, e, q)
    BY <2>0
  <2>2. due' = due
    BY <1>7 DEF RemoveEvent
  <2>3. eventQ'[d] = q /\ \A x \in Dispatchers \ {d} : eventQ'[x] = eventQ[x]
    BY <1>1, <2>1 DEF RemoveFrom, QueuesTyped
  <2>4. CASE Schedule(t, d, q, due, "free", TRUE)
    BY <1>3, <2>2, <2>3, <2>4
  <2>5. CASE UNCHANGED place
    <3>1. \A x \in Events : estate'[x] = "queued" => estate[x] = "queued"
      BY <1>1, <2>1 DEF RemoveFrom, QueuesTyped
    <3> QED
      BY <1>1, <2>5, <3>1, LaterHeads DEF Goal
  <2> QED
    BY <2>1, <2>4, <2>5 DEF RemoveFrom
<1>8. ASSUME t \in Runners, NextEvent(t) PROVE Goal
  <2>1. \A x \in Events : estate'[x] = "queued" => estate[x] = "queued"
    BY <1>1, <1>8 DEF NextEvent, QueuesTyped
  <2>2. UNCHANGED place
    BY <1>8 DEF NextEvent
  <2> QED
    BY <1>1, <2>1, <2>2, LaterHeads DEF Goal
<1>9. ASSUME t \in Runners, CallDone(t) PROVE Goal
  <2>1. disp[t] \in Dispatchers
    BY <1>9, DispTyped DEF CallDone, UsesDispatcher
  <2>2. CASE UNCHANGED <<place, eventQ>>
    BY <1>2, <2>2
  <2>3. CASE \E q : /\ eventQ' = [eventQ EXCEPT ![disp[t]] = q]
                    /\ Schedule(t, disp[t], q, due', "next", TRUE)
    <3>1. PICK q : /\ eventQ' = [eventQ EXCEPT ![disp[t]] = q]
                   /\ Schedule(t, disp[t], q, due', "next", TRUE)
      BY <2>3
    <3>2. eventQ'[disp[t]] = q /\ \A x \in Dispatchers \ {disp[t]} : eventQ'[x] = eventQ[x]
      BY <1>1, <2>1, <3>1 DEF QueuesTyped
    <3>3. Schedule(t, disp[t], eventQ'[disp[t]], due', "next", TRUE)
      BY <2>1, <3>1, <3>2
    <3> QED
      BY <1>3, <2>1, <3>2, <3>3
  <2> QED
    BY <1>9, <2>2, <2>3 DEF CallDone
<1>10. ASSUME PostEvent(t) PROVE Goal
  <2>1. target[t] \in Dispatchers /\ due' = due
    BY <1>10 DEF PostEvent, WorkSet, HasWork
  <2>2. CASE UNCHANGED <<place, eventQ>>
    BY <1>2, <2>2
  <2>3. CASE \E q : /\ eventQ' = [eventQ EXCEPT ![target[t]] = q]
                    /\ Schedule(t, target[t], q, due, Resume(t), TRUE)
    <3>1. PICK q : /\ eventQ' = [eventQ EXCEPT ![target[t]] = q]
                   /\ Schedule(t, target[t], q, due, Resume(t), TRUE)
      BY <2>3
    <3>2. eventQ'[target[t]] = q /\ \A x \in Dispatchers \ {target[t]} : eventQ'[x] = eventQ[x]
      BY <1>1, <2>1, <3>1 DEF QueuesTyped
    <3>3. Schedule(t, target[t], eventQ'[target[t]], due', Resume(t), TRUE)
      BY <2>1, <3>1, <3>2
    <3> QED
      BY <1>3, <2>1, <3>2, <3>3
  <2> QED
    BY <1>10, <2>2, <2>3 DEF PostEvent, Queue
<1>11. ASSUME t \in Servers, Resched(t) PROVE Goal
  <2>1. disp[t] \in Dispatchers /\ UNCHANGED <<eventQ, due>>
    BY <1>11, DispTyped DEF Resched, UsesDispatcher
  <2>2. UNCHANGED place \/ Schedule(t, disp[t], eventQ[disp[t]], due, "return", FALSE)
    BY <1>11 DEF Resched
  <2> QED
    BY <1>2, <1>3, <2>1, <2>2
<1>12. ASSUME t \in Owners, StopSchedule(t) PROVE Goal
  <2>1. disp[t] \in Dispatchers /\ UNCHANGED <<eventQ, due>>
    BY <1>12, DispTyped DEF StopSchedule, UsesDispatcher
  <2>2. UNCHANGED place \/ Schedule(t, disp[t], eventQ[disp[t]], due, "free", FALSE)
    BY <1>12 DEF StopSchedule
  <2> QED
    BY <1>2, <1>3, <2>1, <2>2
<1>13. ASSUME DestroyForeign(t) PROVE Goal
  BY <1>4, <1>13 DEF DestroyForeign
<1>14. ASSUME DestroyInCall(t) PROVE Goal
  <2>1. disp[t] \in Dispatchers
    BY <1>14, DispTyped DEF DestroyInCall, UsesDispatcher
  <2> QED
    BY <1>4, <1>14, <2>1 DEF DestroyInCall
<1>15. ASSUME t \in Owners, DestroyOwned(t) PROVE Goal
  <2>1. disp[t] \in Dispatchers
    BY <1>15, DispTyped DEF DestroyOwned, UsesDispatcher
  <2> QED
    BY <1>4, <1>15, <2>1 DEF DestroyOwned
<1>16. ASSUME t \in Owners, StartEnter(t) PROVE Goal
  BY <1>2, <1>5, <1>16 DEF StartEnter, QueueDispatcher
<1>17. ASSUME Unlink(t) \/ StopDequeue(t) PROVE Goal
  BY <1>5, <1>17 DEF Unlink, StopDequeue
<1>18. ASSUME t \in Runners, CallReturns(t) PROVE Goal
  BY <1>2, <1>18 DEF CallReturns
<1>19. ASSUME t \in Servers, Reclaim(t) PROVE Goal
  BY <1>2, <1>19 DEF Reclaim
<1>20. ASSUME t \in Servers, Release(t) PROVE Goal
  BY <1>2, <1>20 DEF Release
<1>21. ASSUME t \in Workers, NapEnds(t) PROVE Goal
  BY <1>2, <1>21 DEF NapEnds
<1>22. ASSUME t \in Workers, BecomeIdle(t) PROVE Goal
  BY <1>2, <1>22 DEF BecomeIdle
<1>23. ASSUME t \in Workers, Offer(t) PROVE Goal
  BY <1>2, <1>23 DEF Offer
<1>24. ASSUME t \in Workers, Rest(t) PROVE Goal
  BY <1>2, <1>24 DEF Rest
<1>25. ASSUME t \in Owners, WaitFlag(t) PROVE Goal
  BY <1>2, <1>25 DEF WaitFlag
<1>26. ASSUME t \in Owners, WaitSkips(t) PROVE Goal
  BY <1>2, <1>26 DEF WaitSkips, WaitEnds
<1>27. ASSUME t \in Owners, WaitWakes(t) PROVE Goal
  BY <1>2, <1>27 DEF WaitWakes, WaitEnds
<1>28. ASSUME t \in Owners, WaitUnflag(t) PROVE Goal
  BY <1>2, <1>28 DEF WaitUnflag
<1>29. ASSUME t \in Owners, StopRelease(t) PROVE Goal
  BY <1>2, <1>29 DEF StopRelease
<1>30. ASSUME CreateEvent(t) PROVE Goal
  BY <1>2, <1>30 DEF CreateEvent, MayCreate
<1>31. ASSUME t \in Workers, CallYields(t) PROVE Goal
  BY <1>2, <1>31 DEF CallYields
<1>32. ASSUME t \in Owners, StartClaim(t) PROVE Goal
  BY <1>2, <1>32 DEF StartClaim
<1>33. ASSUME t \in Owners, WaitBegin(t) PROVE Goal
  BY <1>2, <1>33 DEF WaitBegin
<1>34. ASSUME t \in Owners, WaitTimesOut(t) PROVE Goal
  BY <1>2, <1>34 DEF WaitTimesOut, WaitEnds
<1> QED
  BY <1>6, <1>7, <1>8, <1>9, <1>10,
     <1>11, <1>12, <1>13, <1>14, <1>15, <1>16, <1>17, <1>18, <1>19, <1>20,
     <1>21, <1>22, <1>23, <1>24, <1>25, <1>26, <1>27, <1>28, <1>29, <1>30,
     <1>31, <1>32, <1>33, <1>34
     DEF Program, Choice, RunStep, HelperStep, WorkerStep, OwnerStep, Goal

\* mprWaitForIO is called for no longer than until the first event is due.
LEMMA DozeInTime ==
  ASSUME TypeOK, Doze, NEW d \in Dispatchers, Early(d)'
  PROVE  sleepUntil' <= clock'
<1>1. PICK delay \in IdleTicks :
         /\ willAwake' = Lesser(now + delay, Forever)
         /\ sleepUntil' = IF On("pending") # {} /\ AvailableWorkers # 0 THEN clock
                          ELSE IF now + delay > MaxTime THEN Forever
                          ELSE Lesser(clock + delay, MaxTime)
  BY DEF Doze
<1>2. /\ UNCHANGED <<clock, now, place, eventQ, due>> /\ clock \in 0 .. MaxTime /\ now \in 0 .. MaxTime
      /\ MaxTime \in Nat /\ Forever \in Nat /\ QueuesTyped
  BY ConstantsAssumption DEF Doze, TypeOK, DataTyped, QueuesTyped, Forever
<1>3. /\ d \in On("wait") /\ eventQ[d] # <<>> /\ due[eventQ[d][1]] < willAwake'
      /\ due[eventQ[d][1]] \in Nat
  BY <1>2, FirstTyped DEF Early, On
<1>4. ASSUME delay = 0 PROVE sleepUntil' <= clock'
  <2>1. ~(now + delay > MaxTime) /\ Lesser(clock + delay, MaxTime) = clock
    BY <1>2, <1>4 DEF Lesser
  <2> QED
    BY <1>1, <1>2, <2>1
<1>5. CASE On("ready") # {}
  BY <1>4, <1>5 DEF IdleTicks
<1>6. CASE On("ready") = {}
  <2> DEFINE Left(x) == IF due[eventQ[x][1]] <= now THEN 0 ELSE due[eventQ[x][1]] - now
             left == {Forever} \cup {Left(x) : x \in {y \in On("wait") : eventQ[y] # <<>>}}
  <2>1. delay \in left /\ \A x \in left : delay <= x
    BY <1>6 DEF IdleTicks
  <2>2. Left(d) \in left
    BY <1>3
  <2>3. \A x \in left : x \in Nat
    <3>1. ASSUME NEW x \in On("wait"), eventQ[x] # <<>> PROVE Left(x) \in Nat
      <4>1. due[eventQ[x][1]] \in Nat
        BY <1>2, <3>1, FirstTyped DEF On
      <4> QED
        BY <1>2, <4>1
    <3> QED
      BY <1>2, <3>1
  <2>4. delay \in Nat /\ delay <= Left(d)
    BY <2>1, <2>2, <2>3
  <2> HIDE DEF left
  <2>5. CASE due[eventQ[d][1]] <= now
    BY <1>4, <2>4, <2>5
  <2>6. CASE ~(due[eventQ[d][1]] <= now)
    <3>1. now + delay <= due[eventQ[d][1]]
      BY <1>2, <1>3, <2>4, <2>6
    <3>2. willAwake' <= now + delay
      BY <1>1, <1>2, <2>4 DEF Lesser
    <3>3. willAwake' \in Int
      BY <1>1, <1>2, <2>4 DEF Lesser
    <3> QED
      BY <1>2, <1>3, <2>4, <3>1, <3>2, <3>3
  <2> QED
    BY <2>5, <2>6
<1> QED
  BY <1>5, <1>6

\* No step leaves the service asleep beyond the time an event is due.
LEMMA NoOversleepStep ==
  ASSUME TypeOK, DataTyped', WorkSet, WaitingInv, WakeFlagBacked, QueueInv, NoOversleep, [Next]_vars
  PROVE  NoOversleep'
<1> SUFFICES ASSUME pc'[Service] = "sleep", NEW d \in Dispatchers, Early(d)'
             PROVE  Woken'
  BY DEF NoOversleep, Early, On, Woken
<1>1. ASSUME pc[Service] = "sleep", NEW x \in Dispatchers, Early(x) PROVE Woken
  BY <1>1 DEF NoOversleep, Early, On, Woken
<1>2. CASE Doze
  BY <1>2, DozeInTime DEF Woken
<1>3. CASE pc[Service] = "sleep" /\ (Tick \/ UNCHANGED vars)
  <2>1. Early(d) /\ UNCHANGED <<pc, breakFd, sleepUntil>>
    BY <1>3 DEF Tick, vars, Early
  <2>2. sleepUntil <= clock => sleepUntil' <= clock'
    BY <1>3, ConstantsAssumption DEF Tick, vars, TypeOK, DataTyped
  <2> QED
    BY <1>1, <1>3, <2>1, <2>2 DEF Woken, WakeComing
<1>4. ASSUME pc[Service] = "sleep", NEW t \in Threads \ {Service}, Program(t) \/ Choice(t), Aside(t)
      PROVE  Woken'
  <2>1. QueueChange
    BY QueueStep DEF QueueInv
  <2>2. CASE pc'[t] = "wake"
    BY <2>2 DEF Woken, WakeComing, WakeLabels
  <2>3. CASE NoneEarlier
    <3>1. Woken
      BY <1>1, <1>4, <2>3 DEF NoneEarlier
    <3> QED
      BY <1>4, <3>1, WakeStays
  <2> QED
    BY <1>4, <2>1, <2>2, <2>3, EarlyStep
<1> QED
  BY <1>2, <1>3, <1>4, SleepStep

\* The service never sleeps beyond an event that is due before the time it told
\* the others, unless a wake is on its way.
THEOREM OnTime == Spec => []NoOversleep
<1>1. Init => NoOversleep
  BY DEF Init, NoOversleep, Threads
<1>2. IndInv /\ IndInv' /\ QueueInv /\ NoOversleep /\ [Next]_vars => NoOversleep'
  BY NoOversleepStep DEF IndInv, TypeOK
<1> QED
  BY <1>1, <1>2, Inductive, QueuesRight, PTL DEF Spec

-----------------------------------------------------------------------------
(* Owners that wait *)

\* Owner o has set MPR_DISPATCHER_WAITING and dispatches or blocks.
Announced(o) == back[o] = "block" /\ Stage(o) \in {"next", "call", "done", "block"}

\* Dispatcher d is on the runQ, with an event.
Runs(d) == d \notin destroyed /\ place[d] = "run" /\ eventQ[d] # <<>>

\* An owner that has announced that it waits is flagged, and signalled unless its
\* deadline is no later than the first event.
SignalInv ==
  \A o \in Owners :
    /\ pc[o] = "block" => back[o] = "block"
    /\ Announced(o) =>
         /\ disp[o] \in waitFlag
         /\ Runs(disp[o]) => disp[o] \in dcond \/ deadline[o] <= due[eventQ[disp[o]][1]]

NothingQueued == \A e \in Events : estate'[e] = "queued" => estate[e] = "queued"

\* Who waits on d is signalled if an event is queued.
Attended(d) ==
  /\ destroyed \subseteq destroyed'
  /\ d \in waitFlag => d \in waitFlag'
  /\ d \in dcond => d \in dcond'
  /\ place'[d] = "run" => place[d] = "run"
  /\ d \in waitFlag /\ place'[d] = "run" =>
       d \in dcond' \/ eventQ'[d] = eventQ[d] \/ NothingQueued

\* The step is none of owner o.
Unmoved(o) ==
  /\ pc'[o] = pc[o] /\ after'[o] = after[o] /\ back'[o] = back[o]
  /\ disp'[o] = disp[o] /\ deadline'[o] = deadline[o]

LEMMA ScheduleAttends ==
  ASSUME TypeOK, NEW t \in Threads, NEW d \in Dispatchers, NEW q, NEW when, NEW l, NEW keep,
         Schedule(t, d, q, when, l, keep), UNCHANGED <<waitFlag, destroyed>>,
         \A x \in Dispatchers \ {d} : eventQ'[x] = eventQ[x], NEW x \in Dispatchers
  PROVE  Attended(x)
<1>1. CASE x # d
  <2>1. place'[x] = place[x]
    BY <1>1, ScheduleMoves
  <2>2. dcond \subseteq dcond'
    BY DEF Schedule
  <2> QED
    BY <1>1, <2>1, <2>2 DEF Attended
<1>2. CASE x = d /\ place[d] = "run"
  BY <1>2 DEF Attended, Schedule
<1>3. CASE x = d /\ place[d] # "run"
  <2>1. place'[d] # "run"
    BY <1>3 DEF Schedule, QueueDispatcher, TypeOK, DataTyped
  <2>2. dcond \subseteq dcond'
    BY DEF Schedule
  <2> QED
    BY <1>3, <2>1, <2>2 DEF Attended
<1> QED
  BY <1>1, <1>2, <1>3

LEMMA QueueAttends ==
  ASSUME TypeOK, NEW t \in Threads, NEW d \in Dispatchers, NEW e, NEW when, NEW l,
         Queue(t, d, e, when, l), UNCHANGED <<waitFlag, destroyed>>, NEW x \in Dispatchers
  PROVE  Attended(x)
<1>1. CASE d \in destroyed
  BY <1>1 DEF Queue, Attended
<1>2. CASE d \notin destroyed
  <2>1. PICK q : Schedule(t, d, q, when, l, TRUE) /\ eventQ' = [eventQ EXCEPT ![d] = q]
    BY <1>2 DEF Queue
  <2>2. \A y \in Dispatchers \ {d} : eventQ'[y] = eventQ[y]
    BY <2>1 DEF TypeOK, DataTyped
  <2> QED
    BY <2>1, <2>2, ScheduleAttends
<1> QED
  BY <1>1, <1>2

LEMMA DestroyAttends ==
  ASSUME TypeOK, NEW t \in Threads, NEW d \in Dispatchers, NEW l, Destroy(t, d, l),
         UNCHANGED waitFlag, NEW x \in Dispatchers
  PROVE  Attended(x)
<1>1. destroyed \subseteq destroyed' /\ dcond \subseteq dcond'
  BY DEF Destroy
<1>2. place'[x] = "run" => place[x] = "run"
  BY DEF Destroy, TypeOK, DataTyped
<1>3. NothingQueued
  BY DEF Destroy, NothingQueued, TypeOK, DataTyped
<1> QED
  BY <1>1, <1>2, <1>3 DEF Attended

LEMMA RemoveAttends ==
  ASSUME TypeOK, NEW t \in Threads, RemoveEvent(t), NEW x \in Dispatchers
  PROVE  Attended(x)
<1>1. PICK d \in Dispatchers : \E e, q : RemoveFrom(t, d, e, q)
  BY DEF RemoveEvent
<1>2. PICK e, q : RemoveFrom(t, d, e, q)
  BY <1>1
<1>3. UNCHANGED <<waitFlag, destroyed>>
  BY DEF RemoveEvent
<1>4. \A y \in Dispatchers \ {d} : eventQ'[y] = eventQ[y]
  BY <1>2 DEF RemoveFrom, TypeOK, DataTyped
<1>5. CASE Schedule(t, d, q, due, "free", TRUE)
  BY <1>3, <1>4, <1>5, ScheduleAttends
<1>6. CASE UNCHANGED <<place, dcond>>
  <2>1. NothingQueued
    BY <1>2 DEF RemoveFrom, NothingQueued, TypeOK, DataTyped
  <2> QED
    BY <1>3, <1>6, <2>1 DEF Attended
<1> QED
  BY <1>2, <1>5, <1>6 DEF RemoveFrom

LEMMA CallDoneAttends ==
  ASSUME TypeOK, WorkSet, NEW t \in Runners, CallDone(t), NEW x \in Dispatchers
  PROVE  Attended(x)
<1>1. disp[t] \in Dispatchers /\ t \in Threads
  BY DispTyped DEF CallDone, UsesDispatcher, Runners, Servers, Threads
<1>2. UNCHANGED <<waitFlag, destroyed>>
  BY DEF CallDone
<1>3. CASE UNCHANGED <<place, dcond, eventQ>>
  BY <1>2, <1>3 DEF Attended
<1>4. CASE \E q, when : /\ eventQ' = [eventQ EXCEPT ![disp[t]] = q]
                        /\ Schedule(t, disp[t], q, when, "next", TRUE)
  <2>1. PICK q, when : /\ eventQ' = [eventQ EXCEPT ![disp[t]] = q]
                       /\ Schedule(t, disp[t], q, when, "next", TRUE)
    BY <1>4
  <2>2. \A y \in Dispatchers \ {disp[t]} : eventQ'[y] = eventQ[y]
    BY <2>1 DEF TypeOK, DataTyped
  <2> QED
    BY <1>1, <1>2, <2>1, <2>2, ScheduleAttends
<1> QED
  BY <1>3, <1>4 DEF CallDone

LEMMA StageDisp ==
  ASSUME WorkSet, NEW t \in Threads, Stage(t) \in UsesDispatcher
  PROVE  disp[t] \in Dispatchers
BY DEF WorkSet, HasWork

\* A dispatcher reserved for a worker is none that an owner holds.
LEMMA ServiceAttends ==
  ASSUME TypeOK, WorkSet, JobHolders, ReservedOnce, OwnerHolds, NEW o \in Owners, ServiceStep
  PROVE  Unmoved(o) /\ (Announced(o) => Attended(disp[o]))
<1> DEFINE Goal == Unmoved(o) /\ (Announced(o) => Attended(disp[o]))
<1>1. ASSUME UNCHANGED <<dpVars, evVars>>, Unmoved(o) PROVE Goal
  BY <1>1 DEF Attended
<1>2. Announced(o) => disp[o] \in Dispatchers /\ owner[disp[o]] = o
  BY StageDisp DEF Announced, UsesDispatcher, OwnerHolds, Threads
<1>3. o # Service /\ o \notin Workers /\ o \in Threads /\ o # Reserved
  BY ConstantsAssumption DEF Threads
<1> HIDE DEF Goal
<1>4. ASSUME ScanReady PROVE Goal
  <2>1. Unmoved(o) /\ UNCHANGED <<destroyed, waitFlag, dcond, eventQ>>
    BY <1>3, <1>4 DEF ScanReady, Unmoved, TypeOK, ControlTyped, DataTyped
  <2>2. \A x \in Dispatchers : place'[x] = "run" => place[x] = "run"
    BY <1>4 DEF ScanReady, QueueDispatcher, TypeOK, DataTyped
  <2> QED
    BY <1>2, <2>1, <2>2 DEF Attended, Goal
<1>5. ASSUME Enlist PROVE Goal
  <2>1. Unmoved(o) /\ UNCHANGED <<destroyed, waitFlag, dcond, eventQ>>
    BY <1>3, <1>5 DEF Enlist, Unmoved, TypeOK, ControlTyped, DataTyped
  <2>2. job[Service] = disp[Service] /\ job[Service] # None
    BY <1>5 DEF Enlist, JobHolders
  <2>3. owner[disp[Service]] = Reserved
    BY <2>2 DEF ReservedOnce, Servers
  <2>4. Announced(o) => disp[o] # disp[Service]
    BY <1>2, <1>3, <2>3
  <2>5. \A x \in Dispatchers \ {disp[Service]} : place'[x] = place[x]
    BY <1>5 DEF Enlist, QueueDispatcher, TypeOK, DataTyped
  <2> QED
    BY <1>2, <2>1, <2>4, <2>5 DEF Attended, Goal
<1>6. ASSUME Park PROVE Goal
  <2>1. Unmoved(o) /\ UNCHANGED <<destroyed, waitFlag, dcond, eventQ>>
    BY <1>3, <1>6 DEF Park, Unmoved, TypeOK, ControlTyped, DataTyped
  <2>2. \A x \in Dispatchers : place'[x] = "run" => place[x] = "run"
    BY <1>6 DEF Park, QueueDispatcher, TypeOK, DataTyped
  <2> QED
    BY <1>2, <2>1, <2>2 DEF Attended, Goal
<1>7. ASSUME NoWorker PROVE Goal
  <2>1. Unmoved(o) /\ UNCHANGED <<place, destroyed, waitFlag, dcond, eventQ>>
    BY <1>3, <1>7 DEF NoWorker, Unmoved, TypeOK, ControlTyped, DataTyped
  <2> QED
    BY <2>1 DEF Attended, Goal
<1>8. ASSUME ScanEmpty PROVE Goal
  BY <1>1, <1>3, <1>8 DEF ScanEmpty, Unmoved, TypeOK, ControlTyped, DataTyped
<1>9. ASSUME StartIdleWorker PROVE Goal
  BY <1>1, <1>3, <1>9 DEF StartIdleWorker, Handover, Unmoved, TypeOK, ControlTyped, DataTyped
<1>10. ASSUME StartNewWorker PROVE Goal
  BY <1>1, <1>3, <1>10 DEF StartNewWorker, Handover, Unmoved, TypeOK, ControlTyped, DataTyped
<1>11. ASSUME CheckCount PROVE Goal
  BY <1>1, <1>3, <1>11 DEF CheckCount, Unmoved, TypeOK, ControlTyped, DataTyped
<1>12. ASSUME Doze PROVE Goal
  BY <1>1, <1>3, <1>12 DEF Doze, Unmoved, TypeOK, ControlTyped, DataTyped
<1>13. ASSUME Wakes PROVE Goal
  BY <1>1, <1>3, <1>13 DEF Wakes, EpollReturns, Unmoved, TypeOK, ControlTyped, DataTyped
<1>14. ASSUME ClearWaiting PROVE Goal
  BY <1>1, <1>3, <1>14 DEF ClearWaiting, Unmoved, TypeOK, ControlTyped, DataTyped
<1>15. ASSUME Drain PROVE Goal
  BY <1>1, <1>3, <1>15 DEF Drain, Unmoved, TypeOK, ControlTyped, DataTyped
<1>16. ASSUME ResetWake PROVE Goal
  BY <1>1, <1>3, <1>16 DEF ResetWake, Unmoved, TypeOK, ControlTyped, DataTyped
<1>17. ASSUME Refresh PROVE Goal
  BY <1>1, <1>3, <1>17 DEF Refresh, Unmoved, TypeOK, ControlTyped, DataTyped
<1>18. ASSUME HelperReturns PROVE Goal
  BY <1>1, <1>3, <1>18 DEF HelperReturns, Unmoved, TypeOK, ControlTyped, DataTyped
<1> QED
  BY <1>4, <1>5, <1>6, <1>7, <1>8, <1>9, <1>10, <1>11, <1>12, <1>13,
     <1>14, <1>15, <1>16, <1>17, <1>18
     DEF ServiceStep, Goal

\* While an owner waits, what the other threads do to its dispatcher is signalled.
LEMMA OthersAttend ==
  ASSUME TypeOK, WorkSet, JobHolders, ReservedOnce, OwnerHolds, NEW o \in Owners,
         NEW t \in Threads \ {o}, Program(t) \/ Choice(t)
  PROVE  Unmoved(o) /\ (Announced(o) => Attended(disp[o]))
<1> DEFINE Goal == Unmoved(o) /\ (Announced(o) => Attended(disp[o]))
<1>1. ASSUME UNCHANGED <<dpVars, evVars>>, Unmoved(o) PROVE Goal
  BY <1>1 DEF Attended
<1>33. o \in Threads
  BY DEF Threads
<1>2. Announced(o) => disp[o] \in Dispatchers /\ owner[disp[o]] = o
  BY <1>33, StageDisp DEF Announced, UsesDispatcher, OwnerHolds, Threads
<1>3. ASSUME WakeStep(t) PROVE Goal
  <2>1. UNCHANGED <<dpVars, evVars, back, disp, deadline>>
    BY <1>3 DEF WakeStep, TestWaiting, TestRequested, SetRequested, WriteBreak, WakeUnchanged
  <2>2. pc'[o] = pc[o] /\ after'[o] = after[o]
    BY <1>3, <1>33, WakeStage DEF TypeOK, StagesTo
  <2> QED
    BY <1>33, <1>1, <2>1, <2>2 DEF Unmoved
<1>4. ASSUME PostEvent(t) PROVE Goal
  <2>1. target[t] \in Dispatchers /\ UNCHANGED <<waitFlag, destroyed, back, disp, deadline>>
    BY <1>4 DEF PostEvent, WorkSet, HasWork
  <2>2. StagesTo(t, Resume(t))
    BY <1>4, QueueStage DEF PostEvent, Plain, TypeOK, Resume
  <2>3. Queue(t, target[t], made[t], due, Resume(t))
    BY <1>4 DEF PostEvent
  <2> QED
    BY <1>33, <1>2, <2>1, <2>2, <2>3, QueueAttends DEF Unmoved, StagesTo
<1>5. ASSUME RemoveEvent(t) PROVE Goal
  <2>1. StagesTo(t, "free") /\ UNCHANGED <<back, disp, deadline>>
    BY <1>5, RemoveStage DEF RemoveEvent, TypeOK
  <2> QED
    BY <1>33, <1>5, <1>2, <2>1, RemoveAttends DEF Unmoved, StagesTo
<1>6. ASSUME DestroyForeign(t) PROVE Goal
  <2>1. PICK d \in Dispatchers : Destroy(t, d, "free")
    BY <1>6 DEF DestroyForeign
  <2>2. StagesTo(t, "free") /\ UNCHANGED <<back, disp, deadline, waitFlag>>
    BY <1>6, <2>1, DestroyStage DEF DestroyForeign, DestroyUnchanged, TypeOK, Plain
  <2> QED
    BY <1>33, <1>2, <2>1, <2>2, DestroyAttends DEF Unmoved, StagesTo
<1>7. ASSUME DestroyInCall(t) PROVE Goal
  <2>1. disp[t] \in Dispatchers /\ Destroy(t, disp[t], "done")
    BY <1>7, DispTyped DEF DestroyInCall, UsesDispatcher
  <2>2. StagesTo(t, "done") /\ UNCHANGED <<back, disp, deadline, waitFlag>>
    BY <1>7, <2>1, DestroyStage DEF DestroyInCall, DestroyUnchanged, TypeOK, Plain
  <2> QED
    BY <1>33, <1>2, <2>1, <2>2, DestroyAttends DEF Unmoved, StagesTo
<1>8. ASSUME t \in Owners, DestroyOwned(t) PROVE Goal
  <2>1. disp[t] \in Dispatchers /\ Destroy(t, disp[t], "free")
    BY <1>8, DispTyped DEF DestroyOwned, UsesDispatcher
  <2>2. StagesTo(t, "free") /\ UNCHANGED <<back, disp, deadline, waitFlag>>
    BY <1>8, <2>1, DestroyStage DEF DestroyOwned, DestroyUnchanged, TypeOK, Plain
  <2> QED
    BY <1>33, <1>2, <2>1, <2>2, DestroyAttends DEF Unmoved, StagesTo
<1>9. ASSUME t \in Runners, NextEvent(t) PROVE Goal
  <2>1. UNCHANGED dpVars /\ NothingQueued
    BY <1>9 DEF NextEvent, NothingQueued, TypeOK, DataTyped
  <2>2. Unmoved(o)
    BY <1>33, <1>9 DEF NextEvent, Unmoved, TypeOK, ControlTyped
  <2> QED
    BY <2>1, <2>2 DEF Attended
<1>10. ASSUME t \in Runners, CallDone(t) PROVE Goal
  <2>1. \E l : StagesTo(t, l)
    BY <1>10, CallDoneStage
  <2>2. UNCHANGED <<back, disp, deadline>>
    BY <1>10 DEF CallDone
  <2> QED
    BY <1>33, <1>10, <1>2, <2>1, <2>2, CallDoneAttends DEF Unmoved, StagesTo
<1>11. ASSUME t \in Servers, Resched(t) PROVE Goal
  <2>1. disp[t] \in Dispatchers /\ UNCHANGED <<waitFlag, destroyed, back, disp, deadline, evVars>>
    BY <1>11, DispTyped DEF Resched, UsesDispatcher
  <2>2. \/ Schedule(t, disp[t], eventQ[disp[t]], due, "return", FALSE)
        \/ Goto(t, "return") /\ UNCHANGED <<place, dcond, after>>
    BY <1>11 DEF Resched
  <2>3. StagesTo(t, "return")
    BY <2>2, GotoStage, ScheduleStage DEF Plain, TypeOK
  <2>4. Unmoved(o)
    BY <1>33, <2>1, <2>3 DEF Unmoved, StagesTo
  <2>5. Attended(disp[o]) \/ disp[o] \notin Dispatchers
    BY <2>1, <2>2, ScheduleAttends DEF Attended
  <2> QED
    BY <1>2, <2>4, <2>5
<1>12. ASSUME t \in Owners, StopSchedule(t) PROVE Goal
  <2>1. disp[t] \in Dispatchers /\ UNCHANGED <<waitFlag, destroyed, back, disp, deadline, evVars>>
    BY <1>12, DispTyped DEF StopSchedule, UsesDispatcher
  <2>2. \/ Schedule(t, disp[t], eventQ[disp[t]], due, "free", FALSE)
        \/ Goto(t, "free") /\ UNCHANGED <<place, dcond, after>>
    BY <1>12 DEF StopSchedule
  <2>3. StagesTo(t, "free")
    BY <2>2, GotoStage, ScheduleStage DEF Plain, TypeOK
  <2>4. Unmoved(o)
    BY <1>33, <2>1, <2>3 DEF Unmoved, StagesTo
  <2>5. Attended(disp[o]) \/ disp[o] \notin Dispatchers
    BY <2>1, <2>2, ScheduleAttends DEF Attended
  <2> QED
    BY <1>2, <2>4, <2>5
<1>13. ASSUME t \in Owners, StartEnter(t) PROVE Goal
  <2>1. Unmoved(o) /\ UNCHANGED <<waitFlag, dcond, destroyed, eventQ>>
    BY <1>33, <1>13 DEF StartEnter, Unmoved, TypeOK, ControlTyped
  <2>2. Stage(t) = "enter"
    BY <1>13, StageOf DEF StartEnter, WakeLabels
  <2>3. Announced(o) => owner[disp[t]] = t /\ owner[disp[o]] = o /\ disp[t] # disp[o]
    BY <1>13, <1>2, <2>2 DEF OwnerHolds, UsesDispatcher
  <2>4. Announced(o) => place'[disp[o]] = place[disp[o]]
    BY <1>13, <1>2, <2>3 DEF StartEnter, QueueDispatcher, TypeOK, DataTyped
  <2> QED
    BY <2>1, <2>4 DEF Attended
<1>14. ASSUME t \in Owners, WaitWakes(t) PROVE Goal
  <2>1. Unmoved(o) /\ UNCHANGED <<waitFlag, place, destroyed, eventQ>>
    BY <1>33, <1>14 DEF WaitWakes, WaitEnds, Unmoved, TypeOK, ControlTyped
  <2>2. Stage(t) = pc[t] /\ pc[t] \in {"block", "unflag"}
    BY <1>14, StageOf DEF WaitWakes, WakeLabels
  <2>3. Announced(o) => disp[t] # disp[o]
    BY <1>14, <1>2, <2>2 DEF OwnerHolds, UsesDispatcher
  <2>4. dcond' = dcond \ {disp[t]}
    BY <1>14 DEF WaitWakes
  <2> QED
    BY <2>1, <2>3, <2>4 DEF Attended
<1>15. ASSUME t \in Owners, WaitUnflag(t) PROVE Goal
  <2>1. Unmoved(o) /\ UNCHANGED <<dcond, place, destroyed, eventQ>>
    BY <1>33, <1>15 DEF WaitUnflag, Unmoved, TypeOK, ControlTyped
  <2>2. Stage(t) = pc[t] /\ pc[t] \in {"block", "unflag"}
    BY <1>15, StageOf DEF WaitUnflag, WakeLabels
  <2>3. Announced(o) => disp[t] # disp[o]
    BY <1>15, <1>2, <2>2 DEF OwnerHolds, UsesDispatcher
  <2>4. waitFlag' = waitFlag \ {disp[t]}
    BY <1>15 DEF WaitUnflag
  <2> QED
    BY <2>1, <2>3, <2>4 DEF Attended
<1>16. ASSUME Unlink(t) \/ StopDequeue(t) PROVE Goal
  <2>1. Unmoved(o) /\ UNCHANGED <<waitFlag, dcond, destroyed, eventQ>>
    BY <1>33, <1>16 DEF Unlink, StopDequeue, Unmoved, TypeOK, ControlTyped
  <2>2. place' = [place EXCEPT ![disp[t]] = "none"]
    BY <1>16 DEF Unlink, StopDequeue
  <2>3. place'[disp[o]] = "run" => place[disp[o]] = "run" \/ disp[o] \notin Dispatchers
    BY <2>2 DEF TypeOK, DataTyped
  <2> QED
    BY <1>2, <2>1, <2>3 DEF Attended
<1>17. ASSUME CreateEvent(t) PROVE Goal
  <2>1. Unmoved(o) /\ UNCHANGED <<dpVars, eventQ>>
    BY <1>33, <1>17 DEF CreateEvent, MayCreate, Unmoved, TypeOK, ControlTyped
  <2> QED
    BY <2>1 DEF Attended
<1>18. ASSUME t \in Owners, StartClaim(t) PROVE Goal
  <2>1. UNCHANGED <<place, destroyed, waitFlag, dcond, eventQ>>
    BY <1>18 DEF StartClaim
  <2>2. Unmoved(o)
    BY <1>33, <1>18 DEF StartClaim, Unmoved, TypeOK, ControlTyped, DataTyped
  <2> QED
    BY <2>1, <2>2 DEF Attended
<1>19. ASSUME t \in Servers, Reclaim(t) PROVE Goal
  <2>1. UNCHANGED <<place, destroyed, waitFlag, dcond, eventQ>>
    BY <1>19 DEF Reclaim
  <2>2. Unmoved(o)
    BY <1>33, <1>19 DEF Reclaim, Unmoved, TypeOK, ControlTyped, DataTyped
  <2> QED
    BY <2>1, <2>2 DEF Attended
<1>20. ASSUME t \in Owners, WaitFlag(t) PROVE Goal
  <2>1. UNCHANGED <<place, destroyed, dcond, eventQ>> /\ waitFlag \subseteq waitFlag'
    BY <1>20 DEF WaitFlag
  <2>2. Unmoved(o)
    BY <1>33, <1>20 DEF WaitFlag, Unmoved, TypeOK, ControlTyped, DataTyped
  <2> QED
    BY <2>1, <2>2 DEF Attended
<1>21. ASSUME t \in Owners, WaitBegin(t) PROVE Goal
  <2>1. UNCHANGED <<dpVars, eventQ>>
    BY <1>21 DEF WaitBegin
  <2>2. Unmoved(o)
    BY <1>33, <1>21 DEF WaitBegin, Unmoved, TypeOK, ControlTyped, DataTyped
  <2> QED
    BY <2>1, <2>2 DEF Attended
<1>22. ASSUME t \in Runners, CallReturns(t) PROVE Goal
  BY <1>33, <1>1, <1>22 DEF CallReturns, Unmoved, TypeOK, ControlTyped
<1>23. ASSUME t \in Servers, Release(t) PROVE Goal
  <2>1. UNCHANGED <<place, destroyed, waitFlag, dcond, eventQ>> /\ Unmoved(o)
    BY <1>33, <1>23 DEF Release, Unmoved, TypeOK, ControlTyped
  <2> QED
    BY <2>1 DEF Attended
<1>24. ASSUME t \in Workers, NapEnds(t) PROVE Goal
  BY <1>33, <1>1, <1>24 DEF NapEnds, Unmoved, TypeOK, ControlTyped
<1>25. ASSUME t \in Workers, BecomeIdle(t) PROVE Goal
  BY <1>33, <1>1, <1>25 DEF BecomeIdle, Unmoved, TypeOK, ControlTyped
<1>26. ASSUME t \in Workers, Offer(t) PROVE Goal
  BY <1>33, <1>1, <1>26 DEF Offer, Unmoved, TypeOK, ControlTyped
<1>27. ASSUME t \in Workers, Rest(t) PROVE Goal
  BY <1>33, <1>1, <1>27 DEF Rest, Unmoved, TypeOK, ControlTyped
<1>28. ASSUME t \in Workers, CallYields(t) PROVE Goal
  BY <1>33, <1>1, <1>28 DEF CallYields, Unmoved, TypeOK, ControlTyped
<1>29. ASSUME t \in Owners, WaitSkips(t) PROVE Goal
  <2>1. UNCHANGED <<dpVars, evVars>>
    BY <1>29 DEF WaitSkips, WaitEnds
  <2>2. Unmoved(o)
    BY <1>33, <1>29 DEF WaitSkips, WaitEnds, Unmoved, TypeOK, ControlTyped
  <2> QED
    BY <1>1, <2>1, <2>2
<1>30. ASSUME t \in Owners, WaitTimesOut(t) PROVE Goal
  <2>1. UNCHANGED <<dpVars, evVars>>
    BY <1>30 DEF WaitTimesOut, WaitEnds
  <2>2. Unmoved(o)
    BY <1>33, <1>30 DEF WaitTimesOut, WaitEnds, Unmoved, TypeOK, ControlTyped
  <2> QED
    BY <1>1, <2>1, <2>2
<1>31. ASSUME t \in Owners, StopRelease(t) PROVE Goal
  <2>1. UNCHANGED <<place, destroyed, waitFlag, dcond, eventQ>> /\ Unmoved(o)
    BY <1>33, <1>31 DEF StopRelease, Unmoved, TypeOK, ControlTyped
  <2> QED
    BY <2>1 DEF Attended
<1>32. ASSUME t = Service, ServiceStep PROVE Goal
  BY <1>32, ServiceAttends
<1> QED
  BY <1>3, <1>4, <1>5, <1>6, <1>7, <1>8, <1>9, <1>10, <1>11, <1>12,
     <1>13, <1>14, <1>15, <1>16, <1>17, <1>18, <1>19, <1>20, <1>21, <1>22,
     <1>23, <1>24, <1>25, <1>26, <1>27, <1>28, <1>29, <1>30, <1>31, <1>32
     DEF Program, Choice, RunStep, HelperStep, WorkerStep, OwnerStep

\* Owner o sets the flag and dispatches once more, or blocks.
Announces(o) == WaitFlag(o) /\ pc'[o] # "held"

\* What an owner does itself while it waits leaves its dispatcher attended, too.
LEMMA OwnerAttends ==
  ASSUME TypeOK, WorkSet, NEW o \in Owners, Program(o) \/ Choice(o),
         pc[o] = "block" => back[o] = "block"
  PROVE  /\ pc'[o] = "block" => back'[o] = "block"
         /\ Announced(o)' => \/ Announces(o)
                             \/ /\ Announced(o) /\ Attended(disp[o])
                                /\ disp'[o] = disp[o] /\ deadline'[o] = deadline[o]
<1> DEFINE Stays == /\ Announced(o) /\ Attended(disp[o])
                    /\ disp'[o] = disp[o] /\ deadline'[o] = deadline[o]
           Goal == /\ pc'[o] = "block" => back'[o] = "block"
                   /\ Announced(o)' => Announces(o) \/ Stays
<1>1. o \in Threads /\ o \notin Posters /\ o \notin Servers /\ o \notin Workers /\ o # Service
  BY ConstantsAssumption DEF Threads, Servers
<1>2. o \in Runners /\ after[o] \in {"next", "return", "done", "io", "nap", "rest", "free"}
  BY <1>1 DEF Runners, TypeOK, ControlTyped, Afters
<1>3. Stage(o) \in UsesDispatcher => disp[o] \in Dispatchers
  BY <1>1, StageDisp
<1>4. ASSUME NEW l \in Plain \ {"next", "call", "done", "block"}, StagesTo(o, l) PROVE Goal
  BY <1>4 DEF StagesTo, Announced, WakeLabels
<1>5. ASSUME NEW l, pc'[o] = l, l \in {"held", "unflag", "stop", "stopped", "enter"} PROVE Goal
  <2>1. Stage(o)' = l
    BY <1>5 DEF Stage, WakeLabels
  <2> QED
    BY <1>5, <2>1 DEF Announced
<1>6. ASSUME Stage(o) \in {"next", "call", "done"}, Stage(o)' \in {"next", "call", "done", "block"},
             pc'[o] = "block" => back[o] = "block", disp[o] \in Dispatchers => Attended(disp[o]),
             back'[o] = back[o], disp'[o] = disp[o], deadline'[o] = deadline[o]
      PROVE  Goal
  BY <1>3, <1>6 DEF Announced, UsesDispatcher
<1> HIDE DEF Goal
<1>7. ASSUME WakeStep(o) PROVE Goal
  <2>1. UNCHANGED <<dpVars, evVars, back, disp, deadline>> /\ pc[o] \in WakeLabels
    BY <1>7 DEF WakeStep, TestWaiting, TestRequested, SetRequested, WriteBreak, WakeUnchanged, WakeLabels
  <2>2. StagesTo(o, Stage(o))
    BY <1>1, <1>7, WakeStage DEF TypeOK
  <2>3. Stage(o) # "block" /\ Stage(o)' = Stage(o) /\ pc'[o] # "block"
    BY <1>2, <2>1, <2>2 DEF StagesTo, Stage, WakeLabels
  <2> QED
    BY <2>1, <2>3 DEF Goal, Announced, Attended
<1>8. ASSUME PostEvent(o) PROVE Goal
  <2>1. pc[o] = "post" /\ target[o] \in Dispatchers
    BY <1>1, <1>8 DEF PostEvent, WorkSet, HasWork
  <2>2. Stage(o) = "call" /\ Resume(o) = "done"
    BY <1>1, <2>1 DEF Stage, Resume, WakeLabels
  <2>3. UNCHANGED <<waitFlag, destroyed, back, disp, deadline>>
        /\ Queue(o, target[o], made[o], due, "done")
    BY <1>8, <2>2 DEF PostEvent
  <2>4. StagesTo(o, "done")
    BY <1>1, <2>3, QueueStage DEF Plain, TypeOK
  <2>5. pc'[o] # "block" /\ Stage(o)' = "done"
    BY <2>4 DEF StagesTo, WakeLabels
  <2>6. \A x \in Dispatchers : Attended(x)
    BY <1>1, <2>1, <2>3, QueueAttends
  <2> QED
    BY <1>6, <2>2, <2>3, <2>5, <2>6
<1>9. ASSUME DestroyInCall(o) PROVE Goal
  <2>1. pc[o] = "call" /\ Destroy(o, disp[o], "done") /\ UNCHANGED <<back, disp, deadline, waitFlag>>
    BY <1>9 DEF DestroyInCall, DestroyUnchanged
  <2>2. Stage(o) = "call" /\ disp[o] \in Dispatchers
    BY <1>3, <2>1 DEF Stage, WakeLabels, UsesDispatcher
  <2>3. StagesTo(o, "done")
    BY <1>1, <2>1, <2>2, DestroyStage DEF Plain, TypeOK
  <2>4. pc'[o] # "block" /\ Stage(o)' = "done"
    BY <2>3 DEF StagesTo, WakeLabels
  <2>5. \A x \in Dispatchers : Attended(x)
    BY <1>1, <2>1, <2>2, DestroyAttends
  <2> QED
    BY <1>6, <2>1, <2>2, <2>4, <2>5
<1>10. ASSUME DestroyOwned(o) PROVE Goal
  <2>1. disp[o] \in Dispatchers /\ Destroy(o, disp[o], "free")
    BY <1>1, <1>10, DispTyped DEF DestroyOwned, UsesDispatcher
  <2>2. StagesTo(o, "free")
    BY <1>1, <2>1, DestroyStage DEF TypeOK, Plain
  <2> QED
    BY <2>2, <1>4 DEF Plain
<1>11. ASSUME NextEvent(o) PROVE Goal
  <2>1. pc[o] = "next" /\ pc'[o] \in {"call", back[o]} /\ UNCHANGED <<back, disp, deadline, dpVars>>
    BY <1>1, <1>11 DEF NextEvent, TypeOK, ControlTyped
  <2>2. NothingQueued
    BY <1>11 DEF NextEvent, NothingQueued, TypeOK, DataTyped
  <2>3. back[o] \in {"flag", "block"}
    BY <1>1 DEF TypeOK, ControlTyped, Backs
  <2>4. Stage(o) = "next" /\ Stage(o)' = pc'[o]
    BY <2>1, <2>3 DEF Stage, WakeLabels
  <2>5. \A x \in Dispatchers : Attended(x)
    BY <2>1, <2>2 DEF Attended
  <2>6. CASE pc'[o] = "flag"
    BY <2>4, <2>6 DEF Announced, Goal
  <2>7. CASE pc'[o] \in {"call", "block"}
    BY <1>6, <2>1, <2>3, <2>4, <2>5, <2>7
  <2> QED
    BY <2>1, <2>3, <2>6, <2>7
<1>12. ASSUME CallReturns(o) PROVE Goal
  <2>1. pc[o] = "call" /\ pc'[o] = "done" /\ UNCHANGED <<back, disp, deadline, dpVars, evVars>>
    BY <1>1, <1>12 DEF CallReturns, TypeOK, ControlTyped
  <2>2. Stage(o) = "call" /\ Stage(o)' = "done"
    BY <2>1 DEF Stage, WakeLabels
  <2> QED
    BY <1>6, <2>1, <2>2 DEF Attended
<1>13. ASSUME CallDone(o) PROVE Goal
  <2>1. pc[o] = "done" /\ UNCHANGED <<back, disp, deadline>>
    BY <1>13 DEF CallDone
  <2>2. PICK l \in {"next", "release", "flag", "block"} : StagesTo(o, l)
    BY <1>2, <1>13, CallDoneStage
  <2>3. pc'[o] \in {"next", "wake", back[o]}
    BY <1>1, <1>13 DEF CallDone, Schedule, CallWake, TypeOK, ControlTyped
  <2>4. Stage(o) = "done" /\ Stage(o)' = l
    BY <2>1, <2>2 DEF Stage, StagesTo, WakeLabels
  <2>5. \A x \in Dispatchers : Attended(x)
    BY <1>2, <1>13, CallDoneAttends
  <2>6. CASE l \in {"next", "block"}
    BY <1>6, <2>1, <2>3, <2>4, <2>5, <2>6
  <2>7. CASE l \in {"release", "flag"}
    BY <2>2, <2>7, <1>4 DEF Plain
  <2> QED
    BY <2>2, <2>6, <2>7
<1>14. ASSUME CreateEvent(o) PROVE Goal
  <2>1. pc[o] = "call" /\ pc'[o] = "post" /\ UNCHANGED <<back, disp, deadline, dpVars, eventQ>>
    BY <1>1, <1>14 DEF CreateEvent, MayCreate, TypeOK, ControlTyped
  <2>2. Stage(o) = "call" /\ Stage(o)' = "call"
    BY <1>1, <2>1 DEF Stage, WakeLabels
  <2> QED
    BY <1>6, <2>1, <2>2 DEF Attended
<1>15. ASSUME WaitFlag(o) PROVE Goal
  <2>1. CASE pc'[o] = "held"
    BY <1>5, <2>1
  <2>2. CASE pc'[o] # "held"
    <3>1. back'[o] = "block"
      BY <1>1, <1>15, <2>2 DEF WaitFlag, TypeOK, ControlTyped
    <3> QED
      BY <1>15, <2>2, <3>1 DEF Goal, Announces
  <2> QED
    BY <2>1, <2>2
<1>16. ASSUME WaitBegin(o) PROVE Goal
  <2>1. pc'[o] = "next" /\ back'[o] = "flag"
    BY <1>1, <1>16 DEF WaitBegin, TypeOK, ControlTyped
  <2> QED
    BY <2>1 DEF Goal, Announced
<1>17. ASSUME StopSchedule(o) PROVE Goal
  <2>1. \/ Schedule(o, disp[o], eventQ[disp[o]], due, "free", FALSE)
        \/ Goto(o, "free") /\ UNCHANGED after
    BY <1>17 DEF StopSchedule
  <2>2. StagesTo(o, "free")
    BY <1>1, <2>1, GotoStage, ScheduleStage DEF Plain, TypeOK
  <2> QED
    BY <2>2, <1>4 DEF Plain
<1>18. ASSUME WaitSkips(o) \/ WaitWakes(o) \/ WaitTimesOut(o) PROVE Goal
  <2>1. pc'[o] = "unflag"
    BY <1>1, <1>18 DEF WaitSkips, WaitWakes, WaitTimesOut, WaitEnds, TypeOK, ControlTyped
  <2> QED
    BY <1>5, <2>1
<1>19. ASSUME StartEnter(o) \/ WaitUnflag(o) PROVE Goal
  <2>1. pc'[o] = "held"
    BY <1>1, <1>19 DEF StartEnter, WaitUnflag, TypeOK, ControlTyped
  <2> QED
    BY <1>5, <2>1
<1>20. ASSUME StartClaim(o) PROVE Goal
  <2>1. pc'[o] = "enter"
    BY <1>1, <1>20 DEF StartClaim, TypeOK, ControlTyped
  <2> QED
    BY <1>5, <2>1
<1>21. ASSUME StopDequeue(o) PROVE Goal
  <2>1. pc'[o] = "stop"
    BY <1>1, <1>21 DEF StopDequeue, TypeOK, ControlTyped
  <2> QED
    BY <1>5, <2>1
<1>22. ASSUME StopRelease(o) PROVE Goal
  <2>1. pc'[o] = "stopped"
    BY <1>1, <1>22 DEF StopRelease, TypeOK, ControlTyped
  <2> QED
    BY <1>5, <2>1
<1>23. ~RemoveEvent(o) /\ ~DestroyForeign(o)
  BY <1>1 DEF RemoveEvent, DestroyForeign
<1> QED
  BY <1>1, <1>7, <1>8, <1>9, <1>10, <1>11, <1>12, <1>13, <1>14, <1>15, <1>16, <1>17,
     <1>18, <1>19, <1>20, <1>21, <1>22, <1>23
     DEF Program, Choice, RunStep, OwnerStep, Goal

\* Who waits on an attended dispatcher stays signalled for its first event.
LEMMA AttendedKeeps ==
  ASSUME QueuesTyped, QueuesTyped', QueueInv, QueueChange, NEW d \in Dispatchers, Attended(d),
         d \in waitFlag, NEW n \in Nat,
         Runs(d) => d \in dcond \/ n <= due[eventQ[d][1]]
  PROVE  d \in waitFlag' /\ (Runs(d)' => d \in dcond' \/ n <= due'[eventQ'[d][1]])
<1> SUFFICES ASSUME Runs(d)', d \notin dcond'
             PROVE  n <= due'[eventQ'[d][1]]
  BY DEF Attended
<1>1. d \notin destroyed /\ place[d] = "run" /\ d \notin dcond /\ eventQ'[d] # <<>>
  BY DEF Attended, Runs
<1>2. eventQ'[d] = eventQ[d] \/ NothingQueued
  BY DEF Attended, Runs
<1>3. CASE eventQ'[d] = eventQ[d]
  <2>1. due'[eventQ[d][1]] = due[eventQ[d][1]]
    BY <1>1, <1>3, DueKept DEF QueueInv
  <2> QED
    BY <1>1, <1>3, <2>1 DEF Runs
<1>4. CASE NothingQueued
  <2>1. eventQ[d] # <<>> /\ due[eventQ[d][1]] <= due'[eventQ'[d][1]]
    BY <1>1, <1>4, LaterHead DEF NothingQueued
  <2>2. n <= due[eventQ[d][1]] /\ due[eventQ[d][1]] \in Nat
    BY <1>1, <2>1, FirstTyped DEF Runs
  <2>3. due'[eventQ'[d][1]] \in Nat
    <3>1. eventQ'[d] \in Seq(Events) /\ due' \in [Events -> Nat]
      BY DEF QueuesTyped
    <3>2. eventQ'[d][1] \in Events
      BY <1>1, <3>1
    <3> QED
      BY <3>1, <3>2
  <2> QED
    BY <2>1, <2>2, <2>3
<1> QED
  BY <1>2, <1>3, <1>4

LEMMA SignalStep ==
  ASSUME TypeOK, TypeOK', WorkSet, JobHolders, ReservedOnce, OwnerHolds, QueueInv, SignalInv,
         [Next]_vars
  PROVE  SignalInv'
<1> SUFFICES ASSUME NEW o \in Owners
             PROVE  /\ pc'[o] = "block" => back'[o] = "block"
                    /\ Announced(o)' =>
                         /\ disp'[o] \in waitFlag'
                         /\ (Runs(disp[o]))' =>
                              disp'[o] \in dcond' \/ deadline'[o] <= due'[eventQ'[disp'[o]][1]]
  BY DEF SignalInv
<1>1. /\ pc[o] = "block" => back[o] = "block"
      /\ Announced(o) =>
           /\ disp[o] \in waitFlag
           /\ Runs(disp[o]) => disp[o] \in dcond \/ deadline[o] <= due[eventQ[disp[o]][1]]
  BY DEF SignalInv
<1>2. QueuesTyped /\ QueuesTyped' /\ o \in Threads
  BY DEF TypeOK, DataTyped, QueuesTyped, Threads
<1>3. QueueChange
  BY QueueStep DEF QueueInv
<1>4. Announced(o) => disp[o] \in Dispatchers
  BY <1>2, StageDisp DEF Announced, UsesDispatcher
<1>5. deadline[o] \in Nat
  BY DEF TypeOK, DataTyped, ControlTyped
<1>6. ASSUME Announced(o), Attended(disp[o]), disp'[o] = disp[o], deadline'[o] = deadline[o]
      PROVE  /\ disp'[o] \in waitFlag'
             /\ (Runs(disp[o]))' =>
                  disp'[o] \in dcond' \/ deadline'[o] <= due'[eventQ'[disp'[o]][1]]
  <2> DEFINE d == disp[o]
  <2>1. d \in Dispatchers /\ d \in waitFlag
        /\ (Runs(d) => d \in dcond \/ deadline[o] <= due[eventQ[d][1]])
    BY <1>1, <1>4, <1>6
  <2>2. /\ d \in waitFlag'
        /\ d \notin destroyed' /\ place'[d] = "run" /\ eventQ'[d] # <<>>
             => d \in dcond' \/ deadline[o] <= due'[eventQ'[d][1]]
    <3> HIDE DEF d
    <3>1. Attended(d)
      BY <1>6 DEF d
    <3> QED
      BY <1>2, <1>3, <1>5, <2>1, <3>1, AttendedKeeps DEF Runs
  <2> QED
    BY <1>6, <2>2 DEF Runs
<1>7. CASE Unmoved(o) /\ (Announced(o) => Attended(disp[o]))
  <2>1. Announced(o)' => Announced(o)
    BY <1>7 DEF Unmoved, Announced, Stage
  <2> QED
    BY <1>1, <1>6, <1>7, <2>1 DEF Unmoved
<1>8. CASE Program(o) \/ Choice(o)
  <2>1. ASSUME Announces(o)
        PROVE  /\ disp'[o] \in waitFlag'
               /\ (Runs(disp[o]))' =>
                    disp'[o] \in dcond' \/ deadline'[o] <= due'[eventQ'[disp'[o]][1]]
    <3>1. pc[o] = "flag" /\ UNCHANGED <<disp, eventQ, due>>
      BY <2>1 DEF Announces, WaitFlag
    <3>2. disp[o] \in Dispatchers
      BY <1>2, <3>1, DispTyped DEF UsesDispatcher
    <3>3. /\ waitFlag' = waitFlag \cup {disp[o]}
          /\ deadline'[o] = IF eventQ[disp[o]] = <<>> THEN Forever ELSE due[eventQ[disp[o]][1]]
      <4>1. ~ran[o]
        BY <1>2, <2>1 DEF Announces, WaitFlag, TypeOK, ControlTyped
      <4>2. deadline' = [deadline EXCEPT ![o] = IF eventQ[disp[o]] = <<>> THEN Forever
                                                ELSE due[eventQ[disp[o]][1]]]
        BY <2>1, <4>1 DEF Announces, WaitFlag
      <4>3. waitFlag' = waitFlag \cup {disp[o]}
        BY <2>1, <4>1 DEF Announces, WaitFlag
      <4>4. deadline \in [Owners -> Nat]
        BY DEF TypeOK, DataTyped, ControlTyped
      <4> QED
        BY <4>2, <4>3, <4>4
    <3>4. eventQ[disp[o]] # <<>> => due[eventQ[disp[o]][1]] \in Nat
      BY <1>2, <3>2, FirstTyped
    <3>5. eventQ[disp[o]] # <<>> => deadline'[o] <= due[eventQ[disp[o]][1]]
      BY <3>3, <3>4
    <3>6. disp'[o] \in waitFlag'
      BY <3>1, <3>3
    <3> QED
      BY <3>1, <3>5, <3>6 DEF Runs
  <2> QED
    BY <1>1, <1>2, <1>6, <1>8, <2>1, OwnerAttends
<1>9. ASSUME NEW t \in Threads \ {o}, Program(t) \/ Choice(t)
      PROVE  Unmoved(o) /\ (Announced(o) => Attended(disp[o]))
  BY <1>9, OthersAttend
<1>10. ASSUME QueueIOEvent PROVE Unmoved(o) /\ (Announced(o) => Attended(disp[o]))
  <2>1. PICK d \in Dispatchers : \E e \in IOEvents : Queue(Service, d, e, due', "io")
    BY <1>10 DEF QueueIOEvent
  <2>2. Service \in Threads /\ o # Service /\ UNCHANGED <<waitFlag, destroyed, back, disp, deadline>>
    BY <1>10, ConstantsAssumption DEF QueueIOEvent, Threads
  <2>3. StagesTo(Service, "io")
    BY <2>1, <2>2, QueueStage DEF Plain, TypeOK
  <2> QED
    BY <1>2, <1>4, <2>1, <2>2, <2>3, QueueAttends DEF Unmoved, StagesTo
<1>11. ASSUME OtherIO \/ Tick \/ UNCHANGED vars
       PROVE  Unmoved(o) /\ (Announced(o) => Attended(disp[o]))
  <2>1. UNCHANGED <<dpVars, evVars>>
    BY <1>11 DEF OtherIO, EpollReturns, Tick, vars
  <2>2. Unmoved(o)
    BY <1>2, <1>11, ConstantsAssumption
       DEF OtherIO, EpollReturns, Tick, vars, Unmoved, TypeOK, ControlTyped
  <2> QED
    BY <2>1, <2>2 DEF Attended
<1> QED
  BY <1>7, <1>8, <1>9, <1>10, <1>11 DEF Next

\* An owner that waits on a dispatcher of the runQ is not left asleep past its
\* first event: whoever queues one signals who has announced that it waits.
THEOREM OwnerSignalled == Spec => []NoMissedSignal
<1>1. Init => SignalInv
  <2>1. ASSUME Init, NEW o \in Owners PROVE pc[o] = "free"
    BY <2>1, ConstantsAssumption DEF Init, Threads
  <2> QED
    BY <2>1 DEF SignalInv, Announced, Stage, WakeLabels
<1>2. IndInv /\ IndInv' /\ QueueInv /\ SignalInv /\ [Next]_vars => SignalInv'
  BY SignalStep DEF IndInv
<1>3. SignalInv => NoMissedSignal
  <2>1. ASSUME NEW o \in Owners, pc[o] = "block" PROVE Stage(o) = "block"
    BY <2>1 DEF Stage, WakeLabels
  <2> QED
    BY <2>1 DEF SignalInv, Announced, NoMissedSignal, Runs
<1> QED
  BY <1>1, <1>2, <1>3, Inductive, QueuesRight, PTL DEF Spec

-----------------------------------------------------------------------------
(* The refinement of SerialExecutor *)

\* Thread t is in the callback of an event, or just after it.
Working(t) == Stage(t) \in {"call", "done"}

\* A thread has an event just while it is in its callback; the event is not on a
\* queue, and was due when it was taken.
Engaged ==
  \A t \in Threads : cur[t] # None =>
    /\ t \in Runners /\ Working(t)
    /\ estate[cur[t]] \in {"running", "removed"} /\ due[cur[t]] <= now

\* No event is in two callbacks.
Alone == \A t, u \in Threads : cur[t] # None /\ cur[t] = cur[u] => t = u

\* The cached time is not ahead of the clock.
RunInv == now <= clock /\ Engaged /\ Alone

-----------------------------------------------------------------------------
(* Steps that leave the callbacks alone *)

\* Thread t goes on with the callback that it is in, or with none.
Stays(t) == cur'[t] = cur[t] /\ (cur[t] # None => disp'[t] = disp[t] /\ Working(t)')

Steadfast == \A t \in Threads : Stays(t)

\* Nothing that the executor knows of changes.
Silent == UNCHANGED <<clock, evVars, destroyed>> /\ now' \in {now, clock}

LEMMA Outside ==
  ASSUME Engaged, NEW t \in Threads,
         pc[t] \notin WakeLabels \cup {"offer", "post", "nap", "call", "done"}
  PROVE  cur[t] = None
BY PlainStage DEF Engaged, Working

LEMMA OneMoves ==
  ASSUME Engaged, NEW t \in Threads, UNCHANGED cur, Stays(t),
         \A u \in Threads \ {t} : pc'[u] = pc[u] /\ after'[u] = after[u] /\ disp'[u] = disp[u]
  PROVE  Steadfast
<1>1. ASSUME NEW u \in Threads \ {t} PROVE Stays(u)
  <2>1. Stage(u)' = Stage(u)
    BY <1>1, StageOthers
  <2> QED
    BY <1>1, <2>1 DEF Stays, Engaged, Working
<1> QED
  BY <1>1 DEF Steadfast

\* The same for a step of which the place in the program is known
LEMMA OneGoes ==
  ASSUME Engaged, NEW t \in Threads, NEW l, StagesTo(t, l), UNCHANGED <<cur, disp>>,
         cur[t] = None \/ l \in {"call", "done"}
  PROVE  Steadfast
<1>1. \A u \in Threads \ {t} : pc'[u] = pc[u] /\ after'[u] = after[u] /\ disp'[u] = disp[u]
  BY DEF StagesTo
<1>2. l \in {"call", "done"} => Working(t)'
  BY DEF StagesTo, Working
<1>3. Stays(t)
  BY <1>2 DEF Stays
<1> QED
  BY <1>1, <1>3, OneMoves

\* The service thread is in no callback while it scans, sleeps and wakes.
LEMMA ServiceSilent ==
  ASSUME TypeOK, WorkSet, Engaged, ServiceStep \/ OtherIO
  PROVE  Steadfast /\ Silent
<1> DEFINE Goal == Steadfast /\ Silent
<1>1. Service \in Threads
  BY DEF Threads
<1>2. ASSUME pc[Service] \notin WakeLabels \cup {"offer", "post", "nap", "call", "done"},
             \A u \in Threads \ {Service} : pc'[u] = pc[u] /\ after'[u] = after[u] /\ disp'[u] = disp[u],
             UNCHANGED cur, Silent
      PROVE  Goal
  <2>1. cur[Service] = None
    BY <1>1, <1>2, Outside
  <2>2. Stays(Service)
    BY <1>2, <2>1 DEF Stays
  <2> QED
    BY <1>1, <1>2, <2>2, OneMoves
<1> HIDE DEF Goal
<1>3. ASSUME ScanReady PROVE Goal
  <2>1. pc[Service] \notin WakeLabels \cup {"offer", "post", "nap", "call", "done"}
    BY <1>3 DEF ScanReady, WakeLabels
  <2>2. \A u \in Threads \ {Service} : pc'[u] = pc[u] /\ after'[u] = after[u] /\ disp'[u] = disp[u]
    BY <1>3 DEF ScanReady, TypeOK, ControlTyped, DataTyped
  <2>3. UNCHANGED cur /\ Silent
    BY <1>3 DEF ScanReady, Silent
  <2> QED
    BY <1>2, <2>1, <2>2, <2>3
<1>4. ASSUME ScanEmpty PROVE Goal
  <2>1. pc[Service] \notin WakeLabels \cup {"offer", "post", "nap", "call", "done"}
    BY <1>4 DEF ScanEmpty, WakeLabels
  <2>2. \A u \in Threads \ {Service} : pc'[u] = pc[u] /\ after'[u] = after[u] /\ disp'[u] = disp[u]
    BY <1>4 DEF ScanEmpty, TypeOK, ControlTyped, DataTyped
  <2>3. UNCHANGED cur /\ Silent
    BY <1>4 DEF ScanEmpty, Silent
  <2> QED
    BY <1>2, <2>1, <2>2, <2>3
<1>5. ASSUME Enlist PROVE Goal
  <2>1. pc[Service] \notin WakeLabels \cup {"offer", "post", "nap", "call", "done"}
    BY <1>5 DEF Enlist, WakeLabels
  <2>2. \A u \in Threads \ {Service} : pc'[u] = pc[u] /\ after'[u] = after[u] /\ disp'[u] = disp[u]
    BY <1>5 DEF Enlist, TypeOK, ControlTyped, DataTyped
  <2>3. UNCHANGED cur /\ Silent
    BY <1>5 DEF Enlist, Silent
  <2> QED
    BY <1>2, <2>1, <2>2, <2>3
<1>6. ASSUME StartIdleWorker PROVE Goal
  <2>1. pc[Service] \notin WakeLabels \cup {"offer", "post", "nap", "call", "done"}
    BY <1>6 DEF StartIdleWorker, WakeLabels
  <2>2. \A u \in Threads \ {Service} : pc'[u] = pc[u] /\ after'[u] = after[u] /\ disp'[u] = disp[u]
    BY <1>6 DEF StartIdleWorker, Handover, TypeOK, ControlTyped, DataTyped
  <2>3. UNCHANGED cur /\ Silent
    BY <1>6 DEF StartIdleWorker, Handover, Silent
  <2> QED
    BY <1>2, <2>1, <2>2, <2>3
<1>7. ASSUME NoWorker PROVE Goal
  <2>1. pc[Service] \notin WakeLabels \cup {"offer", "post", "nap", "call", "done"}
    BY <1>7 DEF NoWorker, WakeLabels
  <2>2. \A u \in Threads \ {Service} : pc'[u] = pc[u] /\ after'[u] = after[u] /\ disp'[u] = disp[u]
    BY <1>7 DEF NoWorker, TypeOK, ControlTyped, DataTyped
  <2>3. UNCHANGED cur /\ Silent
    BY <1>7 DEF NoWorker, Silent
  <2> QED
    BY <1>2, <2>1, <2>2, <2>3
<1>8. ASSUME Park PROVE Goal
  <2>1. pc[Service] \notin WakeLabels \cup {"offer", "post", "nap", "call", "done"}
    BY <1>8 DEF Park, WakeLabels
  <2>2. \A u \in Threads \ {Service} : pc'[u] = pc[u] /\ after'[u] = after[u] /\ disp'[u] = disp[u]
    BY <1>8 DEF Park, TypeOK, ControlTyped, DataTyped
  <2>3. UNCHANGED cur /\ Silent
    BY <1>8 DEF Park, Silent
  <2> QED
    BY <1>2, <2>1, <2>2, <2>3
<1>9. ASSUME CheckCount PROVE Goal
  <2>1. pc[Service] \notin WakeLabels \cup {"offer", "post", "nap", "call", "done"}
    BY <1>9 DEF CheckCount, WakeLabels
  <2>2. \A u \in Threads \ {Service} : pc'[u] = pc[u] /\ after'[u] = after[u] /\ disp'[u] = disp[u]
    BY <1>9 DEF CheckCount, TypeOK, ControlTyped, DataTyped
  <2>3. UNCHANGED cur /\ Silent
    BY <1>9 DEF CheckCount, Silent
  <2> QED
    BY <1>2, <2>1, <2>2, <2>3
<1>10. ASSUME Doze PROVE Goal
  <2>1. pc[Service] \notin WakeLabels \cup {"offer", "post", "nap", "call", "done"}
    BY <1>10 DEF Doze, WakeLabels
  <2>2. \A u \in Threads \ {Service} : pc'[u] = pc[u] /\ after'[u] = after[u] /\ disp'[u] = disp[u]
    BY <1>10 DEF Doze, TypeOK, ControlTyped, DataTyped
  <2>3. UNCHANGED cur /\ Silent
    BY <1>10 DEF Doze, Silent
  <2> QED
    BY <1>2, <2>1, <2>2, <2>3
<1>11. ASSUME Wakes PROVE Goal
  <2>1. pc[Service] \notin WakeLabels \cup {"offer", "post", "nap", "call", "done"}
    BY <1>11 DEF Wakes, WakeLabels
  <2>2. \A u \in Threads \ {Service} : pc'[u] = pc[u] /\ after'[u] = after[u] /\ disp'[u] = disp[u]
    BY <1>11 DEF Wakes, EpollReturns, TypeOK, ControlTyped, DataTyped
  <2>3. UNCHANGED cur /\ Silent
    BY <1>11 DEF Wakes, EpollReturns, Silent
  <2> QED
    BY <1>2, <2>1, <2>2, <2>3
<1>12. ASSUME OtherIO PROVE Goal
  <2>1. pc[Service] \notin WakeLabels \cup {"offer", "post", "nap", "call", "done"}
    BY <1>12 DEF OtherIO, WakeLabels
  <2>2. \A u \in Threads \ {Service} : pc'[u] = pc[u] /\ after'[u] = after[u] /\ disp'[u] = disp[u]
    BY <1>12 DEF OtherIO, EpollReturns, TypeOK, ControlTyped, DataTyped
  <2>3. UNCHANGED cur /\ Silent
    BY <1>12 DEF OtherIO, EpollReturns, Silent
  <2> QED
    BY <1>2, <2>1, <2>2, <2>3
<1>13. ASSUME ClearWaiting PROVE Goal
  <2>1. pc[Service] \notin WakeLabels \cup {"offer", "post", "nap", "call", "done"}
    BY <1>13 DEF ClearWaiting, WakeLabels
  <2>2. \A u \in Threads \ {Service} : pc'[u] = pc[u] /\ after'[u] = after[u] /\ disp'[u] = disp[u]
    BY <1>13 DEF ClearWaiting, TypeOK, ControlTyped, DataTyped
  <2>3. UNCHANGED cur /\ Silent
    BY <1>13 DEF ClearWaiting, Silent
  <2> QED
    BY <1>2, <2>1, <2>2, <2>3
<1>14. ASSUME Drain PROVE Goal
  <2>1. pc[Service] \notin WakeLabels \cup {"offer", "post", "nap", "call", "done"}
    BY <1>14 DEF Drain, WakeLabels
  <2>2. \A u \in Threads \ {Service} : pc'[u] = pc[u] /\ after'[u] = after[u] /\ disp'[u] = disp[u]
    BY <1>14 DEF Drain, TypeOK, ControlTyped, DataTyped
  <2>3. UNCHANGED cur /\ Silent
    BY <1>14 DEF Drain, Silent
  <2> QED
    BY <1>2, <2>1, <2>2, <2>3
<1>15. ASSUME ResetWake PROVE Goal
  <2>1. pc[Service] \notin WakeLabels \cup {"offer", "post", "nap", "call", "done"}
    BY <1>15 DEF ResetWake, WakeLabels
  <2>2. \A u \in Threads \ {Service} : pc'[u] = pc[u] /\ after'[u] = after[u] /\ disp'[u] = disp[u]
    BY <1>15 DEF ResetWake, TypeOK, ControlTyped, DataTyped
  <2>3. UNCHANGED cur /\ Silent
    BY <1>15 DEF ResetWake, Silent
  <2> QED
    BY <1>2, <2>1, <2>2, <2>3
<1>16. ASSUME Refresh PROVE Goal
  <2>1. pc[Service] \notin WakeLabels \cup {"offer", "post", "nap", "call", "done"}
    BY <1>16 DEF Refresh, WakeLabels
  <2>2. \A u \in Threads \ {Service} : pc'[u] = pc[u] /\ after'[u] = after[u] /\ disp'[u] = disp[u]
    BY <1>16 DEF Refresh, TypeOK, ControlTyped, DataTyped
  <2>3. UNCHANGED cur /\ Silent
    BY <1>16 DEF Refresh, Silent
  <2> QED
    BY <1>2, <2>1, <2>2, <2>3
<1>17. ASSUME HelperReturns PROVE Goal
  <2>1. pc[Service] \notin WakeLabels \cup {"offer", "post", "nap", "call", "done"}
    BY <1>17 DEF HelperReturns, WakeLabels
  <2>2. \A u \in Threads \ {Service} : pc'[u] = pc[u] /\ after'[u] = after[u] /\ disp'[u] = disp[u]
    BY <1>17 DEF HelperReturns, TypeOK, ControlTyped, DataTyped
  <2>3. UNCHANGED cur /\ Silent
    BY <1>17 DEF HelperReturns, Silent
  <2> QED
    BY <1>2, <2>1, <2>2, <2>3
<1>18. ASSUME StartNewWorker PROVE Goal
  <2>1. PICK w \in Workers : pc[w] = "unborn" /\ pc' = [pc EXCEPT ![w] = "claim", ![Service] = "scan"]
    BY <1>18 DEF StartNewWorker
  <2>2. w \in Threads /\ pc[Service] = "start" /\ UNCHANGED <<after, disp, cur>> /\ Silent
    BY <1>18 DEF StartNewWorker, Threads, Silent
  <2>3. cur[w] = None /\ cur[Service] = None
    BY <1>1, <2>1, <2>2, Outside DEF WakeLabels
  <2>4. ASSUME NEW u \in Threads PROVE Stays(u)
    <3>1. u \in {w, Service} \/ pc'[u] = pc[u]
      BY <2>1 DEF TypeOK, ControlTyped
    <3>2. u \in {w, Service} \/ Stage(u)' = Stage(u)
      BY <2>2, <3>1, StageOthers
    <3> QED
      BY <2>2, <2>3, <3>2 DEF Stays, Engaged, Working
  <2> QED
    BY <2>2, <2>4 DEF Steadfast, Goal
<1> QED
  BY <1>3, <1>4, <1>5, <1>6, <1>7, <1>8, <1>9, <1>10, <1>11,
     <1>12, <1>13, <1>14, <1>15, <1>16, <1>17, <1>18 DEF ServiceStep, Goal

\* So is every other thread, but for what happens to events in the lemmas below.
LEMMA ThreadSilent ==
  ASSUME TypeOK, WorkSet, Engaged, NEW t \in Threads,
         \/ WakeStep(t)
         \/ t \in Runners /\ CallReturns(t)
         \/ t \in Servers /\ HelperStep(t)
         \/ t \in Workers /\ (WorkerStep(t) \/ CallYields(t))
         \/ t \in Owners /\ (OwnerStep(t) \/ StartClaim(t) \/ WaitBegin(t) \/ WaitTimesOut(t)
                             \/ StopDequeue(t))
  PROVE  Steadfast /\ Silent
<1> DEFINE Goal == Steadfast /\ Silent
<1>1. ASSUME pc[t] \notin WakeLabels \cup {"offer", "post", "nap", "call", "done"},
             \A u \in Threads \ {t} : pc'[u] = pc[u] /\ after'[u] = after[u] /\ disp'[u] = disp[u],
             UNCHANGED cur, Silent
      PROVE  Goal
  <2>1. cur[t] = None
    BY <1>1, Outside
  <2>2. Stays(t)
    BY <1>1, <2>1 DEF Stays
  <2> QED
    BY <1>1, <2>2, OneMoves
<1> HIDE DEF Goal
<1>2. ASSUME WakeStep(t) PROVE Goal
  <2>1. StagesTo(t, Stage(t)) /\ UNCHANGED <<cur, disp>> /\ Silent
    BY <1>2, WakeStage
       DEF WakeStep, TestWaiting, TestRequested, SetRequested, WriteBreak, WakeUnchanged, Silent, TypeOK
  <2>2. cur[t] = None \/ Stage(t) \in {"call", "done"}
    BY DEF Engaged, Working
  <2> QED
    BY <2>1, <2>2, OneGoes DEF Goal
<1>3. ASSUME t \in Runners, CallReturns(t) PROVE Goal
  <2>1. StagesTo(t, "done")
    BY <1>3, GotoStage DEF CallReturns, Plain, TypeOK
  <2>2. UNCHANGED <<cur, disp>> /\ Silent
    BY <1>3 DEF CallReturns, Silent
  <2> QED
    BY <2>1, <2>2, OneGoes DEF Goal
<1>4. ASSUME t \in Workers, CallYields(t) PROVE Goal
  <2>1. pc'[t] = "offer" /\ after'[t] = "nap"
    BY <1>4 DEF CallYields, TypeOK, ControlTyped
  <2>2. Working(t)'
    BY <2>1 DEF Working, Stage
  <2>3. \A u \in Threads \ {t} : pc'[u] = pc[u] /\ after'[u] = after[u]
    BY <1>4 DEF CallYields, TypeOK, ControlTyped
  <2>4. UNCHANGED <<cur, disp>> /\ Silent
    BY <1>4 DEF CallYields, Silent
  <2>5. Stays(t)
    BY <2>2, <2>4 DEF Stays
  <2> QED
    BY <2>3, <2>4, <2>5, OneMoves DEF Goal
<1>5. ASSUME t \in Workers, NapEnds(t) PROVE Goal
  <2>1. StagesTo(t, "done")
    BY <1>5, GotoStage DEF NapEnds, Plain, TypeOK
  <2>2. UNCHANGED <<cur, disp>> /\ Silent
    BY <1>5 DEF NapEnds, Silent
  <2> QED
    BY <2>1, <2>2, OneGoes DEF Goal
<1>6. ASSUME t \in Workers, Offer(t) PROVE Goal
  <2>1. pc[t] = "offer" /\ pc'[t] \in {"wake", after[t]} /\ after'[t] = after[t]
    BY <1>6 DEF Offer, TypeOK, ControlTyped
  <2>2. after[t] \in {"next", "return", "done", "nap", "rest"}
    BY <1>6, ConstantsAssumption DEF TypeOK, ControlTyped, Afters
  <2>3. Working(t) => Working(t)'
    BY <2>1, <2>2 DEF Working, Stage, WakeLabels
  <2>4. \A u \in Threads \ {t} : pc'[u] = pc[u] /\ after'[u] = after[u]
    BY <1>6 DEF Offer, TypeOK, ControlTyped
  <2>5. UNCHANGED <<cur, disp>> /\ Silent
    BY <1>6 DEF Offer, Silent
  <2>6. Stays(t)
    BY <2>3, <2>5 DEF Stays, Engaged
  <2> QED
    BY <2>4, <2>5, <2>6, OneMoves DEF Goal
<1>7. ASSUME t \in Servers, Resched(t) PROVE Goal
  <2>1. StagesTo(t, "return")
    BY <1>7, GotoStage, ScheduleStage DEF Resched, Plain, TypeOK
  <2>2. pc[t] \notin WakeLabels \cup {"offer", "post", "nap", "call", "done"}
    BY <1>7 DEF Resched, WakeLabels
  <2>3. UNCHANGED <<cur, disp>> /\ Silent
    BY <1>7 DEF Resched, Schedule, Silent
  <2> QED
    BY <1>1, <2>1, <2>2, <2>3 DEF StagesTo
<1>8. ASSUME t \in Owners, StopSchedule(t) PROVE Goal
  <2>1. StagesTo(t, "free")
    BY <1>8, GotoStage, ScheduleStage DEF StopSchedule, Plain, TypeOK
  <2>2. pc[t] \notin WakeLabels \cup {"offer", "post", "nap", "call", "done"}
    BY <1>8 DEF StopSchedule, WakeLabels
  <2>3. UNCHANGED <<cur, disp>> /\ Silent
    BY <1>8 DEF StopSchedule, Schedule, Silent
  <2> QED
    BY <1>1, <2>1, <2>2, <2>3 DEF StagesTo
<1>9. ASSUME t \in Servers, Reclaim(t) PROVE Goal
  <2>1. pc[t] \notin WakeLabels \cup {"offer", "post", "nap", "call", "done"}
    BY <1>9 DEF Reclaim, WakeLabels
  <2>2. \A u \in Threads \ {t} : pc'[u] = pc[u] /\ after'[u] = after[u] /\ disp'[u] = disp[u]
    BY <1>9 DEF Reclaim, TypeOK, ControlTyped, DataTyped
  <2>3. UNCHANGED cur /\ Silent
    BY <1>9 DEF Reclaim, Silent
  <2> QED
    BY <1>1, <2>1, <2>2, <2>3
<1>10. ASSUME t \in Servers, Release(t) PROVE Goal
  <2>1. pc[t] \notin WakeLabels \cup {"offer", "post", "nap", "call", "done"}
    BY <1>10 DEF Release, WakeLabels
  <2>2. \A u \in Threads \ {t} : pc'[u] = pc[u] /\ after'[u] = after[u] /\ disp'[u] = disp[u]
    BY <1>10 DEF Release, TypeOK, ControlTyped, DataTyped
  <2>3. UNCHANGED cur /\ Silent
    BY <1>10 DEF Release, Silent
  <2> QED
    BY <1>1, <2>1, <2>2, <2>3
<1>11. ASSUME t \in Servers, Unlink(t) PROVE Goal
  <2>1. pc[t] \notin WakeLabels \cup {"offer", "post", "nap", "call", "done"}
    BY <1>11 DEF Unlink, WakeLabels
  <2>2. \A u \in Threads \ {t} : pc'[u] = pc[u] /\ after'[u] = after[u] /\ disp'[u] = disp[u]
    BY <1>11 DEF Unlink, TypeOK, ControlTyped, DataTyped
  <2>3. UNCHANGED cur /\ Silent
    BY <1>11 DEF Unlink, Silent
  <2> QED
    BY <1>1, <2>1, <2>2, <2>3
<1>12. ASSUME t \in Workers, BecomeIdle(t) PROVE Goal
  <2>1. pc[t] \notin WakeLabels \cup {"offer", "post", "nap", "call", "done"}
    BY <1>12 DEF BecomeIdle, WakeLabels
  <2>2. \A u \in Threads \ {t} : pc'[u] = pc[u] /\ after'[u] = after[u] /\ disp'[u] = disp[u]
    BY <1>12 DEF BecomeIdle, TypeOK, ControlTyped, DataTyped
  <2>3. UNCHANGED cur /\ Silent
    BY <1>12 DEF BecomeIdle, Silent
  <2> QED
    BY <1>1, <2>1, <2>2, <2>3
<1>13. ASSUME t \in Workers, Rest(t) PROVE Goal
  <2>1. pc[t] \notin WakeLabels \cup {"offer", "post", "nap", "call", "done"}
    BY <1>13 DEF Rest, WakeLabels
  <2>2. \A u \in Threads \ {t} : pc'[u] = pc[u] /\ after'[u] = after[u] /\ disp'[u] = disp[u]
    BY <1>13 DEF Rest, TypeOK, ControlTyped, DataTyped
  <2>3. UNCHANGED cur /\ Silent
    BY <1>13 DEF Rest, Silent
  <2> QED
    BY <1>1, <2>1, <2>2, <2>3
<1>14. ASSUME t \in Owners, StartEnter(t) PROVE Goal
  <2>1. pc[t] \notin WakeLabels \cup {"offer", "post", "nap", "call", "done"}
    BY <1>14 DEF StartEnter, WakeLabels
  <2>2. \A u \in Threads \ {t} : pc'[u] = pc[u] /\ after'[u] = after[u] /\ disp'[u] = disp[u]
    BY <1>14 DEF StartEnter, TypeOK, ControlTyped, DataTyped
  <2>3. UNCHANGED cur /\ Silent
    BY <1>14 DEF StartEnter, Silent
  <2> QED
    BY <1>1, <2>1, <2>2, <2>3
<1>15. ASSUME t \in Owners, WaitFlag(t) PROVE Goal
  <2>1. pc[t] \notin WakeLabels \cup {"offer", "post", "nap", "call", "done"}
    BY <1>15 DEF WaitFlag, WakeLabels
  <2>2. \A u \in Threads \ {t} : pc'[u] = pc[u] /\ after'[u] = after[u] /\ disp'[u] = disp[u]
    BY <1>15 DEF WaitFlag, TypeOK, ControlTyped, DataTyped
  <2>3. UNCHANGED cur /\ Silent
    BY <1>15 DEF WaitFlag, Silent
  <2> QED
    BY <1>1, <2>1, <2>2, <2>3
<1>16. ASSUME t \in Owners, WaitSkips(t) PROVE Goal
  <2>1. pc[t] \notin WakeLabels \cup {"offer", "post", "nap", "call", "done"}
    BY <1>16 DEF WaitSkips, WakeLabels
  <2>2. \A u \in Threads \ {t} : pc'[u] = pc[u] /\ after'[u] = after[u] /\ disp'[u] = disp[u]
    BY <1>16 DEF WaitSkips, WaitEnds, TypeOK, ControlTyped, DataTyped
  <2>3. UNCHANGED cur /\ Silent
    BY <1>16 DEF WaitSkips, WaitEnds, Silent
  <2> QED
    BY <1>1, <2>1, <2>2, <2>3
<1>17. ASSUME t \in Owners, WaitWakes(t) PROVE Goal
  <2>1. pc[t] \notin WakeLabels \cup {"offer", "post", "nap", "call", "done"}
    BY <1>17 DEF WaitWakes, WakeLabels
  <2>2. \A u \in Threads \ {t} : pc'[u] = pc[u] /\ after'[u] = after[u] /\ disp'[u] = disp[u]
    BY <1>17 DEF WaitWakes, WaitEnds, TypeOK, ControlTyped, DataTyped
  <2>3. UNCHANGED cur /\ Silent
    BY <1>17 DEF WaitWakes, WaitEnds, Silent
  <2> QED
    BY <1>1, <2>1, <2>2, <2>3
<1>18. ASSUME t \in Owners, WaitTimesOut(t) PROVE Goal
  <2>1. pc[t] \notin WakeLabels \cup {"offer", "post", "nap", "call", "done"}
    BY <1>18 DEF WaitTimesOut, WakeLabels
  <2>2. \A u \in Threads \ {t} : pc'[u] = pc[u] /\ after'[u] = after[u] /\ disp'[u] = disp[u]
    BY <1>18 DEF WaitTimesOut, WaitEnds, TypeOK, ControlTyped, DataTyped
  <2>3. UNCHANGED cur /\ Silent
    BY <1>18 DEF WaitTimesOut, WaitEnds, Silent
  <2> QED
    BY <1>1, <2>1, <2>2, <2>3
<1>19. ASSUME t \in Owners, WaitUnflag(t) PROVE Goal
  <2>1. pc[t] \notin WakeLabels \cup {"offer", "post", "nap", "call", "done"}
    BY <1>19 DEF WaitUnflag, WakeLabels
  <2>2. \A u \in Threads \ {t} : pc'[u] = pc[u] /\ after'[u] = after[u] /\ disp'[u] = disp[u]
    BY <1>19 DEF WaitUnflag, TypeOK, ControlTyped, DataTyped
  <2>3. UNCHANGED cur /\ Silent
    BY <1>19 DEF WaitUnflag, Silent
  <2> QED
    BY <1>1, <2>1, <2>2, <2>3
<1>20. ASSUME t \in Owners, StopRelease(t) PROVE Goal
  <2>1. pc[t] \notin WakeLabels \cup {"offer", "post", "nap", "call", "done"}
    BY <1>20 DEF StopRelease, WakeLabels
  <2>2. \A u \in Threads \ {t} : pc'[u] = pc[u] /\ after'[u] = after[u] /\ disp'[u] = disp[u]
    BY <1>20 DEF StopRelease, TypeOK, ControlTyped, DataTyped
  <2>3. UNCHANGED cur /\ Silent
    BY <1>20 DEF StopRelease, Silent
  <2> QED
    BY <1>1, <2>1, <2>2, <2>3
<1>21. ASSUME t \in Owners, StartClaim(t) PROVE Goal
  <2>1. pc[t] \notin WakeLabels \cup {"offer", "post", "nap", "call", "done"}
    BY <1>21 DEF StartClaim, WakeLabels
  <2>2. \A u \in Threads \ {t} : pc'[u] = pc[u] /\ after'[u] = after[u] /\ disp'[u] = disp[u]
    BY <1>21 DEF StartClaim, TypeOK, ControlTyped, DataTyped
  <2>3. UNCHANGED cur /\ Silent
    BY <1>21 DEF StartClaim, Silent
  <2> QED
    BY <1>1, <2>1, <2>2, <2>3
<1>22. ASSUME t \in Owners, WaitBegin(t) PROVE Goal
  <2>1. pc[t] \notin WakeLabels \cup {"offer", "post", "nap", "call", "done"}
    BY <1>22 DEF WaitBegin, WakeLabels
  <2>2. \A u \in Threads \ {t} : pc'[u] = pc[u] /\ after'[u] = after[u] /\ disp'[u] = disp[u]
    BY <1>22 DEF WaitBegin, TypeOK, ControlTyped, DataTyped
  <2>3. UNCHANGED cur /\ Silent
    BY <1>22 DEF WaitBegin, Silent
  <2> QED
    BY <1>1, <2>1, <2>2, <2>3
<1>23. ASSUME t \in Owners, StopDequeue(t) PROVE Goal
  <2>1. pc[t] \notin WakeLabels \cup {"offer", "post", "nap", "call", "done"}
    BY <1>23 DEF StopDequeue, WakeLabels
  <2>2. \A u \in Threads \ {t} : pc'[u] = pc[u] /\ after'[u] = after[u] /\ disp'[u] = disp[u]
    BY <1>23 DEF StopDequeue, TypeOK, ControlTyped, DataTyped
  <2>3. UNCHANGED cur /\ Silent
    BY <1>23 DEF StopDequeue, Silent
  <2> QED
    BY <1>1, <2>1, <2>2, <2>3
<1> QED
  BY <1>2, <1>3, <1>4, <1>5, <1>6, <1>7, <1>8, <1>9, <1>10, <1>11, <1>12,
     <1>13, <1>14, <1>15, <1>16, <1>17, <1>18, <1>19, <1>20, <1>21, <1>22, <1>23
     DEF HelperStep, WorkerStep, OwnerStep, Goal

-----------------------------------------------------------------------------
(* The events of a queue as a set *)

LEMMA InsertRange ==
  ASSUME NEW q \in Seq(Events), NEW e \in Events, NEW when \in Nat,
         due \in [Events -> Nat], SortedBy(q, due)
  PROVE  Range(InsertEvent(q, e, when)) = Range(q) \cup {e}
<1> DEFINE r == InsertEvent(q, e, when)
<1>1. PICK n \in 0 .. Len(q) : Inserted(r, q, e, n)
  BY InsertShape
<1>2. Len(q) \in Nat /\ DOMAIN q = 1 .. Len(q)
  OBVIOUS
<1>3. r \in Seq(Events)
  BY InsertType
<1> HIDE DEF r
<1>4. Len(r) = Len(q) + 1 /\ DOMAIN r = 1 .. Len(q) + 1
  BY <1>1, <1>3 DEF Inserted
<1>5. ASSUME NEW i \in DOMAIN r PROVE r[i] \in Range(q) \cup {e}
  <2>1. CASE i <= n
    BY <1>1, <1>2, <1>4, <2>1 DEF Inserted, Range
  <2>2. CASE i = n + 1
    BY <1>1, <2>2 DEF Inserted
  <2>3. CASE i > n + 1
    <3>1. i - 1 \in n + 1 .. Len(q) /\ i - 1 \in DOMAIN q /\ (i - 1) + 1 = i
      BY <1>2, <1>4, <2>3
    <3>2. r[i] = q[i - 1]
      BY <1>1, <3>1 DEF Inserted
    <3> QED
      BY <3>1, <3>2 DEF Range
  <2> QED
    BY <1>2, <1>4, <2>1, <2>2, <2>3
<1>6. ASSUME NEW i \in DOMAIN q PROVE q[i] \in Range(r)
  <2>1. CASE i <= n
    BY <1>1, <1>2, <1>4, <2>1 DEF Inserted, Range
  <2>2. CASE i > n
    <3>1. i \in n + 1 .. Len(q) /\ i + 1 \in DOMAIN r
      BY <1>2, <1>4, <2>2
    <3>2. r[i + 1] = q[i]
      BY <1>1, <3>1 DEF Inserted
    <3> QED
      BY <3>1, <3>2 DEF Range
  <2> QED
    BY <1>2, <2>1, <2>2
<1>7. e \in Range(r)
  <2>1. n + 1 \in DOMAIN r /\ r[n + 1] = e
    BY <1>1, <1>2, <1>4 DEF Inserted
  <2> QED
    BY <2>1 DEF Range
<1>8. Range(r) = Range(q) \cup {e}
  BY <1>5, <1>6, <1>7 DEF Range
<1> QED
  BY <1>8 DEF r

LEMMA RemovedRange ==
  ASSUME NEW q \in Seq(Events), NEW r \in Seq(Events), NEW k \in DOMAIN q, Removed(r, q, k),
         \A i, j \in DOMAIN q : q[i] = q[j] => i = j
  PROVE  Range(r) = Range(q) \ {q[k]}
<1>1. Len(q) \in Nat /\ DOMAIN q = 1 .. Len(q) /\ k \in 1 .. Len(q)
  OBVIOUS
<1>2. Len(r) = Len(q) - 1 /\ DOMAIN r = 1 .. Len(q) - 1
  BY DEF Removed
<1>3. ASSUME NEW i \in DOMAIN r PROVE r[i] \in Range(q) \ {q[k]}
  <2>1. CASE i < k
    <3>1. i \in 1 .. k - 1 /\ i \in DOMAIN q /\ i # k
      BY <1>1, <1>2, <2>1
    <3>2. r[i] = q[i] /\ q[i] # q[k]
      BY <3>1 DEF Removed
    <3> QED
      BY <3>1, <3>2 DEF Range
  <2>2. CASE i >= k
    <3>1. i \in k .. Len(q) - 1 /\ i + 1 \in DOMAIN q /\ i + 1 # k
      BY <1>1, <1>2, <2>2
    <3>2. r[i] = q[i + 1] /\ q[i + 1] # q[k]
      BY <3>1 DEF Removed
    <3> QED
      BY <3>1, <3>2 DEF Range
  <2> QED
    BY <1>1, <1>2, <2>1, <2>2
<1>4. ASSUME NEW i \in DOMAIN q, q[i] # q[k] PROVE q[i] \in Range(r)
  <2>1. CASE i < k
    <3>1. i \in 1 .. k - 1 /\ i \in DOMAIN r
      BY <1>1, <1>2, <2>1
    <3>2. r[i] = q[i]
      BY <3>1 DEF Removed
    <3> QED
      BY <3>1, <3>2 DEF Range
  <2>2. CASE i > k
    <3>1. i - 1 \in k .. Len(q) - 1 /\ i - 1 \in DOMAIN r /\ (i - 1) + 1 = i
      BY <1>1, <1>2, <2>2
    <3>2. r[i - 1] = q[i]
      BY <3>1 DEF Removed
    <3> QED
      BY <3>1, <3>2 DEF Range
  <2> QED
    BY <1>1, <1>4, <2>1, <2>2
<1> QED
  BY <1>3, <1>4 DEF Range

\* The queues as sets when one queue changes
LEMMA QueuedChanges ==
  ASSUME TypeOK, NEW d \in Dispatchers, \A x \in Dispatchers \ {d} : eventQ'[x] = eventQ[x]
  PROVE  Queued' = [Queued EXCEPT ![d] = Range(eventQ'[d])]
<1>1. Queued' = [x \in Dispatchers |-> Range(eventQ'[x])]
  BY DEF Queued
<1>2. \A x \in Dispatchers \ {d} : Range(eventQ'[x]) = Range(eventQ[x])
  OBVIOUS
<1> QED
  BY <1>1, <1>2 DEF Queued

\* mprQueueEvent posts the event or drops it.
LEMMA QueueMaps ==
  ASSUME TypeOK, QueuesSorted, NEW t, NEW d \in Dispatchers, NEW e \in Events, NEW l,
         Queue(t, d, e, due', l), due'[e] \in Nat
  PROVE  /\ now' \in {now, clock}
         /\ \/ /\ d \in destroyed /\ UNCHANGED Queued
               /\ estate' = [estate EXCEPT ![e] = "dropped"]
            \/ /\ d \notin destroyed /\ Queued' = [Queued EXCEPT ![d] = @ \cup {e}]
               /\ estate' = [estate EXCEPT ![e] = "queued"]
<1>1. CASE d \in destroyed
  <2>1. UNCHANGED <<now, eventQ>> /\ estate' = [estate EXCEPT ![e] = "dropped"]
    BY <1>1 DEF Queue
  <2> QED
    BY <1>1, <2>1 DEF Queued
<1>2. CASE d \notin destroyed
  <2> DEFINE r == InsertEvent(eventQ[d], e, due'[e])
  <2>1. /\ now' = clock /\ eventQ' = [eventQ EXCEPT ![d] = r]
        /\ estate' = [estate EXCEPT ![e] = "queued"]
    BY <1>2 DEF Queue, Schedule
  <2>2. Range(r) = Range(eventQ[d]) \cup {e}
    BY InsertRange DEF TypeOK, DataTyped, QueuesSorted
  <2> HIDE DEF r
  <2>3. eventQ'[d] = r /\ \A x \in Dispatchers \ {d} : eventQ'[x] = eventQ[x]
    BY <2>1 DEF TypeOK, DataTyped
  <2>4. Queued' = [Queued EXCEPT ![d] = Range(r)] /\ Queued[d] = Range(eventQ[d])
    BY <2>3, QueuedChanges DEF Queued
  <2>5. Queued' = [Queued EXCEPT ![d] = @ \cup {e}]
    BY <2>2, <2>4
  <2> QED
    BY <1>2, <2>1, <2>5
<1> QED
  BY <1>1, <1>2

-----------------------------------------------------------------------------
(* The callbacks *)

\* While callbacks go on, the executors run what they ran.
LEMMA RunningStays ==
  ASSUME Engaged, Steadfast
  PROVE  UNCHANGED Running
<1>1. ASSUME NEW t \in Runners, NEW e \in Events, NEW d
      PROVE  disp'[t] = d /\ cur'[t] = e <=> disp[t] = d /\ cur[t] = e
  <2>1. Stays(t) /\ e # None
    BY ConstantsAssumption DEF Steadfast, Runners, Servers, Threads
  <2> QED
    BY <2>1 DEF Stays
<1> QED
  BY <1>1 DEF Running

\* What is to be shown of a step
Implements == RunInv' /\ [Executor!Next]_(Executor!vars)

\* The events in callbacks are left alone, or removed.
Leaves ==
  \A e \in Events : estate[e] \in {"running", "removed"} =>
    estate'[e] \in {"running", "removed"} /\ due'[e] = due[e]

LEMMA RunInvStays ==
  ASSUME TypeOK, RunInv, Steadfast, Leaves, clock <= clock', now' \in {now, clock}, clock' \in Nat
  PROVE  RunInv'
<1>1. now \in Nat /\ clock \in Nat /\ now <= now' /\ now' <= clock'
  BY DEF RunInv, TypeOK, DataTyped
<1>2. ASSUME NEW t \in Threads, cur'[t] # None
      PROVE  /\ t \in Runners /\ Working(t)'
             /\ estate'[cur'[t]] \in {"running", "removed"} /\ due'[cur'[t]] <= now'
  <2>1. cur'[t] = cur[t] /\ Working(t)' /\ cur[t] \in Events
    BY <1>2 DEF Steadfast, Stays, TypeOK, DataTyped
  <2>2. /\ t \in Runners /\ estate[cur[t]] \in {"running", "removed"} /\ due[cur[t]] <= now
        /\ due[cur[t]] \in Nat
    BY <1>2, <2>1 DEF RunInv, Engaged, TypeOK, DataTyped
  <2>3. estate'[cur[t]] \in {"running", "removed"} /\ due'[cur[t]] = due[cur[t]]
    BY <2>1, <2>2 DEF Leaves
  <2> QED
    BY <1>1, <2>1, <2>2, <2>3
<1>3. Engaged'
  BY <1>2 DEF Engaged
<1>4. Alone'
  BY DEF Alone, RunInv, Steadfast, Stays
<1> QED
  BY <1>1, <1>3, <1>4 DEF RunInv

\* A step of which the executor sees nothing
LEMMA SilentMaps ==
  ASSUME TypeOK, RunInv, Steadfast, Silent
  PROVE  Implements
<1>1. Leaves /\ clock' \in Nat /\ clock <= clock'
  BY DEF Leaves, Silent, TypeOK, DataTyped
<1>2. RunInv'
  BY <1>1, RunInvStays DEF Silent
<1>3. UNCHANGED Running
  BY RunningStays DEF RunInv
<1>4. UNCHANGED <<clock, due, estate, Queued, Running, destroyed>>
  BY <1>3 DEF Silent, Queued
<1> QED
  BY <1>2, <1>4 DEF Implements, Executor!vars

-----------------------------------------------------------------------------
(* Every step is one of the executor *)

LEMMA PostMaps ==
  ASSUME TypeOK, WorkSet, QueueInv, RunInv, NEW t \in Threads, PostEvent(t)
  PROVE  Implements
<1> DEFINE d == target[t]
           e == made[t]
<1>1. d \in Dispatchers /\ e \in Events /\ estate[e] = "made" /\ pc[t] = "post"
  BY DEF PostEvent, WorkSet, HasWork, QueueInv, Posting
<1>2. Queue(t, d, e, due', Resume(t)) /\ UNCHANGED <<clock, due, destroyed, cur, disp>>
  BY DEF PostEvent
<1>3. /\ now' \in {now, clock}
      /\ \/ /\ d \in destroyed /\ UNCHANGED Queued
            /\ estate' = [estate EXCEPT ![e] = "dropped"]
         \/ /\ d \notin destroyed /\ Queued' = [Queued EXCEPT ![d] = @ \cup {e}]
            /\ estate' = [estate EXCEPT ![e] = "queued"]
  <2>1. due'[e] \in Nat
    BY <1>1, <1>2 DEF TypeOK, DataTyped
  <2> QED
    BY <1>1, <1>2, <2>1, QueueMaps DEF QueueInv
<1>4. Steadfast
  <2>1. StagesTo(t, Resume(t))
    BY <1>2, QueueStage DEF Plain, TypeOK, Resume
  <2>2. CASE t \in Posters
    <3>1. Stage(t) = "free"
      BY <1>1, <2>2, StageOf
    <3> QED
      BY <1>2, <2>1, <3>1, OneGoes DEF RunInv, Engaged, Working
  <2>3. CASE t \notin Posters
    BY <1>2, <2>1, <2>3, OneGoes DEF RunInv, Resume
  <2> QED
    BY <2>2, <2>3
<1>5. Leaves /\ clock' \in Nat /\ clock <= clock'
  BY <1>1, <1>2, <1>3 DEF Leaves, TypeOK, DataTyped
<1>6. RunInv'
  BY <1>3, <1>4, <1>5, RunInvStays
<1>7. UNCHANGED Running
  BY <1>4, RunningStays DEF RunInv
<1>8. Executor!Post(d, e) \/ Executor!Drop(d, e)
  BY <1>1, <1>2, <1>3, <1>7 DEF Executor!Post, Executor!Drop, Executor!Arrives, Executor!Becomes
<1> QED
  BY <1>1, <1>6, <1>8 DEF Implements, Executor!Next

LEMMA IOMaps ==
  ASSUME TypeOK, QueueInv, RunInv, QueueIOEvent
  PROVE  Implements
<1>1. PICK e \in IOEvents, d \in Dispatchers :
        /\ estate[e] = "new" /\ due' = [due EXCEPT ![e] = clock]
        /\ Queue(Service, d, e, due', "io")
  BY DEF QueueIOEvent
<1>2. e \in Events /\ Service \in Threads /\ UNCHANGED <<clock, destroyed, cur, disp>> /\ pc[Service] = "io"
  BY ConstantsAssumption DEF QueueIOEvent, Threads
<1>3. /\ now' \in {now, clock}
      /\ \/ /\ d \in destroyed /\ UNCHANGED Queued
            /\ estate' = [estate EXCEPT ![e] = "dropped"]
         \/ /\ d \notin destroyed /\ Queued' = [Queued EXCEPT ![d] = @ \cup {e}]
            /\ estate' = [estate EXCEPT ![e] = "queued"]
  <2>1. due'[e] \in Nat
    BY <1>1, <1>2 DEF TypeOK, DataTyped
  <2> QED
    BY <1>1, <1>2, <2>1, QueueMaps DEF QueueInv
<1>4. Steadfast
  <2>1. StagesTo(Service, "io")
    BY <1>1, <1>2, QueueStage DEF Plain, TypeOK
  <2>2. cur[Service] = None
    BY <1>2, Outside DEF RunInv, WakeLabels
  <2> QED
    BY <1>2, <2>1, <2>2, OneGoes DEF RunInv
<1>5. Leaves /\ clock' \in Nat /\ clock <= clock'
  BY <1>1, <1>2, <1>3 DEF Leaves, TypeOK, DataTyped
<1>6. RunInv'
  BY <1>3, <1>4, <1>5, RunInvStays
<1>7. UNCHANGED Running
  BY <1>4, RunningStays DEF RunInv
<1>8. Executor!Post(d, e) \/ Executor!Drop(d, e)
  BY <1>1, <1>2, <1>3, <1>7 DEF Executor!Post, Executor!Drop, Executor!Arrives, Executor!Becomes
<1> QED
  BY <1>2, <1>6, <1>8 DEF Implements, Executor!Next

LEMMA CreateMaps ==
  ASSUME TypeOK, RunInv, NEW t \in Threads, CreateEvent(t)
  PROVE  Implements
<1>1. PICK e \in Events \ IOEvents, period \in 0 .. MaxPeriod :
        /\ estate[e] = "new" /\ estate' = [estate EXCEPT ![e] = "made"]
        /\ due' = [due EXCEPT ![e] = clock + period]
  BY DEF CreateEvent
<1>2. UNCHANGED <<clock, now, eventQ, destroyed, cur, disp, after>> /\ pc' = [pc EXCEPT ![t] = "post"]
  BY DEF CreateEvent
<1>3. clock \in Nat /\ clock + period >= clock /\ due'[e] = clock + period
  BY <1>1, ConstantsAssumption DEF TypeOK, DataTyped
<1>4. Steadfast
  <2>1. \A u \in Threads \ {t} : pc'[u] = pc[u] /\ after'[u] = after[u] /\ disp'[u] = disp[u]
    BY <1>2 DEF TypeOK, ControlTyped
  <2>2. CASE t \in Posters /\ pc[t] = "free"
    <3>1. cur[t] = None
      BY <2>2, Outside DEF RunInv, WakeLabels
    <3>2. Stays(t)
      BY <1>2, <3>1 DEF Stays
    <3> QED
      BY <1>2, <2>1, <3>2, OneMoves DEF RunInv
  <2>3. CASE t \in Runners /\ pc[t] = "call"
    <3>1. t \notin Posters
      BY <2>3, ConstantsAssumption DEF Runners, Servers
    <3>2. pc'[t] = "post"
      BY <1>2 DEF TypeOK, ControlTyped
    <3>3. Working(t)'
      BY <3>1, <3>2 DEF Working, Stage, WakeLabels
    <3>4. Stays(t)
      BY <1>2, <3>3 DEF Stays
    <3> QED
      BY <1>2, <2>1, <3>4, OneMoves DEF RunInv
  <2> QED
    BY <2>2, <2>3 DEF CreateEvent, MayCreate
<1>5. Leaves
  BY <1>1 DEF Leaves, TypeOK, DataTyped
<1>6. RunInv'
  BY <1>2, <1>3, <1>4, <1>5, RunInvStays
<1>7. UNCHANGED <<Running, Queued>>
  BY <1>2, <1>4, RunningStays DEF RunInv, Queued
<1>8. Executor!Create(e)
  <2>1. due' = [due EXCEPT ![e] = due'[e]] /\ clock <= due'[e]
    BY <1>1, <1>3
  <2> QED
    BY <1>1, <1>2, <1>7, <2>1 DEF Executor!Create, Executor!Becomes
<1> QED
  BY <1>6, <1>8 DEF Implements, Executor!Next

\* mprRemoveEvent, of an event that waits or of one whose callback runs
LEMMA RemoveMaps ==
  ASSUME TypeOK, TypeOK', QueueInv, RunInv, NEW t \in Threads, RemoveEvent(t)
  PROVE  Implements
<1>1. PICK d \in Dispatchers :
        \/ \E i \in DOMAIN eventQ[d] : RemoveFrom(t, d, eventQ[d][i], RemoveAt(eventQ[d], i))
        \/ \E u \in Runners : /\ cur[u] # None /\ disp[u] = d /\ estate[cur[u]] = "running"
                              /\ RemoveFrom(t, d, cur[u], eventQ[d])
  BY DEF RemoveEvent
<1>2. UNCHANGED <<clock, due, destroyed, cur, disp>> /\ pc[t] = "free"
  BY DEF RemoveEvent
<1>3. Steadfast
  <2>1. cur[t] = None
    BY <1>2, Outside DEF RunInv, WakeLabels
  <2> QED
    BY <1>2, <2>1, RemoveStage, OneGoes DEF RunInv, TypeOK
<1>4. UNCHANGED Running
  BY <1>3, RunningStays DEF RunInv
<1>5. ASSUME NEW e \in Events, NEW q, RemoveFrom(t, d, e, q), estate[e] \in {"queued", "running"},
             e \in Queued[d] \cup Running[d], Range(q) = Range(eventQ[d]) \ {e}
      PROVE  Implements
  <2>1. now' \in {now, clock} /\ estate' = [estate EXCEPT ![e] = "removed"]
    BY <1>5 DEF RemoveFrom, Schedule
  <2>2. eventQ' = [eventQ EXCEPT ![d] = q]
    BY <1>5 DEF RemoveFrom
  <2>3. eventQ'[d] = q /\ \A x \in Dispatchers \ {d} : eventQ'[x] = eventQ[x]
    BY <2>2 DEF TypeOK, DataTyped
  <2>4. Queued' = [Queued EXCEPT ![d] = Range(q)] /\ Queued[d] = Range(eventQ[d])
    BY <2>3, QueuedChanges DEF Queued
  <2>5. Queued' = [Queued EXCEPT ![d] = @ \ {e}]
    BY <1>5, <2>4
  <2>6. Leaves /\ clock' \in Nat /\ clock <= clock'
    BY <1>2, <2>1 DEF Leaves, TypeOK, DataTyped
  <2>7. RunInv'
    BY <1>3, <2>1, <2>6, RunInvStays
  <2>8. Executor!Remove(d, e)
    BY <1>2, <1>4, <1>5, <2>1, <2>5 DEF Executor!Remove, Executor!Becomes
  <2> QED
    BY <2>7, <2>8 DEF Implements, Executor!Next
<1>6. ASSUME NEW i \in DOMAIN eventQ[d], RemoveFrom(t, d, eventQ[d][i], RemoveAt(eventQ[d], i))
      PROVE  Implements
  <2>1. eventQ[d] \in Seq(Events) /\ eventQ[d][i] \in Events /\ estate[eventQ[d][i]] = "queued"
    BY DEF TypeOK, DataTyped, QueueInv, Linked
  <2>2. eventQ[d][i] \in Queued[d]
    BY DEF Queued, Range
  <2>3. \A j, k \in DOMAIN eventQ[d] : eventQ[d][j] = eventQ[d][k] => j = k
    BY DEF QueueInv, NoTwice
  <2>4. Removed(RemoveAt(eventQ[d], i), eventQ[d], i) /\ RemoveAt(eventQ[d], i) \in Seq(Events)
    BY <2>1, RemoveAtShape, RemoveAtType
  <2>5. Range(RemoveAt(eventQ[d], i)) = Range(eventQ[d]) \ {eventQ[d][i]}
    BY <2>1, <2>3, <2>4, RemovedRange
  <2> QED
    BY <1>5, <1>6, <2>1, <2>2, <2>5
<1>7. ASSUME NEW u \in Runners, cur[u] # None, disp[u] = d, estate[cur[u]] = "running",
             RemoveFrom(t, d, cur[u], eventQ[d])
      PROVE  Implements
  <2>1. cur[u] \in Events
    BY <1>7 DEF TypeOK, DataTyped, Runners, Servers, Threads
  <2>2. cur[u] \in Running[d]
    BY <1>7, <2>1 DEF Running
  <2>3. cur[u] \notin Range(eventQ[d])
    BY <1>7 DEF QueueInv, Linked, Range
  <2> QED
    BY <1>5, <1>7, <2>1, <2>2, <2>3
<1> QED
  BY <1>1, <1>6, <1>7

LEMMA DestroyMaps ==
  ASSUME TypeOK, QueueInv, RunInv, NEW t \in Threads, NEW d \in Dispatchers, NEW l \in Plain,
         Destroy(t, d, l), DestroyUnchanged, cur[t] = None \/ l \in {"call", "done"}
  PROVE  Implements
<1>1. UNCHANGED <<clock, due, cur, disp>>
  BY DEF DestroyUnchanged
<1>2. /\ d \notin destroyed /\ destroyed' = destroyed \cup {d}
      /\ eventQ' = [eventQ EXCEPT ![d] = <<>>] /\ now' \in {now, clock}
      /\ estate' = [e \in Events |-> IF \E i \in DOMAIN eventQ[d] : eventQ[d][i] = e THEN "removed"
                                     ELSE estate[e]]
  BY DEF Destroy
<1>3. Steadfast
  BY <1>1, DestroyStage, OneGoes DEF TypeOK, RunInv
<1>4. Leaves /\ clock' \in Nat /\ clock <= clock'
  BY <1>1, <1>2 DEF Leaves, TypeOK, DataTyped
<1>5. RunInv'
  BY <1>2, <1>3, <1>4, RunInvStays
<1>6. UNCHANGED Running
  BY <1>3, RunningStays DEF RunInv
<1>7. Queued' = [Queued EXCEPT ![d] = {}]
  <2>1. eventQ'[d] = <<>> /\ \A x \in Dispatchers \ {d} : eventQ'[x] = eventQ[x]
    BY <1>2 DEF TypeOK, DataTyped
  <2>2. Range(<<>>) = {}
    BY DEF Range
  <2> QED
    BY <2>1, <2>2, QueuedChanges
<1>8. estate' = [e \in Events |-> IF e \in Queued[d] THEN "removed" ELSE estate[e]]
  BY <1>2 DEF Queued, Range
<1>9. Executor!Close(d)
  BY <1>1, <1>2, <1>6, <1>7, <1>8 DEF Executor!Close
<1> QED
  BY <1>5, <1>9 DEF Implements, Executor!Next

\* Whoever runs a callback of a dispatcher owns it, so that no other thread does.
LEMMA RunsAlone ==
  ASSUME OwnerHolds, Engaged, NEW t \in Runners, Stage(t) \in {"next", "call", "done"},
         NEW u \in Runners, disp[u] = disp[t], cur[u] # None
  PROVE  u = t
<1>1. t \in Servers \cup Owners /\ u \in Servers \cup Owners /\ u \in Threads
  BY DEF Runners, Servers, Threads
<1>2. Stage(u) \in {"call", "done"}
  BY <1>1 DEF Engaged, Working
<1>3. owner[disp[u]] = u
  BY <1>1, <1>2 DEF OwnerHolds, UsesDispatcher
<1>4. owner[disp[t]] = t
  BY <1>1 DEF OwnerHolds, UsesDispatcher
<1> QED
  BY <1>3, <1>4

\* mprGetNextEvent finds none, or begins a callback.
LEMMA NextMaps ==
  ASSUME TypeOK, TypeOK', WorkSet, OwnerHolds, QueueInv, RunInv, NEW t \in Runners, NextEvent(t)
  PROVE  Implements
<1> DEFINE d == disp[t]
           e == eventQ[d][1]
<1>1. t \in Threads /\ d \in Dispatchers /\ pc[t] = "next" /\ UNCHANGED <<clock, now, destroyed, due, disp, after>>
  BY DispTyped DEF NextEvent, UsesDispatcher, Runners, Servers, Threads
<1>2. cur[t] = None /\ Stage(t) = "next"
  BY <1>1, Outside, StageOf DEF RunInv, WakeLabels
<1>3. CASE ~(eventQ[d] # <<>> /\ due[e] <= now)
  <2>1. Goto(t, back[t]) /\ UNCHANGED <<eventQ, cur, estate>>
    BY <1>3 DEF NextEvent
  <2>2. \A u \in Threads \ {t} : pc'[u] = pc[u] /\ after'[u] = after[u] /\ disp'[u] = disp[u]
    BY <1>1, <2>1 DEF TypeOK, ControlTyped
  <2>3. Stays(t)
    BY <1>2, <2>1 DEF Stays
  <2>4. Steadfast
    BY <1>1, <2>1, <2>2, <2>3, OneMoves DEF RunInv
  <2>5. Silent
    BY <1>1, <2>1 DEF Silent
  <2> QED
    BY <2>4, <2>5, SilentMaps
<1>4. CASE eventQ[d] # <<>> /\ due[e] <= now
  <2>1. eventQ[d] \in Seq(Events) /\ Head(eventQ[d]) = e
    BY <1>1, <1>4 DEF TypeOK, DataTyped
  <2>2. Removed(Tail(eventQ[d]), eventQ[d], 1) /\ 1 \in DOMAIN eventQ[d] /\ Tail(eventQ[d]) \in Seq(Events)
    BY <1>4, <2>1, TailShape
  <2>3. e \in Events /\ e \in Queued[d] /\ estate[e] = "queued"
    BY <1>1, <2>1, <2>2 DEF Queued, Range, QueueInv, Linked
  <2>4. /\ eventQ' = [eventQ EXCEPT ![d] = Tail(@)] /\ pc' = [pc EXCEPT ![t] = "call"]
        /\ estate' = [estate EXCEPT ![e] = "running"] /\ cur' = [cur EXCEPT ![t] = e]
    BY <1>4, <2>1 DEF NextEvent
  <2>5. Queued' = [Queued EXCEPT ![d] = @ \ {e}]
    <3>1. \A i, j \in DOMAIN eventQ[d] : eventQ[d][i] = eventQ[d][j] => i = j
      BY <1>1 DEF QueueInv, NoTwice
    <3>2. Range(Tail(eventQ[d])) = Range(eventQ[d]) \ {e}
      BY <2>1, <2>2, <3>1, RemovedRange
    <3>3. eventQ'[d] = Tail(eventQ[d]) /\ \A x \in Dispatchers \ {d} : eventQ'[x] = eventQ[x]
      BY <1>1, <2>4 DEF TypeOK, DataTyped
    <3>4. Queued' = [Queued EXCEPT ![d] = Range(Tail(eventQ[d]))] /\ Queued[d] = Range(eventQ[d])
      BY <1>1, <3>3, QueuedChanges DEF Queued
    <3> QED
      BY <3>2, <3>4
  <2>6. \A x \in Queued[d] : due[e] <= due[x]
    <3>1. ASSUME NEW i \in DOMAIN eventQ[d] PROVE due[e] <= due[eventQ[d][i]]
      <4>1. i = 1 \/ 1 < i
        BY <2>1
      <4>2. due[e] \in Nat
        BY <2>3 DEF TypeOK, DataTyped
      <4> QED
        BY <1>1, <2>2, <4>1, <4>2 DEF QueueInv, QueuesSorted, SortedBy
    <3> QED
      BY <1>1, <3>1 DEF Queued, Range
  <2>7. Running[d] = {}
    <3>1. ASSUME NEW u \in Runners, disp[u] = d, cur[u] \in Events PROVE FALSE
      <4>1. cur[u] # None
        BY <3>1, ConstantsAssumption
      <4>2. u = t
        BY <1>2, <3>1, <4>1, RunsAlone DEF RunInv
      <4> QED
        BY <1>2, <4>1, <4>2
    <3> QED
      BY <1>1, <3>1 DEF Running
  <2>8. cur'[t] = e /\ \A u \in Threads \ {t} : cur'[u] = cur[u] /\ pc'[u] = pc[u]
    BY <1>1, <2>4 DEF TypeOK, ControlTyped, DataTyped
  <2>9. Running' = [Running EXCEPT ![d] = {e}]
    <3>1. ASSUME NEW x \in Dispatchers \ {d}, NEW y \in Events
          PROVE  (\E u \in Runners : disp'[u] = x /\ cur'[u] = y) <=> (\E u \in Runners : disp[u] = x /\ cur[u] = y)
      <4>1. ASSUME NEW u \in Runners PROVE disp'[u] = x /\ cur'[u] = y <=> disp[u] = x /\ cur[u] = y
        BY <1>1, <2>8 DEF Runners, Servers, Threads
      <4> QED
        BY <4>1
    <3>2. ASSUME NEW y \in Events PROVE (\E u \in Runners : disp'[u] = d /\ cur'[u] = y) <=> y = e
      <4>1. disp'[t] = d /\ cur'[t] = e
        BY <1>1, <2>8
      <4>2. ASSUME NEW u \in Runners \ {t}, disp'[u] = d, cur'[u] = y PROVE FALSE
        <5>1. disp[u] = d /\ cur[u] = y
          BY <1>1, <2>8, <4>2 DEF Runners, Servers, Threads
        <5>2. y \in Running[d]
          BY <1>1, <5>1 DEF Running
        <5> QED
          BY <2>7, <5>2
      <4> QED
        BY <4>1, <4>2
    <3>3. \A x \in Dispatchers \ {d} : Running'[x] = Running[x]
      BY <3>1 DEF Running
    <3>4. Running'[d] = {e}
      BY <1>1, <2>3, <3>2 DEF Running
    <3> QED
      BY <1>1, <3>3, <3>4 DEF Running
  <2>10. due[e] <= clock
    BY <1>1, <1>4, <2>3 DEF RunInv, TypeOK, DataTyped
  <2>11. Executor!Begin(d, e)
    BY <1>1, <2>3, <2>4, <2>5, <2>6, <2>7, <2>9, <2>10 DEF Executor!Begin, Executor!Becomes
  <2>12. RunInv'
    <3>1. ASSUME NEW u \in Threads \ {t}, cur'[u] # None
          PROVE  /\ u \in Runners /\ Working(u)' /\ cur'[u] # e
                 /\ estate'[cur'[u]] \in {"running", "removed"} /\ due'[cur'[u]] <= now'
      <4>1. Stage(u)' = Stage(u) /\ cur'[u] = cur[u]
        BY <1>1, <2>8, <3>1, StageOthers
      <4>2. /\ u \in Runners /\ Working(u) /\ estate[cur[u]] \in {"running", "removed"}
            /\ due[cur[u]] <= now
        BY <3>1, <4>1 DEF RunInv, Engaged
      <4>3. cur[u] # e /\ cur[u] \in Events
        BY <2>3, <3>1, <4>1, <4>2 DEF TypeOK, DataTyped
      <4>4. estate'[cur[u]] = estate[cur[u]]
        BY <2>4, <4>3 DEF TypeOK, DataTyped
      <4> QED
        BY <1>1, <4>1, <4>2, <4>3, <4>4 DEF Working
    <3>2. pc'[t] = "call" /\ estate'[e] = "running" /\ due'[e] <= now'
      BY <1>1, <1>4, <2>3, <2>4 DEF TypeOK, ControlTyped, DataTyped
    <3>3. Working(t)'
      BY <3>2 DEF Working, Stage, WakeLabels
    <3>4. Engaged'
      BY <2>8, <3>1, <3>2, <3>3 DEF Engaged
    <3>5. Alone'
      <4>1. ASSUME NEW u \in Threads, NEW v \in Threads, cur'[u] # None, cur'[u] = cur'[v] PROVE u = v
        BY <2>8, <3>1, <4>1 DEF RunInv, Alone
      <4> QED
        BY <4>1 DEF Alone
    <3> QED
      BY <1>1, <3>4, <3>5 DEF RunInv
  <2> QED
    BY <1>1, <2>3, <2>11, <2>12 DEF Implements, Executor!Next
<1> QED
  BY <1>3, <1>4

\* A callback ends, and its event is queued again, is over, or was removed.
LEMMA DoneMaps ==
  ASSUME TypeOK, TypeOK', WorkSet, OwnerHolds, QueueInv, RunInv, NEW t \in Runners, CallDone(t)
  PROVE  Implements
<1> DEFINE d == disp[t]
           e == cur[t]
           again == e \in Continuous /\ estate[e] = "running" /\ d \notin destroyed
<1>1. /\ t \in Threads /\ d \in Dispatchers /\ e \in Events /\ pc[t] = "done" /\ e # None
      /\ UNCHANGED <<clock, destroyed, disp>> /\ cur' = [cur EXCEPT ![t] = None]
  BY DispTyped, CurTyped, ConstantsAssumption DEF CallDone, UsesDispatcher, Runners, Servers, Threads
<1>2. \A u \in Threads \ {t} : Stage(u)' = Stage(u)
  BY CallDoneStage DEF StagesTo
<1>3. cur'[t] = None /\ \A u \in Threads \ {t} : cur'[u] = cur[u]
  BY <1>1 DEF TypeOK, DataTyped
<1>4. Stage(t) = "done" /\ due[e] <= now /\ now <= clock /\ due[e] \in Nat /\ now \in Nat /\ clock \in Nat
  <2>1. Stage(t) = "done"
    BY <1>1, StageOf DEF WakeLabels
  <2>2. due[e] <= now /\ now <= clock
    BY <1>1 DEF RunInv, Engaged
  <2>3. due[e] \in Nat /\ now \in Nat /\ clock \in Nat
    BY <1>1 DEF TypeOK, DataTyped
  <2> QED
    BY <2>1, <2>2, <2>3
<1>5. \A u \in Runners \ {t} : disp[u] = d => cur[u] = None
  BY <1>4, RunsAlone DEF RunInv
<1>6. Running[d] = {e} /\ Running' = [Running EXCEPT ![d] = {}]
  <2>1. ASSUME NEW u \in Runners PROVE disp[u] = d /\ cur[u] \in Events <=> u = t
    BY <1>1, <1>5, ConstantsAssumption
  <2>2. Running[d] = {e}
    BY <1>1, <2>1 DEF Running
  <2>3. ASSUME NEW u \in Runners, NEW y \in Events
        PROVE  ~(disp'[u] = d /\ cur'[u] = y)
    BY <1>1, <1>3, <2>1, <2>3, ConstantsAssumption DEF Runners, Servers, Threads
  <2>4. ASSUME NEW x \in Dispatchers \ {d}, NEW u \in Runners, NEW y
        PROVE  disp'[u] = x /\ cur'[u] = y <=> disp[u] = x /\ cur[u] = y
    BY <1>1, <1>3, <2>4 DEF Runners, Servers, Threads
  <2>5. \A x \in Dispatchers \ {d} : Running'[x] = Running[x]
    BY <2>4 DEF Running
  <2>6. Running'[d] = {}
    BY <1>1, <2>3 DEF Running
  <2> QED
    BY <1>1, <2>2, <2>5, <2>6 DEF Running
<1>7. ASSUME now' \in {now, clock}, OnlyDue(e), \A x \in Events \ {e} : estate'[x] = estate[x]
      PROVE  RunInv'
  <2>1. ASSUME NEW u \in Threads, cur'[u] # None
        PROVE  /\ u # t /\ u \in Runners /\ Working(u)'
               /\ estate'[cur'[u]] \in {"running", "removed"} /\ due'[cur'[u]] <= now'
    <3>1. u # t /\ cur'[u] = cur[u] /\ Stage(u)' = Stage(u)
      BY <1>2, <1>3, <2>1
    <3>2. /\ u \in Runners /\ Working(u) /\ estate[cur[u]] \in {"running", "removed"}
          /\ due[cur[u]] <= now /\ cur[u] # e
      BY <1>1, <2>1, <3>1 DEF RunInv, Engaged, Alone
    <3>3. cur[u] \in Events /\ due[cur[u]] \in Nat
      BY <2>1, <3>1 DEF TypeOK, DataTyped
    <3>4. estate'[cur[u]] = estate[cur[u]] /\ due'[cur[u]] = due[cur[u]]
      BY <1>7, <3>2, <3>3 DEF OnlyDue
    <3> QED
      BY <1>4, <1>7, <3>1, <3>2, <3>3, <3>4 DEF Working
  <2>2. Engaged'
    BY <2>1 DEF Engaged
  <2>3. ASSUME NEW u \in Threads, NEW v \in Threads, cur'[u] # None, cur'[u] = cur'[v] PROVE u = v
    BY <1>3, <2>1, <2>3 DEF RunInv, Alone
  <2>4. Alone'
    BY <2>3 DEF Alone
  <2>5. now' <= clock'
    BY <1>1, <1>4, <1>7
  <2> QED
    BY <2>2, <2>4, <2>5 DEF RunInv
<1>8. CASE again
  <2> DEFINE when == [due EXCEPT ![e] = now + 1]
             r == InsertEvent(eventQ[d], e, when[e])
  <2>1. /\ due' = when /\ eventQ' = [eventQ EXCEPT ![d] = r] /\ now' = clock
        /\ estate' = [estate EXCEPT ![e] = "queued"]
    BY <1>8 DEF CallDone, Schedule
  <2>2. when[e] = now + 1 /\ when[e] \in Nat /\ eventQ[d] \in Seq(Events)
    BY <1>1, <1>4 DEF TypeOK, DataTyped
  <2>3. Range(r) = Range(eventQ[d]) \cup {e}
    BY <1>1, <2>2, InsertRange DEF TypeOK, DataTyped, QueueInv, QueuesSorted
  <2> HIDE DEF r
  <2>4. eventQ'[d] = r /\ \A x \in Dispatchers \ {d} : eventQ'[x] = eventQ[x]
    BY <1>1, <2>1 DEF TypeOK, DataTyped
  <2>5. Queued' = [Queued EXCEPT ![d] = Range(r)] /\ Queued[d] = Range(eventQ[d])
    BY <1>1, <2>4, QueuedChanges DEF Queued
  <2>6. Queued' = [Queued EXCEPT ![d] = @ \cup {e}]
    BY <2>3, <2>5
  <2>7. OnlyDue(e) /\ \A x \in Events \ {e} : estate'[x] = estate[x]
    BY <1>1, <2>1 DEF OnlyDue, TypeOK, DataTyped
  <2>8. RunInv'
    BY <1>7, <2>1, <2>7
  <2>9. now + 1 \in due[e] + 1 .. clock + 1
    BY <1>4
  <2>10. Executor!Repeat(d, e)
    BY <1>1, <1>6, <1>8, <2>1, <2>6, <2>9 DEF Executor!Repeat, Executor!Again, Executor!Becomes
  <2> QED
    BY <1>1, <2>8, <2>10 DEF Implements, Executor!Next
<1>9. CASE ~again
  <2>1. /\ UNCHANGED <<now, due, eventQ>>
        /\ estate' = [estate EXCEPT ![e] = IF estate[e] = "running" THEN "over" ELSE estate[e]]
    BY <1>9 DEF CallDone
  <2>2. OnlyDue(e) /\ \A x \in Events \ {e} : estate'[x] = estate[x]
    BY <1>1, <2>1 DEF OnlyDue, TypeOK, DataTyped
  <2>3. RunInv'
    BY <1>7, <2>1, <2>2
  <2>4. UNCHANGED Queued
    BY <2>1 DEF Queued
  <2>5. Executor!End(d, e)
    BY <1>1, <1>6, <1>9, <2>1, <2>4 DEF Executor!End, Executor!Again, Executor!Becomes
  <2> QED
    BY <1>1, <2>3, <2>5 DEF Implements, Executor!Next
<1> QED
  BY <1>8, <1>9

LEMMA TickMaps ==
  ASSUME TypeOK, RunInv, Tick
  PROVE  Implements
<1>1. clock' = clock + 1 /\ clock \in Nat /\ UNCHANGED <<now, evVars, destroyed, cur, disp, pc, after>>
  BY DEF Tick, TypeOK, DataTyped
<1>2. Steadfast
  <2>1. \A t \in Threads : Stage(t)' = Stage(t)
    BY <1>1, StageOthers
  <2> QED
    BY <1>1, <2>1 DEF Steadfast, Stays, RunInv, Engaged, Working
<1>3. Leaves /\ clock' \in Nat /\ clock <= clock'
  BY <1>1 DEF Leaves
<1>4. RunInv'
  BY <1>1, <1>2, <1>3, RunInvStays
<1>5. UNCHANGED <<Running, Queued>>
  BY <1>1, <1>2, RunningStays DEF RunInv, Queued
<1>6. Executor!Tick
  BY <1>1, <1>5 DEF Executor!Tick
<1> QED
  BY <1>4, <1>6 DEF Implements, Executor!Next

LEMMA StutterMaps ==
  ASSUME TypeOK, RunInv, UNCHANGED vars
  PROVE  Implements
<1>1. UNCHANGED <<clock, now, evVars, destroyed, cur, disp, pc, after>>
  BY DEF vars
<1>2. \A t \in Threads : Stage(t)' = Stage(t)
  BY <1>1, StageOthers
<1>3. Steadfast /\ Silent
  BY <1>1, <1>2 DEF Steadfast, Stays, RunInv, Engaged, Working, Silent
<1> QED
  BY <1>3, SilentMaps

LEMMA StepMaps ==
  ASSUME IndInv, IndInv', QueueInv, RunInv, [Next]_vars
  PROVE  Implements
<1> USE DEF IndInv
<1>1. ASSUME NEW t \in Threads, DestroyForeign(t) PROVE Implements
  <2>1. PICK d \in Dispatchers : Destroy(t, d, "free") /\ DestroyUnchanged
    BY <1>1 DEF DestroyForeign
  <2>2. cur[t] = None
    BY <1>1, Outside DEF DestroyForeign, RunInv, WakeLabels
  <2> QED
    BY <2>1, <2>2, DestroyMaps DEF Plain
<1>2. ASSUME NEW t \in Threads, DestroyInCall(t) PROVE Implements
  <2>1. disp[t] \in Dispatchers /\ Destroy(t, disp[t], "done") /\ DestroyUnchanged
    BY <1>2, DispTyped DEF DestroyInCall, UsesDispatcher
  <2> QED
    BY <2>1, DestroyMaps DEF Plain
<1>3. ASSUME NEW t \in Owners, DestroyOwned(t) PROVE Implements
  <2>1. t \in Threads /\ disp[t] \in Dispatchers /\ Destroy(t, disp[t], "free") /\ DestroyUnchanged
    BY <1>3, DispTyped DEF DestroyOwned, UsesDispatcher, Threads
  <2>2. cur[t] = None
    BY <1>3, <2>1, Outside DEF DestroyOwned, RunInv, WakeLabels
  <2> QED
    BY <2>1, <2>2, DestroyMaps DEF Plain
<1>4. ASSUME ServiceStep \/ OtherIO PROVE Implements
  BY <1>4, ServiceSilent, SilentMaps DEF RunInv
<1>5. ASSUME NEW t \in Threads,
             \/ WakeStep(t)
             \/ t \in Runners /\ CallReturns(t)
             \/ t \in Servers /\ HelperStep(t)
             \/ t \in Workers /\ (WorkerStep(t) \/ CallYields(t))
             \/ t \in Owners /\ (OwnerStep(t) \/ StartClaim(t) \/ WaitBegin(t) \/ WaitTimesOut(t)
                                 \/ StopDequeue(t))
      PROVE  Implements
  BY <1>5, ThreadSilent, SilentMaps DEF RunInv
<1>6. ASSUME NEW t \in Threads, t \in Runners, NextEvent(t) PROVE Implements
  BY <1>6, NextMaps
<1>7. ASSUME NEW t \in Threads, t \in Runners, CallDone(t) PROVE Implements
  BY <1>7, DoneMaps
<1>8. ASSUME NEW t \in Threads, Program(t) PROVE Implements
  BY <1>4, <1>5, <1>6, <1>7, <1>8, PostMaps DEF Program, RunStep
<1>9. ASSUME NEW t \in Threads, Choice(t) PROVE Implements
  BY <1>1, <1>2, <1>3, <1>5, <1>9, CreateMaps, RemoveMaps DEF Choice
<1> QED
  BY <1>4, <1>8, <1>9, IOMaps, TickMaps, StutterMaps DEF Next

LEMMA InitMaps == Init => RunInv /\ Executor!Init
<1> SUFFICES ASSUME Init PROVE RunInv /\ Executor!Init
  OBVIOUS
<1>1. RunInv
  BY DEF Init, RunInv, Engaged, Alone
<1>2. Queued = [d \in Dispatchers |-> {}]
  <2>1. Range(<<>>) = {}
    BY DEF Range
  <2> QED
    BY <2>1 DEF Init, Queued
<1>3. Running = [d \in Dispatchers |-> {}]
  <2>1. \A t \in Runners : cur[t] = None
    BY DEF Init, Runners, Servers, Threads
  <2>2. None \notin Events
    BY ConstantsAssumption
  <2> QED
    BY <2>1, <2>2 DEF Running
<1>4. Executor!Init
  BY <1>2, <1>3 DEF Init, Executor!Init
<1> QED
  BY <1>1, <1>4

\* A thread has an event only in its callback, no event is in two callbacks, and
\* none was taken before it was due by the cached time.
THEOREM CallbacksRight == Spec => []RunInv
<1>1. Init => RunInv
  BY InitMaps
<1>2. IndInv /\ IndInv' /\ QueueInv /\ RunInv /\ [Next]_vars => RunInv'
  BY StepMaps DEF Implements
<1> QED
  BY <1>1, <1>2, Inductive, QueuesRight, PTL DEF Spec

\* The dispatchers of the runtime are serialized executors: whatever its threads interleave,
\* each step of the event service begins, ends, queues, drops or removes one event of
\* one dispatcher, closes a dispatcher or lets time pass, as SerialExecutor does, or
\* changes nothing that the users of dispatchers see.
THEOREM ServiceImplements == Spec => ExecutorSpec
<1>1. Init => Executor!Init
  BY InitMaps
<1>2. IndInv /\ IndInv' /\ QueueInv /\ RunInv /\ [Next]_vars => [Executor!Next]_(Executor!vars)
  BY StepMaps DEF Implements
<1> QED
  BY <1>1, <1>2, Inductive, QueuesRight, CallbacksRight, PTL DEF Spec, ExecutorSpec, Executor!Spec
=============================================================================
