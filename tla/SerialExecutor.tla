--------------------------- MODULE SerialExecutor ---------------------------
(***************************************************************************)
(* What the event service promises: each dispatcher runs the events that   *)
(* were posted to it one at a time, none before it is due and those that   *)
(* are due first before the others.  A one-shot event runs once, a         *)
(* continuous one again at later times, until it is removed or its         *)
(* dispatcher is closed.  There are no threads, locks or wakeups here.     *)
(***************************************************************************)
EXTENDS Integers

CONSTANTS Dispatchers, Events, Continuous

VARIABLES
  clock,
  due,           \* when an event is to run
  state,         \* its life
  queue,         \* the events that wait on a dispatcher
  running,       \* those whose callbacks it runs
  closed         \* the dispatchers that were destroyed

vars == <<clock, due, state, queue, running, closed>>

Init ==
  /\ clock = 0 /\ closed = {}
  /\ due = [e \in Events |-> 0] /\ state = [e \in Events |-> "new"]
  /\ queue = [d \in Dispatchers |-> {}] /\ running = [d \in Dispatchers |-> {}]

Becomes(e, life) == state' = [state EXCEPT ![e] = life]

\* An event is created for now or a later time.
Create(e) ==
  /\ state[e] = "new" /\ Becomes(e, "made")
  /\ clock <= due'[e] /\ due' = [due EXCEPT ![e] = due'[e]]
  /\ UNCHANGED <<clock, queue, running, closed>>

\* An event that can be posted: one that was created, or one of I/O that is at once.
Arrives(e) ==
  \/ state[e] = "made" /\ UNCHANGED due
  \/ state[e] = "new" /\ due' = [due EXCEPT ![e] = clock]

Post(d, e) ==
  /\ d \notin closed /\ Arrives(e) /\ Becomes(e, "queued")
  /\ queue' = [queue EXCEPT ![d] = @ \cup {e}]
  /\ UNCHANGED <<clock, running, closed>>

\* It comes too late for its dispatcher.
Drop(d, e) ==
  /\ d \in closed /\ Arrives(e) /\ Becomes(e, "dropped")
  /\ UNCHANGED <<clock, queue, running, closed>>

\* The dispatcher, which runs nothing, takes up an event that is due.
Begin(d, e) ==
  /\ running[d] = {} /\ e \in queue[d]
  /\ due[e] <= clock /\ \A x \in queue[d] : due[e] <= due[x]
  /\ Becomes(e, "running")
  /\ queue' = [queue EXCEPT ![d] = @ \ {e}]
  /\ running' = [running EXCEPT ![d] = {e}]
  /\ UNCHANGED <<clock, due, closed>>

Again(d, e) == e \in Continuous /\ state[e] = "running" /\ d \notin closed

\* The callback has ended, and the event waits for another time,
Repeat(d, e) ==
  /\ running[d] = {e} /\ Again(d, e) /\ Becomes(e, "queued")
  /\ \E when \in due[e] + 1 .. clock + 1 : due' = [due EXCEPT ![e] = when]
  /\ queue' = [queue EXCEPT ![d] = @ \cup {e}]
  /\ running' = [running EXCEPT ![d] = {}]
  /\ UNCHANGED <<clock, closed>>

\* or is over, unless it was removed before.
End(d, e) ==
  /\ running[d] = {e} /\ ~Again(d, e)
  /\ Becomes(e, IF state[e] = "running" THEN "over" ELSE state[e])
  /\ running' = [running EXCEPT ![d] = {}]
  /\ UNCHANGED <<clock, due, queue, closed>>

\* An event that waits, or whose callback runs, is to run no more.
Remove(d, e) ==
  /\ e \in queue[d] \cup running[d] /\ state[e] \in {"queued", "running"}
  /\ Becomes(e, "removed")
  /\ queue' = [queue EXCEPT ![d] = @ \ {e}]
  /\ UNCHANGED <<clock, due, running, closed>>

Close(d) ==
  /\ d \notin closed /\ closed' = closed \cup {d}
  /\ state' = [e \in Events |-> IF e \in queue[d] THEN "removed" ELSE state[e]]
  /\ queue' = [queue EXCEPT ![d] = {}]
  /\ UNCHANGED <<clock, due, running>>

Tick == clock' = clock + 1 /\ UNCHANGED <<due, state, queue, running, closed>>

Next ==
  \/ \E e \in Events : Create(e)
  \/ \E d \in Dispatchers, e \in Events :
       \/ Post(d, e) \/ Drop(d, e) \/ Begin(d, e) \/ Repeat(d, e) \/ End(d, e) \/ Remove(d, e)
  \/ \E d \in Dispatchers : Close(d)
  \/ Tick

Spec == Init /\ [][Next]_vars
=============================================================================
